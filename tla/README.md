# A verification project for fastapi-better-auth

fastapi-better-auth lets a FastAPI application trust sessions that a Better Auth
server (the *auth service*, or *upstream*) minted. It runs inside one event loop,
keeps a few small pieces of shared state, and is mostly asked to say yes or no on
behalf of strangers. This directory models that state and those answers in TLA+:
TLC checks the models on small instances, TLAPS proves the main results for every
value of the constants.

## 1. Inventory

Paths are below `src/src/fastapi_better_auth/_internal/`.

| Component | State it keeps | Operations | What is hard | What makes it correct |
|---|---|---|---|---|
| **Mode B key set** `jwks.py` | key set and its age, refetch window, remembered misses, an `anyio.Lock` | `key_for` | callers queue on the lock and act on what they saw before; a fetch fails, or is cancelled, half way; upstream rotates | answers are recent; fetches are throttled; misses are bounded and true; every caller is answered |
| **Mode C verifier** `remote_verifier.py`, `remote_probe.py`, `remote_response.py` | readiness (confirmed, refused, window), a lock, an outbound limiter | `verify`, `prepare`, `probe` | three waits in one request, each with a cancellation; the session changes meanwhile; 429s arrive in bursts | a verdict was true at some moment of the request; nothing goes out before the contract is confirmed; slots are not lost |
| **Negative cache** `negative_cache.py` | forged-cookie verdicts with their time | `holds`, `remember` | the key must be the whole cookie; eviction and re-stamping | never stands before a live session; bounded |
| **429 latch** `remote_backoff.py` | the end of the backoff | `latched`, `observe` | concurrent 429s; absurd Retry-After | never extended, never longer than the ceiling |
| **Mode C configuration** `remote_config.py` | none | validators | ranges and their ends | a configuration that cannot be safe is refused when it is built |
| **Mode B verifier** `jwt_verifier.py` | its key set | `extract`, `verify` | `alg`/`kid` confusion, time arithmetic at the boundary | only a token signed by a key on hand, inside its lifetime |
| **Mode A verifier** `cookie_verifier.py` | two one-time warnings, an outage latch | `extract`, `verify` | two lookups with the row changing in between | a banned, expired or renamed session is refused |
| **SQLAlchemy stores** `stores/sqlalchemy_store.py`, `sqlalchemy_core.py` | the discovered plan, a lock, a limiter over worker threads | `connect`, `fetch_session_by_token`, `fetch_user_by_id` | discovery fails or is cancelled under the lock; a cancelled lookup leaves its thread running | schema discovered once; slots are not lost; threads meant never to outnumber connections (finding 3) |
| **Redis store** `stores/redis_store.py`, `session_document.py` | a client, which it closes if it built it | the same two lookups | a document that names another token | the record answers for the token asked |
| **Outage reporting** `stores/outage.py`, `diagnostics.py`, `once.py` | the failure kinds reported since the last success | `admit`, `rearm`, `fire` | threads report while the loop re-arms | one warning per kind per outage; an overflow is said once |
| **Dispatch** `core.py`, `containment.py`, `labels.py`, `verifiers.py`, `openapi.py` | the verifiers, three tables of callables by model, the one-time warnings | construction, `startup`, `current_session`, `optional_session`, `require`, `require_membership`, the dependencies | several credentials at once; threads that build one dependency at a time; exceptions escaping a verifier, alone or in a group | never falls through, never degrades to anonymous, verifies once |
| **Authorization** `authz.py`, `errors.py` | none | predicates and memberships | predicates that answer something truthy | only exactly `True` permits |
| **Cookie parsing** `cookie_parsing.py`, `parsing.py` | none | choice of one value | chunks, prefixes, duplicates | one value or a refusal |
| **CSRF** `csrf.py` | none | three policies | origin and token comparisons | unsafe cross-site requests are refused |
| **Transports** `httpx_transports.py`, `transport.py` | a shut cookie jar | `get`, `post` | the cap during the read, the abort, the deadline | at most the cap; every fetch ends |
| Signing, secrets, URLs; models, OpenAPI, reasons | none | pure functions | - | - |

**Interactions.** `core.py` asks every verifier's `extract` (synchronous), refuses if
more than one answers, and awaits one `verify`. `JwtVerifier` awaits
`JwksClient.key_for`; `RemoteVerifier` awaits its probe lock, its limiter and the
transport; `CookieVerifier` awaits a store. Everything but the stores' worker threads
and the factory calls of routes that are being set up runs on one event loop, so a stretch of code between two awaits is atomic and all the
interleaving happens at awaits: locks, limiters, fetches, lookups.

The hazards that follow from this, each at its line and with the properties that
cover it, are the `hazards` list of `PROJECT.json`.

## 2. Modules

| Module | Models | State and actions |
|---|---|---|
| `TaskLock` | `anyio.Lock` (external) | `owner`, `waiters`; hand-over to the longest waiting, withdrawal of a cancelled waiter |
| `CapacityLimiter` | `anyio.CapacityLimiter` (external) | `holders`, `line`; the same hand-over for slots |
| `ThrottledAttempt` | what the library promises upstream: one attempt at a time, a window apart | the abstract specification of the key-set fetch and of the readiness probe |
| `JwksClient` | `jwks.py` | below |
| `NegativeCache`, `BackoffLatch` | `negative_cache.py`, `remote_backoff.py` | the effect of each synchronous method, as an operator; instantiated by `RemoteVerifier` |
| `RemoteVerifier` | `remote_verifier.py`, `remote_probe.py`, `remote_response.py` | below |
| `OutageLatch` | `stores/outage.py` | `reported`, `overflowed`; the effect of `admit()` and of each step of `rearm()`; instantiated by `SqlStore`, and twice by `CookieVerifier` |
| `SqlStore` | `stores/sqlalchemy_store.py` | below |
| `CookieVerifier` | `cookie_verifier.py` | below |
| `AccessGate` | what the dispatcher promises a route: served, anonymous or refused, by what was presented | the abstract specification of a request |
| `Refusals` | `errors.py`, `containment.py`, the answers of `core.py` and `authz.py` to an exception | operators: `Unwrapped`, `Honoured`, `JudgeRefusal`, `FromExtract`, `FromVerify`, `FromRule` |
| `Dispatch` | `core.py`, `authz.py`, `labels.py`, `once.py`, `parsing.py`; the names of `openapi.py` | below |
| `CookieParsing` | `cookie_parsing.py`, `signing.py`, Mode C's reading in `remote_verifier.py` | operators on a cookie header |
| `Csrf` | `csrf.py` | operators: what is known of a connection, and each policy's refusal |
| `BearerToken` | `jwt_verifier.py` | operators on a token |
| `KeyDocument` | the document half of `jwks.py` | operators on a key-set answer |
| `StoreRecords` | `session_document.py`, `upstream.py`, `redis_store.py`, the rows of `sqlalchemy_core.py`, `remote_response.py` | operators on a stored session |
| `SchemaPlan` | the columns of `sqlalchemy_core.py`: `validated_columns`, `plan_for` | operators on tables and allow-lists |
| `RemoteConfig` | `remote_config.py`, the keyring checks | operators on a configuration |
| `TransportRead` | `httpx_transports.py` | `link`, `sent`, `kept`, `aborting`, `verdict`; one action per way an exchange goes on |
| `RequestJourney` | the order of `verify()` in the three verifiers, over the operators above | below |
| `MCJwksClient`, `MCRemoteVerifier`, `MCSqlStore`, `MCCookieVerifier`, `MCDispatch`, `MCRequestJourney` | - | the instances TLC checks |
| `TaskLockProofs`, `JwksClientProofs`, `RemoteVerifierProofs`, `RemoteVerdictProofs`, `SqlStoreProofs`, `CookieVerifierProofs`, `DispatchProofs`, `RequestJourneyProofs` | - | theorems and their proofs; `TaskLockProofs` holds the lemmas on the lock and on the limiter's accounts that the others cite, and `RemoteVerdictProofs` extends `RemoteVerifierProofs` with the verdicts and the 429 latch |

### JwksClient

`keys`, `fetchedAt`, `attemptedAt`, `missing` are `_keys`, `_fetched_at`,
`_attempted_at`, `_missing`; `-1` stands for `None`, and `missing` is a sequence
because a dict's insertion order decides what is evicted. Per caller, `pc` says which
await it is in, `previous` is the local of `_refresh`, `reply` the key set on its way.

| Action | Code |
|---|---|
| `AskAnswered`, `AskLocked` | `key_for` up to the lock, with a fresh hit or without |
| `HitUnderLock`, `BeginFetch`, `ShortCircuit`, `AnswerOnHand` | the stretch from the lock to the fetch or to the answer |
| `FetchSucceeds`, `FetchFails`, `FetchRaises`, `FetchCancelled` | the four ways out of `_refresh`, each with what follows in `key_for` up to the lock's release |
| `WaitCancelled` | a caller cancelled in the lock's queue |
| `UpstreamReplies`, `Rotate`, `Tick` | the auth service, which reads its set when it replies and rotates it at will; the clock |

The bodies of `_parsed`, `_document` and `_collect` are abstracted here to their two
outcomes, a set of kids or a failure; `KeyDocument` says which answer has which.

### RemoteVerifier

One request goes through `RefusedUnread` (structure, CSRF), `RefusedForged` (keyring),
`RefusedRemembered` (cache) and `RefusedLatched` in one stretch, or is `Admit`ted to
the readiness gate; then `Rechecked`/`BeginProbe` under the lock, the ways out of a
probe, `Send` once a slot is held, and the ways out of a fetch. `prepare()` takes the
same gate with no cookie. A cookie is a token and whether its signature is genuine;
a session is live, banned or gone, and gone for good, since a token is minted once.
Upstream tells the truth at the moment it replies, or crosses two answers, or sends a
429 with any of the modelled `Retry-After` values; the reply then travels, and the
session may change before it is read. The two requests of one probe are one attempt:
nothing the verifier keeps changes between them. `queue_timeout` may fire at any
moment of the wait for a slot, which includes every actual value. `keyring` is chosen
once, in `Init`: both kinds of deployment are checked in one run. Every session has
the same `expiresAt`. How a `parse_user` failure is described is left out: it is the
answer `misfit`. A ban here is for good: one that lapses, between the reply and its
judgement (`remote_verifier.py:680-684`) or before, is in `RequestJourney` and, for
Mode A, in `CookieVerifier`. `passed`, `seen` and `spentAt` are history, and
`InFlight` belongs to them: nothing in the code computes it.

The limiter and the lock are modelled by their documented contracts (first come,
first served, never more borrowers than slots); their implementation is not in `src/`.

### SqlStore

`SyncStoreAdapter` on anyio's asyncio backend. `plan` is the discovered schema,
`reported`/`overflowed` the outage latch, `holders`/`line` the limiter of
`_select`, and `worker` says what each thread is doing for whom. `work` tells a
lookup that inspects the columns, under the lock, from one that runs its statement.

| Action | Code |
|---|---|
| `Call`, `CallBlank` | `connect` and the two lookups up to their first wait, the lock's or the limiter's |
| `Rechecked`, `Discover` | `_ready` once the lock is held |
| `AskForSlot`, `StartThread` | `run_sync`, which yields once before it asks the limiter |
| `Inspect`, `Query`, `QueryFails`, `QueryRaises` | the worker thread, which reports a `SQLAlchemyError` to the latch itself and lets any other exception go to its caller unreported |
| `Discovered`, `Undiscovered`, `Fetched`, `Forget`, `NotFetched`, `Unheard` | the loop hears that a thread ended; `Unheard` when its caller is gone |
| `WaitCancelled`, `SlotCancelled`, `RunCancelled` | a cancellation at each of the three waits |
| `Migrate` | the operator, adding the columns the store needs |

`rearm` looks at the latch without its lock and then clears it with the lock.
Between the two steps only threads can run, because the loop does not yield:
`Fetched` and `Forget` are the two steps and `LoopIsFree` keeps every other task out
in between. A cancelled lookup frees its slot, and the discovery lock, at once, while
its thread runs to the end: that is what `abandon_on_cancel=True` means on asyncio.
(On trio the slot stays taken.) `SqlAlchemySessionStore` shares discovery and the
latch but has no threads.

### CookieVerifier

A store holds one session row, with an end, and one user row: active, banned,
suspended (banned until `BanEnds`) or deleted. `RefusedUnread` stands for the
refusals that make no lookup, `LookUp` for the rest of `verify` up to the first one.
A lookup reads at one moment (`ReadSession`, `ReadUser`) or raises (`LookupFails`);
the request judges it later, when it runs again: `NoSession`, `Expired`,
`JudgeRecord` (a store that joins the user), `AskUser` and `JudgeUser` (one that does
not), `FailedTranslated` (the store's own `AuthServiceUnavailable` or
`ConfigurationError`, raised as it is), `SessionFailed`
and `UserFailed` (any other exception, logged once per kind by one latch per lookup),
`Cancelled`. Meanwhile `SessionChanges`, `UserChanges` and `Tick` are the world. Both
kinds of store are checked in one run, `joined` being chosen in `Init`.

The history variables `arrivedAt`, `sawExpiry` and `sawStatus` keep which rows the
store held since a request arrived, and `told` which lines were logged since a lookup
last completed; nothing in the actions' guards reads them. The rows are the store's:
that a Redis store may be a copy that lags is outside the model.

### Dispatch

`app` is how far the bridge has come: built by `Construct` from one of `Offers`, or
refused (`Validated`, `CollisionKey`, `PublishedApart`), prepared one verifier at a
time by `Prepare`, serving after `Start`. The three tables of callables are
`_resolvers`, `_required` and `_optional`; a factory call of a thread reads and writes
them in the steps `LookUp`, `LookUpResolver`, `SetResolver` and `SetCallable`, between
which other threads run, since `dict.setdefault` is atomic and the code around it is
not. FastAPI is external: it solves a route's dependencies in order and calls each
callable once per request, and so by the callable's identity.

| Action | Code |
|---|---|
| `Arrive` | a request with any set of credentials on a route with any rule |
| `ExtractFails`, `SeesNone`, `SeesOne`, `SeesSeveral` | `_authenticate`, `_extracted`, up to the one verifier that is chosen |
| `Accepts`, `VerifyFails` | `_verified` and `_checked`, breaches of the protocol included |
| `ParseFails`, `FireKey`, `Fire` | `parse_user`'s refusal, and the warning of `OnceByKey`: the latch of the model, then the latch's own lock |
| `Solved`, `Missing`, `Serve` | the dependencies of `_require` and `_allow`, and the route |
| `JudgePredicate`, `UnusableId`, `LookUpMember`, `Granted` | `authz.py` |

What a verifier, a predicate or a lookup raises is any of `Raises`: the library's own
refusals, one an operator wrote, built well, edited since or broken, a
`ConfigurationError` and a stray exception, each of them bare, alone in a group or with
others. An answer is a status, the kind of its body and whether it challenges.

### RequestJourney

One request and one verifier, from the verifier's construction to the answer, in the
order of the code: `Construct`; `ExtractCookie`, `ResolveCookie`, `ParseCookie`,
`EnforcePolicy` and `CheckSignature`, then `AskStore` with `RedisAnswers`,
`SqlAnswers` or `StoreFails` in Mode A, or `AskUpstream` with `FetchFails` or
`ReadDocument` in Mode C, and `JudgeSession`; `ExtractBearer`, `ReadToken`, `ReadKeys`
and `DecodeToken` in Mode B. `Transfer` is a step of the transport, and `Tick` passes
the time while a store, upstream or the application has the floor. `asked` is what has
been consulted, `held` the record as the store keeps it, and neither is read by a
guard.

A cookie is a name, the index of its chunk and a value made of pieces: a text, a dot, a
signature, an escape, a byte that is not UTF-8. A signature is the term `Mac(key, text)`
and two are equal only if both are. Times are small integers; the ceilings on leeway
and lifetime (60 s, 24 h) are scaled to 1 and 4. The claims of a token are whole
seconds: fractions, which the decode truncates for `exp` and `iat` and which
`_check_lifetime` does not (`jwt_verifier.py:417-421`), are left out.

Each mode takes the other modules' part as given. The gates, the waits and the cache of
Mode C are `RemoteVerifier`'s; the cached key set is `JwksClient`'s; a store here
answers with the session and its user at once, and `CookieVerifier` has the two
lookups, their order and their failures.

### Bounds

A clock of 5 seconds over a fresh set of 3 (JwksClient), of 3 over windows of 2
(RemoteVerifier): every interval of the code ends at least once and can be caught at
its exact boundary, and what counts for the properties is only the order of the ends
of intervals, which the real values (300, 60, 10 s; 30, 60, 10 s) share. `MaxMisses = 1`
with two kids, and `MaxRemembered = 1` with two cookies, force eviction. Two callers
contend for every lock and slot; the liveness run of the key set has three, two of
them queued at once; in that of the verifier, one that was answered comes back behind
the other, so that a hand-over that is cancelled has someone to pass on to.
`MinBackoff = 1`, `MaxBackoff = 2` with a Retry-After of -3, 5 or none are below,
above and absent.

`SqlStore` has three lookups over one slot, so that one is queued behind another for
the lock or for the slot while a third is cancelled, and a second thread for what a
cancelled lookup leaves behind; `CookieVerifier` two requests, a session that ends at
1 or is extended to 2, a ban that lapses at 1 and a clock of 1, so that expiry and ban
end while a request is under way, at the boundary. In both `MaxKinds = 1` with two
kinds of failure makes the latch overflow. The liveness run of `SqlStore` has one
thread, which an abandoned lookup may keep busy while the next one waits for it.

`Dispatch` has three factory calls for one model, two of one kind and one of the other,
and two requests whose routes have three dependencies and one, so that calls race for
one table and the requests for one warning. `RequestJourney` has
one request: headers of 12 pieces, 3 pairs and 2 chunks, tokens of 1, key sets of 2
keys and bodies of 4 bytes against a cap of 2, each bound met, missed by one and passed;
a clock of 2 against sessions that end at 1 or 2 and tokens that end at 0 to 5. Each of
its sets of requests varies one thing richly and the others between good and bad.

`CHECK_DEADLOCK FALSE` stands in `dispatch` and `pipeline`, which really stop: every
request has been answered, the bridge or the verifier was refused, or the clock is at
its bound.

### Fairness

`FairSpec` assumes that the event loop runs every ready task (weak fairness of a
task whose turn it is) and that every probe and every fetch ends (the transport's
`fail_after`, `httpx_transports.py:261`). Nothing is assumed of upstream, of callers
or of time: cancellations may never come and timeouts may never fire.

In `SqlStore` the loop pauses for every task while one of them is inside `rearm`, so
a ready task is enabled again and again rather than always. It is served all the same,
the loop's queue being first in, first out: strong fairness for each lookup's turn and
for hearing each thread, weak fairness for `Forget` and for the threads, whose driver
calls are assumed to end.

## 3. Runs

| Run | What it shows |
|---|---|
| `jwks` | answers are recent (`UnknownIsRecent`, `KeyIsRecent`), misses few and true (`MissesBounded`, `NoKnownKeyRemembered`), an outage a caller hears of is a failed fetch, its own or one less than a window old, never a cancelled one (`OutageIsReal`), and the client implements `ThrottledAttempt` (`FetchIsThrottled`) |
| `jwks_live` | every queued caller is answered (`EveryCallEnds`) |
| `jwks_stale` | **violation**: "unknown" from a stale set, against the docstring; see below |
| `remote` | verdicts were true during the request (`AcceptedWasLive`, `RefusalWasTrue`); the cache never holds a live cookie and is bounded; no slot leaks; nothing is sent before the contract is confirmed and a refused deployment is never served (`FailClosed`); the probe implements `ThrottledAttempt`; the latch is bounded, not extended, and lets through only requests already past it |
| `remote_live` | every request that waits is answered (`EveryRequestEnds`) |
| `remote_latch` | **violation**: a queued request is sent while the latch holds; see below |
| `sql` | one lookup discovers at a time and the first plan stays (`DiscoveryIsExclusive`, `PlanIsKept`), slots go round whoever is cancelled (`NoSlotLeak`), and the unlocked look of `rearm` cannot leave the latch silent for good (`NeverMuted`) |
| `sql_live` | every lookup ends (`EveryCallEnds`) |
| `sql_threads` | **violation**: more threads at work than the limiter has slots; see below |
| `cookie` | verdicts had their cause in rows the store held during the request (`AcceptedWasTrue`, `RefusalWasTrue`); an outage is logged once, per lookup and per kind (`ToldOnce`) |
| `dispatch` | the dispatcher implements `AccessGate` (`OnlyTheProvedAreServed`); a request is verified once, whatever its dependencies and whichever thread built them (`VerifiedOnce`); one credential has one reader (`OneReaderPerCredential`); whatever is raised, the answer is one of the sanctioned ones (`AnswersAreSanctioned`); one warning per model (`WarnedOncePerModel`) |
| `pipeline` | what is served is the one session the request's one credential proves, as the store holds it, whatever stands beside it (`ServedIsTheOneSession`); nothing is consulted before the policy (`PolicyComesFirst`); a bearer token is inside its life and signed by a key published for it (`TokenInsideItsLife`); a body is delivered whole or not at all (`BodyIsWhole`) |

Every property of a passing run has a mutant of the code (an operator named
`Mutant...` beside the definition it replaces) under which TLC finds it violated.

**Findings.** (1) `jwks.py:160`: inside a closed refetch window a remembered miss is
answered `None` however old the key set, whereas the docstrings (`:73-75`, `:144-145`)
keep that answer to fresh sets. The delay is bounded: `UnknownIsRecent` says how old a
denial can be. (2) `remote_verifier.py:433`: the latch is read before the request
waits, so a request that queued earlier is sent while it holds, whereas the README
(`:1057`) says zero outbound calls. `OnlyPassedSendLatched` says how far this goes.
(3) `stores/sqlalchemy_store.py:370`: on the asyncio backend a cancelled lookup leaves
the limiter while its thread, and its connection, are still out, whereas the comment
above it (`:367-369`) and the docstring (`:304-309`) say the limiter bounds the
threads and so the connections, cancelled lookups included. `sql_threads` shows two
threads over one slot; what the model promises instead is `NoSlotLeak`.

`AcceptedWasTrue` is not "the row permits it now": the row is read at one moment
and judged at a later one, and a store that answers the user separately has had the
expiry checked before the second lookup. The property says exactly which rows and
which moments an acceptance may rest on.

## 4. Proofs

What a check on two requests cannot show is proved for every set of requests, kids,
tokens and every setting of the intervals.

| Theorem | Statement | Rests on |
|---|---|---|
| `TypeCorrect`, `MissesStayBounded` | `[]TypeOK`, `[]MissesBounded` of `JwksClient` | `TInv`: types, `KidNamed` (a caller that will look a kid up names one), misses within `MaxMisses`, each once |
| `KnownKeysAreNotMissing` | `[]NoKnownKeyRemembered` | itself, with `TInv`: a miss is written only for a kid absent from the set that is stored in the same stretch |
| `FetchThrottled` | `JwksClient` implements `ThrottledAttempt` | `FetcherHoldsLock` and `WindowKept` |
| `OutagesAreReal`, `KeysAreRecent`, `DenialsAreRecent` | `OutageIsReal`, `KeyIsRecent`, `UnknownIsRecent` | `AnswerInv`: all of the above and `InTime` (`StampsPast`, `FetchesInTime`, `SetInTime`, `MissesInTime`) |
| `CacheStaysBounded` | `[]CacheIsBounded` | `WithinBounds` of the cache's entries |
| `SlotsAreGivenBack` | `[]NoSlotLeak` | `SlotsKept`, on `Accounted` (`TaskLockProofs`) |
| `RemoteTypeCorrect` | `[]TypeOK` of `RemoteVerifier` | `TInv`: types, `CookieNamed` (whoever asks for a slot presents a cookie) |
| `GateFailsClosed` | `[]FailClosed` | `GateKept`: `ProberHoldsLock`, `ProbesOnlyUnknown` (a probe runs only while nothing is established), `WindowKept` |
| `ProbeThrottled` | the readiness gate implements `ThrottledAttempt` | the same |
| `LiveCookiesAreNotRemembered` | `[]NoLiveCookieRemembered` | `Truthful`: `KeysDead`, `StatusSeen`, `RepliesTrue` |
| `AcceptanceIsTrue`, `RefusalIsTrue` | `AcceptedWasLive`, `RefusalWasTrue` | the same |
| `LatchBounded`, `LatchIsServedOnce`, `OnlyEarlierRequestsSend` | the three properties of the 429 latch | `LatchKept`: the bound, and `PassedKnown` |
| `StoreTypeCorrect`, `CookieTypeCorrect` | `[]TypeOK` of `SqlStore` and of `CookieVerifier` | itself, with the threads' and the requests' own part of the types |
| `SlotsAreReturned` | `[]NoSlotLeak` of `SqlStore` | `SlotsKept`, on `Accounted` |
| `OneDiscovers`, `PlanStays` | `[]DiscoveryIsExclusive`, `PlanIsKept` of `SqlStore` | `DiscoveryInv`: types, `ThreadsServe` (a thread works on what its lookup asked for), `OneThreadEach`, and the property itself |
| `NeverMutedForGood` | `[]NeverMuted` | `LatchInv`: the reported kinds are finitely many and within the cap, and the latch is silent only at the cap |
| `CookieAcceptanceIsTrue`, `CookieRefusalIsTrue` | `AcceptedWasTrue`, `RefusalWasTrue` of `CookieVerifier` | `VerdictInv`: types and `RowsSeen` (what a request holds is among the rows seen since it arrived, and a request that asks for the user found a session that had not ended) |
| `OutageIsToldOnce` | `ToldOnce` | `ToldIsReported`: what was logged since a lookup completed is still in its latch |
| `DispatchTypeCorrect`, `RequestsAreVerifiedOnce`, `CredentialsHaveOneReader`, `RefusalsAreSanctioned`, `ModelsAreWarnedOnce` | the five invariants of `Dispatch` | `Inv`: `BridgeInv`, `TablesInv`, `RequestInv` of each request, `WarnedInv` |
| `DispatcherKeepsTheGate` | `Dispatch` implements `AccessGate` | the same |
| `PoliciesComeFirst`, `TokensAreInsideTheirLives`, `SessionsAreTheOne` | `PolicyComesFirst`, `TokenInsideItsLife`, `ServedIsTheOneSession` of `RequestJourney` | `JourneyInv`: `OnItsWay`, `PolicyInv`, `TokenInv`, `SessionInv` |
| `BodiesAreWhole`, `AnswersArriveWhole` | `[]BodyIsWhole` of `TransportRead`, and of `RequestJourney` | `TransportInv`: the buffer is what arrived until that is past the cap, and the cap and one byte from then on; a request takes the exchange's steps and no others |

**The refinements.** Throttling is invisible in any one variable: `attemptedAt` is
stamped when a fetch starts and rolled back if it is cancelled, so it is the abstract
`spentAt` only while no fetch runs. `WindowKept` says exactly that, and that the stamp
to go back to is `spentAt` while one does. It is inductive only with
`FetcherHoldsLock`: without the lock a second fetch could save the first one's stamp
as its own `previous`. `BeginFetch` then maps to `Begin`, the answered ends to
`Complete`, the cancelled one to `Abort`, and everything else to a stutter or a tick.
The probe is proved in the same way.

`Dispatch` is refined differently: an `AccessGate` request moves when its request is
asked, proved, found to be nobody's, or answered, and every other step, all of those of
the factory calls included, is a stutter. The mapping is read off `presented`, `proved`
and `answer`, so what has to be proved is that each guard of the gate holds where the
dispatcher takes the step: that is `Standing`, below.

**How old an answer may be.** Neither bound is inductive, nor is "the set on hand was
true when it was fetched": a reply travels while upstream rotates. `InTime` says what
each thing the client keeps is worth, in terms of the last moment at which a kid was,
or was not, published: a reply in flight was true since its fetch left, which was after
its caller asked (`FetchesInTime`); the set on hand since the fetch that brought it
left, so at most `FetchTimeout` before it came, and if the last fetch did not fail it
is that fetch's (`SetInTime`); a miss was stamped from a set that was fresh then
(`MissesInTime`). Time and rotations only move those moments forward (`LaterIsLater`).
A denial by `ShortCircuit` rests on the closed window when the last fetch was good, and
there `NoKnownKeyRemembered` is what makes the remembered kid absent from the set.
That a *stale* set answers with a key only after a failed fetch takes one more thing,
which the proof brought out: a window must not outlast a fresh set. Otherwise a good
set goes stale inside its own window and its withdrawn keys are served on (TLC shows
it with `CacheTtl = 1`, `RefetchInterval = 3`). It is `WindowAssumption`, and the code
keeps it: `REFETCH_INTERVAL` is 10 (`jwks.py:29`), which `JwtVerifier` does not change,
and a `cache_ttl` under `MIN_CACHE_TTL`, 60, is refused (`jwks.py:26`, `:379`).
`OutageIsReal` needs it too: a good set that aged out inside its own window would be told
of as an outage.

**Slots.** "As many holders as requests in the exchange" does not survive a hand-over
to a request that is cancelled before it runs. `Accounted` does: holders and line
together are exactly the users, nobody is in both or twice in line, and nobody waits
beside a free slot. It is kept by a newcomer, by a slot given back and by a waiter that
leaves, three lemmas about finite sets and sequences which Mode C's limiter and the
stores' share; in `SqlStore` the users are those who queue or run, whether or not the
thread of one that was cancelled still does.

**Fail closed.** "Queued implies probed" is not inductive: a probe that is refused
while another request is past the gate would break it. `ProbesOnlyUnknown` excludes
that, and is kept because the second look under the lock and the lock itself allow no
probe beside another.

**The verdicts.** An answer is true because the reply it rests on was true when
upstream sent it (`RepliesTrue`), because the request has seen every status of its
session since it arrived (`StatusSeen`), and, for answers without a reply, because a
remembered cookie is forged or its session is gone, which stays so (`KeysDead`). The
last is where the key of the cache matters: with the token alone as the key, a forgery
would make an entry for a live session.

**The latch.** When the first 429 trips it, `PassedKnown` holds by definition; a 429
that comes in later changes neither the latch nor the set; and a request is admitted
only when the latch has ended.

**One discovery.** That a lookup which inspects the columns holds the lock is not
enough: a thread that ended late must not write a plan for a lookup that has gone on.
`ThreadsServe` and `OneThreadEach` tie each thread to the lookup that waits for it, and
a cancelled one is let go (`caller` becomes nobody) in the step that frees the lock.

**A latch that is not mute.** `rearm` skips the clearing when nothing is reported, so
an overflowed latch with an empty set would stay silent for good. `LatchInv` excludes
it, between the two steps of `rearm` too, whatever threads report there.

**The dispatcher.** `VerifiedOnce` and `OneReaderPerCredential` hold because what a
request was told and what it may still ask are never out of step. `Standing` gives, for
every place a request can be at, the few situations it can be in: nothing heard, one
verifier asked, ambiguous, proved, or nobody's, each of them a statement about what was
presented, asked and proved *and* about every resolver's cache. `Routed` makes the
cache speak of one resolver only: the one in the table of the route's model. That one
never changes, because the tables only gain entries and a factory call that has its
resolver has the table's (`TablesInv`), whatever threads ran beside it. `Progress` says
that a dependency behind a request let it pass, so that `Serve` and the rules find it
proved. `WarnedInv` ties the latch of a model to the request that set it and to the
count of warnings between the two steps of `OnceByKey`.

**The request.** `JourneyInv` carries each fact from the step that establishes it to
the answer that needs it: the one value from `ResolveCookie` on, the policy's word
from `EnforcePolicy` on, the signature from `CheckSignature` on, the record read to
`JudgeSession`, and the shape of a token and the key found for it to `DecodeToken`. It
rests on lemmas about the operators themselves: what the chunks of a cookie resolve to,
what each policy vouches for, which keys a document publishes. The proof of
`SessionsAreTheOne` found one error in the model: the property's own `Carried` counted
cookies whose chunk number is out of the reader's range.

TLAPS checks every theorem to its last leaf. The assumptions are on constants, and
TLC evaluates them on every instance:

| Assumption | Why it holds of the code |
|---|---|
| `JwksAssumption`, `RemoteAssumption`, `SqlAssumption`, `CookieAssumption` | intervals, caps and bounds are natural numbers, positive where the code has or demands a positive one; the values that stand for `None` are not among the others; lookups and kinds of failure are finitely many, where something is counted |
| `WindowAssumption` | above |
| `TransportAssumption`, `CookieParsingAssumption` | the cap is positive, and the limits of the cookie reader are natural numbers |
| `DispatchAssumption` | a route has a dependency at least, all of one model (a route of several models has several resolvers, each of which is such a route by itself); the verifiers offered are a finite sequence, and a request carries finitely many credentials |
| `JourneyAssumption` | what an operator's policy returns, and the shapes of the tokens, rows and documents that can arrive: moments are integers, or one of the values that are none |

The abstraction of a clock to integers, and the contracts of `anyio`, are assumptions
of the models themselves.

Every invariant and every action property that a passing run checks is a theorem.
Only model-checked are the liveness properties, `EveryCallEnds` of the key set and of
the store and `EveryRequestEnds` of Mode C (fairness and ENABLED are out of the
prover's reach), and the three violations, which are counterexamples.

## 5. Not modelled, and what is left

Left out because no property could be about it, or because it is I/O:

- URLs (`urls.py`, `normalize_base_url`) and the strength of a secret
  (`shared_secret.py`): in the models an origin or a secret is usable or is not.
- Building, lending and closing clients (`default_transport`, the shut cookie jar, the
  Redis client), reading the environment (`BetterAuth.from_env`), and the import errors
  of optional dependencies.
- The data types, OpenAPI documents, reasons, log lines and version markers; of
  OpenAPI only that two schemes may not share a name.
- The reference auth server, the tests and CI, which are not part of the library.
- The trio backend, on which a cancelled lookup keeps its slot.

Hazards without a property: the second look of `key_for` under its lock
(`jwks.py:150`), which is the guard of `BeginFetch` and which a property could only
restate (without it a fetch too many would still be alone and a window after the last
one, `FetchIsThrottled`); a probe that a passing 429 or 503 shuts for good
(`remote_probe.py:102`), which is documented; the negative cache's order of eviction
(`negative_cache.py:95`), which differs from its comment and costs one call to
upstream; a plan that outlives a migration (`stores/sqlalchemy_store.py:126`), which
is documented and which `PlanIsKept` states.

Theorems still worth stating: that `AccessGate` itself serves nobody who presented two
credentials, as an invariant of the abstract specification that every implementation
inherits; the safety half of the liveness properties, that a task which waits for a
lock or a slot always has someone ahead of it who is not waiting; and, for Mode A and
Mode C, lemmas on the record operators that their verdicts share with `RequestJourney`.

## 6. Running

    tlc -config MCJwksClient.cfg MCJwksClient
    tlc -config MCRemoteVerifier.cfg MCRemoteVerifier
    tlc -config MCSqlStore.cfg MCSqlStore
    tlc -config MCCookieVerifier.cfg MCCookieVerifier
    tlc -config MCDispatch.cfg MCDispatch
    tlc -config MCRequestJourney.cfg MCRequestJourney
    tlapm JwksClientProofs.tla
    tlapm RemoteVerifierProofs.tla
    tlapm DispatchProofs.tla

and likewise for the other configurations and proof modules. The longest run,
`cookie`, takes two to three minutes.
