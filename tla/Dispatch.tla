------------------------------ MODULE Dispatch ------------------------------
(***************************************************************************)
(* BetterAuth (_internal/core.py, with authz.py, labels.py, openapi.py,    *)
(* once.py): the bridge is built from a sequence of verifiers or refused;  *)
(* threads build dependencies with its factories; startup() prepares the   *)
(* verifiers; then requests run the dependencies of their route.           *)
(*                                                                         *)
(* FastAPI resolves a route's dependencies one after the other and calls   *)
(* each callable once a request: the cache key is the callable, so that    *)
(* the factories must hand out one resolver for each model. A resolver is  *)
(* named by the thread that made it. What a verifier does with a request   *)
(* is any of its outcomes, exceptions in groups and breaches of the        *)
(* protocol included.                                                      *)
(***************************************************************************)
EXTENDS Integers, Sequences, FiniteSets, Refusals

CONSTANTS
  Offers,    \* the sequences of verifiers BetterAuth() is called with
  Builder,   \* the threads that call a factory
  Kind,      \* "required" or "optional", for each of them
  Model,     \* the user models
  ModelOf,   \* the model each of them asks for
  Request,   \* the requests
  Route,     \* the dependencies of each request's route: the builders they come from
  Carried,   \* the sets of credentials a request may carry
  Raises,    \* the exceptions a verifier, a predicate or a lookup may raise
  Nil        \* no callable, no latch

ASSUME DispatchAssumption ==
  /\ Kind \in [Builder -> {"required", "optional"}]
  /\ ModelOf \in [Builder -> Model]
  /\ Route \in [Request -> Seq(Builder) \ {<<>>}]
  /\ \A r \in Request : \A i, j \in DOMAIN Route[r] :
       ModelOf[Route[r][i]] = ModelOf[Route[r][j]]
  /\ \A vs \in Offers : vs \in Seq({vs[i] : i \in DOMAIN vs})
  /\ \A c \in Carried : IsFiniteSet(c)
  /\ Nil \notin Builder \cup Request \cup [by : Builder, on : Builder]

VARIABLES
  app, verifiers, prepared,        \* the bridge
  resolvers, required, optional,   \* its callables, by model
  stage, anchor, handed,           \* each factory call: its resolver, its callable
  latches, fired, warnings,        \* _advised, and the warnings it let through
  pc, at, rule, carried, cached,   \* each request: where it is, what it carries
  presented, proved, asked, latch, \* what its verifiers said
  answer

bridge   == <<app, verifiers, prepared>>
tables   == <<resolvers, required, optional>>
calls    == <<stage, anchor, handed>>
warned   == <<latches, fired, warnings>>
position == <<pc, at>>
facts    == <<rule, carried>>
sight    == <<presented, proved, asked>>
requests == <<position, facts, cached, sight, latch, answer>>
vars     == <<bridge, tables, calls, warned, requests>>

Places == {"idle", "solving", "verifying", "advising", "firing", "ruling", "done"}
Stages == {"idle", "looking", "anchoring", "wrapping", "done"}

Undecided == [status |-> 0, detail |-> "none", challenge |-> FALSE]
Served    == [status |-> 200, detail |-> "session", challenge |-> FALSE]
Anonymous == [status |-> 200, detail |-> "nobody", challenge |-> FALSE]

------------------------------------------------------------------------------
\* Building the bridge. A label is its kind, the browser prefixes and the base of a
\* cookie's name, and the name it is published under once it is sanitized.
MutantCollisionKey(label) == <<label.kind, label.prefixes, label.base>>
CollisionKey(label) == <<label.kind, label.base>>

\* The credential a verifier reads: a session cookie is one credential in either of
\* the postures it is named for.
Credential(label) == <<label.kind, label.base>>

SchemeName(vs, label) ==
  CASE label.kind = "bearer" -> "BetterAuthBearer"
    [] label.kind = "cookie"
         -> IF Cardinality({i \in DOMAIN vs : vs[i].source.kind = "cookie"}) = 1
            THEN "BetterAuthCookie" ELSE label.published
    [] OTHER -> "none"

\* Credentials of one name would be one entry of the published security schemes.
PublishedApart(vs, i, j) ==
  \/ SchemeName(vs, vs[i].source) = "none"
  \/ SchemeName(vs, vs[i].source) # SchemeName(vs, vs[j].source)

IsVerifier(v) == v.implements /\ v.source.kind # "blank" /\ ~v.asyncExtract

Validated(vs) ==
  /\ vs # <<>>
  /\ \A i \in DOMAIN vs : IsVerifier(vs[i])
  /\ \A i, j \in DOMAIN vs : i # j =>
       /\ vs[i].id # vs[j].id
       /\ CollisionKey(vs[i].source) # CollisionKey(vs[j].source)
       /\ PublishedApart(vs, i, j)

Init ==
  /\ app = "unbuilt" /\ verifiers = <<>> /\ prepared = 0
  /\ resolvers = [m \in Model |-> Nil]
  /\ required = [m \in Model |-> Nil] /\ optional = [m \in Model |-> Nil]
  /\ stage = [b \in Builder |-> "idle"]
  /\ anchor = [b \in Builder |-> Nil] /\ handed = [b \in Builder |-> Nil]
  /\ latches = [m \in Model |-> Nil] /\ fired = {}
  /\ warnings = [m \in Model |-> 0]
  /\ pc = [r \in Request |-> "idle"] /\ at = [r \in Request |-> 1]
  /\ rule = [r \in Request |-> "none"] /\ carried = [r \in Request |-> {}]
  /\ cached = [r \in Request |-> [b \in Builder |-> "unasked"]]
  /\ presented = [r \in Request |-> {}] /\ proved = [r \in Request |-> FALSE]
  /\ asked = [r \in Request |-> 0] /\ latch = [r \in Request |-> Nil]
  /\ answer = [r \in Request |-> Undecided]

Construct ==
  /\ app = "unbuilt"
  /\ \E vs \in Offers :
       IF Validated(vs)
       THEN app' = "built" /\ verifiers' = vs
       ELSE app' = "refused" /\ UNCHANGED verifiers
  /\ UNCHANGED <<prepared, tables, calls, warned, requests>>

\* startup(): prepare() of each verifier that has one, in order; the first that
\* decides the deployment cannot serve stops the lifespan.
Prepare ==
  /\ app = "built" /\ prepared < Len(verifiers)
  /\ prepared' = prepared + 1
  /\ \/ UNCHANGED app
     \/ verifiers[prepared + 1].prepares /\ app' = "failed"
  /\ UNCHANGED <<verifiers, tables, calls, warned, requests>>

\* The server serves once startup() has ended, or without it when its lifespan does
\* not call it.
Start ==
  /\ app = "built" /\ prepared \in {0, Len(verifiers)}
  /\ app' = "serving"
  /\ UNCHANGED <<verifiers, prepared, tables, calls, warned, requests>>

------------------------------------------------------------------------------
\* A factory call, on a thread of its own: the dictionaries are read and written
\* one at a time.
Callables(b) == IF Kind[b] = "required" THEN required ELSE optional

MutantLookUp(b) ==
  /\ stage[b] = "idle" /\ app \in {"built", "serving"}
  /\ stage' = [stage EXCEPT ![b] = IF Callables(b)[ModelOf[b]] = Nil THEN "looking" ELSE "done"]
  /\ UNCHANGED <<bridge, tables, anchor, handed, warned, requests>>

LookUp(b) ==
  /\ stage[b] = "idle" /\ app \in {"built", "serving"}
  /\ LET cachedCall == Callables(b)[ModelOf[b]] IN
       IF cachedCall = Nil
       THEN stage' = [stage EXCEPT ![b] = "looking"] /\ UNCHANGED handed
       ELSE /\ stage' = [stage EXCEPT ![b] = "done"]
            /\ handed' = [handed EXCEPT ![b] = cachedCall]
  /\ UNCHANGED <<bridge, tables, anchor, warned, requests>>

LookUpResolver(b) ==
  /\ stage[b] = "looking"
  /\ LET resolver == resolvers[ModelOf[b]] IN
       IF resolver = Nil
       THEN stage' = [stage EXCEPT ![b] = "anchoring"] /\ UNCHANGED anchor
       ELSE /\ stage' = [stage EXCEPT ![b] = "wrapping"]
            /\ anchor' = [anchor EXCEPT ![b] = resolver]
  /\ UNCHANGED <<bridge, tables, handed, warned, requests>>

\* dict.setdefault: what is there, and the caller's own if nothing is.
MutantSetDefault(table, m, mine) == mine
SetDefault(table, m, mine) == IF table[m] = Nil THEN mine ELSE table[m]

SetResolver(b) ==
  /\ stage[b] = "anchoring"
  /\ LET kept == SetDefault(resolvers, ModelOf[b], b) IN
       /\ resolvers' = [resolvers EXCEPT ![ModelOf[b]] = kept]
       /\ anchor' = [anchor EXCEPT ![b] = kept]
  /\ stage' = [stage EXCEPT ![b] = "wrapping"]
  /\ UNCHANGED <<bridge, required, optional, handed, warned, requests>>

SetCallable(b) ==
  /\ stage[b] = "wrapping"
  /\ LET m    == ModelOf[b]
         kept == SetDefault(Callables(b), m, [by |-> b, on |-> anchor[b]])
     IN /\ handed' = [handed EXCEPT ![b] = kept]
        /\ IF Kind[b] = "required"
           THEN required' = [required EXCEPT ![m] = kept] /\ UNCHANGED optional
           ELSE optional' = [optional EXCEPT ![m] = kept] /\ UNCHANGED required
  /\ stage' = [stage EXCEPT ![b] = "done"]
  /\ UNCHANGED <<bridge, resolvers, anchor, warned, requests>>

------------------------------------------------------------------------------
Stays == UNCHANGED <<bridge, tables, calls>>

ModelFor(r) == ModelOf[Route[r][1]]

\* An authorization gate composes on current_session.
HasSession(r) == \E i \in DOMAIN Route[r] : Kind[Route[r][i]] = "required"

AllowsAnonymous == {r \in Request : ~HasSession(r)}

Arrive(r) ==
  /\ app = "serving" /\ pc[r] = "idle"
  /\ \A i \in DOMAIN Route[r] : stage[Route[r][i]] = "done"
  /\ \E c \in Carried : carried' = [carried EXCEPT ![r] = c]
  /\ \E g \in {"none", "predicate", "membership"} :
       /\ g # "none" => HasSession(r)
       /\ rule' = [rule EXCEPT ![r] = g]
  /\ pc' = [pc EXCEPT ![r] = "solving"]
  /\ Stays /\ UNCHANGED <<at, cached, sight, latch, warned, answer>>

End(r, response) ==
  /\ pc' = [pc EXCEPT ![r] = "done"]
  /\ answer' = [answer EXCEPT ![r] = response]

Refuse(r, class) == End(r, Response(class))

\* The next dependency of the route, and the resolver it hangs off.
IsSolving(r) == pc[r] = "solving" /\ at[r] \in DOMAIN Route[r]
Dependency(r) == handed[Route[r][at[r]]]
Resolver(r) == Dependency(r).on
IsAsked(r) == cached[r][Resolver(r)] # "unasked"

\* extract() of every verifier, in order, up to one that misbehaves.
Carries(r) == {i \in DOMAIN verifiers : Credential(verifiers[i].source) \in carried[r]}

ExtractFails(r) ==
  /\ IsSolving(r) /\ ~IsAsked(r)
  /\ \/ \E e \in Raises : Refuse(r, FromExtract(Thrown(e)))
     \/ Refuse(r, "ConfigurationError") \* it returned an awaitable
  /\ Stays /\ UNCHANGED <<at, facts, cached, sight, latch, warned>>

SeesNone(r) ==
  /\ IsSolving(r) /\ ~IsAsked(r) /\ Carries(r) = {}
  /\ cached' = [cached EXCEPT ![r][Resolver(r)] = "nobody"]
  /\ Stays /\ UNCHANGED <<position, facts, sight, latch, warned, answer>>

SeesOne(r) ==
  /\ IsSolving(r) /\ ~IsAsked(r) /\ Cardinality(Carries(r)) = 1
  /\ presented' = [presented EXCEPT ![r] = Carries(r)]
  /\ asked' = [asked EXCEPT ![r] = @ + 1]
  /\ pc' = [pc EXCEPT ![r] = "verifying"]
  /\ Stays /\ UNCHANGED <<at, facts, cached, proved, latch, warned, answer>>

SeesSeveral(r) ==
  /\ IsSolving(r) /\ ~IsAsked(r) /\ Cardinality(Carries(r)) > 1
  /\ presented' = [presented EXCEPT ![r] = Carries(r)]
  /\ Refuse(r, "AmbiguousCredentials")
  /\ Stays /\ UNCHANGED <<at, facts, cached, proved, asked, latch, warned>>

------------------------------------------------------------------------------
\* The answer of the one verifier asked, checked rather than assumed.
Accepts(r) ==
  /\ pc[r] = "verifying"
  /\ cached' = [cached EXCEPT ![r][Resolver(r)] = "session"]
  /\ proved' = [proved EXCEPT ![r] = TRUE]
  /\ pc' = [pc EXCEPT ![r] = "solving"]
  /\ Stays /\ UNCHANGED <<at, facts, presented, asked, latch, warned, answer>>

\* Not an awaitable, not a Session, or one of another model.
Breaches == {"notAwaitable", "nothing", "otherModel"}

MutantOnBreach(r, breach) ==
  IF breach = "nothing"
  THEN /\ cached' = [cached EXCEPT ![r][Resolver(r)] = "nobody"]
       /\ pc' = [pc EXCEPT ![r] = "solving"]
       /\ UNCHANGED answer
  ELSE Refuse(r, "ConfigurationError") /\ UNCHANGED cached

OnBreach(r, breach) == Refuse(r, "ConfigurationError") /\ UNCHANGED cached

VerifyFails(r) ==
  /\ pc[r] = "verifying"
  /\ \/ \E e \in Raises :
          Refuse(r, FromVerify(Thrown(e))) /\ UNCHANGED cached
     \/ \E breach \in Breaches : OnBreach(r, breach)
  /\ Stays /\ UNCHANGED <<at, facts, sight, latch, warned>>

\* parse_user(): the payload lacks a field the model requires. The operator is told
\* once for each model, the client as ever.
ParseFails(r) ==
  /\ pc[r] = "verifying"
  /\ pc' = [pc EXCEPT ![r] = "advising"]
  /\ Stays /\ UNCHANGED <<at, facts, cached, sight, latch, warned, answer>>

FireKey(r) ==
  /\ pc[r] = "advising"
  /\ LET kept == SetDefault(latches, ModelFor(r), r) IN
       /\ latches' = [latches EXCEPT ![ModelFor(r)] = kept]
       /\ latch' = [latch EXCEPT ![r] = kept]
  /\ pc' = [pc EXCEPT ![r] = "firing"]
  /\ Stays /\ UNCHANGED <<at, facts, cached, sight, fired, warnings, answer>>

MutantFire(r) ==
  /\ pc[r] = "firing"
  /\ fired' = fired \cup {latch[r]}
  /\ warnings' = [warnings EXCEPT ![ModelFor(r)] = @ + 1]
  /\ Refuse(r, "InvalidCredential")
  /\ Stays /\ UNCHANGED <<at, facts, cached, sight, latches, latch>>

Fire(r) ==
  /\ pc[r] = "firing"
  /\ fired' = fired \cup {latch[r]}
  /\ warnings' = IF latch[r] \in fired THEN warnings
                 ELSE [warnings EXCEPT ![ModelFor(r)] = @ + 1]
  /\ Refuse(r, "InvalidCredential")
  /\ Stays /\ UNCHANGED <<at, facts, cached, sight, latches, latch>>

------------------------------------------------------------------------------
\* The dependency itself, once its resolver has answered.
MayPass(r) == Kind[Route[r][at[r]]] = "optional" \/ cached[r][Resolver(r)] = "session"

Solved(r) ==
  /\ IsSolving(r) /\ IsAsked(r) /\ MayPass(r)
  /\ at' = [at EXCEPT ![r] = @ + 1]
  /\ Stays /\ UNCHANGED <<pc, facts, cached, sight, latch, warned, answer>>

Missing(r) ==
  /\ IsSolving(r) /\ IsAsked(r) /\ ~MayPass(r)
  /\ Refuse(r, "MissingCredential")
  /\ Stays /\ UNCHANGED <<at, facts, cached, sight, latch, warned>>

IsSolved(r) == pc[r] = "solving" /\ at[r] \notin DOMAIN Route[r]

Serve(r) ==
  /\ IsSolved(r) /\ rule[r] = "none"
  /\ End(r, IF \E b \in Builder : cached[r][b] = "session" THEN Served ELSE Anonymous)
  /\ Stays /\ UNCHANGED <<at, facts, cached, sight, latch, warned>>

\* permitted(): only True passes; an awaitable is a predicate written async.
JudgePredicate(r) ==
  /\ IsSolved(r) /\ rule[r] = "predicate"
  /\ \/ End(r, Served)                    \* True
     \/ Refuse(r, "NotAuthorized")        \* anything else
     \/ Refuse(r, "ConfigurationError")   \* an awaitable
     \/ \E e \in Raises : End(r, FromRule(Thrown(e)))
  /\ Stays /\ UNCHANGED <<at, facts, cached, sight, latch, warned>>

\* membership: an id nothing could be looked up by is refused before the lookup runs.
UnusableId(r) ==
  /\ IsSolved(r) /\ rule[r] = "membership"
  /\ Refuse(r, "NotAuthorized")
  /\ Stays /\ UNCHANGED <<at, facts, cached, sight, latch, warned>>

LookUpMember(r) ==
  /\ IsSolved(r) /\ rule[r] = "membership"
  /\ pc' = [pc EXCEPT ![r] = "ruling"]
  /\ Stays /\ UNCHANGED <<at, facts, cached, sight, latch, warned, answer>>

Granted(r) ==
  /\ pc[r] = "ruling"
  /\ \/ End(r, Served)                    \* any grant but None and False
     \/ Refuse(r, "NotAuthorized")        \* None or False
     \/ Refuse(r, "ConfigurationError")   \* not an awaitable
     \/ \E e \in Raises : End(r, FromRule(Thrown(e)))
  /\ Stays /\ UNCHANGED <<at, facts, cached, sight, latch, warned>>

\* Requests may have been answered, and the bridge may have been refused.
Next ==
  \/ Construct \/ Prepare \/ Start
  \/ \E b \in Builder :
       LookUp(b) \/ LookUpResolver(b) \/ SetResolver(b) \/ SetCallable(b)
  \/ \E r \in Request :
       \/ Arrive(r) \/ ExtractFails(r) \/ SeesNone(r) \/ SeesOne(r) \/ SeesSeveral(r)
       \/ Accepts(r) \/ VerifyFails(r) \/ ParseFails(r) \/ FireKey(r) \/ Fire(r)
       \/ Solved(r) \/ Missing(r) \/ Serve(r)
       \/ JudgePredicate(r) \/ UnusableId(r) \/ LookUpMember(r) \/ Granted(r)

Spec == Init /\ [][Next]_vars

------------------------------------------------------------------------------
\* Every variable keeps to its type.
TypeOK ==
  /\ app \in {"unbuilt", "refused", "built", "failed", "serving"}
  /\ verifiers \in Offers \cup {<<>>} /\ prepared \in 0 .. Len(verifiers)
  /\ resolvers \in [Model -> Builder \cup {Nil}]
  /\ {required, optional} \subseteq
       [Model -> [by : Builder, on : Builder] \cup {Nil}]
  /\ \A b \in Builder : stage[b] = "done" => handed[b] # Nil
  /\ stage \in [Builder -> Stages] /\ anchor \in [Builder -> Builder \cup {Nil}]
  /\ handed \in [Builder -> [by : Builder, on : Builder] \cup {Nil}]
  /\ {latches[m] : m \in Model} \cup {latch[r] : r \in Request} \cup fired
       \subseteq Request \cup {Nil}
  /\ warnings \in [Model -> Nat]
  /\ pc \in [Request -> Places] /\ at \in [Request -> Nat]
  /\ rule \in [Request -> {"none", "predicate", "membership"}]
  /\ carried \in [Request -> Carried \cup {{}}]
  /\ cached \in [Request -> [Builder -> {"unasked", "nobody", "session"}]]
  /\ presented \in [Request -> SUBSET DOMAIN verifiers]
  /\ proved \in [Request -> BOOLEAN] /\ asked \in [Request -> Nat]

\* A request is verified at most once, however many dependencies its route declares
\* and whichever threads built them: a second verification could disagree with the
\* first (core.py, current_session).
VerifiedOnce == \A r \in Request : asked[r] <= 1

\* No credential is found by two verifiers: a request is ambiguous only when it
\* carries two (core.py, _reject_collision).
OneReaderPerCredential ==
  \A r \in Request : Cardinality(presented[r]) <= Cardinality(carried[r])

\* A refusal has one of the three uniform responses, the challenge with 401 and only
\* there; a rule's own refusal is a 403 or 404 told to a proved identity; the one 500
\* is a broken verifier or rule, never an exception that escaped one (errors.py).
AnswersAreSanctioned ==
  \A r \in Request : LET w == answer[r] IN
    /\ w.challenge <=> w.status = 401
    /\ w.status = 500 => w.detail \in BetterAuthErrors
    /\ w.detail = "explained" => proved[r] /\ w.status \in {403, 404}
    /\ w \in SanctionedResponses \cup {Undecided, Served, Anonymous}
         \/ w.detail = "explained" \/ w.status = 500

\* A model that misses fields is warned about once, by whichever thread is first, and
\* no request that missed one ends before the warning (once.py, parsing.py).
WarnedOncePerModel ==
  /\ \A m \in Model : warnings[m] <= 1
  /\ \A r \in Request : latch[r] # Nil /\ pc[r] = "done" => warnings[ModelFor(r)] = 1

\* The dispatcher keeps what AccessGate promises a route.
Sighting(r) ==
  CASE Cardinality(presented[r]) = 1 -> "one"
    [] Cardinality(presented[r]) > 1 -> "several"
    [] \E b \in Builder : cached[r][b] = "nobody" -> "none"
    [] OTHER -> "unseen"

Outcome(r) ==
  CASE answer[r] = Undecided -> "undecided"
    [] answer[r] = Served    -> "served"
    [] answer[r] = Anonymous -> "anonymous"
    [] OTHER                 -> "refused"

Gate == INSTANCE AccessGate
          WITH presented <- [r \in Request |-> Sighting(r)],
               outcome <- [r \in Request |-> Outcome(r)]

\* An identity is served only to the one credential presented and proved, nobody only
\* where nothing was presented, and an answer is final (core.py, _authenticate).
OnlyTheProvedAreServed == Gate!Spec
=============================================================================
