--------------------------- MODULE DispatchProofs ---------------------------
(***************************************************************************)
(* The dispatcher, for every sequence of verifiers, every set of threads   *)
(* that build dependencies and every set of requests: the threads agree on *)
(* one resolver for each model, so that a request is verified once, and    *)
(* what a route is given of a request is what AccessGate promises.         *)
(***************************************************************************)
EXTENDS Dispatch, FiniteSetTheorems, TLAPS

Callable == [by : Builder, on : Builder]

\* All that a request may be answered with.
Broken == [status |-> 500, detail |-> "ConfigurationError", challenge |-> FALSE]
Explained ==
  {[status |-> c, detail |-> "explained", challenge |-> FALSE] : c \in {403, 404}}
Refused == SanctionedResponses \cup {Broken}
Answers == Refused \cup Explained \cup {Undecided, Served, Anonymous}

BridgeTypes ==
  /\ app \in {"unbuilt", "refused", "built", "failed", "serving"}
  /\ verifiers \in Offers \cup {<<>>} /\ prepared \in 0 .. Len(verifiers)

FactoryTypes ==
  /\ resolvers \in [Model -> Builder \cup {Nil}]
  /\ required \in [Model -> Callable \cup {Nil}]
  /\ optional \in [Model -> Callable \cup {Nil}]
  /\ stage \in [Builder -> Stages] /\ anchor \in [Builder -> Builder \cup {Nil}]
  /\ handed \in [Builder -> Callable \cup {Nil}]

WarningTypes ==
  /\ latches \in [Model -> Request \cup {Nil}] /\ fired \subseteq Request
  /\ warnings \in [Model -> Nat] /\ latch \in [Request -> Request \cup {Nil}]

RequestTypes ==
  /\ pc \in [Request -> Places] /\ at \in [Request -> Nat]
  /\ rule \in [Request -> {"none", "predicate", "membership"}]
  /\ carried \in [Request -> Carried \cup {{}}]
  /\ cached \in [Request -> [Builder -> {"unasked", "nobody", "session"}]]
  /\ presented \in [Request -> SUBSET DOMAIN verifiers]
  /\ proved \in [Request -> BOOLEAN] /\ asked \in [Request -> Nat]
  /\ answer \in [Request -> Answers]

Types == BridgeTypes /\ FactoryTypes /\ WarningTypes /\ RequestTypes

(* A bridge that was built was built of verifiers that passed. *)
BridgeInv ==
  /\ verifiers = <<>> \/ Validated(verifiers)
  /\ app = "unbuilt" => verifiers = <<>>

(* Every callable of a model hangs off the model's one resolver. *)
TablesInv ==
  /\ \A m \in Model :
       /\ required[m] # Nil => required[m].on = resolvers[m]
       /\ optional[m] # Nil => optional[m].on = resolvers[m]
  /\ \A b \in Builder :
       /\ anchor[b] # Nil => anchor[b] = resolvers[ModelOf[b]]
       /\ stage[b] = "wrapping" => anchor[b] # Nil
       /\ stage[b] = "done" => handed[b] # Nil
       /\ handed[b] # Nil => handed[b].on = resolvers[ModelOf[b]]
-----------------------------------------------------------------------------
(* A request has heard nothing, waits for the one verifier asked, was proved, *)
(* was found to be nobody's, or was found ambiguous.                          *)
Unasked(r) == \A b \in Builder : cached[r][b] = "unasked"

Fresh(r)   == Unasked(r) /\ presented[r] = {} /\ asked[r] = 0 /\ proved[r] = FALSE
Asking(r)  == Unasked(r) /\ Cardinality(presented[r]) = 1 /\ asked[r] = 1 /\ proved[r] = FALSE
Several(r) == Unasked(r) /\ Cardinality(presented[r]) > 1 /\ asked[r] = 0 /\ proved[r] = FALSE

Proved(r) ==
  /\ \E b \in Builder : cached[r][b] = "session"
  /\ \A b \in Builder : cached[r][b] # "nobody"
  /\ Cardinality(presented[r]) = 1 /\ asked[r] = 1 /\ proved[r] = TRUE

Nobody(r) ==
  /\ \E b \in Builder : cached[r][b] = "nobody"
  /\ \A b \in Builder : cached[r][b] # "session"
  /\ presented[r] = {} /\ asked[r] = 0 /\ proved[r] = FALSE

Standing(r) ==
  /\ pc[r] = "idle" => Fresh(r)
  /\ pc[r] = "solving" => Fresh(r) \/ Proved(r) \/ Nobody(r)
  /\ pc[r] \in {"verifying", "advising", "firing"} => Asking(r)
  /\ pc[r] = "ruling" => Proved(r)
  /\ pc[r] = "done" =>
       Fresh(r) \/ Asking(r) \/ Several(r) \/ Proved(r) \/ Nobody(r)

(* What it heard, it heard from the resolver of its model, once every factory call
   its route needs had returned. *)
Answerer(r) == resolvers[ModelFor(r)]

Routed(r) ==
  /\ \A b \in Builder : cached[r][b] # "unasked" => b = Answerer(r)
  /\ pc[r] # "idle" =>
       app = "serving" /\ \A i \in DOMAIN Route[r] : stage[Route[r][i]] = "done"

(* The dependencies behind it let it pass: it is proved, or they are all optional. *)
Progress(r) ==
  /\ at[r] \in 1 .. Len(Route[r]) + 1
  /\ at[r] > 1 => Proved(r) \/ Nobody(r)
  /\ \A i \in DOMAIN Route[r] :
       i < at[r] => Kind[Route[r][i]] = "optional" \/ Proved(r)
  /\ rule[r] # "none" => HasSession(r)

Answered(r) ==
  /\ answer[r] = Undecided <=> pc[r] # "done"
  /\ answer[r] \in Explained => Proved(r)

RequestInv(r) ==
  Standing(r) /\ Routed(r) /\ Progress(r) /\ Answered(r) /\ presented[r] \subseteq Carries(r)

(* A latch is the first request of its model that missed a field, and is counted
   once it has warned; no request that missed one ends before that. *)
LatchesInv ==
  /\ \A m \in Model :
       /\ latches[m] # Nil => ModelFor(latches[m]) = m
       /\ warnings[m] = IF latches[m] \in fired THEN 1 ELSE 0
  /\ \A q \in fired : latches[ModelFor(q)] = q

AdvisesInv ==
  \A r \in Request :
    /\ latch[r] # Nil => latch[r] = latches[ModelFor(r)] /\ pc[r] \in {"firing", "done"}
    /\ pc[r] = "firing" => latch[r] # Nil
    /\ pc[r] = "done" /\ latch[r] # Nil => latch[r] \in fired

WarnedInv == LatchesInv /\ AdvisesInv

Inv == Types /\ BridgeInv /\ TablesInv /\ (\A r \in Request : RequestInv(r)) /\ WarnedInv
-----------------------------------------------------------------------------
(* What a class of refusal renders is one of the three uniform responses, and the *)
(* one 500 is a broken deployment's (errors.py, AuthError.response).              *)
LEMMA ResponseIsUniform ==
  ASSUME NEW class \in SessionErrors \cup BetterAuthErrors
  PROVE  Response(class) \in Refused
<1>1. CASE class \in SessionErrors
  <2>1. StatusOf[class] \in {400, 401, 403}
    BY <1>1 DEF SessionErrors, StatusOf
  <2>2. \E w \in SanctionedResponses : w.status = StatusOf[class]
    BY <2>1 DEF SanctionedResponses
  <2>3. Response(class) \in SanctionedResponses
    BY <1>1, <2>2 DEF Response
  <2> QED
    BY <2>3 DEF Refused
<1>2. CASE class \notin SessionErrors
  BY <1>2 DEF Response, Refused, Broken, BetterAuthErrors
<1> QED
  BY <1>1, <1>2

(* A rule's refusal is explained only as a 403 or 404, without a challenge *)
(* (errors.py, judge_refusal).                                             *)
LEMMA ExplainedAsAllowed ==
  ASSUME NEW refusal, JudgeRefusal(refusal) = "none"
  PROVE  RefusedWith(refusal) \in Explained
<1>1. refusal.plain /\ refusal.code \in {403, 404}
  BY DEF JudgeRefusal
<1>2. refusal.headers # "challenge"
  BY DEF JudgeRefusal, FieldBreach
<1> QED
  BY <1>1, <1>2 DEF RefusedWith, Explained

(* What answers an exception is a refusal, however it was raised. *)
LEMMA ExtractIsRefused == ASSUME NEW e PROVE Response(FromExtract(e)) \in Refused
<1>1. FromExtract(e) \in SessionErrors \cup BetterAuthErrors
  BY DEF FromExtract, Honoured, SessionErrors, StatusOf
<1> QED
  BY <1>1, ResponseIsUniform

\* The one verifier asked may also name a refusal of its own.
LEMMA VerifyIsRefused == ASSUME NEW e PROVE Response(FromVerify(e)) \in Refused
<1>1. FromVerify(e) \in SessionErrors \cup BetterAuthErrors
  BY DEF FromVerify, Honoured, SessionErrors, StatusOf
<1> QED
  BY <1>1, ResponseIsUniform

(* A rule may also explain its refusal. *)
LEMMA RuleIsRefused == ASSUME NEW e PROVE FromRule(e) \in Refused \cup Explained
<1>1. Honoured(e, BetterAuthErrors \cup SessionErrors, "NotAuthorized")
        \in SessionErrors \cup BetterAuthErrors
  BY DEF Honoured, SessionErrors, StatusOf
<1> QED
  BY <1>1, ResponseIsUniform, ExplainedAsAllowed DEF FromRule

(* The challenge goes with 401, and only there. *)
LEMMA SanctionedShape ==
  ASSUME NEW w \in SanctionedResponses
  PROVE  /\ w.challenge <=> w.status = 401
         /\ w.status \in {400, 401, 403} /\ w.detail # "explained"
<1>1. CASE w = [status |-> 400, detail |-> "Ambiguous request", challenge |-> FALSE]
  <2>1. w.status = 400
    BY <1>1
  <2>2. ~w.challenge
    BY <1>1
  <2>3. w.detail # "explained"
    BY <1>1
  <2> QED
    BY <2>1, <2>2, <2>3
<1>2. CASE w = [status |-> 401, detail |-> "Not authenticated", challenge |-> TRUE]
  <2>1. w.status = 401
    BY <1>2
  <2>2. w.challenge
    BY <1>2
  <2>3. w.detail # "explained"
    BY <1>2
  <2> QED
    BY <2>1, <2>2, <2>3
<1>3. CASE w = [status |-> 403, detail |-> "Forbidden", challenge |-> FALSE]
  <2>1. w.status = 403
    BY <1>3
  <2>2. ~w.challenge
    BY <1>3
  <2>3. w.detail # "explained"
    BY <1>3
  <2> QED
    BY <2>1, <2>2, <2>3
<1> QED
  BY <1>1, <1>2, <1>3 DEF SanctionedResponses

(* No refusal is mistaken for an answer of another kind. *)
LEMMA AnswersAreApart ==
  /\ Refused \cap (Explained \cup {Undecided, Served, Anonymous}) = {}
  /\ Explained \cap {Undecided, Served, Anonymous} = {}
  /\ Undecided # Served /\ Undecided # Anonymous /\ Served # Anonymous
<1>1. \A w \in Refused : w.status \in {400, 401, 403, 500} /\ w.detail # "explained"
  <2>1. \A w \in SanctionedResponses : w.status \in {400, 401, 403} /\ w.detail # "explained"
    BY SanctionedShape
  <2>2. Broken.status = 500 /\ Broken.detail # "explained"
    BY DEF Broken
  <2> QED
    BY <2>1, <2>2 DEF Refused
<1>2. \A w \in Explained : w.detail = "explained"
  BY DEF Explained
<1>3. /\ Undecided.status = 0 /\ Served.status = 200 /\ Anonymous.status = 200
      /\ Undecided.detail = "none" /\ Served.detail = "session"
      /\ Anonymous.detail = "nobody"
  BY DEF Undecided, Served, Anonymous
<1> QED
  BY <1>1, <1>2, <1>3
-----------------------------------------------------------------------------
\* The routes' types, as the proofs use them.
LEMMA RouteTypes ==
  ASSUME NEW r \in Request
  PROVE  /\ Route[r] \in Seq(Builder) /\ Len(Route[r]) \in Nat \ {0}
         /\ DOMAIN Route[r] = 1 .. Len(Route[r])
         /\ \A i \in DOMAIN Route[r] :
              Route[r][i] \in Builder /\ ModelOf[Route[r][i]] = ModelFor(r)
         /\ ModelFor(r) \in Model /\ r # Nil
<1>1. Route[r] \in Seq(Builder) /\ Route[r] # <<>>
  BY DispatchAssumption
<1>2. Len(Route[r]) \in Nat \ {0} /\ DOMAIN Route[r] = 1 .. Len(Route[r])
  BY <1>1
<1>3. \A i \in DOMAIN Route[r] : Route[r][i] \in Builder
  BY <1>1
<1>4. \A i \in DOMAIN Route[r] : ModelOf[Route[r][i]] = ModelFor(r)
  BY <1>2, DispatchAssumption DEF ModelFor
<1>5. ModelFor(r) \in Model
  BY <1>2, <1>3, DispatchAssumption DEF ModelFor
<1> QED
  BY <1>1, <1>2, <1>3, <1>4, <1>5, DispatchAssumption

\* At the start no callable is cached and no request has arrived.
LEMMA InitInv == Init => Inv
<1> SUFFICES ASSUME Init PROVE Inv
  OBVIOUS
<1>1. BridgeTypes
  BY DEF Init, BridgeTypes
<1>2. FactoryTypes
  BY DEF Init, FactoryTypes, Stages
<1>3. WarningTypes
  BY DEF Init, WarningTypes
<1>4. RequestTypes
  <2>1. presented \in [Request -> SUBSET DOMAIN verifiers]
    BY DEF Init
  <2>2. answer \in [Request -> Answers]
    BY DEF Init, Answers
  <2> QED
    BY <2>1, <2>2 DEF Init, RequestTypes, Places
<1>5. BridgeInv
  BY DEF Init, BridgeInv
<1>6. TablesInv
  BY DispatchAssumption DEF Init, TablesInv
<1>7. ASSUME NEW r \in Request PROVE RequestInv(r)
  <2>1. Fresh(r) /\ pc[r] = "idle" /\ at[r] = 1 /\ rule[r] = "none" /\ answer[r] = Undecided
    BY DEF Init, Fresh, Unasked
  <2>2. Standing(r) /\ Routed(r)
    BY <2>1 DEF Standing, Routed, Fresh, Unasked
  <2>3. Progress(r)
    BY <2>1, RouteTypes DEF Progress
  <2>4. Answered(r)
    BY <2>1, AnswersAreApart DEF Answered
  <2> QED
    BY <2>1, <2>2, <2>3, <2>4 DEF RequestInv, Fresh
<1>8. WarnedInv
  BY DEF Init, WarnedInv, LatchesInv, AdvisesInv
<1> QED
  BY <1>1, <1>2, <1>3, <1>4, <1>5, <1>6, <1>7, <1>8 DEF Inv, Types
-----------------------------------------------------------------------------
(* The dependencies of a route hang off one resolver, whichever threads made them. *)
LEMMA ResolverIsShared ==
  ASSUME Inv, NEW r \in Request, pc[r] # "idle", at[r] \in DOMAIN Route[r]
  PROVE  Resolver(r) = Answerer(r) /\ Resolver(r) \in Builder
<1>1. Route[r][at[r]] \in Builder /\ stage[Route[r][at[r]]] = "done"
      /\ ModelOf[Route[r][at[r]]] = ModelFor(r)
  BY RouteTypes DEF Inv, RequestInv, Routed
<1>2. Dependency(r) # Nil /\ Dependency(r) \in Callable \cup {Nil}
  BY <1>1 DEF Inv, Types, FactoryTypes, TablesInv, Dependency
<1>3. Resolver(r) = Answerer(r)
  BY <1>1, <1>2 DEF Inv, TablesInv, Dependency, Resolver, Answerer
<1> QED
  BY <1>2, <1>3 DEF Resolver, Callable

(* Until its resolver answers, a request has heard nothing and is at its first
   dependency; afterwards it is proved or nobody's, and every dependency hears that. *)
LEMMA NotAskedYet ==
  ASSUME Inv, NEW r \in Request, IsSolving(r), ~IsAsked(r)
  PROVE  Fresh(r) /\ at[r] = 1
<1>1. cached[r][Answerer(r)] = "unasked" /\ Answerer(r) \in Builder
  BY ResolverIsShared DEF IsAsked, IsSolving
<1>2. \A b \in Builder : cached[r][b] = "unasked"
  BY <1>1 DEF Inv, RequestInv, Routed
<1>3. ~Proved(r) /\ ~Nobody(r)
  BY <1>2 DEF Proved, Nobody
<1>4. Fresh(r)
  BY <1>3 DEF Inv, RequestInv, Standing, IsSolving
<1>5. at[r] \in 1 .. Len(Route[r]) + 1 /\ ~(at[r] > 1)
  BY <1>3 DEF Inv, RequestInv, Progress
<1> QED
  BY <1>4, <1>5, RouteTypes

\* Once its resolver has answered, every dependency hears the same of the request.
LEMMA HasHeard ==
  ASSUME Inv, NEW r \in Request, IsSolving(r), IsAsked(r)
  PROVE  /\ cached[r][Resolver(r)] = "session" => Proved(r)
         /\ cached[r][Resolver(r)] # "session" => Nobody(r)
<1>1. Resolver(r) \in Builder /\ cached[r][Resolver(r)] # "unasked"
  BY ResolverIsShared DEF IsAsked, IsSolving
<1>2. ~Fresh(r)
  BY <1>1 DEF Fresh, Unasked
<1>3. Proved(r) \/ Nobody(r)
  BY <1>2 DEF Inv, RequestInv, Standing, IsSolving
<1>4. cached[r][Resolver(r)] \in {"unasked", "nobody", "session"}
  BY <1>1 DEF Inv, Types, RequestTypes
<1> QED
  BY <1>1, <1>3, <1>4 DEF Proved, Nobody

(* A route is solved by a proved request, or by nobody if it asks for no session. *)
LEMMA SolvedIsEarned ==
  ASSUME Inv, NEW r \in Request, IsSolved(r)
  PROVE  Proved(r) \/ (Nobody(r) /\ ~HasSession(r) /\ rule[r] = "none")
<1>1. at[r] = Len(Route[r]) + 1 /\ at[r] > 1
  BY RouteTypes DEF Inv, RequestInv, Progress, IsSolved
<1>2. Proved(r) \/ Nobody(r)
  BY <1>1 DEF Inv, RequestInv, Progress
<1>3. \A i \in DOMAIN Route[r] : Kind[Route[r][i]] = "optional" \/ Proved(r)
  BY <1>1, RouteTypes DEF Inv, RequestInv, Progress
<1>4. ~Proved(r) => ~HasSession(r)
  BY <1>3 DEF HasSession
<1> QED
  BY <1>2, <1>4 DEF Inv, RequestInv, Progress
-----------------------------------------------------------------------------
\* Building, preparing and starting the bridge: no request has arrived yet.
LEMMA BridgeKeeps == ASSUME Inv, Construct \/ Prepare \/ Start PROVE Inv'
<1> USE DEF bridge, tables, calls, warned, position, facts, sight, requests
<1>1. UNCHANGED <<tables, calls, warned, requests>>
  BY DEF Construct, Prepare, Start
<1>2. app # "serving"
  BY DEF Construct, Prepare, Start
<1>3. \A r \in Request : pc[r] = "idle" /\ presented[r] = {}
  BY <1>2 DEF Inv, RequestInv, Routed, Standing, Fresh
<1>4. BridgeTypes'
  <2>1. CASE Construct
    <3>1. verifiers = <<>> /\ prepared = 0
      BY <2>1 DEF Inv, Types, BridgeTypes, BridgeInv, Construct
    <3>2. prepared' = 0 /\ verifiers' \in Offers \cup {<<>>}
          /\ app' \in {"built", "refused"}
      BY <2>1, <3>1 DEF Construct
    <3>3. Len(verifiers') \in Nat
      <4>1. CASE verifiers' \in Offers
        BY <4>1, DispatchAssumption
      <4>2. CASE verifiers' = <<>>
        BY <4>2
      <4> QED
        BY <3>2, <4>1, <4>2
    <3> QED
      BY <3>2, <3>3 DEF BridgeTypes
  <2>2. CASE Prepare
    <3>1. /\ verifiers' = verifiers /\ prepared < Len(verifiers) /\ prepared' = prepared + 1
          /\ app' \in {"built", "failed"}
      BY <2>2 DEF Prepare
    <3>2. prepared \in Nat /\ Len(verifiers) \in Nat
      <4>1. CASE verifiers \in Offers
        BY <4>1, DispatchAssumption DEF Inv, Types, BridgeTypes
      <4>2. CASE verifiers = <<>>
        BY <4>2 DEF Inv, Types, BridgeTypes
      <4> QED
        BY <4>1, <4>2 DEF Inv, Types, BridgeTypes
    <3> QED
      BY <3>1, <3>2 DEF Inv, Types, BridgeTypes
  <2>3. CASE Start
    BY <2>3 DEF Inv, Types, BridgeTypes, Start
  <2> QED
    BY <2>1, <2>2, <2>3
<1>5. BridgeInv'
  BY DEF Construct, Prepare, Start, Inv, BridgeInv
<1>6. FactoryTypes' /\ WarningTypes' /\ TablesInv' /\ WarnedInv'
  BY <1>1 DEF Inv, Types, FactoryTypes, WarningTypes, TablesInv, WarnedInv, LatchesInv,
              AdvisesInv
<1>7. RequestTypes'
  BY <1>1, <1>3 DEF Inv, Types, RequestTypes
<1>8. ASSUME NEW r \in Request PROVE RequestInv(r)'
  BY <1>1, <1>3 DEF Inv, RequestInv, Standing, Routed, Progress, Answered, Fresh, Asking,
                    Several, Proved, Nobody, Unasked, Answerer
<1> QED
  BY <1>4, <1>5, <1>6, <1>7, <1>8 DEF Inv, Types

(* A factory call takes no resolver from a model and no callable from its caller, so *)
(* that what a request heard stays what its resolver said (core.py,                  *)
(* _resolver_for).                                                                   *)
LEMMA FactoriesKeepRequests ==
  ASSUME Inv, UNCHANGED <<bridge, warned, requests>>, NEW r \in Request,
         \A b \in Builder : stage[b] = "done" => stage'[b] = "done",
         \A m \in Model : resolvers[m] # Nil => resolvers'[m] = resolvers[m]
  PROVE  RequestInv(r)'
<1> USE DEF bridge, warned, position, facts, sight, requests
<1>1. Standing(r)' /\ Progress(r)' /\ Answered(r)'
  BY DEF Inv, RequestInv, Standing, Progress, Answered, Fresh, Asking, Several, Proved,
         Nobody, Unasked
<1>2. presented'[r] \subseteq Carries(r)'
  BY DEF Inv, RequestInv, Carries
<1>3. \A b \in Builder : cached'[r][b] # "unasked" => b = Answerer(r)'
  <2> SUFFICES ASSUME NEW b \in Builder, cached[r][b] # "unasked"
               PROVE  b = resolvers'[ModelFor(r)]
    BY DEF Answerer
  <2>1. b = resolvers[ModelFor(r)] /\ b # Nil
    BY DispatchAssumption DEF Inv, RequestInv, Routed, Answerer
  <2> QED
    BY <2>1, RouteTypes
<1>4. Routed(r)'
  BY <1>3, RouteTypes DEF Inv, RequestInv, Routed
<1> QED
  BY <1>1, <1>2, <1>4 DEF RequestInv

\* A factory's four steps keep its tables agreed.
LEMMA FactoriesKeep ==
  ASSUME Inv, NEW b \in Builder,
         LookUp(b) \/ LookUpResolver(b) \/ SetResolver(b) \/ SetCallable(b)
  PROVE  Inv'
<1> USE DEF bridge, tables, calls, warned, position, facts, sight, requests
<1>1. UNCHANGED <<bridge, warned, requests>>
  BY DEF LookUp, LookUpResolver, SetResolver, SetCallable
<1>2. /\ stage[b] # "done" /\ ModelOf[b] \in Model /\ b # Nil /\ Nil \notin Callable
      /\ Kind[b] \in {"required", "optional"}
  BY DispatchAssumption DEF LookUp, LookUpResolver, SetResolver, SetCallable, Callable
<1> DEFINE m == ModelOf[b]
<1>3. /\ FactoryTypes /\ TablesInv
  BY DEF Inv, Types
<1>4. CASE LookUp(b)
  <2>1. Callables(b) \in [Model -> Callable \cup {Nil}]
        /\ (Callables(b)[m] # Nil => Callables(b)[m].on = resolvers[m])
    BY <1>2, <1>3 DEF Callables, FactoryTypes, TablesInv
  <2>2. /\ UNCHANGED <<tables, anchor>>
        /\ \/ stage' = [stage EXCEPT ![b] = "looking"] /\ handed' = handed
           \/ /\ stage' = [stage EXCEPT ![b] = "done"] /\ Callables(b)[m] # Nil
              /\ handed' = [handed EXCEPT ![b] = Callables(b)[m]]
    BY <1>4 DEF LookUp
  <2>3. FactoryTypes'
    BY <1>2, <1>3, <2>1, <2>2 DEF FactoryTypes, Stages
  <2>4. TablesInv'
    BY <1>2, <1>3, <2>1, <2>2 DEF FactoryTypes, TablesInv
  <2>5. \A r \in Request : RequestInv(r)'
    BY <1>1, <1>2, <1>3, <2>2, FactoriesKeepRequests DEF FactoryTypes
  <2> QED
    BY <1>1, <2>3, <2>4, <2>5 DEF Inv, Types, BridgeTypes, WarningTypes, RequestTypes,
       BridgeInv, WarnedInv, LatchesInv, AdvisesInv
<1>5. CASE LookUpResolver(b)
  <2>1. /\ UNCHANGED <<tables, handed>>
        /\ \/ stage' = [stage EXCEPT ![b] = "anchoring"] /\ anchor' = anchor
           \/ /\ stage' = [stage EXCEPT ![b] = "wrapping"] /\ resolvers[m] # Nil
              /\ anchor' = [anchor EXCEPT ![b] = resolvers[m]]
    BY <1>5 DEF LookUpResolver
  <2>2. FactoryTypes'
    BY <1>2, <1>3, <2>1 DEF FactoryTypes, Stages
  <2>3. TablesInv'
    BY <1>2, <1>3, <2>1 DEF FactoryTypes, TablesInv
  <2>4. \A r \in Request : RequestInv(r)'
    BY <1>1, <1>2, <1>3, <2>1, FactoriesKeepRequests DEF FactoryTypes
  <2> QED
    BY <1>1, <2>2, <2>3, <2>4 DEF Inv, Types, BridgeTypes, WarningTypes, RequestTypes,
       BridgeInv, WarnedInv, LatchesInv, AdvisesInv
<1>6. CASE SetResolver(b)
  <2>1. PICK kept \in Builder :
          /\ kept = SetDefault(resolvers, m, b)
          /\ resolvers' = [resolvers EXCEPT ![m] = kept]
          /\ anchor' = [anchor EXCEPT ![b] = kept]
    BY <1>2, <1>3, <1>6 DEF SetResolver, SetDefault, FactoryTypes
  <2>2. /\ stage' = [stage EXCEPT ![b] = "wrapping"]
        /\ UNCHANGED <<required, optional, handed>>
    BY <1>6 DEF SetResolver
  <2>3. kept # Nil /\ (resolvers[m] # Nil => kept = resolvers[m])
    BY <2>1, DispatchAssumption DEF SetDefault
  <2>4. FactoryTypes'
    BY <1>2, <1>3, <2>1, <2>2 DEF FactoryTypes, Stages
  <2>5. \A n \in Model : resolvers[n] # Nil => resolvers'[n] = resolvers[n]
    BY <1>2, <1>3, <2>1, <2>3 DEF FactoryTypes
  <2>6. TablesInv'
    <3>1. \A n \in Model :
            /\ required[n] # Nil => resolvers[n] # Nil
            /\ optional[n] # Nil => resolvers[n] # Nil
      BY <1>2, <1>3, DispatchAssumption DEF FactoryTypes, TablesInv, Callable
    <3>2. \A c \in Builder :
            /\ anchor[c] # Nil => resolvers[ModelOf[c]] # Nil
            /\ handed[c] # Nil => resolvers[ModelOf[c]] # Nil
      BY <1>2, <1>3, DispatchAssumption DEF FactoryTypes, TablesInv, Callable
    <3>3. anchor'[b] = resolvers'[m]
      BY <1>2, <1>3, <2>1 DEF FactoryTypes
    <3>4. \A c \in Builder : ModelOf[c] \in Model
      BY DispatchAssumption
    <3> QED
      BY <1>2, <1>3, <2>1, <2>2, <2>3, <2>5, <3>1, <3>2, <3>3, <3>4
         DEF FactoryTypes, TablesInv
  <2>7. \A r \in Request : RequestInv(r)'
    BY <1>1, <1>2, <1>3, <2>2, <2>5, FactoriesKeepRequests DEF FactoryTypes
  <2> QED
    BY <1>1, <2>4, <2>6, <2>7 DEF Inv, Types, BridgeTypes, WarningTypes, RequestTypes,
       BridgeInv, WarnedInv, LatchesInv, AdvisesInv
<1>7. CASE SetCallable(b)
  <2>1. anchor[b] \in Builder /\ anchor[b] = resolvers[m]
    BY <1>3, <1>7 DEF SetCallable, FactoryTypes, TablesInv
  <2>2. PICK kept \in Callable :
          /\ kept = SetDefault(Callables(b), m, [by |-> b, on |-> anchor[b]])
          /\ handed' = [handed EXCEPT ![b] = kept]
          /\ IF Kind[b] = "required"
             THEN required' = [required EXCEPT ![m] = kept] /\ UNCHANGED optional
             ELSE optional' = [optional EXCEPT ![m] = kept] /\ UNCHANGED required
    BY <1>2, <1>3, <1>7, <2>1
       DEF SetCallable, SetDefault, Callables, Callable, FactoryTypes
  <2>3. stage' = [stage EXCEPT ![b] = "done"] /\ UNCHANGED <<resolvers, anchor>>
    BY <1>7 DEF SetCallable
  <2>4. kept.on = resolvers[m] /\ kept # Nil
    BY <1>2, <1>3, <2>1, <2>2 DEF SetDefault, Callables, TablesInv
  <2>5. FactoryTypes'
    BY <1>2, <1>3, <2>2, <2>3 DEF FactoryTypes, Stages
  <2>6. TablesInv'
    BY <1>2, <1>3, <2>2, <2>3, <2>4 DEF FactoryTypes, TablesInv
  <2>7. \A r \in Request : RequestInv(r)'
    BY <1>1, <1>2, <1>3, <2>3, FactoriesKeepRequests DEF FactoryTypes
  <2> QED
    BY <1>1, <2>5, <2>6, <2>7 DEF Inv, Types, BridgeTypes, WarningTypes, RequestTypes,
       BridgeInv, WarnedInv, LatchesInv, AdvisesInv
<1> QED
  BY <1>4, <1>5, <1>6, <1>7
-----------------------------------------------------------------------------
(* A request's step leaves the others, and what the threads build, as they are. *)
OthersRest(r) ==
  /\ Stays
  /\ \A q \in Request \ {r} :
       /\ pc'[q] = pc[q] /\ at'[q] = at[q] /\ rule'[q] = rule[q] /\ carried'[q] = carried[q]
       /\ cached'[q] = cached[q] /\ presented'[q] = presented[q] /\ proved'[q] = proved[q]
       /\ asked'[q] = asked[q] /\ latch'[q] = latch[q] /\ answer'[q] = answer[q]

\* What is left to show of a request's step is about that request alone.
LEMMA OthersKeep ==
  ASSUME Inv, NEW r \in Request, OthersRest(r), RequestTypes', WarningTypes',
         RequestInv(r)', WarnedInv'
  PROVE  Inv'
<1> USE DEF Stays, bridge, tables, calls
<1>1. BridgeTypes' /\ FactoryTypes' /\ BridgeInv' /\ TablesInv'
  BY DEF OthersRest, Inv, Types, BridgeTypes, FactoryTypes, BridgeInv, TablesInv
<1>2. ASSUME NEW q \in Request \ {r} PROVE RequestInv(q)'
  <2>1. Standing(q)' /\ Progress(q)' /\ Answered(q)'
    BY DEF OthersRest, Inv, RequestInv, Standing, Progress, Answered, Fresh, Asking,
           Several, Proved, Nobody, Unasked
  <2>2. Routed(q)' /\ presented'[q] \subseteq Carries(q)'
    BY DEF OthersRest, Inv, RequestInv, Routed, Answerer, Carries
  <2> QED
    BY <2>1, <2>2 DEF RequestInv
<1> QED
  BY <1>1, <1>2 DEF Inv, Types

\* Most steps touch no latch, and are those of a request that has none.
LEMMA QuietSteps ==
  ASSUME Inv, NEW r \in Request, OthersRest(r), UNCHANGED <<warned, latch>>,
         pc[r] \notin {"firing", "done"}, pc'[r] # "firing",
         RequestTypes', RequestInv(r)'
  PROVE  Inv'
<1>1. WarningTypes' /\ LatchesInv'
  BY DEF Inv, Types, WarningTypes, WarnedInv, LatchesInv, warned
<1>2. latch[r] = Nil
  BY DEF Inv, WarnedInv, AdvisesInv
<1>3. AdvisesInv'
  BY <1>2 DEF Inv, WarnedInv, AdvisesInv, OthersRest, warned
<1> QED
  BY <1>1, <1>3, OthersKeep DEF WarnedInv

\* An answer ends a request, and changes nothing else.
LEMMA EndsWell ==
  ASSUME Inv, NEW r \in Request, NEW w \in Answers, w # Undecided,
         w \in Explained => Proved(r), End(r, w),
         Stays, UNCHANGED <<at, facts, cached, sight, latch, warned>>,
         pc[r] \in {"solving", "verifying", "advising", "ruling"}
  PROVE  Inv' /\ OthersRest(r) /\ answer'[r] = w
<1> USE DEF facts, sight
<1>1. /\ pc' = [pc EXCEPT ![r] = "done"] /\ answer' = [answer EXCEPT ![r] = w]
      /\ RequestTypes
  BY DEF End, Inv, Types
<1>2. pc'[r] = "done" /\ answer'[r] = w /\ OthersRest(r)
  BY <1>1 DEF RequestTypes, OthersRest
<1>3. RequestTypes'
  BY <1>1 DEF RequestTypes, Places, Stays, bridge
<1>4. Standing(r)'
  BY <1>2 DEF Inv, RequestInv, Standing, Fresh, Asking, Several, Proved, Nobody, Unasked
<1>5. Routed(r)' /\ Progress(r)' /\ presented'[r] \subseteq Carries(r)'
  BY <1>2 DEF Inv, RequestInv, Routed, Progress, Proved, Nobody, Answerer, Carries,
              Stays, bridge, tables, calls
<1>6. Answered(r)'
  BY <1>2 DEF Answered, Proved
<1> QED
  BY <1>2, <1>3, <1>4, <1>5, <1>6, QuietSteps DEF RequestInv

\* A refusal is an answer, and explains nothing.
LEMMA RefusedIsAnswered ==
  ASSUME NEW w \in Refused PROVE w \in Answers /\ w # Undecided /\ w \notin Explained
BY AnswersAreApart DEF Answers

(* The steps that refuse a request before any verifier or rule has been asked. *)
Refusing(r) == ExtractFails(r) \/ Missing(r) \/ UnusableId(r)

\* Each of them ends the request with a refusal and changes nothing else.
LEMMA RefusalsEnd ==
  ASSUME NEW r \in Request, Refusing(r)
  PROVE  /\ Stays /\ UNCHANGED <<at, facts, cached, sight, latch, warned>>
         /\ \E w \in Refused : End(r, w)
         /\ pc[r] = "solving"
<1>1. CASE ExtractFails(r)
  <2>1. Response("ConfigurationError") \in Refused
    BY ResponseIsUniform DEF BetterAuthErrors
  <2> QED
    BY <1>1, <2>1, ExtractIsRefused DEF ExtractFails, Refuse, IsSolving
<1>2. CASE Missing(r)
  <2>1. Response("MissingCredential") \in Refused
    BY ResponseIsUniform DEF SessionErrors, StatusOf
  <2> QED
    BY <1>2, <2>1 DEF Missing, Refuse, IsSolving
<1>3. CASE UnusableId(r)
  <2>1. Response("NotAuthorized") \in Refused
    BY ResponseIsUniform DEF SessionErrors, StatusOf
  <2> QED
    BY <1>3, <2>1 DEF UnusableId, Refuse, IsSolved
<1> QED
  BY <1>1, <1>2, <1>3 DEF Refusing

\* So does a verifier that raises, or that breaks its protocol.
LEMMA BreachesEnd ==
  ASSUME NEW r \in Request, VerifyFails(r)
  PROVE  /\ Stays /\ UNCHANGED <<at, facts, cached, sight, latch, warned>>
         /\ \E w \in Refused : End(r, w)
         /\ pc[r] = "verifying"
<1>1. Response("ConfigurationError") \in Refused
  BY ResponseIsUniform DEF BetterAuthErrors
<1> QED
  BY <1>1, VerifyIsRefused DEF VerifyFails, OnBreach, Refuse

\* A rule serves the request, refuses it, or explains why it is refused.
LEMMA RulesEnd ==
  ASSUME NEW r \in Request, JudgePredicate(r) \/ Granted(r)
  PROVE  /\ Stays /\ UNCHANGED <<at, facts, cached, sight, latch, warned>>
         /\ \E w \in Refused \cup Explained \cup {Served} : End(r, w)
         /\ (IsSolved(r) /\ rule[r] = "predicate") \/ pc[r] = "ruling"
<1>1. /\ Response("ConfigurationError") \in Refused
      /\ Response("NotAuthorized") \in Refused
  BY ResponseIsUniform DEF BetterAuthErrors, SessionErrors, StatusOf
<1>2. CASE JudgePredicate(r)
  BY <1>1, <1>2, RuleIsRefused DEF JudgePredicate, Refuse
<1>3. CASE Granted(r)
  BY <1>1, <1>3, RuleIsRefused DEF Granted, Refuse
<1> QED
  BY <1>2, <1>3

\* What a rule judges was proved.
LEMMA RulesJudgeTheProved ==
  ASSUME Inv, NEW r \in Request, (IsSolved(r) /\ rule[r] # "none") \/ pc[r] = "ruling"
  PROVE  Proved(r)
BY SolvedIsEarned DEF Inv, RequestInv, Standing
-----------------------------------------------------------------------------
\* One step of a request for each of its actions.
LEMMA EndingsKeep ==
  ASSUME Inv, NEW r \in Request,
         Refusing(r) \/ VerifyFails(r) \/ Serve(r) \/ JudgePredicate(r) \/ Granted(r)
  PROVE  Inv'
<1>1. CASE Refusing(r)
  BY <1>1, RefusalsEnd, RefusedIsAnswered, EndsWell
<1>2. CASE VerifyFails(r)
  BY <1>2, BreachesEnd, RefusedIsAnswered, EndsWell
<1>3. CASE Serve(r)
  <2>1. PICK w \in {Served, Anonymous} : End(r, w)
    BY <1>3 DEF Serve
  <2>2. w \in Answers /\ w # Undecided /\ w \notin Explained
    BY AnswersAreApart DEF Answers
  <2> QED
    BY <1>3, <2>1, <2>2, EndsWell DEF Serve, IsSolved
<1>4. CASE JudgePredicate(r) \/ Granted(r)
  <2>1. PICK w \in Refused \cup Explained \cup {Served} : End(r, w)
    BY <1>4, RulesEnd
  <2>2. w \in Answers /\ w # Undecided
    BY AnswersAreApart DEF Answers
  <2>3. Proved(r) /\ pc[r] \in {"solving", "ruling"}
    BY <1>4, RulesEnd, RulesJudgeTheProved DEF IsSolved
  <2> QED
    BY <1>4, <2>1, <2>2, <2>3, RulesEnd, EndsWell
<1> QED
  BY <1>1, <1>2, <1>3, <1>4

\* A request arrives only where its route's factory calls have returned.
LEMMA ArriveKeeps == ASSUME Inv, NEW r \in Request, Arrive(r) PROVE Inv'
<1> USE DEF sight
<1>1. /\ pc' = [pc EXCEPT ![r] = "solving"] /\ pc[r] = "idle" /\ app = "serving"
      /\ \A i \in DOMAIN Route[r] : stage[Route[r][i]] = "done"
      /\ UNCHANGED <<at, cached, sight, latch, warned, answer>> /\ Stays
  BY DEF Arrive
<1>2. PICK c \in Carried : carried' = [carried EXCEPT ![r] = c]
  BY DEF Arrive
<1>3. PICK g \in {"none", "predicate", "membership"} :
        (g # "none" => HasSession(r)) /\ rule' = [rule EXCEPT ![r] = g]
  BY DEF Arrive
<1>4. RequestTypes
  BY DEF Inv, Types
<1>5. pc'[r] = "solving" /\ rule'[r] = g /\ OthersRest(r)
  BY <1>1, <1>2, <1>3, <1>4 DEF RequestTypes, OthersRest
<1>6. RequestTypes'
  BY <1>1, <1>2, <1>3, <1>4 DEF RequestTypes, Places, Stays, bridge
<1>7. Fresh(r) /\ Fresh(r)'
  BY <1>1 DEF Inv, RequestInv, Standing, Fresh, Unasked
<1>8. Standing(r)' /\ Answered(r)'
  BY <1>1, <1>5, <1>7 DEF Inv, RequestInv, Standing, Answered, Proved
<1>9. Routed(r)' /\ presented'[r] \subseteq Carries(r)'
  BY <1>1, <1>7 DEF Inv, RequestInv, Routed, Answerer, Fresh, Unasked, Stays, bridge,
                    tables, calls
<1>10. Progress(r)'
  BY <1>1, <1>3, <1>5 DEF Inv, RequestInv, Progress, Proved, Nobody
<1> QED
  BY <1>1, <1>5, <1>6, <1>8, <1>9, <1>10, QuietSteps DEF RequestInv

\* The resolver's own steps start from a request that heard nothing.
LEMMA SeesNoneKeeps ==
  ASSUME Inv, NEW r \in Request, SeesNone(r)
  PROVE  Inv' /\ OthersRest(r) /\ Fresh(r) /\ Nobody(r)'
<1> USE DEF facts, sight, position
<1>1. /\ cached' = [cached EXCEPT ![r][Resolver(r)] = "nobody"] /\ pc[r] = "solving"
      /\ UNCHANGED <<position, facts, sight, latch, warned, answer>> /\ Stays
  BY DEF SeesNone, IsSolving
<1>2. Fresh(r) /\ at[r] = 1 /\ Resolver(r) = Answerer(r) /\ Resolver(r) \in Builder
  BY NotAskedYet, ResolverIsShared DEF SeesNone, IsSolving
<1>3. RequestTypes
  BY DEF Inv, Types
<1>4. /\ cached'[r][Resolver(r)] = "nobody"
      /\ \A b \in Builder : b # Resolver(r) => cached'[r][b] = "unasked"
  BY <1>1, <1>2, <1>3 DEF RequestTypes, Fresh, Unasked
<1>5. OthersRest(r)
  BY <1>1, <1>3 DEF RequestTypes, OthersRest
<1>6. RequestTypes'
  BY <1>1, <1>2, <1>3 DEF RequestTypes, Stays, bridge
<1>7. Nobody(r)'
  BY <1>1, <1>2, <1>4 DEF Fresh, Nobody
<1>8. Standing(r)' /\ Answered(r)'
  BY <1>1, <1>2, <1>7 DEF Inv, RequestInv, Standing, Answered, Fresh, Proved
<1>9. Routed(r)' /\ presented'[r] \subseteq Carries(r)'
  BY <1>1, <1>2, <1>4 DEF Inv, RequestInv, Routed, Answerer, Fresh, Stays, bridge,
                          tables, calls
<1>10. Progress(r)'
  BY <1>1, <1>2, <1>7, RouteTypes DEF Inv, RequestInv, Progress
<1> QED
  BY <1>1, <1>5, <1>6, <1>8, <1>9, <1>10, <1>2, <1>7, QuietSteps DEF RequestInv

\* One credential: its verifier is asked, for the first time.
LEMMA SeesOneKeeps ==
  ASSUME Inv, NEW r \in Request, SeesOne(r)
  PROVE  Inv' /\ OthersRest(r) /\ Fresh(r) /\ Asking(r)'
<1> USE DEF facts
<1>1. /\ presented' = [presented EXCEPT ![r] = Carries(r)]
      /\ asked' = [asked EXCEPT ![r] = @ + 1] /\ pc' = [pc EXCEPT ![r] = "verifying"]
      /\ pc[r] = "solving" /\ Cardinality(Carries(r)) = 1
      /\ UNCHANGED <<at, facts, cached, proved, latch, warned, answer>> /\ Stays
  BY DEF SeesOne, IsSolving
<1>2. Fresh(r) /\ at[r] = 1
  BY NotAskedYet DEF SeesOne
<1>3. RequestTypes
  BY DEF Inv, Types
<1>4. /\ presented'[r] = Carries(r) /\ asked'[r] = 1 /\ pc'[r] = "verifying"
      /\ OthersRest(r)
  BY <1>1, <1>2, <1>3 DEF RequestTypes, OthersRest, Fresh
<1>5. RequestTypes'
  BY <1>1, <1>3 DEF RequestTypes, Places, Stays, bridge, Carries
<1>6. Asking(r)'
  BY <1>1, <1>2, <1>4 DEF Fresh, Asking, Unasked
<1>7. Standing(r)' /\ Answered(r)'
  BY <1>1, <1>2, <1>4, <1>6 DEF Inv, RequestInv, Standing, Answered, Fresh, Proved
<1>8. Routed(r)' /\ presented'[r] \subseteq Carries(r)'
  BY <1>1, <1>4 DEF Inv, RequestInv, Routed, Answerer, Carries, Stays, bridge, tables, calls
<1>9. Progress(r)'
  BY <1>1, <1>2, RouteTypes DEF Inv, RequestInv, Progress
<1> QED
  BY <1>1, <1>4, <1>5, <1>7, <1>8, <1>9, <1>2, <1>6, QuietSteps DEF RequestInv

\* Several: no verifier is asked.
LEMMA SeesSeveralKeeps ==
  ASSUME Inv, NEW r \in Request, SeesSeveral(r)
  PROVE  Inv' /\ OthersRest(r) /\ Fresh(r) /\ Several(r)' /\ answer'[r] \in Refused
<1> USE DEF facts
<1>1. PICK w \in Refused : w = Response("AmbiguousCredentials")
  BY ResponseIsUniform DEF SessionErrors, StatusOf
<1>2. /\ presented' = [presented EXCEPT ![r] = Carries(r)] /\ Cardinality(Carries(r)) > 1
      /\ pc' = [pc EXCEPT ![r] = "done"] /\ answer' = [answer EXCEPT ![r] = w]
      /\ pc[r] = "solving"
      /\ UNCHANGED <<at, facts, cached, proved, asked, latch, warned>> /\ Stays
  BY <1>1 DEF SeesSeveral, Refuse, End, IsSolving
<1>3. Fresh(r) /\ at[r] = 1
  BY NotAskedYet DEF SeesSeveral
<1>4. RequestTypes /\ w \in Answers /\ w # Undecided /\ w \notin Explained
  BY RefusedIsAnswered DEF Inv, Types
<1>5. /\ presented'[r] = Carries(r) /\ pc'[r] = "done" /\ answer'[r] = w
      /\ OthersRest(r)
  BY <1>2, <1>4 DEF RequestTypes, OthersRest
<1>6. RequestTypes'
  BY <1>2, <1>4 DEF RequestTypes, Places, Stays, bridge, Carries
<1>7. Several(r)'
  BY <1>2, <1>3, <1>5 DEF Fresh, Several, Unasked
<1>8. Standing(r)' /\ Answered(r)'
  BY <1>4, <1>5, <1>7 DEF Standing, Answered
<1>9. Routed(r)' /\ presented'[r] \subseteq Carries(r)'
  BY <1>2, <1>5 DEF Inv, RequestInv, Routed, Answerer, Carries, Stays, bridge, tables, calls
<1>10. Progress(r)'
  BY <1>2, <1>3, RouteTypes DEF Inv, RequestInv, Progress
<1> QED
  BY <1>2, <1>5, <1>6, <1>8, <1>9, <1>10, <1>3, <1>7, QuietSteps DEF RequestInv
\* The one verifier asked proves the request, to every dependency of its route.
LEMMA AcceptsKeeps ==
  ASSUME Inv, NEW r \in Request, Accepts(r)
  PROVE  Inv' /\ OthersRest(r) /\ Asking(r) /\ Proved(r)'
<1> USE DEF facts
<1>1. /\ cached' = [cached EXCEPT ![r][Resolver(r)] = "session"]
      /\ proved' = [proved EXCEPT ![r] = TRUE] /\ pc' = [pc EXCEPT ![r] = "solving"]
      /\ pc[r] = "verifying"
      /\ UNCHANGED <<at, facts, presented, asked, latch, warned, answer>> /\ Stays
  BY DEF Accepts
<1>2. Asking(r)
  BY <1>1 DEF Inv, RequestInv, Standing
<1>3. at[r] = 1
  BY <1>2, RouteTypes DEF Inv, RequestInv, Progress, Asking, Unasked, Proved, Nobody
<1>4. Resolver(r) = Answerer(r) /\ Resolver(r) \in Builder
  BY <1>1, <1>3, RouteTypes, ResolverIsShared
<1>5. RequestTypes
  BY DEF Inv, Types
<1>6. /\ cached'[r][Resolver(r)] = "session"
      /\ \A b \in Builder : b # Resolver(r) => cached'[r][b] = "unasked"
  BY <1>1, <1>2, <1>4, <1>5 DEF RequestTypes, Asking, Unasked
<1>7. pc'[r] = "solving" /\ proved'[r] = TRUE /\ OthersRest(r)
  BY <1>1, <1>5 DEF RequestTypes, OthersRest
<1>8. RequestTypes'
  BY <1>1, <1>4, <1>5 DEF RequestTypes, Places, Stays, bridge
<1>9. Proved(r)'
  <2>1. \A b \in Builder : cached'[r][b] # "nobody"
    BY <1>6
  <2>2. Cardinality(presented'[r]) = 1 /\ asked'[r] = 1
    BY <1>1, <1>2 DEF Asking
  <2> QED
    BY <1>4, <1>6, <1>7, <2>1, <2>2 DEF Proved
<1>10. Standing(r)' /\ Answered(r)'
  BY <1>1, <1>7, <1>9 DEF Inv, RequestInv, Standing, Answered
<1>11. Routed(r)' /\ presented'[r] \subseteq Carries(r)'
  BY <1>1, <1>4, <1>6, <1>7 DEF Inv, RequestInv, Routed, Answerer, Carries, Stays, bridge,
                                tables, calls
<1>12. Progress(r)'
  BY <1>1, <1>3, <1>9 DEF Inv, RequestInv, Progress
<1> QED
  BY <1>1, <1>7, <1>8, <1>10, <1>11, <1>12, <1>2, <1>9, QuietSteps DEF RequestInv

\* A dependency is passed by a proved request, or is optional.
LEMMA SolvedKeeps == ASSUME Inv, NEW r \in Request, Solved(r) PROVE Inv'
<1> USE DEF facts, sight
<1>1. /\ at' = [at EXCEPT ![r] = @ + 1] /\ pc[r] = "solving" /\ at[r] \in DOMAIN Route[r]
      /\ Kind[Route[r][at[r]]] = "optional" \/ cached[r][Resolver(r)] = "session"
      /\ UNCHANGED <<pc, facts, cached, sight, latch, warned, answer>> /\ Stays
  BY DEF Solved, IsSolving, MayPass
<1>2. /\ cached[r][Resolver(r)] = "session" => Proved(r)
      /\ Proved(r) \/ Nobody(r)
  BY HasHeard DEF Solved
<1>3. RequestTypes
  BY DEF Inv, Types
<1>4. at'[r] = at[r] + 1 /\ OthersRest(r)
  BY <1>1, <1>3 DEF RequestTypes, OthersRest
<1>5. RequestTypes'
  BY <1>1, <1>3 DEF RequestTypes, Stays, bridge
<1>6. Standing(r)' /\ Answered(r)' /\ (Proved(r)' <=> Proved(r)) /\ (Nobody(r)' <=> Nobody(r))
  BY <1>1 DEF Inv, RequestInv, Standing, Answered, Fresh, Asking, Several, Proved, Nobody,
              Unasked
<1>7. Routed(r)' /\ presented'[r] \subseteq Carries(r)'
  BY <1>1 DEF Inv, RequestInv, Routed, Answerer, Carries, Stays, bridge, tables, calls
<1>8. Progress(r)'
  <2>1. at'[r] \in 1 .. Len(Route[r]) + 1
    BY <1>1, <1>4, RouteTypes
  <2>2. \A i \in DOMAIN Route[r] : i < at'[r] => i < at[r] \/ i = at[r]
    BY <1>3, <1>4, RouteTypes DEF RequestTypes
  <2>3. \A i \in DOMAIN Route[r] :
          i < at'[r] => Kind[Route[r][i]] = "optional" \/ Proved(r)
    BY <1>1, <1>2, <2>2 DEF Inv, RequestInv, Progress
  <2>4. rule'[r] # "none" => HasSession(r)
    BY <1>1 DEF Inv, RequestInv, Progress
  <2> QED
    BY <1>2, <1>6, <2>1, <2>3, <2>4 DEF Progress
<1> QED
  BY <1>1, <1>4, <1>5, <1>6, <1>7, <1>8, QuietSteps DEF RequestInv

\* A user that does not parse, and a membership that is looked up: only the place changes.
LEMMA PlacesKeep ==
  ASSUME Inv, NEW r \in Request, ParseFails(r) \/ LookUpMember(r)
  PROVE  Inv'
<1> USE DEF facts, sight
<1>1. PICK place \in {"advising", "ruling"} :
        /\ pc' = [pc EXCEPT ![r] = place]
        /\ place = "advising" => pc[r] = "verifying"
        /\ place = "ruling" => pc[r] = "solving" /\ Proved(r)
  BY RulesJudgeTheProved DEF ParseFails, LookUpMember, IsSolved
<1>2. /\ UNCHANGED <<at, facts, cached, sight, latch, warned, answer>> /\ Stays
      /\ pc[r] \in {"verifying", "solving"}
  BY DEF ParseFails, LookUpMember, IsSolved
<1>3. RequestTypes
  BY DEF Inv, Types
<1>4. pc'[r] = place /\ OthersRest(r)
  BY <1>1, <1>2, <1>3 DEF RequestTypes, OthersRest
<1>5. RequestTypes'
  BY <1>1, <1>2, <1>3 DEF RequestTypes, Places, Stays, bridge
<1>6. Standing(r)' /\ Answered(r)'
  BY <1>1, <1>2, <1>4 DEF Inv, RequestInv, Standing, Answered, Asking, Proved, Unasked
<1>7. Routed(r)' /\ Progress(r)' /\ presented'[r] \subseteq Carries(r)'
  BY <1>2 DEF Inv, RequestInv, Routed, Progress, Proved, Nobody, Answerer, Carries, Stays,
              bridge, tables, calls
<1> QED
  BY <1>2, <1>4, <1>5, <1>6, <1>7, QuietSteps DEF RequestInv

(* The first request of a model to miss a field sets its latch; the others take it *)
(* (once.py, fire).                                                                *)
LEMMA FireKeyKeeps == ASSUME Inv, NEW r \in Request, FireKey(r) PROVE Inv'
<1> USE DEF facts, sight
<1> DEFINE m == ModelFor(r)
           kept == SetDefault(latches, m, r)
<1>1. /\ latches' = [latches EXCEPT ![m] = kept] /\ latch' = [latch EXCEPT ![r] = kept]
      /\ pc' = [pc EXCEPT ![r] = "firing"] /\ pc[r] = "advising"
      /\ UNCHANGED <<at, facts, cached, sight, fired, warnings, answer>> /\ Stays
  BY DEF FireKey
<1>2. /\ m \in Model /\ r # Nil /\ RequestTypes /\ WarningTypes /\ LatchesInv /\ AdvisesInv
      /\ \A q \in Request : ModelFor(q) \in Model /\ q # Nil
  BY RouteTypes DEF Inv, Types, WarnedInv
<1>3. /\ kept \in Request /\ kept # Nil /\ ModelFor(kept) = m
      /\ latches[m] # Nil => kept = latches[m]
      /\ latches[m] = Nil => kept = r
  BY <1>2 DEF SetDefault, WarningTypes, LatchesInv
<1> HIDE DEF kept
<1>4. OthersRest(r) /\ pc'[r] = "firing" /\ latch'[r] = kept /\ latches'[m] = kept
  BY <1>1, <1>2 DEF RequestTypes, WarningTypes, OthersRest
<1>5. RequestTypes' /\ WarningTypes'
  BY <1>1, <1>2, <1>3 DEF RequestTypes, WarningTypes, Places, Stays, bridge
<1>6. LatchesInv'
  <2>1. ASSUME latches[m] = Nil PROVE r \notin fired
    BY <1>2, <2>1 DEF LatchesInv
  <2>2. \A n \in Model : latches'[n] # Nil => ModelFor(latches'[n]) = n
    BY <1>1, <1>2, <1>3 DEF LatchesInv, WarningTypes
  <2>3. Nil \notin fired
    BY <1>2 DEF WarningTypes
  <2>4. \A n \in Model : latches'[n] \in fired <=> latches[n] \in fired
    BY <1>1, <1>2, <1>3, <2>1, <2>3 DEF WarningTypes
  <2>5. \A n \in Model : warnings'[n] = IF latches'[n] \in fired' THEN 1 ELSE 0
    BY <1>1, <1>2, <2>4 DEF LatchesInv
  <2>6. \A q \in fired : latches'[ModelFor(q)] = q
    BY <1>1, <1>2, <1>3 DEF LatchesInv, WarningTypes
  <2> QED
    BY <1>1, <2>2, <2>5, <2>6 DEF LatchesInv
<1>7. AdvisesInv'
  <2>1. ASSUME NEW q \in Request, latch[q] # Nil
        PROVE  latches'[ModelFor(q)] = latches[ModelFor(q)]
    BY <1>1, <1>2, <1>3, <2>1 DEF AdvisesInv, WarningTypes
  <2>2. ASSUME NEW q \in Request \ {r} PROVE latch'[q] = latch[q] /\ pc'[q] = pc[q]
    BY <1>4 DEF OthersRest
  <2> QED
    BY <1>1, <1>2, <1>3, <1>4, <2>1, <2>2 DEF AdvisesInv
<1>8. Standing(r)' /\ Answered(r)'
  BY <1>1, <1>4 DEF Inv, RequestInv, Standing, Answered, Asking, Unasked, Proved
<1>9. Routed(r)' /\ Progress(r)' /\ presented'[r] \subseteq Carries(r)'
  BY <1>1 DEF Inv, RequestInv, Routed, Progress, Proved, Nobody, Answerer, Carries, Stays,
              bridge, tables, calls
<1> QED
  BY <1>4, <1>5, <1>6, <1>7, <1>8, <1>9, OthersKeep DEF RequestInv, WarnedInv

(* A latch warns once, whichever of the threads that share it is first (once.py). *)
LEMMA FireKeeps ==
  ASSUME Inv, NEW r \in Request, Fire(r)
  PROVE  Inv' /\ OthersRest(r) /\ answer'[r] \in Refused
<1> USE DEF facts, sight
<1> DEFINE m == ModelFor(r)
           key == latch[r]
<1>1. PICK w \in Refused : w = Response("InvalidCredential")
  BY ResponseIsUniform DEF SessionErrors, StatusOf
<1>2. /\ fired' = fired \cup {key}
      /\ warnings' = IF key \in fired THEN warnings ELSE [warnings EXCEPT ![m] = @ + 1]
      /\ pc' = [pc EXCEPT ![r] = "done"] /\ answer' = [answer EXCEPT ![r] = w]
      /\ pc[r] = "firing"
      /\ UNCHANGED <<at, facts, cached, sight, latches, latch>> /\ Stays
  BY <1>1 DEF Fire, Refuse, End
<1>3. /\ m \in Model /\ RequestTypes /\ WarningTypes /\ LatchesInv /\ AdvisesInv
      /\ w \in Answers /\ w # Undecided /\ w \notin Explained
  BY RouteTypes, RefusedIsAnswered DEF Inv, Types, WarnedInv
<1>4. key \in Request /\ key = latches[m] /\ ModelFor(key) = m
  BY <1>2, <1>3 DEF AdvisesInv, LatchesInv, WarningTypes
<1>5. OthersRest(r) /\ pc'[r] = "done" /\ answer'[r] = w
  BY <1>2, <1>3 DEF RequestTypes, OthersRest
<1>6. RequestTypes' /\ WarningTypes'
  BY <1>2, <1>3, <1>4 DEF RequestTypes, WarningTypes, Places, Stays, bridge
<1>7. LatchesInv'
  <2>1. \A n \in Model : latches[n] = key => n = m
    BY <1>3, <1>4, RouteTypes DEF LatchesInv
  <2>2. ASSUME NEW n \in Model
        PROVE  warnings'[n] = IF latches[n] \in fired' THEN 1 ELSE 0
    <3>1. CASE n = m
      <4>1. warnings[m] = IF key \in fired THEN 1 ELSE 0
        BY <1>3, <1>4 DEF LatchesInv
      <4>2. warnings'[m] = 1
        BY <1>2, <1>3, <4>1 DEF WarningTypes
      <4> QED
        BY <1>2, <1>4, <3>1, <4>2
    <3>2. CASE n # m
      <4>1. warnings'[n] = warnings[n] /\ latches[n] # key
        BY <1>2, <1>3, <2>1, <3>2 DEF WarningTypes
      <4> QED
        BY <1>2, <1>3, <4>1 DEF LatchesInv
    <3> QED
      BY <3>1, <3>2
  <2> QED
    BY <1>2, <1>3, <1>4, <2>2 DEF LatchesInv
<1>8. AdvisesInv'
  <2>1. ASSUME NEW q \in Request \ {r} PROVE latch'[q] = latch[q] /\ pc'[q] = pc[q]
    BY <1>5 DEF OthersRest
  <2> QED
    BY <1>2, <1>3, <1>4, <1>5, <2>1 DEF AdvisesInv
<1>9. Standing(r)' /\ Answered(r)'
  BY <1>2, <1>3, <1>5 DEF Inv, RequestInv, Standing, Answered, Asking, Unasked
<1>10. Routed(r)' /\ Progress(r)' /\ presented'[r] \subseteq Carries(r)'
  BY <1>2 DEF Inv, RequestInv, Routed, Progress, Proved, Nobody, Answerer, Carries, Stays,
              bridge, tables, calls
<1> QED
  BY <1>5, <1>6, <1>7, <1>8, <1>9, <1>10, OthersKeep DEF RequestInv, WarnedInv

\* Every step keeps the invariant.
LEMMA NextInv == Inv /\ [Next]_vars => Inv'
<1>1. CASE Next
  BY <1>1, BridgeKeeps, FactoriesKeep, EndingsKeep, ArriveKeeps, SeesNoneKeeps, SeesOneKeeps,
     SeesSeveralKeeps, AcceptsKeeps, SolvedKeeps, PlacesKeep, FireKeyKeeps, FireKeeps
     DEF Next, Refusing
<1>2. CASE UNCHANGED vars
  BY <1>2 DEF vars, bridge, tables, calls, warned, requests, position, facts, sight, Inv,
     Types, BridgeTypes, FactoryTypes, WarningTypes, RequestTypes, BridgeInv, TablesInv,
     RequestInv, Standing, Routed, Progress, Answered, Fresh, Asking, Several, Proved,
     Nobody, Unasked, Answerer, Carries, WarnedInv, LatchesInv, AdvisesInv
<1> QED
  BY <1>1, <1>2
-----------------------------------------------------------------------------
(* The invariant holds of every behaviour. *)
LEMMA AlwaysInv == Spec => []Inv
BY InitInv, NextInv, PTL DEF Spec

(* Every variable of the dispatcher keeps to its type, and a factory call that has *)
(* returned has handed out a callable.                                             *)
THEOREM DispatchTypeCorrect == Spec => []TypeOK
<1>1. Inv => TypeOK
  <2> SUFFICES ASSUME Inv PROVE TypeOK
    OBVIOUS
  <2>1. BridgeTypes /\ FactoryTypes /\ WarningTypes /\ RequestTypes /\ TablesInv
    BY DEF Inv, Types
  <2>2. {required, optional} \subseteq [Model -> [by : Builder, on : Builder] \cup {Nil}]
    BY <2>1 DEF FactoryTypes, Callable
  <2>3. {latches[m] : m \in Model} \cup {latch[r] : r \in Request} \cup fired
          \subseteq Request \cup {Nil}
    BY <2>1 DEF WarningTypes
  <2>4. \A b \in Builder : stage[b] = "done" => handed[b] # Nil
    BY <2>1 DEF TablesInv
  <2>5. /\ resolvers \in [Model -> Builder \cup {Nil}]
        /\ stage \in [Builder -> Stages] /\ anchor \in [Builder -> Builder \cup {Nil}]
        /\ handed \in [Builder -> [by : Builder, on : Builder] \cup {Nil}]
        /\ warnings \in [Model -> Nat]
    BY <2>1 DEF FactoryTypes, WarningTypes, Callable
  <2> QED
    BY <2>1, <2>2, <2>3, <2>4, <2>5 DEF TypeOK, BridgeTypes, RequestTypes
<1> QED
  BY <1>1, AlwaysInv, PTL

(* A request is verified at most once, for any number of dependencies on its route *)
(* and any threads that raced to build them (core.py, current_session).            *)
THEOREM RequestsAreVerifiedOnce == Spec => []VerifiedOnce
<1>1. Inv => VerifiedOnce
  <2> SUFFICES ASSUME Inv, NEW r \in Request PROVE asked[r] <= 1
    BY DEF VerifiedOnce
  <2>1. pc[r] \in Places
    BY DEF Inv, Types, RequestTypes
  <2>2. asked[r] \in {0, 1}
    BY <2>1 DEF Inv, RequestInv, Standing, Places, Fresh, Asking, Several, Proved, Nobody
  <2> QED
    BY <2>2
<1> QED
  BY <1>1, AlwaysInv, PTL

(* Verifiers that a bridge was built of read different credentials, so that a *)
(* request is found by no more verifiers than it carries credentials          *)
(* (core.py, _reject_collision).                                              *)
THEOREM CredentialsHaveOneReader == Spec => []OneReaderPerCredential
<1>1. Inv => OneReaderPerCredential
  <2> SUFFICES ASSUME Inv, NEW r \in Request
               PROVE  Cardinality(presented[r]) <= Cardinality(carried[r])
    BY DEF OneReaderPerCredential
  <2> DEFINE credential == [i \in presented[r] |-> Credential(verifiers[i].source)]
  <2>1. presented[r] \subseteq Carries(r)
    BY DEF Inv, RequestInv
  <2>2. credential \in [presented[r] -> carried[r]]
    BY <2>1 DEF Carries
  <2>3. \A i, j \in presented[r] : credential[i] = credential[j] => i = j
    <3> SUFFICES ASSUME NEW i \in presented[r], NEW j \in presented[r], i # j
                 PROVE  credential[i] # credential[j]
      OBVIOUS
    <3>1. i \in DOMAIN verifiers /\ j \in DOMAIN verifiers
      BY <2>1 DEF Carries
    <3>2. Validated(verifiers)
      BY <3>1 DEF Inv, BridgeInv
    <3>3. CollisionKey(verifiers[i].source) # CollisionKey(verifiers[j].source)
      BY <3>1, <3>2 DEF Validated
    <3> QED
      BY <3>3 DEF CollisionKey, Credential
  <2>4. credential \in Injection(presented[r], carried[r])
    BY <2>2, <2>3 DEF Injection, IsInjective
  <2>5. IsFiniteSet(carried[r])
    BY FS_EmptySet, DispatchAssumption DEF Inv, Types, RequestTypes
  <2> QED
    BY <2>4, <2>5, FS_Injection
<1> QED
  BY <1>1, AlwaysInv, PTL

(* Whatever a verifier, a predicate or a lookup does, a request is told one of the *)
(* uniform refusals, what its rule explains once it is proved, or that the         *)
(* deployment is broken (errors.py; core.py, _authenticate; authz.py).             *)
THEOREM RefusalsAreSanctioned == Spec => []AnswersAreSanctioned
<1>1. Inv => AnswersAreSanctioned
  <2> SUFFICES ASSUME Inv, NEW r \in Request, NEW w, w = answer[r]
               PROVE  /\ w.challenge <=> w.status = 401
                      /\ w.status = 500 => w.detail \in BetterAuthErrors
                      /\ w.detail = "explained" => proved[r] /\ w.status \in {403, 404}
                      /\ \/ w \in SanctionedResponses \cup {Undecided, Served, Anonymous}
                         \/ w.detail = "explained" \/ w.status = 500
    BY DEF AnswersAreSanctioned
  <2>1. w \in Answers
    BY DEF Inv, Types, RequestTypes
  <2>2. CASE w \in Explained
    <3>1. PICK c \in {403, 404} :
            w = [status |-> c, detail |-> "explained", challenge |-> FALSE]
      BY <2>2 DEF Explained
    <3>2. proved[r] = TRUE
      BY <2>2 DEF Inv, RequestInv, Answered, Proved
    <3>3. w.status = c /\ w.detail = "explained" /\ w.challenge = FALSE
      BY <3>1
    <3>4. c # 401 /\ c # 500
      OBVIOUS
    <3> QED
      BY <3>2, <3>3, <3>4
  <2>3. CASE w \in SanctionedResponses
    BY <2>3, SanctionedShape
  <2>4. CASE w = Broken
    BY <2>4 DEF Broken, BetterAuthErrors
  <2>5. CASE w = Undecided
    BY <2>5 DEF Undecided
  <2>6. CASE w = Served
    BY <2>6 DEF Served
  <2>7. CASE w = Anonymous
    BY <2>7 DEF Anonymous
  <2> QED
    BY <2>1, <2>2, <2>3, <2>4, <2>5, <2>6, <2>7 DEF Answers, Refused
<1> QED
  BY <1>1, AlwaysInv, PTL

(* A model is warned about once, however many threads find that it misses a field, *)
(* and by the time any of them is refused (once.py; parsing.py).                   *)
THEOREM ModelsAreWarnedOnce == Spec => []WarnedOncePerModel
<1>1. Inv => WarnedOncePerModel
  <2> SUFFICES ASSUME Inv PROVE WarnedOncePerModel
    OBVIOUS
  <2>1. \A m \in Model : warnings[m] \in {0, 1} /\ (latches[m] \in fired => warnings[m] = 1)
    BY DEF Inv, WarnedInv, LatchesInv
  <2>2. \A r \in Request :
          latch[r] # Nil /\ pc[r] = "done" => latches[ModelFor(r)] \in fired
    BY DEF Inv, WarnedInv, AdvisesInv
  <2> QED
    BY <2>1, <2>2, RouteTypes DEF WarnedOncePerModel
<1> QED
  BY <1>1, AlwaysInv, PTL
-----------------------------------------------------------------------------
(* What AccessGate sees of a request, for each of its standings and answers. *)
Mapped ==
  \A r \in Request :
    /\ Fresh(r) => Sighting(r) = "unseen"
    /\ Asking(r) \/ Proved(r) => Sighting(r) = "one"
    /\ Several(r) => Sighting(r) = "several"
    /\ Nobody(r) => Sighting(r) = "none"
    /\ answer[r] = Undecided => Outcome(r) = "undecided"
    /\ answer[r] = Served => Outcome(r) = "served"
    /\ answer[r] = Anonymous => Outcome(r) = "anonymous"
    /\ answer[r] \in Refused \cup Explained => Outcome(r) = "refused"

\* Each standing is one sighting, and each kind of answer one outcome.
LEMMA AlwaysMapped == Mapped
<1> SUFFICES ASSUME NEW r \in Request
             PROVE  /\ Fresh(r) => Sighting(r) = "unseen"
                    /\ Asking(r) \/ Proved(r) => Sighting(r) = "one"
                    /\ Several(r) => Sighting(r) = "several"
                    /\ Nobody(r) => Sighting(r) = "none"
                    /\ answer[r] = Undecided => Outcome(r) = "undecided"
                    /\ answer[r] = Served => Outcome(r) = "served"
                    /\ answer[r] = Anonymous => Outcome(r) = "anonymous"
                    /\ answer[r] \in Refused \cup Explained => Outcome(r) = "refused"
  BY DEF Mapped
<1> DEFINE n == Cardinality(presented[r])
<1>1. /\ (Fresh(r) \/ Nobody(r)) => n # 1 /\ ~(n > 1)
      /\ Asking(r) \/ Proved(r) => n = 1 /\ ~(n > 1)
      /\ Several(r) => n > 1 /\ n # 1
  BY FS_EmptySet DEF Fresh, Nobody, Asking, Proved, Several
<1>2. Fresh(r) \/ Asking(r) \/ Proved(r) \/ Several(r)
        => ~\E b \in Builder : cached[r][b] = "nobody"
  BY DEF Fresh, Asking, Proved, Several, Unasked
<1>3. Fresh(r) => Sighting(r) = "unseen"
  BY <1>1, <1>2 DEF Sighting
<1>4. Asking(r) \/ Proved(r) => Sighting(r) = "one"
  BY <1>1, <1>2 DEF Sighting
<1>5. Several(r) => Sighting(r) = "several"
  BY <1>1, <1>2 DEF Sighting
<1>6. Nobody(r) => Sighting(r) = "none"
  BY <1>1 DEF Nobody, Sighting
<1>7. /\ answer[r] = Undecided => Outcome(r) = "undecided"
      /\ answer[r] = Served => Outcome(r) = "served"
      /\ answer[r] = Anonymous => Outcome(r) = "anonymous"
  BY AnswersAreApart DEF Outcome
<1>8. answer[r] \in Refused \cup Explained => Outcome(r) = "refused"
  BY AnswersAreApart DEF Outcome
<1> QED
  BY <1>3, <1>4, <1>5, <1>6, <1>7, <1>8

(* What one step of the dispatcher is to AccessGate. *)
Gated == [Gate!Next]_(Gate!gate)

\* A step that leaves every request's sight and answer alone is a stutter.
LEMMA StuttersAreGated ==
  ASSUME UNCHANGED <<cached, presented, proved, answer>>
  PROVE  Gated
<1>1. \A r \in Request : Sighting(r)' = Sighting(r) /\ Outcome(r)' = Outcome(r)
  BY DEF Sighting, Outcome
<1> QED
  BY <1>1 DEF Gated, Gate!gate
(* What a step of one request changes of AccessGate's view is that request's. *)
LEMMA OnlyOneIsGated ==
  ASSUME NEW r \in Request, OthersRest(r),
         NEW sighting, Sighting(r)' = sighting, NEW told, Outcome(r)' = told
  PROVE  /\ [q \in Request |-> Sighting(q)'] =
              [[q \in Request |-> Sighting(q)] EXCEPT ![r] = sighting]
         /\ [q \in Request |-> Outcome(q)'] =
              [[q \in Request |-> Outcome(q)] EXCEPT ![r] = told]
<1>1. \A q \in Request \ {r} : Sighting(q)' = Sighting(q) /\ Outcome(q)' = Outcome(q)
  BY DEF OthersRest, Sighting, Outcome
<1> QED
  BY <1>1

\* The resolver's look finds nothing, or one credential.
LEMMA LooksAreGated ==
  ASSUME Mapped, Mapped', NEW r \in Request, OthersRest(r), answer[r] = Undecided,
         Fresh(r), Nobody(r)' \/ Asking(r)', UNCHANGED <<proved, answer>>
  PROVE  Gated
<1>1. PICK sighting \in Gate!Sightings : Sighting(r)' = sighting
  BY DEF Mapped, Gate!Sightings
<1>2. Sighting(r) = "unseen" /\ Outcome(r) = "undecided" /\ Outcome(r)' = "undecided"
  BY DEF Mapped
<1>3. /\ [q \in Request |-> Sighting(q)'] =
           [[q \in Request |-> Sighting(q)] EXCEPT ![r] = sighting]
      /\ [q \in Request |-> Outcome(q)'] = [q \in Request |-> Outcome(q)]
  BY <1>1, <1>2, OnlyOneIsGated
<1>4. Gate!Look(r)
  BY <1>1, <1>2, <1>3 DEF Gate!Look, Gate!Undecided
<1> QED
  BY <1>4 DEF Gated, Gate!Next

\* The one verifier's acceptance is the proof.
LEMMA AcceptanceIsGated ==
  ASSUME Mapped, Mapped', NEW r \in Request, OthersRest(r), answer[r] = Undecided,
         Asking(r), Proved(r)', proved' = [proved EXCEPT ![r] = TRUE], UNCHANGED answer
  PROVE  Gated
<1>1. /\ Sighting(r) = "one" /\ Sighting(r)' = "one"
      /\ Outcome(r) = "undecided" /\ Outcome(r)' = "undecided"
  BY DEF Mapped
<1>2. /\ [q \in Request |-> Sighting(q)'] = [q \in Request |-> Sighting(q)]
      /\ [q \in Request |-> Outcome(q)'] = [q \in Request |-> Outcome(q)]
  BY <1>1, OnlyOneIsGated
<1>3. Gate!Prove(r)
  BY <1>1, <1>2 DEF Gate!Prove, Gate!Undecided
<1> QED
  BY <1>3 DEF Gated, Gate!Next

\* An ambiguous request is seen and refused in one step.
LEMMA AmbiguityIsGated ==
  ASSUME Mapped, Mapped', NEW r \in Request, OthersRest(r), answer[r] = Undecided,
         Fresh(r), Several(r)', answer'[r] \in Refused, UNCHANGED proved
  PROVE  Gated
<1>1. /\ Sighting(r) = "unseen" /\ Sighting(r)' = "several"
      /\ Outcome(r) = "undecided" /\ Outcome(r)' = "refused"
  BY DEF Mapped
<1>2. /\ [q \in Request |-> Sighting(q)'] =
           [[q \in Request |-> Sighting(q)] EXCEPT ![r] = "several"]
      /\ [q \in Request |-> Outcome(q)'] =
           [[q \in Request |-> Outcome(q)] EXCEPT ![r] = "refused"]
  BY <1>1, OnlyOneIsGated
<1>3. Gate!Refuse(r)
  BY <1>1, <1>2 DEF Gate!Refuse, Gate!Undecided, Gate!Sightings
<1> QED
  BY <1>3 DEF Gated, Gate!Next

\* An answer is a refusal, or the identity proved, or nobody where that is allowed.
LEMMA AnswersAreGated ==
  ASSUME Mapped, Mapped', NEW r \in Request, OthersRest(r), answer[r] = Undecided,
         UNCHANGED <<cached, presented, proved>>,
         \/ answer'[r] \in Refused \cup Explained
         \/ answer'[r] = Served /\ Proved(r)
         \/ answer'[r] = Anonymous /\ Nobody(r) /\ ~HasSession(r)
  PROVE  Gated
<1>1. Sighting(r)' = Sighting(r) /\ Outcome(r) = "undecided"
  BY DEF Mapped, Sighting
<1>2. [q \in Request |-> Sighting(q)'] = [q \in Request |-> Sighting(q)]
  BY <1>1, OnlyOneIsGated
<1>3. ASSUME NEW told, Outcome(r)' = told
      PROVE  [q \in Request |-> Outcome(q)'] =
               [[q \in Request |-> Outcome(q)] EXCEPT ![r] = told]
  BY <1>3, OnlyOneIsGated
<1>4. CASE answer'[r] \in Refused \cup Explained
  <2>1. Outcome(r)' = "refused"
    BY <1>4 DEF Mapped
  <2>2. Gate!Refuse(r)
    BY <1>1, <1>2, <1>3, <2>1 DEF Gate!Refuse, Gate!Undecided
  <2> QED
    BY <2>2 DEF Gated, Gate!Next
<1>5. CASE answer'[r] = Served /\ Proved(r)
  <2>1. Outcome(r)' = "served" /\ proved[r] = TRUE
    BY <1>5 DEF Mapped, Proved
  <2>2. Gate!Serve(r)
    BY <1>1, <1>2, <1>3, <2>1 DEF Gate!Serve, Gate!Undecided
  <2> QED
    BY <2>2 DEF Gated, Gate!Next
<1>6. CASE answer'[r] = Anonymous /\ Nobody(r) /\ ~HasSession(r)
  <2>1. Outcome(r)' = "anonymous" /\ Sighting(r) = "none" /\ r \in AllowsAnonymous
    BY <1>6 DEF Mapped, AllowsAnonymous
  <2>2. Gate!Pass(r)
    BY <1>1, <1>2, <1>3, <2>1 DEF Gate!Pass, Gate!Undecided
  <2> QED
    BY <2>2 DEF Gated, Gate!Next
<1> QED
  BY <1>4, <1>5, <1>6

(* Every step of the dispatcher is a step of AccessGate or a stutter. *)
LEMMA StepsAreGated ==
  ASSUME Inv, Mapped, Mapped', [Next]_vars
  PROVE  Gated
<1> USE DEF bridge, tables, calls, warned, position, facts, sight, requests
<1>1. ASSUME NEW r \in Request, pc[r] # "done" PROVE answer[r] = Undecided
  BY <1>1 DEF Inv, RequestInv, Answered
<1>2. CASE UNCHANGED vars
  BY <1>2, StuttersAreGated DEF vars
<1>3. CASE Construct \/ Prepare \/ Start
  BY <1>3, StuttersAreGated DEF Construct, Prepare, Start
<1>4. ASSUME NEW b \in Builder,
             LookUp(b) \/ LookUpResolver(b) \/ SetResolver(b) \/ SetCallable(b)
      PROVE  Gated
  BY <1>4, StuttersAreGated DEF LookUp, LookUpResolver, SetResolver, SetCallable
<1>5. ASSUME NEW r \in Request,
             Arrive(r) \/ ParseFails(r) \/ FireKey(r) \/ Solved(r) \/ LookUpMember(r)
      PROVE  Gated
  BY <1>5, StuttersAreGated DEF Arrive, ParseFails, FireKey, Solved, LookUpMember
<1>6. ASSUME NEW r \in Request, SeesNone(r) \/ SeesOne(r) PROVE Gated
  <2>1. OthersRest(r) /\ Fresh(r) /\ (Nobody(r)' \/ Asking(r)')
    BY <1>6, SeesNoneKeeps, SeesOneKeeps
  <2>2. UNCHANGED <<proved, answer>> /\ pc[r] # "done"
    BY <1>6 DEF SeesNone, SeesOne, IsSolving
  <2> QED
    BY <1>1, <2>1, <2>2, LooksAreGated
<1>7. ASSUME NEW r \in Request, SeesSeveral(r) PROVE Gated
  <2>1. OthersRest(r) /\ Fresh(r) /\ Several(r)' /\ answer'[r] \in Refused
    BY <1>7, SeesSeveralKeeps
  <2>2. UNCHANGED proved /\ pc[r] # "done"
    BY <1>7 DEF SeesSeveral, IsSolving
  <2> QED
    BY <1>1, <2>1, <2>2, AmbiguityIsGated
<1>8. ASSUME NEW r \in Request, Accepts(r) PROVE Gated
  <2>1. OthersRest(r) /\ Asking(r) /\ Proved(r)'
    BY <1>8, AcceptsKeeps
  <2>2. proved' = [proved EXCEPT ![r] = TRUE] /\ UNCHANGED answer /\ pc[r] # "done"
    BY <1>8 DEF Accepts
  <2> QED
    BY <1>1, <2>1, <2>2, AcceptanceIsGated
<1>9. ASSUME NEW r \in Request, Fire(r) PROVE Gated
  <2>1. OthersRest(r) /\ answer'[r] \in Refused
    BY <1>9, FireKeeps
  <2>2. UNCHANGED <<cached, presented, proved>> /\ pc[r] # "done"
    BY <1>9 DEF Fire
  <2> QED
    BY <1>1, <2>1, <2>2, AnswersAreGated
<1>10. ASSUME NEW r \in Request, Refusing(r) \/ VerifyFails(r) PROVE Gated
  <2>1. PICK w \in Refused : End(r, w)
    BY <1>10, RefusalsEnd, BreachesEnd
  <2>2. /\ Stays /\ UNCHANGED <<at, facts, cached, sight, latch, warned>>
        /\ pc[r] \in {"solving", "verifying", "advising", "ruling"}
    BY <1>10, RefusalsEnd, BreachesEnd
  <2>3. OthersRest(r) /\ answer'[r] = w
    BY <2>1, <2>2, RefusedIsAnswered, EndsWell
  <2> QED
    BY <1>1, <2>2, <2>3, AnswersAreGated
<1>11. ASSUME NEW r \in Request, JudgePredicate(r) \/ Granted(r) PROVE Gated
  <2>1. PICK w \in Refused \cup Explained \cup {Served} : End(r, w)
    BY <1>11, RulesEnd
  <2>2. /\ Stays /\ UNCHANGED <<at, facts, cached, sight, latch, warned>>
        /\ pc[r] \in {"solving", "verifying", "advising", "ruling"}
    BY <1>11, RulesEnd DEF IsSolved
  <2>3. Proved(r)
    BY <1>11, RulesEnd, RulesJudgeTheProved
  <2>4. w \in Answers /\ w # Undecided
    BY AnswersAreApart DEF Answers
  <2>5. OthersRest(r) /\ answer'[r] = w
    BY <2>1, <2>2, <2>3, <2>4, EndsWell
  <2> QED
    BY <1>1, <2>2, <2>3, <2>5, AnswersAreGated
<1>12. ASSUME NEW r \in Request, Serve(r) PROVE Gated
  <2>1. PICK w \in {Served, Anonymous} :
          /\ End(r, w)
          /\ w = IF \E b \in Builder : cached[r][b] = "session" THEN Served ELSE Anonymous
    BY <1>12 DEF Serve
  <2>2. /\ Stays /\ UNCHANGED <<at, facts, cached, sight, latch, warned>>
        /\ IsSolved(r)
    BY <1>12 DEF Serve
  <2>3. w \in Answers /\ w # Undecided /\ w \notin Explained
    BY AnswersAreApart DEF Answers
  <2>4. OthersRest(r) /\ answer'[r] = w
    BY <2>1, <2>2, <2>3, EndsWell DEF IsSolved
  <2>5. \/ w = Served /\ Proved(r)
        \/ w = Anonymous /\ Nobody(r) /\ ~HasSession(r)
    <3>1. CASE Proved(r)
      <4>1. w = Served
        BY <2>1, <3>1 DEF Proved
      <4> QED
        BY <3>1, <4>1
    <3>2. CASE Nobody(r) /\ ~HasSession(r)
      <4>1. w = Anonymous
        BY <2>1, <3>2 DEF Nobody
      <4> QED
        BY <3>2, <4>1
    <3> QED
      BY <2>2, <3>1, <3>2, SolvedIsEarned
  <2> QED
    BY <1>1, <2>2, <2>4, <2>5, AnswersAreGated DEF IsSolved
<1> QED
  BY <1>2, <1>3, <1>4, <1>5, <1>6, <1>7, <1>8, <1>9, <1>10, <1>11, <1>12 DEF Next, Refusing

(* An identity is served only to a request that presented exactly one credential    *)
(* and had it proved, nobody only to one that presented none where the route allows *)
(* it, everything else is refused, and an answer is final: the dispatcher           *)
(* implements AccessGate (core.py, _authenticate).                                  *)
THEOREM DispatcherKeepsTheGate == Spec => OnlyTheProvedAreServed
<1>1. Init => Gate!Init
  <2> SUFFICES ASSUME Init PROVE Gate!Init
    OBVIOUS
  <2>1. \A r \in Request : Fresh(r) /\ answer[r] = Undecided
    BY DEF Init, Fresh, Unasked
  <2>2. \A r \in Request : Sighting(r) = "unseen" /\ Outcome(r) = "undecided"
    BY <2>1, AlwaysMapped DEF Mapped
  <2>3. proved = [r \in Request |-> FALSE]
    BY DEF Init
  <2> QED
    BY <2>2, <2>3 DEF Gate!Init
<1>2. Inv /\ Mapped /\ Mapped' /\ [Next]_vars => Gated
  BY StepsAreGated
<1>3. []Mapped
  BY AlwaysMapped, PTL
<1> QED
  BY <1>1, <1>2, <1>3, AlwaysInv, PTL DEF Spec, Gated, Gate!Spec, OnlyTheProvedAreServed
=============================================================================
