------------------------------ MODULE Refusals ------------------------------
(***************************************************************************)
(* What a request may be told (_internal/errors.py, containment.py and the *)
(* containment of core.py and authz.py): the classes of refusal and the    *)
(* responses they render, the exceptions that are answers and the ones     *)
(* that are accidents, and the refusal an authorization rule explains.     *)
(*                                                                         *)
(* An exception is what was raised and the groups that task groups put     *)
(* around it: the number of leaves of each, the outermost first.           *)
(***************************************************************************)
EXTENDS Naturals, Sequences

BetterAuthErrors == {"ConfigurationError"}

StatusOf ==
  [InvalidCredential |-> 401, SessionExpired |-> 401, SessionRevoked |-> 401,
   AuthServiceUnavailable |-> 401, MissingCredential |-> 401,
   CsrfFailure |-> 403, NotAuthorized |-> 403, AmbiguousCredentials |-> 400]

SessionErrors == DOMAIN StatusOf

SanctionedResponses ==
  {[status |-> 400, detail |-> "Ambiguous request", challenge |-> FALSE],
   [status |-> 401, detail |-> "Not authenticated", challenge |-> TRUE],
   [status |-> 403, detail |-> "Forbidden", challenge |-> FALSE]}

\* A subclass is refused when it is defined unless its response is one of these,
\* and sets none of the attributes that would win over it.
MaySubclass(response, shadowing) == ~shadowing /\ response \in SanctionedResponses

Response(class) ==
  IF class \in SessionErrors
  THEN CHOOSE w \in SanctionedResponses : w.status = StatusOf[class]
  ELSE [status |-> 500, detail |-> class, challenge |-> FALSE]

------------------------------------------------------------------------------
\* The refusal a rule explains: its status, whether that is a plain int, and its
\* headers, of which only a plain dict of plain, safe fields is honoured.
HeaderKinds == {"none", "fields", "mapping", "challenge", "splitting", "notText"}
Refusal == [code : 400 .. 404, plain : BOOLEAN, headers : HeaderKinds]

FieldBreach(headers) ==
  CASE headers = "challenge" -> "challenge"
    [] headers = "splitting" -> "field"
    [] OTHER                 -> "none"

JudgeRefusal(r) ==
  CASE ~r.plain \/ r.code \notin {403, 404}     -> "status"
    [] r.headers \in {"mapping", "notText"}     -> "headers"
    [] OTHER                                    -> FieldBreach(r.headers)

\* What the constructor keeps of its arguments: a plain int, a plain dict.
Plain(r) == [r EXCEPT !.plain = TRUE,
                      !.headers = IF @ = "mapping" THEN "fields" ELSE @]

CanBeBuilt(r) == JudgeRefusal(Plain(r)) = "none"

RefusedWith(r) ==
  [status |-> r.code, detail |-> "explained", challenge |-> r.headers = "challenge"]

------------------------------------------------------------------------------
\* A refusal that may not be built is an accident of its own.
Thrown(e) ==
  IF e.leaf = "AuthorizationRefused" /\ ~CanBeBuilt(e.built)
  THEN [e EXCEPT !.leaf = "ValueError"] ELSE e

Unwrapped(e) ==
  IF \A i \in DOMAIN e.groups : e.groups[i] = 1 THEN e.leaf ELSE "ExceptionGroup"

\* The class that answers an exception: itself if it is honoured, else the uniform
\* refusal of the place it escaped from.
Honoured(e, honoured, uniform) ==
  IF Unwrapped(e) \in honoured THEN Unwrapped(e) ELSE uniform

FromExtract(e) == Honoured(e, BetterAuthErrors, "InvalidCredential")
MutantFromVerify(e) == Unwrapped(e)
FromVerify(e) == Honoured(e, BetterAuthErrors \cup SessionErrors, "InvalidCredential")

\* A rule may also explain its refusal, and is held to what it then says.
FromRule(e) ==
  IF Unwrapped(e) = "AuthorizationRefused" /\ JudgeRefusal(e.refusal) = "none"
  THEN RefusedWith(e.refusal)
  ELSE Response(Honoured(e, BetterAuthErrors \cup SessionErrors, "NotAuthorized"))
=============================================================================
