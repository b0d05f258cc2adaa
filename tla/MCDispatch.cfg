\* Three factory calls and two requests.
CONSTANTS
  b1 = b1
  b2 = b2
  b3 = b3
  r1 = r1
  r2 = r2
  m1 = m1
  Nil = Nil
  Offers <- MCOffers
  Builder = {b1, b2, b3}
  Kind <- MCKind
  Model = {m1}
  ModelOf <- MCModelOf
  Request = {r1, r2}
  Route <- MCRoute
  Carried <- MCCarried
  Raises <- MCRaises
SPECIFICATION Spec
INVARIANT TypeOK
INVARIANT VerifiedOnce
INVARIANT OneReaderPerCredential
INVARIANT AnswersAreSanctioned
INVARIANT WarnedOncePerModel
PROPERTY OnlyTheProvedAreServed
CHECK_DEADLOCK FALSE
