\* One request, whatever it carries and whatever it is answered with.
CONSTANTS
  MaxHeader = 12
  MaxPairs = 3
  MaxChunks = 2
  MaxCookie = 4
  MaxToken = 1
  MaxKeys = 2
  Cap = 2
  MaxChunk = 2
  MaxWire = 4
  MaxNow = 2
  Setups <- MCSetups
  RequestsOf <- MCRequestsOf
  Stored <- MCStored
  Documents <- MCDocuments
  KeySets <- MCKeySets
SPECIFICATION Spec
INVARIANT ServedIsTheOneSession
INVARIANT PolicyComesFirst
INVARIANT TokenInsideItsLife
INVARIANT BodyIsWhole
CHECK_DEADLOCK FALSE
