\* Two requests over one slot. One that has been answered comes back and queues
\* behind the other, so a lock or a slot handed to a request that is cancelled
\* before it runs has someone to be passed on to. No symmetry: it is unsound
\* for a liveness property.
CONSTANTS
  Caller = {c1, c2}
  NoOne = NoOne
  Token = {t1}
  NoCookie = NoCookie
  Slots = 1
  Ttl = 1
  MaxRemembered = 1
  MinBackoff = 1
  MaxBackoff = 1
  DefaultBackoff = 1
  RetryAfter <- MCRetryAfter
  ProbeRetryInterval = 1
  ExpiresAt = 1
  Horizon = 1
SPECIFICATION FairSpec
PROPERTY EveryRequestEnds
