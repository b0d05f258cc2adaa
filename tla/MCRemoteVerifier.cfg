\* Two requests over one slot, a genuine cookie and a forgery of it, and a
\* clock that outlives a remembered cookie, a latch and a probe window.
CONSTANTS
  Caller = {c1, c2}
  NoOne = NoOne
  Token = {t1}
  NoCookie = NoCookie
  Slots = 1
  Ttl = 2
  MaxRemembered = 1
  MinBackoff = 1
  MaxBackoff = 2
  DefaultBackoff = 1
  RetryAfter <- MCRetryAfter
  ProbeRetryInterval = 2
  ExpiresAt = 2
  Horizon = 3
SPECIFICATION Spec
SYMMETRY Symmetry
INVARIANT TypeOK
INVARIANT NoLiveCookieRemembered
INVARIANT CacheIsBounded
INVARIANT NoSlotLeak
INVARIANT FailClosed
INVARIANT LatchIsBounded
PROPERTY AcceptedWasLive
PROPERTY RefusalWasTrue
PROPERTY ProbeIsThrottled
PROPERTY LatchServedOnce
PROPERTY OnlyPassedSendLatched
