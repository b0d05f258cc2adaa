\* Two requests, one slot: one waits for it while the other is told to back off.
CONSTANTS
  Caller = {c1, c2}
  NoOne = NoOne
  Token = {t1}
  NoCookie = NoCookie
  Slots = 1
  Ttl = 2
  MaxRemembered = 1
  MinBackoff = 1
  MaxBackoff = 2
  DefaultBackoff = 1
  RetryAfter <- MCRetryAfter
  ProbeRetryInterval = 2
  ExpiresAt = 2
  Horizon = 2
SPECIFICATION Spec
PROPERTY NoOutboundWhileLatched
