\* Two callers and two kids, over a clock that outlives a fresh set, a
\* remembered miss and three refetch windows.
CONSTANTS
  Caller = {c1, c2}
  Kid = {k1, k2}
  RealKid = {k1}
  NoOne = NoOne
  NoKid = NoKid
  CacheTtl = 3
  NegativeTtl = 3
  RefetchInterval = 2
  MaxMisses = 1
  FetchTimeout = 1
  Horizon = 5
SPECIFICATION Spec
SYMMETRY Symmetry
INVARIANT TypeOK
INVARIANT NoKnownKeyRemembered
INVARIANT MissesBounded
PROPERTY OutageIsReal
PROPERTY UnknownIsRecent
PROPERTY KeyIsRecent
PROPERTY FetchIsThrottled
