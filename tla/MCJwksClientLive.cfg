\* Three callers, so that two queue behind a third; a clock that goes past one
\* refetch window. No symmetry: it is unsound for a liveness property.
CONSTANTS
  Caller = {c1, c2, c3}
  Kid = {k1}
  RealKid = {k1}
  NoOne = NoOne
  NoKid = NoKid
  CacheTtl = 2
  NegativeTtl = 2
  RefetchInterval = 1
  MaxMisses = 1
  FetchTimeout = 1
  Horizon = 1
SPECIFICATION FairSpec
PROPERTY EveryCallEnds
