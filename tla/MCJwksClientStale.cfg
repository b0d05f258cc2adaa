\* One caller and one kid are enough to be told a stale "unknown".
CONSTANTS
  Caller = {c1}
  Kid = {k1}
  RealKid = {k1}
  NoOne = NoOne
  NoKid = NoKid
  CacheTtl = 3
  NegativeTtl = 3
  RefetchInterval = 2
  MaxMisses = 1
  FetchTimeout = 1
  Horizon = 5
SPECIFICATION Spec
PROPERTY UnknownOnlyFromFreshSet
