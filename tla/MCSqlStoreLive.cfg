\* Two lookups, one of which may come back behind the other, and one thread,
\* which a cancelled lookup may leave busy.
CONSTANTS
  Caller = {c1, c2}
  NoOne = NoOne
  Slots = 1
  Thread = {t1}
  Kind = {k1}
  MaxKinds = 1
SPECIFICATION FairSpec
PROPERTY EveryCallEnds
