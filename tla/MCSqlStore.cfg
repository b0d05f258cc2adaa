\* Three lookups over one slot, so that two may queue for the lock or for the
\* slot; a kind of failure more than the latch will report.
CONSTANTS
  Caller = {c1, c2, c3}
  NoOne = NoOne
  Slots = 1
  Thread = {t1, t2}
  Kind = {k1, k2}
  MaxKinds = 1
SPECIFICATION Spec
SYMMETRY Symmetry
INVARIANT TypeOK
INVARIANT DiscoveryIsExclusive
INVARIANT NoSlotLeak
INVARIANT NeverMuted
PROPERTY PlanIsKept
