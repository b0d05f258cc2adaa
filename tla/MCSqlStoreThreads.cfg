\* One slot, and a thread to spare for a lookup that was cancelled.
CONSTANTS
  Caller = {c1, c2}
  NoOne = NoOne
  Slots = 1
  Thread = {t1, t2}
  Kind = {k1, k2}
  MaxKinds = 1
SPECIFICATION Spec
SYMMETRY Symmetry
INVARIANT ThreadsWithinSlots
