\* Two requests; a session that ends at 1 or is extended to 2, a ban that lapses
\* at 1, and a kind of failure more than a latch will report.
CONSTANTS
  Caller = {c1, c2}
  Kind = {k1, k2}
  MaxKinds = 1
  Expiry = {1, 2}
  BanEnds = 1
  Horizon = 1
SPECIFICATION Spec
SYMMETRY Symmetry
INVARIANT TypeOK
PROPERTY AcceptedWasTrue
PROPERTY RefusalWasTrue
PROPERTY ToldOnce
