SPECIFICATION FairSpec
CONSTANTS
  Readers = {r1, r2}
  Writers = {w1, w2}
  Fallible = {r1, w1}
  TTL = 2
  Empty = Empty
INVARIANTS TypeOK StaleOnlyWhenRaced
PROPERTY EventuallyFresh
