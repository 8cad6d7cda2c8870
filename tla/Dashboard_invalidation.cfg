SPECIFICATION Spec
CONSTANTS
  Readers = {r1, r2}
  Writers = {w1}
  Fallible = {}
  TTL = 2
  Empty = Empty
INVARIANT InvalidationTakesEffect
