SPECIFICATION Spec
CONSTANTS
  k1 = k1
  k2 = k2
  g1 = g1
  g2 = g2
  Keys <- TwoKeys
  Goroutines <- TwoGoroutines
INVARIANTS
  TypeOK
  NothingDropped
  UsedMeansSwallowed
PROPERTIES
  EventuallyCollected
  ImplementsRatchet
