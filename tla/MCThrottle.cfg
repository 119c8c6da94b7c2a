SPECIFICATION Spec
CONSTANTS
  k1 = k1
  k2 = k2
  g1 = g1
  g2 = g2
  Signals <- CappedSignal
  Wrapped <- AnyWrapped
  Capped <- CappedSignal
  Keys <- TwoKeys
  Goroutines <- TwoGoroutines
  maxKeys = 1
  Intervals <- OffOrTwo
  MaxTime = 5
  MaxReports = 4
INVARIANTS
  TypeOK
  NothingLost
  OncePerInterval
PROPERTIES
  SuppressedAfterRecent
  EventuallyForwarded
\* The clock stops at its bound and the reports run out.
CHECK_DEADLOCK FALSE
