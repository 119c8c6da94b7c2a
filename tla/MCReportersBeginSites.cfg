SPECIFICATION ChainSpec
CONSTANTS
  g1 = g1
  g2 = g2
  depth = 1
  Room = 3
  Signals <- AllSignals
  Wrapped <- AnyWrapped
  Final <- NoStaleAllow
  Capped <- CappedSignal
  Reports <- SqlBegins
  Keys <- SqlKeys
  Baselined <- NoneBaselined
  Goroutines <- TwoGoroutines
  maxKeys = 2
  Intervals <- OffOrOne
  MaxTime = 1
  MaxReports = 3
INVARIANTS
  FirstHeard
SYMMETRY Symmetry
\* The clock stops at its bound and the reports run out.
CHECK_DEADLOCK FALSE
