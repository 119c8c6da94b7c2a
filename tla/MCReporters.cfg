SPECIFICATION ChainSpec
CONSTANTS
  g1 = g1
  g2 = g2
  depth = 1
  Room = 2
  Signals <- AllSignals
  Wrapped <- AnyWrapped
  Final <- NoStaleAllow
  Capped <- CappedSignal
  Reports <- SessionBegins
  Keys <- SessionKeys
  Baselined <- FirstBaselined
  Goroutines <- TwoGoroutines
  maxKeys = 1
  Intervals <- OffOrOne
  MaxTime = 1
  MaxReports = 4
INVARIANTS
  FirstHeard
  AllAccounted
  OnlyUntolerated
SYMMETRY Symmetry
\* The clock stops at its bound and the reports run out.
CHECK_DEADLOCK FALSE
