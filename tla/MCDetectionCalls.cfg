CONSTANTS
  c1 = c1
  c2 = c2
  s1 = s1
  g1 = g1
  g2 = g2
  k1 = k1
  k2 = k2
  k3 = k3
  r1 = r1
  NoScope = NoScope
  AnyScope = AnyScope
  NoRegion = NoRegion
  Conns <- OneConn
  Scopes <- OneScope
  Goroutines <- TwoGoroutines
  Detect <- OnlyLeaks
  ScopeOf <- ScopeNames
  Keys <- ThreeKeys
  Regions <- OneRegion
  RegionCounts <- TwoEffects
  Listed <- ListedOnce
  Addable <- ListedTwice
  WriteSites <- Nothing
  StatementSites <- StatementsInRegion
  CheckSites <- CheckEverywhere
  MaxEvents = 2
  MaxAdds = 1
SPECIFICATION DetectionSpec
INVARIANTS
  LeakReportedOnce
PROPERTIES
  EveryCallReturns
