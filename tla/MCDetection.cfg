CONSTANTS
  c1 = c1
  c2 = c2
  s1 = s1
  g1 = g1
  g2 = g2
  k1 = k1
  k2 = k2
  k3 = k3
  r1 = r1
  NoScope = NoScope
  AnyScope = AnyScope
  NoRegion = NoRegion
  Conns <- TwoConns
  Scopes <- OneScope
  Goroutines <- OneGoroutine
  Detect <- Nothing
  ScopeOf <- ScopeNames
  Keys <- ThreeKeys
  Regions <- OneRegion
  RegionCounts <- TwoEffects
  Listed <- Nothing
  Addable <- Nothing
  WriteSites <- WritesInRegion
  StatementSites <- StatementsInRegion
  CheckSites <- PinnedCheck
  MaxEvents = 3
  MaxAdds = 0
SYMMETRY Symmetry
SPECIFICATION DetectionSpec
INVARIANTS
  EffectsCounted
  PinTellsTheTruth
  RegionTellsTheTruth
