SPECIFICATION Spec
CONSTANTS
  e1 = e1
  k1 = k1
  k2 = k2
  k3 = k3
  r1 = r1
  r2 = r2
  g1 = g1
  g2 = g2
  A = A
  AnyScope = AnyScope
  NoRegion = NoRegion
  Execs <- OneExec
  ScopeOf <- OneScope
  Keys <- ThreeKeys
  Regions <- OneRegion
  RegionCounts <- TwoEffects
  Sites <- PinnedSite
  Listed <- AnyNumber
  Addable <- NotListed
  Goroutines <- TwoGoroutines
  MaxAdds = 0
  MaxEvents = 2
INVARIANTS
  ExcessSurfaced
\* The executions finish and their events run out: the system stops.
CHECK_DEADLOCK FALSE
