SPECIFICATION Spec
CONSTANTS
  e1 = e1
  k1 = k1
  k2 = k2
  k3 = k3
  r1 = r1
  r2 = r2
  g1 = g1
  g2 = g2
  A = A
  AnyScope = AnyScope
  NoRegion = NoRegion
  Execs <- OneExec
  ScopeOf <- OneScope
  Keys <- ThreeKeys
  Regions <- TwoRegions
  RegionCounts <- TwoEffectsOrAny
  Sites <- TieredSites
  Listed <- OnceAndAnywhere
  Addable <- Replacements
  Goroutines <- TwoGoroutines
  MaxAdds = 1
  MaxEvents = 4
INVARIANTS
  TypeOK
  GrowthSurfaces
  DriftReportedOnce
  UsedMeansSuppressed
  EntryPinsCalls
  RegionPinsItsTotal
\* The executions finish and their events run out: the system stops.
CHECK_DEADLOCK FALSE
