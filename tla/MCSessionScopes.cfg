CONSTANTS
  c1 = c1
  c2 = c2
  s1 = s1
  s2 = s2
  g1 = g1
  NoScope = NoScope
  Conns <- TwoConns
  Scopes <- TwoScopes
  Goroutines <- OneGoroutine
  Detect <- AllSignals
SYMMETRY Symmetry
SPECIFICATION Spec
INVARIANTS
  TypeOK
  CounterExact
PROPERTIES
  AttributionSticky
  VerdictJustified
  GateMirrorsCheck
  ImplementsAttribution
