SPECIFICATION Spec
CONSTANTS
  c1 = c1
  c2 = c2
  s1 = s1
  g1 = g1
  g2 = g2
  NoScope = NoScope
  NoConn = NoConn
  Conns <- TwoConns
  Scopes <- OneScope
  Goroutines <- TwoGoroutines
  Attempts = 2
SYMMETRY Symmetry
INVARIANTS
  TypeOK
  CounterExact
  ObservedOnce
  SessionFollowsServer
  ApiTxEndsWithSqlTx
\* Once every connection of the bounded supply is closed, callers wait forever.
CHECK_DEADLOCK FALSE
