------------------------------ MODULE MCDriver ------------------------------
(* Driver on small sets of connections, scopes and goroutines. *)
EXTENDS Driver, TLC

CONSTANTS c1, c2, s1, g1, g2

OneConn == {c1}
TwoConns == {c1, c2}
OneScope == {s1}
OneGoroutine == {g1}
TwoGoroutines == {g1, g2}

\* Connections are interchangeable, and so are goroutines.
Symmetry == Permutations(Conns) \cup Permutations(Goroutines)
=============================================================================
