----------------------------- MODULE MCSession -----------------------------
(* Session on small sets of connections, scopes and goroutines. *)
EXTENDS Session, TLC

CONSTANTS c1, c2, s1, s2, g1

TwoConns == {c1, c2}
TwoScopes == {s1, s2}
OneGoroutine == {g1}
AllSignals == {"unscopedTx", "unscopedCheck", "nested", "leaked"}

\* Connections are interchangeable, so are scopes.
Symmetry == Permutations(Conns) \cup Permutations(Scopes)
=============================================================================
