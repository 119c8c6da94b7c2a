---------------------------- MODULE MCDetection ----------------------------
(* Bounded instances of Detection. *)
EXTENDS Detection, TLC

CONSTANTS c1, c2, s1, g1, g2, k1, k2, k3, r1

OneConn == {c1}
TwoConns == {c1, c2}
OneScope == {s1}
ScopeNames == [e \in {s1} |-> s1]
OneGoroutine == {g1}
TwoGoroutines == {g1, g2}
ThreeKeys == {k1, k2, k3}
OneRegion == {r1}
Nothing == {}
OnlyLeaks == {"leaked"}

Call(k, allowed, counts, region) ==
  [key |-> k, allowed |-> allowed, counts |-> counts, region |-> region]

\* Writes and matched statements happen in a region pinned as a whole, the
\* checkpoint is pinned at its call site.
WritesInRegion == {Call(k1, FALSE, {}, r1)}
StatementsInRegion == {Call(k2, FALSE, {}, r1)}
PinnedCheck == {Call(k3, TRUE, {2}, NoRegion)}
TwoEffects == [r \in {r1} |-> {2}]

\* The checkpoint is pinned, performed in the region and on a list that changes.
CheckEverywhere == {Call(k3, TRUE, {1}, NoRegion), Call(k3, FALSE, {}, r1)}
ListedOnce == {[scope |-> s1, key |-> k3, counts |-> {1}]}
ListedTwice == {[scope |-> s1, key |-> k3, counts |-> {2}]}

\* Connections are interchangeable.
Symmetry == Permutations(Conns)
=============================================================================
