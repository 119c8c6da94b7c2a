------------------------------- MODULE MCAllow -------------------------------
(* Bounded instances of AllowTiers. *)
EXTENDS AllowTiers, TLC

CONSTANTS e1, k1, k2, k3, r1, r2, g1, g2, A

OneExec == {e1}
OneScope == [e \in {e1} |-> A]
TwoGoroutines == {g1, g2}
ThreeKeys == {k1, k2, k3}
OneRegion == {r1}
TwoRegions == {r1, r2}
TwoEffects == [r \in {r1} |-> {2}]
TwoEffectsOrAny == [r \in {r1, r2} |-> IF r = r1 THEN {2} ELSE {}]

Call(k, allowed, counts, region) ==
  [key |-> k, allowed |-> allowed, counts |-> counts, region |-> region]

\* k1 is pinned at its call site; k2 is performed in a region pinned as a whole
\* and in one that is not; k3 is left to the Allowlist.
TieredSites ==
  {Call(k1, TRUE, {1, 3}, NoRegion), Call(k2, FALSE, {}, r1), Call(k2, FALSE, {}, r2),
   Call(k3, FALSE, {}, NoRegion)}

Entry(scope, counts) == [scope |-> scope, key |-> k3, counts |-> counts]

\* The list covers k3: once in scope A, anywhere else always; both entries are
\* registered anew, the wildcard with a count.
OnceAndAnywhere == {Entry(A, {1}), Entry(AnyScope, {})}
Replacements == {Entry(A, {1}), Entry(AnyScope, {2})}
NotListed == {}

\* A call site pinned to one call whose identity the list covers without a
\* count: what the one tier declines the other covers.
PinnedSite == {Call(k3, TRUE, {1}, NoRegion)}
AnyNumber == {Entry(A, {})}
=============================================================================
