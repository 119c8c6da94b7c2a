----------------------------- MODULE MCBaseline -----------------------------
(* Baseline with few identities and goroutines. *)
EXTENDS Baseline, TLC

CONSTANTS k1, k2, g1, g2

TwoKeys == {k1, k2}
TwoGoroutines == {g1, g2}
=============================================================================
