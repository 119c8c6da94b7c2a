----------------------------- MODULE MCThrottle -----------------------------
(* Throttle with few signals and keys and a short clock. *)
EXTENDS Throttle, TLC

CONSTANTS k1, k2, g1, g2

TwoKeys == {k1, k2}
TwoGoroutines == {g1, g2}
CappedSignal == {"unscopedTx"}
AnyWrapped == {{}, CappedSignal}
OffOrTwo == {0, 2}
=============================================================================
