------------------------------- MODULE Stacks -------------------------------
(***************************************************************************)
(* Stack capture (stack.go) and the throttle key taken from a captured     *)
(* stack (unscopedTxKey, throttle.go).  A call stack is a sequence of      *)
(* frames, innermost first; a frame is known by the package of its         *)
(* function and by its place, which stands for file and line.              *)
(***************************************************************************)
EXTENDS Naturals, Sequences, FiniteSetsExt

CONSTANTS
  depth,   \* Detector.stackDepth; 0 disables capture
  Room     \* program counters fetched beyond the depth (16 in the code)

ASSUME DepthTyped == depth \in Nat /\ Room \in Nat

Frame(pkg, site) == [pkg |-> pkg, site |-> site]

\* isInternalFrame: by the function's package, except in _test.go files.
isInternalFrame(f) == f.pkg = "txnpure"

\* Mistake: the buffer has no room for the frames that are skipped.
FetchedNoRoom(s) == SubSeq(s, 1, Min({Len(s), depth}))

\* What runtime.Callers returns.
Fetched(s) == SubSeq(s, 1, Min({Len(s), depth + Room}))

\* Leading frames of the library are skipped, later ones are not.
captureStack(s) ==
  LET fetched == Fetched(s)
      outside == {i \in DOMAIN fetched : ~isInternalFrame(fetched[i])}
  IN IF depth = 0 \/ outside = {} THEN <<>>
     ELSE SubSeq(fetched, Min(outside), Min({Len(fetched), Min(outside) + depth - 1}))

\* The place of the first captured frame; of no frame, the empty text.
unscopedTxKey(c) == IF c = <<>> THEN <<>> ELSE <<Head(c).site>>
=============================================================================
