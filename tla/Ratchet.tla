------------------------------ MODULE Ratchet ------------------------------
(***************************************************************************)
(* What the baseline promises, without files, flags or call frames: a set  *)
(* of accepted identities that only a deliberate decision changes, runs    *)
(* that tolerate what was accepted when they began, and violations that    *)
(* are heard unless they are tolerated.                                    *)
(***************************************************************************)
CONSTANT Keys

VARIABLES
  known,      \* the accepted set can be read
  accepted,   \* what was accepted, {} while it cannot be read
  enforcing,  \* the current run enforces the accepted set
  tolerance,  \* what the current run tolerates
  heard,      \* the violations it passes on
  tolerated   \* the violations it has swallowed

runVars == <<enforcing, tolerance, heard, tolerated>>
ratchetVars == <<known, accepted, runVars>>

Init ==
  /\ known = FALSE /\ accepted = {}
  /\ enforcing = FALSE /\ tolerance = {} /\ heard = {} /\ tolerated = {}

\* A run begins: enforcing exactly what was accepted, or nothing at all.
BeginRun ==
  /\ \/ enforcing' = TRUE /\ known /\ tolerance' = accepted
     \/ enforcing' = FALSE /\ tolerance' = {}
  /\ heard' = {} /\ tolerated' = {}
  /\ UNCHANGED <<known, accepted>>

Hear(k) ==
  /\ k \notin tolerance
  /\ heard' = heard \cup {k}
  /\ UNCHANGED <<known, accepted, enforcing, tolerance, tolerated>>

Tolerate(k) ==
  /\ enforcing /\ k \in tolerance
  /\ tolerated' = tolerated \cup {k}
  /\ UNCHANGED <<known, accepted, enforcing, tolerance, heard>>

\* The program adds an entry while it runs.
Extend(k) ==
  /\ enforcing
  /\ tolerance' = tolerance \cup {k}
  /\ UNCHANGED <<known, accepted, enforcing, heard, tolerated>>

\* A deliberate save: only what is tolerated already or was seen in this run.
Accept(S) ==
  /\ S \subseteq tolerance \cup heard
  /\ known' = TRUE /\ accepted' = S
  /\ UNCHANGED runVars

\* The ratchet goes down: entries are removed, none is added.
Shrink(S) ==
  /\ known
  /\ accepted' = accepted \ S
  /\ UNCHANGED <<known, runVars>>

\* A save that did not come through leaves nothing that could be mistaken for
\* a baseline; a run that is cut off while saving ends as well.
Lose ==
  /\ known' = FALSE /\ accepted' = {}
  /\ \/ UNCHANGED runVars
     \/ enforcing' = FALSE /\ tolerance' = {} /\ heard' = {} /\ tolerated' = {}

EndRun ==
  /\ enforcing' = FALSE /\ tolerance' = {} /\ heard' = {} /\ tolerated' = {}
  /\ UNCHANGED <<known, accepted>>

Next ==
  \/ BeginRun \/ Lose \/ EndRun
  \/ \E k \in Keys : Hear(k) \/ Tolerate(k) \/ Extend(k)
  \/ \E S \in SUBSET Keys : Accept(S) \/ Shrink(S)

Spec == Init /\ [][Next]_ratchetVars
=============================================================================
