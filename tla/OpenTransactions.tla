-------------------------- MODULE OpenTransactions --------------------------
(***************************************************************************)
(* What transaction attribution promises, without counters: the set of     *)
(* transactions open at each moment, each owned by one scope for its whole *)
(* life, and verdicts that state the exact number of transactions in a     *)
(* snapshot of that set taken at one instant of the call.  The             *)
(* snapshot may leave out the observer's own transaction (a write is safe  *)
(* inside the transaction of its own connection).                          *)
(***************************************************************************)
CONSTANTS
  Conns, Observers, Scopes, NoScope,
  Number(_)   \* how a verdict states a set of transactions: its cardinality

VARIABLES
  owner,      \* owner[c]: {the scope of the transaction open on c}, or {}
  view,       \* view[p]: the transactions an observer saw and has not judged
  verdicts    \* the verdicts of the step just taken

absVars == <<owner, view, verdicts>>

Open(s) == {c \in Conns : s \in owner[c]}

Init ==
  /\ owner = [c \in Conns |-> {}]
  /\ view = [p \in Observers |-> {}]
  /\ verdicts = {}

\* A transaction starts under one scope, or none.
Begin(c) ==
  /\ owner[c] = {}
  /\ \E s \in Scopes \cup {NoScope} : owner' = [owner EXCEPT ![c] = {s}]
  /\ verdicts' = {}
  /\ UNCHANGED view

End(c) ==
  /\ owner' = [owner EXCEPT ![c] = {}]
  /\ verdicts' = {}
  /\ UNCHANGED view

\* An observer with nothing left to judge takes its snapshot of scope s.
Look(p, s) ==
  /\ view[p] = {}
  /\ \E own \in {{}, {p}} : view' = [view EXCEPT ![p] = Open(s) \ own]
  /\ verdicts' = {}
  /\ UNCHANGED owner

\* What was seen is judged, once: every non-empty snapshot is reported.
Judge(p) ==
  /\ view[p] # {}
  /\ verdicts' = {[by |-> p, open |-> Number(view[p])]}
  /\ view' = [view EXCEPT ![p] = {}]
  /\ UNCHANGED owner

\* A step that neither touches a transaction nor judges one.
Quiet == verdicts' = {} /\ UNCHANGED <<owner, view>>

Next ==
  \/ \E c \in Conns : Begin(c) \/ End(c)
  \/ \E p \in Observers : Judge(p) \/ \E s \in Scopes : Look(p, s)
  \/ Quiet

Spec == Init /\ [][Next]_absVars
=============================================================================
