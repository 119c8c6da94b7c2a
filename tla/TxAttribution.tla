--------------------------- MODULE TxAttribution ---------------------------
(***************************************************************************)
(* The transaction-attribution state of go-txnpure (session.go,            *)
(* detector.go).  Every observed connection remembers, privately, whether  *)
(* it is inside a transaction and which scope that transaction was begun   *)
(* under; every scope holds one shared atomic counter of the transactions  *)
(* open under it.  The two are updated at different places and nothing in  *)
(* the code ties them together but the discipline of openTx and closeTx.   *)
(*                                                                         *)
(* This module has the state and the two operations; Session and Driver    *)
(* extend it with the code that calls them.                                *)
(***************************************************************************)
EXTENDS Integers, FiniteSets

CONSTANTS
  Conns,      \* the observed connections, one Session each
  Scopes,     \* the scope holders StartScope may create
  NoScope     \* the nil *scope: a context (or transaction) without a scope

ASSUME ConnsFinite == IsFiniteSet(Conns)
ASSUME NoScopeIsNoScope == NoScope \notin Scopes

VARIABLES
  inTx,       \* inTx[c]: connection c is inside a transaction
  txScope,    \* txScope[c]: the scope of that transaction, NoScope if unscoped
  openTxs     \* openTxs[s]: the shared counter of scope s

txVars == <<inTx, txScope, openTxs>>

ScopeOrNil == Scopes \cup {NoScope}

TxTypeOK ==
  /\ inTx \in [Conns -> BOOLEAN]
  /\ txScope \in [Conns -> ScopeOrNil]
  /\ openTxs \in [Scopes -> 0..Cardinality(Conns)]

TxInit ==
  /\ inTx = [c \in Conns |-> FALSE]
  /\ txScope = [c \in Conns |-> NoScope]
  /\ openTxs = [s \in Scopes |-> 0]

\* scope.openTxs.Add(d), skipped when the scope is nil.
AddOpenTxs(s, d) ==
  openTxs' = IF s \in Scopes THEN [openTxs EXCEPT ![s] = @ + d] ELSE openTxs

\* Session.openTx: the context's scope, not an earlier transaction's, decides
\* the attribution.  The caller reports the unscoped transaction.
openTx(c, s) ==
  /\ inTx' = [inTx EXCEPT ![c] = TRUE]
  /\ txScope' = [txScope EXCEPT ![c] = s]
  /\ AddOpenTxs(s, 1)

\* Session.closeTx: at most one decrement per opened transaction.
closeTx(c) ==
  IF inTx[c]
  THEN /\ inTx' = [inTx EXCEPT ![c] = FALSE]
       /\ txScope' = [txScope EXCEPT ![c] = NoScope]
       /\ AddOpenTxs(txScope[c], -1)
  ELSE UNCHANGED txVars

-----------------------------------------------------------------------------
\* The connections whose transaction is attributed to scope s.
OpenOn(s) == {c \in Conns : inTx[c] /\ txScope[c] = s}

\* Every scope counter equals the number of connections whose private state
\* says they hold a transaction of that scope: it never goes negative, never
\* exceeds the number of connections, never stays high after the last
\* transaction of the scope closed, whatever order begins, commits, double
\* closes and scope changes come in (session.go openTx/closeTx; the promise
\* of fuzz_test.go's FuzzSession).
CounterExact == \A s \in Scopes : openTxs[s] = Cardinality(OpenOn(s))
=============================================================================
