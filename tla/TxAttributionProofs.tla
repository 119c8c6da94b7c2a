------------------------ MODULE TxAttributionProofs ------------------------
(***************************************************************************)
(* openTx and closeTx keep every scope counter equal to the number of      *)
(* connections holding a transaction of that scope, for any finite set of  *)
(* connections and any set of scopes.                                      *)
(***************************************************************************)
EXTENDS TxAttribution, FiniteSetTheorems, TLAPS

TxInv == TxTypeOK /\ CounterExact

\* A set of connections, such as the one a counter stands for, is finite and
\* no larger than the number of connections.
LEMMA ConnsCount ==
  ASSUME NEW S, S \subseteq Conns
  PROVE  IsFiniteSet(S) /\ Cardinality(S) \in 0..Cardinality(Conns)
BY ConnsFinite, FS_Subset, FS_CardinalityType

\* Before any transaction every counter is zero and nothing is open.
LEMMA TxInitExact == TxInit => TxInv
<1> SUFFICES ASSUME TxInit PROVE TxInv
  OBVIOUS
<1>1. \A s \in Scopes : OpenOn(s) = {}
  BY DEF TxInit, OpenOn
<1>2. CounterExact
  BY <1>1, FS_EmptySet DEF CounterExact, TxInit
<1>3. Cardinality(Conns) \in Nat
  BY ConnsFinite, FS_CardinalityType
<1>4. QED
  BY <1>2, <1>3 DEF TxInv, TxTypeOK, TxInit, ScopeOrNil

\* Opening a transaction on a connection outside one adds that connection to
\* exactly the set whose counter is incremented.
LEMMA OpenTxExact ==
  ASSUME TxInv, NEW c \in Conns, NEW s \in ScopeOrNil, ~inTx[c], openTx(c, s)
  PROVE  TxInv'
<1> USE DEF TxInv, TxTypeOK, openTx
<1>1. inTx' \in [Conns -> BOOLEAN] /\ txScope' \in [Conns -> ScopeOrNil]
  OBVIOUS
<1>2. openTxs' \in [Scopes -> Int]
  BY ConnsFinite, FS_CardinalityType DEF AddOpenTxs
<1>3. ASSUME NEW t \in Scopes
      PROVE  openTxs'[t] = Cardinality(OpenOn(t)')
  <2>1. CASE t = s
    <3>1. OpenOn(t)' = OpenOn(t) \cup {c}
      BY <2>1, <1>1 DEF OpenOn
    <3>2. c \notin OpenOn(t)
      BY DEF OpenOn
    <3>3. Cardinality(OpenOn(t)') = Cardinality(OpenOn(t)) + 1
      <4>1. IsFiniteSet(OpenOn(t))
        BY ConnsCount DEF OpenOn
      <4>2. QED
        BY <3>1, <3>2, <4>1, FS_AddElement
    <3>4. openTxs'[t] = openTxs[t] + 1
      BY <2>1 DEF AddOpenTxs
    <3>5. QED
      BY <3>3, <3>4 DEF CounterExact
  <2>2. CASE t # s
    <3>1. OpenOn(t)' = OpenOn(t)
      BY <2>2, <1>1 DEF OpenOn
    <3>2. openTxs'[t] = openTxs[t]
      BY <2>2 DEF AddOpenTxs
    <3>3. QED
      BY <3>1, <3>2 DEF CounterExact
  <2>3. QED
    BY <2>1, <2>2
<1>4. CounterExact'
  BY <1>3 DEF CounterExact
<1>5. \A t \in Scopes : openTxs'[t] \in 0..Cardinality(Conns)
  <2>1. \A t : OpenOn(t)' \subseteq Conns
    BY DEF OpenOn
  <2>2. QED
    BY <1>3, <2>1, ConnsCount
<1>6. QED
  BY <1>1, <1>2, <1>4, <1>5

\* Closing removes the connection from exactly the set whose counter is
\* decremented, and does nothing on a connection outside a transaction.
LEMMA CloseTxExact ==
  ASSUME TxInv, NEW c \in Conns, closeTx(c)
  PROVE  TxInv' /\ ~inTx'[c]
<1> USE DEF TxInv, TxTypeOK
<1>a. CASE ~inTx[c]
  BY <1>a DEF closeTx, txVars, CounterExact, OpenOn
<1>b. CASE inTx[c]
  <2> DEFINE s == txScope[c]
  <2>0. /\ inTx' = [inTx EXCEPT ![c] = FALSE]
        /\ txScope' = [txScope EXCEPT ![c] = NoScope]
        /\ AddOpenTxs(s, -1)
    BY <1>b DEF closeTx
  <2>1. /\ inTx' \in [Conns -> BOOLEAN] /\ txScope' \in [Conns -> ScopeOrNil]
        /\ ~inTx'[c]
    BY <2>0 DEF ScopeOrNil
  <2>2. openTxs' \in [Scopes -> Int]
    BY <2>0, ConnsFinite, FS_CardinalityType DEF AddOpenTxs
  <2>3. ASSUME NEW t \in Scopes
        PROVE  openTxs'[t] = Cardinality(OpenOn(t)')
    <3>1. CASE t = s
      <4>1. OpenOn(t)' = OpenOn(t) \ {c}
        BY <3>1, <2>0, <2>1 DEF OpenOn
      <4>2. c \in OpenOn(t)
        BY <1>b, <3>1 DEF OpenOn
      <4>3. Cardinality(OpenOn(t)') = Cardinality(OpenOn(t)) - 1
        <5>1. IsFiniteSet(OpenOn(t))
          BY ConnsCount DEF OpenOn
        <5>2. QED
          BY <4>1, <4>2, <5>1, FS_RemoveElement
      <4>4. openTxs'[t] = openTxs[t] - 1
        BY <2>0, <3>1 DEF AddOpenTxs
      <4>5. QED
        BY <4>3, <4>4 DEF CounterExact
    <3>2. CASE t # s
      <4>1. OpenOn(t)' = OpenOn(t)
        BY <3>2, <2>0, <2>1 DEF OpenOn
      <4>2. openTxs'[t] = openTxs[t]
        BY <2>0, <3>2 DEF AddOpenTxs
      <4>3. QED
        BY <4>1, <4>2 DEF CounterExact
    <3>3. QED
      BY <3>1, <3>2
  <2>4. CounterExact'
    BY <2>3 DEF CounterExact
  <2>5. \A t \in Scopes : openTxs'[t] \in 0..Cardinality(Conns)
    <3>1. \A t : OpenOn(t)' \subseteq Conns
      BY DEF OpenOn
    <3>2. QED
      BY <2>3, <3>1, ConnsCount
  <2>6. QED
    BY <2>1, <2>2, <2>4, <2>5
<1>c. QED
  BY <1>a, <1>b

\* Steps that leave the transaction state alone keep the invariant.
LEMMA TxUnchangedExact ==
  ASSUME TxInv, UNCHANGED txVars
  PROVE  TxInv'
BY DEF TxInv, TxTypeOK, CounterExact, OpenOn, txVars
=============================================================================
