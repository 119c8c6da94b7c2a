---------------------------- MODULE DriverProofs ----------------------------
(***************************************************************************)
(* Theorems about Driver, for any finite set of connections and any sets   *)
(* of scopes and goroutines.                                               *)
(***************************************************************************)
EXTENDS Driver, TxAttributionProofs

FrameTypes ==
  /\ pc \in [Goroutines -> {"idle", "pick", "exec", "prepare", "stmt", "begin"}]
  /\ conn \in [Goroutines -> Conns \cup {NoConn}]
  /\ stmt \in [Goroutines -> {"begin", "end", "other", "beginTx"}]
  /\ scope \in [Goroutines -> ScopeOrNil]
  /\ txScopeOf \in [Goroutines -> SUBSET ScopeOrNil]
  /\ left \in [Goroutines -> 0..Attempts]
  /\ status \in [Conns -> {"new", "idle", "held", "closed"}]

OnceTypes ==
  /\ ran \in [Goroutines -> 0..1] /\ refused \in [Goroutines -> 0..1]
  /\ observed \in [Goroutines -> 0..1]

HistoryTypes ==
  /\ broken \in [Conns -> BOOLEAN] /\ serverTx \in [Conns -> BOOLEAN]
  /\ origin \in [Conns -> {"text", "api"}] /\ unsure \in [Conns -> BOOLEAN]
  /\ OnceTypes

OnConn(g) == pc[g] \in {"exec", "prepare", "stmt", "begin"} \/ (pc[g] = "idle" /\ InSqlTx(g))

\* A goroutine holds a connection exactly while it is inside a call on one or
\* has a sql.Tx open, no two hold the same, and the pool knows which are held.
HolderInv ==
  /\ FrameTypes
  /\ \A g \in Goroutines : conn[g] # NoConn <=> OnConn(g)
  /\ \A g \in Goroutines : pc[g] \in {"pick", "begin"} => ~InSqlTx(g)
  /\ \A g \in Goroutines : pc[g] = "pick" => left[g] > 0
  /\ \A g, h \in Goroutines : conn[g] = conn[h] /\ conn[g] # NoConn => g = h
  /\ \A g \in Goroutines : conn[g] # NoConn => status[conn[g]] = "held"
  /\ \A c \in Conns : status[c] = "held" => \E g \in Goroutines : conn[g] = c

\* A call that has not returned has neither run, refused nor observed its
\* statement, and what ran was not refused.
OnceInv ==
  \A g \in Goroutines : /\ observed[g] = ran[g] + refused[g]
                        /\ pc[g] # "idle" => ran[g] = 0 /\ refused[g] = 0

\* What nobody has opened yet has no transaction on either side.
NewInv == \A c \in Conns : status[c] = "new" => ~inTx[c] /\ ~serverTx[c]

IInv ==
  /\ TxInv /\ HolderInv /\ HistoryTypes /\ OnceInv /\ NewInv
  /\ SessionFollowsServer /\ ApiTxEndsWithSqlTx

\* The steps of goroutine g that have an answer of the underlying connection.
AnswerStep(g, answer) ==
  \/ ExecContext(g, answer) \/ PrepareContext(g, answer)
  \/ StmtExecContext(g, answer) \/ BeginTx(g, answer)
  \/ CommitOrRollback(g, answer)

\* The steps before one.
CallStep(g) ==
  \E s \in ScopeOrNil :
    \/ \E k \in {"begin", "end", "other"} : Call(g, k, s) \/ CallInTx(g, k, s)
    \/ Call(g, "beginTx", s)

LEMMA NextSteps ==
  Next <=> \/ \E g \in Goroutines :
                \/ CallStep(g)
                \/ \E c \in Conns : Pick(g, c)
                \/ \E answer \in Outcomes : AnswerStep(g, answer)
           \/ \E c \in Conns : CloseIdle(c)
BY DEF Next, CallStep, AnswerStep

\* Whoever answers is on a connection of its own.
LEMMA AnswerOnConn ==
  ASSUME HolderInv, NEW g \in Goroutines, NEW answer \in Outcomes, AnswerStep(g, answer)
  PROVE  OnConn(g) /\ conn[g] \in Conns /\ status[conn[g]] = "held"
BY NoConnIsNoConn DEF HolderInv, FrameTypes, OnConn, AnswerStep, ExecContext, PrepareContext,
   StmtExecContext, BeginTx, CommitOrRollback

-----------------------------------------------------------------------------
(* Calls and the pool. *)

\* The call goes on, gives its connection back, or keeps that of its sql.Tx.
LEMMA ProceedKeepsHolders ==
  ASSUME HolderInv, NEW g \in Goroutines, NEW answer \in Outcomes,
         pc[g] \in {"exec", "prepare", "stmt", "begin"}, answer = "skip" => pc[g] # "begin",
         Proceed(g, answer), UNCHANGED <<stmt, scope, left, txScopeOf>>
  PROVE  HolderInv'
<1> USE DEF HolderInv, FrameTypes, OnConn, InSqlTx
<1>1. conn[g] \in Conns /\ status[conn[g]] = "held"
  BY NoConnIsNoConn
<1>2. CASE answer = "skip"
  BY <1>1, <1>2 DEF Proceed
<1>3. CASE answer # "skip" /\ InSqlTx(g)
  BY <1>1, <1>3 DEF Proceed
<1>4. CASE answer = "bad" /\ ~InSqlTx(g) /\ left[g] > 0
  <2>1. /\ pc' = [pc EXCEPT ![g] = "pick"]
        /\ conn' = [conn EXCEPT ![g] = NoConn]
        /\ status' = [status EXCEPT ![conn[g]] = "closed"]
    BY <1>4 DEF Proceed
  <2>2. QED
    BY <1>1, <1>4, <2>1, NoConnIsNoConn
<1>5. CASE answer # "skip" /\ ~InSqlTx(g) /\ ~(answer = "bad" /\ left[g] > 0)
  <2>1. PICK next \in {"closed", "idle"} : Release(g, next)
    BY <1>5 DEF Proceed
  <2>2. QED
    BY <1>1, <1>5, <2>1, NoConnIsNoConn DEF Release
<1>6. QED
  BY <1>2, <1>3, <1>4, <1>5

LEMMA HoldersKept ==
  ASSUME HolderInv, [Next]_vars
  PROVE  HolderInv'
<1> USE DEF HolderInv, FrameTypes, OnConn, InSqlTx
<1>1. ASSUME NEW g \in Goroutines, CallStep(g)
      PROVE  HolderInv'
  <2>1. ASSUME NEW s \in ScopeOrNil, NEW k \in {"begin", "end", "other", "beginTx"}, Call(g, k, s)
        PROVE  HolderInv'
    BY <2>1, AttemptsPositive DEF Call, poolVars
  <2>2. ASSUME NEW s \in ScopeOrNil, NEW k \in {"begin", "end", "other"}, CallInTx(g, k, s)
        PROVE  HolderInv'
    BY <2>2, AttemptsPositive DEF CallInTx, poolVars
  <2>3. QED
    BY <1>1, <2>1, <2>2 DEF CallStep
<1>2. ASSUME NEW g \in Goroutines, NEW c \in Conns, Pick(g, c)
      PROVE  HolderInv'
  <2>1. conn[g] = NoConn /\ status[c] # "held" /\ ~InSqlTx(g) /\ left[g] \in 1..Attempts
    BY <1>2, AttemptsPositive DEF Pick
  <2>2. PICK l \in {"begin", "exec", "prepare"} : pc' = [pc EXCEPT ![g] = l]
    BY <1>2 DEF Pick
  <2>3. \A h \in Goroutines : conn[h] # c
    BY <2>1, NoConnIsNoConn
  <2>4. /\ pc[g] = "pick" /\ UNCHANGED <<stmt, scope, txScopeOf>>
        /\ \A h \in Goroutines : pc'[h] = IF h = g THEN l ELSE pc[h]
        /\ \A h \in Goroutines : conn'[h] = IF h = g THEN c ELSE conn[h]
        /\ \A h \in Goroutines : left'[h] = IF h = g THEN left[h] - 1 ELSE left[h]
        /\ \A d \in Conns : status'[d] = IF d = c THEN "held" ELSE status[d]
    BY <1>2, <2>2 DEF Pick
  <2>5. FrameTypes'
    BY <1>2, <2>1, <2>2, AttemptsPositive DEF Pick
  <2>6. /\ \A h \in Goroutines : conn'[h] # NoConn <=> OnConn(h)'
        /\ \A h \in Goroutines : pc'[h] \in {"pick", "begin"} => ~InSqlTx(h)'
        /\ \A h \in Goroutines : pc'[h] = "pick" => left'[h] > 0
    BY <2>1, <2>2, <2>4, NoConnIsNoConn
  <2>7. \A h, i \in Goroutines : conn'[h] = conn'[i] /\ conn'[h] # NoConn => h = i
    BY <2>3, <2>4
  <2>8. \A h \in Goroutines : conn'[h] # NoConn => status'[conn'[h]] = "held"
    BY <2>4
  <2>9. \A d \in Conns : status'[d] = "held" => \E h \in Goroutines : conn'[h] = d
    BY <2>1, <2>4, NoConnIsNoConn
  <2> HIDE DEF FrameTypes, OnConn, InSqlTx
  <2>10. QED
    BY <2>5, <2>6, <2>7, <2>8, <2>9
<1>3. ASSUME NEW g \in Goroutines, NEW answer \in Outcomes, AnswerStep(g, answer)
      PROVE  HolderInv'
  <2>1. CASE ExecContext(g, answer)
    BY <2>1, ProceedKeepsHolders DEF ExecContext, Execute
  <2>2. CASE PrepareContext(g, answer)
    <3>1. CASE answer = "ok"
      BY <2>2, <3>1 DEF PrepareContext
    <3>2. CASE answer # "ok"
      BY <2>2, <3>2, ProceedKeepsHolders DEF PrepareContext
    <3>3. QED
      BY <3>1, <3>2
  <2>3. CASE StmtExecContext(g, answer)
    BY <2>3, ProceedKeepsHolders DEF StmtExecContext, Execute
  <2>4. CASE BeginTx(g, answer)
    <3>1. CASE answer = "ok"
      <4>1. /\ pc[g] = "begin" /\ conn[g] # NoConn /\ {scope[g]} \in SUBSET ScopeOrNil
            /\ txScopeOf' = [txScopeOf EXCEPT ![g] = {scope[g]}]
            /\ pc' = [pc EXCEPT ![g] = "idle"]
            /\ UNCHANGED <<conn, status, stmt, scope, left>>
        BY <2>4, <3>1 DEF BeginTx
      <4>2. /\ pc' \in [Goroutines -> {"idle", "pick", "exec", "prepare", "stmt", "begin"}]
            /\ txScopeOf' \in [Goroutines -> SUBSET ScopeOrNil]
        BY <4>1
      <4>3. /\ \A h \in Goroutines : pc'[h] = IF h = g THEN "idle" ELSE pc[h]
            /\ InSqlTx(g)' /\ \A h \in Goroutines \ {g} : InSqlTx(h)' <=> InSqlTx(h)
        BY <4>1
      <4> HIDE DEF InSqlTx
      <4>4. \A h \in Goroutines : OnConn(h)' <=> OnConn(h)
        BY <4>1, <4>3
      <4> HIDE DEF OnConn
      <4>5. \A h \in Goroutines : pc'[h] \in {"pick", "begin"} => pc[h] = pc'[h] /\ ~InSqlTx(h)'
        BY <4>3
      <4>6. QED
        BY <4>1, <4>2, <4>4, <4>5
    <3>2. CASE answer # "ok"
      <4>1. /\ pc[g] = "begin" /\ answer # "skip" /\ Proceed(g, answer)
            /\ UNCHANGED <<stmt, scope, left, txScopeOf>>
        BY <2>4, <3>2 DEF BeginTx
      <4>2. QED
        BY <4>1, ProceedKeepsHolders
    <3>3. QED
      BY <3>1, <3>2
  <2>5. CASE CommitOrRollback(g, answer)
    <3>1. conn[g] \in Conns /\ status[conn[g]] = "held"
      BY <1>3, AnswerOnConn
    <3>2. PICK next \in {"closed", "idle"} : Release(g, next)
      BY <2>5 DEF CommitOrRollback
    <3>3. QED
      BY <2>5, <3>1, <3>2, NoConnIsNoConn DEF CommitOrRollback, Release
  <2>6. QED
    BY <1>3, <2>1, <2>2, <2>3, <2>4, <2>5 DEF AnswerStep
<1>4. ASSUME NEW c \in Conns, CloseIdle(c)
      PROVE  HolderInv'
  BY <1>4 DEF CloseIdle, callVars
<1>5. CASE UNCHANGED vars
  BY <1>5 DEF vars, callVars, poolVars
<1>6. QED
  BY <1>1, <1>2, <1>3, <1>4, <1>5, NextSteps

-----------------------------------------------------------------------------
(* What is executed is observed. *)

\* A call that goes on has met a connection that could not serve it.
LEMMA ProceedLeaves ==
  ASSUME FrameTypes, NEW g \in Goroutines, NEW answer \in Outcomes, Proceed(g, answer)
  PROVE  /\ \A h \in Goroutines \ {g} : pc'[h] = pc[h]
         /\ Conclusive(answer) => pc'[g] = "idle"
BY DEF Proceed, Release, FrameTypes, Conclusive

LEMMA OnceKept ==
  ASSUME HolderInv, OnceTypes, OnceInv, [Next]_vars
  PROVE  OnceInv' /\ OnceTypes'
<1> USE DEF OnceInv, OnceTypes
<1>1. ASSUME NEW g \in Goroutines, CallStep(g)
      PROVE  OnceInv' /\ OnceTypes'
  <2>1. /\ ran' = [ran EXCEPT ![g] = 0] /\ refused' = [refused EXCEPT ![g] = 0]
        /\ observed' = [observed EXCEPT ![g] = 0]
        /\ \A h \in Goroutines \ {g} : pc'[h] = pc[h]
    <3>1. ASSUME NEW s \in ScopeOrNil, NEW k, Call(g, k, s) \/ CallInTx(g, k, s)
          PROVE  /\ ran' = [ran EXCEPT ![g] = 0] /\ refused' = [refused EXCEPT ![g] = 0]
                 /\ observed' = [observed EXCEPT ![g] = 0]
                 /\ \A h \in Goroutines \ {g} : pc'[h] = pc[h]
      BY <3>1 DEF Call, CallInTx, HolderInv, FrameTypes
    <3>2. QED
      BY <1>1, <3>1 DEF CallStep
  <2>2. QED
    BY <2>1
<1>2. ASSUME NEW g \in Goroutines, NEW c \in Conns, Pick(g, c)
      PROVE  OnceInv' /\ OnceTypes'
  BY <1>2 DEF Pick, HolderInv, FrameTypes, histVars, onceVars
<1>3. ASSUME NEW g \in Goroutines, NEW answer \in Outcomes, AnswerStep(g, answer)
      PROVE  OnceInv' /\ OnceTypes'
  <2>1. CASE ExecContext(g, answer) \/ StmtExecContext(g, answer)
    <3>1. Execute(g, answer) /\ ObserveAnswer(g, answer) /\ pc[g] \in {"exec", "stmt"}
      BY <2>1 DEF ExecContext, StmtExecContext
    <3>2. ran[g] = 0 /\ refused[g] = 0 /\ observed[g] = 0
      BY <3>1
    <3>3. /\ \A h \in Goroutines \ {g} : pc'[h] = pc[h]
          /\ Conclusive(answer) => pc'[g] = "idle"
      BY <3>1, ProceedLeaves DEF Execute, HolderInv
    <3>4. CASE answer \in {"ok", "fail"}
      BY <3>1, <3>2, <3>3, <3>4 DEF Execute, ObserveAnswer, Conclusive
    <3>5. CASE answer = "args"
      BY <3>1, <3>2, <3>3, <3>5 DEF Execute, ObserveAnswer, Conclusive
    <3>6. CASE answer \in {"skip", "bad"}
      BY <3>1, <3>2, <3>3, <3>6 DEF Execute, ObserveAnswer, Conclusive
    <3>7. QED
      BY <3>4, <3>5, <3>6 DEF Outcomes
  <2>2. CASE PrepareContext(g, answer) \/ BeginTx(g, answer) \/ CommitOrRollback(g, answer)
    <3>1. UNCHANGED <<ran, refused, observed>>
      BY <2>2 DEF PrepareContext, BeginTx, CommitOrRollback, onceVars
    <3>2. \A h \in Goroutines \ {g} : pc'[h] = pc[h]
      BY <2>2, ProceedLeaves DEF PrepareContext, BeginTx, CommitOrRollback, Release, HolderInv,
         FrameTypes
    <3>3. pc[g] # "idle" \/ pc'[g] = "idle"
      BY <2>2 DEF PrepareContext, BeginTx, CommitOrRollback, Release, HolderInv, FrameTypes
    <3>4. QED
      BY <3>1, <3>2, <3>3
  <2>3. QED
    BY <1>3, <2>1, <2>2 DEF AnswerStep
<1>4. ASSUME NEW c \in Conns, CloseIdle(c)
      PROVE  OnceInv' /\ OnceTypes'
  BY <1>4 DEF CloseIdle, callVars, histVars, onceVars
<1>5. CASE UNCHANGED vars
  BY <1>5 DEF vars, callVars, histVars, onceVars
<1>6. QED
  BY <1>1, <1>2, <1>3, <1>4, <1>5, NextSteps

-----------------------------------------------------------------------------
(* The transaction state. *)

\* Session.BeginTx on a connection, inside a textual transaction or not, moves
\* it to the set of the new scope and to no other.
LEMMA SessionBeginTxExact ==
  ASSUME TxInv, NEW c \in Conns, NEW s \in ScopeOrNil, SessionBeginTx(c, s)
  PROVE  TxInv' /\ inTx'[c] /\ txScope'[c] = s
<1> USE DEF TxInv, TxTypeOK, SessionBeginTx
<1>1. /\ inTx' \in [Conns -> BOOLEAN] /\ txScope' \in [Conns -> ScopeOrNil]
      /\ inTx'[c] /\ txScope'[c] = s
  OBVIOUS
<1>2. ASSUME NEW t \in Scopes
      PROVE  openTxs'[t] = Cardinality(OpenOn(t)')
  <2> DEFINE rest == OpenOn(t) \ {c}
  <2>1. IsFiniteSet(OpenOn(t)) /\ IsFiniteSet(rest) /\ openTxs[t] = Cardinality(OpenOn(t))
    BY ConnsCount DEF OpenOn, CounterExact
  <2>2. /\ openTxs'[t] = openTxs[t] + (IF t = s THEN 1 ELSE 0) - (IF c \in OpenOn(t) THEN 1 ELSE 0)
        /\ openTxs[t] \in Int
    BY <2>1, FS_CardinalityType
  <2>3. Cardinality(rest) = openTxs[t] - (IF c \in OpenOn(t) THEN 1 ELSE 0)
    <3>1. CASE c \in OpenOn(t)
      BY <2>1, <3>1, FS_RemoveElement
    <3>2. CASE c \notin OpenOn(t)
      <4>1. rest = OpenOn(t)
        BY <3>2
      <4>2. Cardinality(rest) = Cardinality(OpenOn(t))
        BY <4>1
      <4>3. QED
        BY <2>1, <2>2, <3>2, <4>2
    <3>3. QED
      BY <3>1, <3>2
  <2>4. CASE t = s
    <3>1. OpenOn(t)' = rest \cup {c} /\ c \notin rest
      BY <2>4, <1>1 DEF OpenOn
    <3>2. Cardinality(OpenOn(t)') = Cardinality(rest) + 1
      BY <2>1, <3>1, FS_AddElement
    <3>3. QED
      BY <2>2, <2>3, <2>4, <3>2
  <2>5. CASE t # s
    <3>1. OpenOn(t)' = rest
      BY <2>5, <1>1 DEF OpenOn
    <3>2. QED
      BY <2>2, <2>3, <2>5, <3>1
  <2>6. QED
    BY <2>4, <2>5
<1>3. \A t \in Scopes : openTxs'[t] \in 0..Cardinality(Conns)
  <2>1. \A t : OpenOn(t)' \subseteq Conns
    BY DEF OpenOn
  <2>2. QED
    BY <1>2, <2>1, ConnsCount
<1>4. openTxs' \in [Scopes -> 0..Cardinality(Conns)]
  BY <1>3
<1>5. QED
  BY <1>1, <1>2, <1>4 DEF CounterExact

\* What one connection's Session does to the transaction state.
TxOf(c, s) ==
  \/ UNCHANGED <<txVars, origin>>
  \/ ~inTx[c] /\ openTx(c, s) /\ origin' = [origin EXCEPT ![c] = "text"]
  \/ closeTx(c) /\ UNCHANGED origin
  \/ SessionBeginTx(c, s) /\ origin' = [origin EXCEPT ![c] = "api"]

LEMMA TxOfExact ==
  ASSUME TxInv, NEW c \in Conns, NEW s \in ScopeOrNil, TxOf(c, s),
         origin \in [Conns -> {"text", "api"}]
  PROVE  /\ TxInv' /\ origin' \in [Conns -> {"text", "api"}]
         /\ \A d \in Conns \ {c} : /\ inTx'[d] = inTx[d] /\ txScope'[d] = txScope[d]
                                   /\ origin'[d] = origin[d]
<1>1. CASE UNCHANGED <<txVars, origin>>
  BY <1>1, TxUnchangedExact DEF txVars
<1>2. CASE ~inTx[c] /\ openTx(c, s) /\ origin' = [origin EXCEPT ![c] = "text"]
  BY <1>2, OpenTxExact DEF openTx, TxInv, TxTypeOK
<1>3. CASE closeTx(c) /\ UNCHANGED origin
  BY <1>3, CloseTxExact DEF closeTx, TxInv, TxTypeOK, txVars
<1>4. CASE SessionBeginTx(c, s) /\ origin' = [origin EXCEPT ![c] = "api"]
  BY <1>4, SessionBeginTxExact DEF SessionBeginTx, TxInv, TxTypeOK
<1>5. QED
  BY <1>1, <1>2, <1>3, <1>4 DEF TxOf

LEMMA AnswersAreTxOf ==
  ASSUME HolderInv, NEW g \in Goroutines, NEW answer \in Outcomes, AnswerStep(g, answer)
  PROVE  TxOf(conn[g], scope[g])
<1>1. CASE ExecContext(g, answer) \/ StmtExecContext(g, answer)
  BY <1>1 DEF ExecContext, StmtExecContext, ObserveAnswer, Observe, TxOf
<1>2. CASE PrepareContext(g, answer)
  BY <1>2 DEF PrepareContext, TxOf
<1>3. CASE BeginTx(g, answer)
  BY <1>3 DEF BeginTx, TxOf
<1>4. CASE CommitOrRollback(g, answer)
  BY <1>4 DEF CommitOrRollback, EndTx, TxOf
<1>5. QED
  BY <1>1, <1>2, <1>3, <1>4 DEF AnswerStep

-----------------------------------------------------------------------------
(* The server. *)

\* An answer concerns one connection; a live one that succeeded has done what
\* was asked, and one that did not run or failed to begin has done nothing; of
\* refused arguments it has heard nothing.
LEMMA ServerAnswersOne ==
  ASSUME HistoryTypes, NEW c \in Conns, NEW k, NEW answer \in Outcomes,
         ServerAnswers(c, k, answer)
  PROVE  /\ broken' \in [Conns -> BOOLEAN] /\ serverTx' \in [Conns -> BOOLEAN]
         /\ unsure' \in [Conns -> BOOLEAN]
         /\ \A d \in Conns \ {c} : /\ broken'[d] = broken[d] /\ unsure'[d] = unsure[d]
                                   /\ serverTx'[d] = serverTx[d]
         /\ broken'[c] <=> broken[c] \/ answer = "bad"
         /\ unsure'[c] <=> unsure[c] \/ (k # "other" /\ answer \in {"fail", "args"})
         /\ k = "begin" /\ answer = "ok" => serverTx'[c]
         /\ k = "end" /\ answer = "ok" => ~serverTx'[c]
         /\ answer \in {"skip", "args"} \/ (k \notin {"begin", "end"} /\ answer # "bad")
              => serverTx'[c] = serverTx[c]
<1>1. PICK b \in BOOLEAN :
         /\ serverTx' = [serverTx EXCEPT ![c] = b]
         /\ k = "begin" /\ answer = "ok" => b
         /\ k = "end" /\ answer = "ok" => ~b
         /\ answer \in {"skip", "args"} \/ (k \notin {"begin", "end"} /\ answer # "bad")
              => b = serverTx[c]
  BY DEF ServerAnswers, HistoryTypes
<1>2. /\ broken' = [broken EXCEPT ![c] = @ \/ answer = "bad"]
      /\ unsure' = [unsure EXCEPT ![c] = @ \/ (k # "other" /\ answer \in {"fail", "args"})]
  BY DEF ServerAnswers
<1>3. QED
  BY <1>1, <1>2 DEF HistoryTypes

\* The pool's view of every other connection stays; its own becomes idle or
\* closed, or stays held.
LEMMA AnswerStatus ==
  ASSUME HolderInv, NEW g \in Goroutines, NEW answer \in Outcomes, AnswerStep(g, answer)
  PROVE  /\ status'[conn[g]] # "new"
         /\ \A d \in Conns \ {conn[g]} : status'[d] = status[d]
<1>1. conn[g] \in Conns /\ status[conn[g]] = "held" /\ status \in [Conns -> {"new", "idle", "held", "closed"}]
  BY AnswerOnConn DEF HolderInv, FrameTypes
<1>2. \/ UNCHANGED status
      \/ \E next \in {"idle", "closed"} : status' = [status EXCEPT ![conn[g]] = next]
  BY DEF AnswerStep, ExecContext, PrepareContext, StmtExecContext, BeginTx, CommitOrRollback,
     Execute, Proceed, Release
<1>3. QED
  BY <1>1, <1>2

\* What an answer of a live connection leaves certain is the same on both sides.
LEMMA AnswersAgree ==
  ASSUME TxInv, HolderInv, HistoryTypes, SessionFollowsServer,
         NEW g \in Goroutines, NEW answer \in Outcomes, AnswerStep(g, answer),
         ~broken'[conn[g]], ~unsure'[conn[g]]
  PROVE  inTx'[conn[g]] = serverTx'[conn[g]]
<1> DEFINE c == conn[g]
<1>1. c \in Conns /\ status[c] = "held" /\ inTx \in [Conns -> BOOLEAN]
  BY AnswerOnConn DEF TxInv, TxTypeOK
<1>2. inTx'[c] \in BOOLEAN
  <2>1. TxInv'
    BY <1>1, AnswersAreTxOf, TxOfExact DEF HolderInv, FrameTypes, HistoryTypes
  <2>2. QED
    BY <1>1, <2>1 DEF TxInv, TxTypeOK
<1> HIDE DEF c
<1> SUFFICES inTx'[c] = serverTx'[c]
  BY DEF c
<1>3. ASSUME NEW k, ServerAnswers(c, k, answer)
      PROVE  /\ answer # "bad" /\ inTx[c] = serverTx[c]
             /\ k = "other" \/ answer \notin {"fail", "args"}
             /\ k = "begin" /\ answer = "ok" => serverTx'[c]
             /\ k = "end" /\ answer = "ok" => ~serverTx'[c]
             /\ answer = "skip" \/ k \notin {"begin", "end"} => serverTx'[c] = serverTx[c]
             /\ serverTx'[c] \in BOOLEAN
  <2>1. /\ broken'[c] <=> broken[c] \/ answer = "bad"
        /\ unsure'[c] <=> unsure[c] \/ (k # "other" /\ answer \in {"fail", "args"})
        /\ k = "begin" /\ answer = "ok" => serverTx'[c]
        /\ k = "end" /\ answer = "ok" => ~serverTx'[c]
        /\ answer \in {"skip", "args"} \/ (k \notin {"begin", "end"} /\ answer # "bad")
              => serverTx'[c] = serverTx[c]
        /\ serverTx'[c] \in BOOLEAN
    BY <1>1, <1>3, ServerAnswersOne
  <2>2. ~broken'[c] /\ ~unsure'[c]
    BY DEF c
  <2>3. ~broken[c]
    BY <2>1, <2>2
  <2>4. QED
    BY <1>1, <2>1, <2>2, <2>3 DEF SessionFollowsServer
<1>4. CASE ExecContext(g, answer) \/ StmtExecContext(g, answer)
  <2>1. ServerAnswers(c, stmt[g], answer) /\ ObserveAnswer(g, answer)
    BY <1>4 DEF ExecContext, StmtExecContext, Execute, c
  <2>2. CASE ~Conclusive(answer)
    BY <1>3, <2>1, <2>2 DEF ObserveAnswer, Conclusive, Outcomes, txVars
  <2>3. CASE Conclusive(answer)
    <3>1. Observe(c, stmt[g], scope[g])
      BY <2>1, <2>3 DEF ObserveAnswer, c
    <3>2. CASE stmt[g] = "begin"
      <4>1. answer = "ok" /\ serverTx'[c]
        BY <1>3, <2>1, <2>3, <3>2 DEF Conclusive, Outcomes
      <4>2. inTx'[c]
        BY <1>1, <3>1, <3>2 DEF Observe, openTx, txVars
      <4>3. QED
        BY <1>2, <1>3, <2>1, <4>1, <4>2 DEF c
    <3>3. CASE stmt[g] = "end"
      <4>1. answer = "ok" /\ ~serverTx'[c]
        BY <1>3, <2>1, <2>3, <3>3 DEF Conclusive, Outcomes
      <4>2. ~inTx'[c]
        BY <1>1, <3>1, <3>3, CloseTxExact DEF Observe
      <4>3. QED
        BY <1>2, <1>3, <2>1, <4>1, <4>2 DEF c
    <3>4. CASE stmt[g] \notin {"begin", "end"}
      BY <1>3, <2>1, <3>1, <3>4 DEF Observe, txVars
    <3>5. QED
      BY <3>2, <3>3, <3>4
  <2>4. QED
    BY <2>2, <2>3 DEF c
<1>5. CASE PrepareContext(g, answer)
  BY <1>3, <1>5 DEF PrepareContext, txVars, c
<1>6. CASE BeginTx(g, answer)
  <2>1. CASE answer = "ok"
    <3>1. ServerAnswers(c, "begin", answer) /\ SessionBeginTx(c, scope[g])
      BY <1>6, <2>1 DEF BeginTx, c
    <3>2. QED
      <4>1. inTx'[c]
        BY <1>1, <3>1 DEF SessionBeginTx
      <4>2. QED
        BY <1>2, <1>3, <2>1, <3>1, <4>1 DEF c
  <2>2. CASE answer # "ok"
    BY <1>3, <1>6, <2>2 DEF BeginTx, txVars, c, Outcomes
  <2>3. QED
    BY <2>1, <2>2
<1>7. CASE CommitOrRollback(g, answer)
  <2>1. ServerAnswers(c, "end", answer) /\ closeTx(c) /\ answer # "skip"
    BY <1>7 DEF CommitOrRollback, EndTx, c
  <2>2. ~inTx'[c]
    BY <1>1, <2>1, CloseTxExact
  <2>3. ~serverTx'[c]
    BY <1>3, <2>1 DEF Outcomes
  <2>4. QED
    BY <1>2, <1>3, <2>1, <2>2, <2>3 DEF c
<1>8. QED
  BY <1>4, <1>5, <1>6, <1>7 DEF AnswerStep

LEMMA ServerKept ==
  ASSUME TxInv, HolderInv, HistoryTypes, NewInv, SessionFollowsServer, [Next]_vars
  PROVE  /\ SessionFollowsServer' /\ NewInv' /\ broken' \in [Conns -> BOOLEAN]
         /\ serverTx' \in [Conns -> BOOLEAN] /\ unsure' \in [Conns -> BOOLEAN]
<1> USE DEF SessionFollowsServer, NewInv
<1>1. ASSUME NEW g \in Goroutines, CallStep(g)
      PROVE  UNCHANGED <<txVars, broken, serverTx, unsure, status>>
  BY <1>1 DEF CallStep, Call, CallInTx, poolVars
<1>2. ASSUME NEW g \in Goroutines, NEW c \in Conns, Pick(g, c)
      PROVE  /\ UNCHANGED <<txVars, broken, serverTx, unsure>>
             /\ status' = [status EXCEPT ![c] = "held"] /\ status[c] \in {"new", "idle"}
  BY <1>2 DEF Pick, histVars
<1>3. ASSUME NEW g \in Goroutines, NEW answer \in Outcomes, AnswerStep(g, answer)
      PROVE  /\ SessionFollowsServer' /\ NewInv' /\ broken' \in [Conns -> BOOLEAN]
             /\ serverTx' \in [Conns -> BOOLEAN] /\ unsure' \in [Conns -> BOOLEAN]
  <2> DEFINE c == conn[g]
  <2>1. c \in Conns
    BY <1>3, AnswerOnConn
  <2>2. PICK k : ServerAnswers(c, k, answer)
    BY <1>3 DEF AnswerStep, ExecContext, PrepareContext, StmtExecContext, BeginTx,
       CommitOrRollback, Execute
  <2>3. /\ broken' \in [Conns -> BOOLEAN] /\ serverTx' \in [Conns -> BOOLEAN]
        /\ unsure' \in [Conns -> BOOLEAN]
        /\ \A d \in Conns \ {c} : /\ broken'[d] = broken[d] /\ unsure'[d] = unsure[d]
                                  /\ serverTx'[d] = serverTx[d]
    BY <2>1, <2>2, ServerAnswersOne
  <2>4. \A d \in Conns \ {c} : inTx'[d] = inTx[d]
    BY <1>3, <2>1, AnswersAreTxOf, TxOfExact DEF HolderInv, FrameTypes, HistoryTypes
  <2>5. status'[c] # "new" /\ \A d \in Conns \ {c} : status'[d] = status[d]
    BY <1>3, AnswerStatus
  <2>6. ~broken'[c] /\ ~unsure'[c] => inTx'[c] = serverTx'[c]
    BY <1>3, AnswersAgree
  <2> HIDE DEF c
  <2>7. SessionFollowsServer'
    BY <2>1, <2>3, <2>4, <2>5, <2>6
  <2>8. NewInv'
    BY <2>1, <2>3, <2>4, <2>5
  <2>9. QED
    BY <2>3, <2>7, <2>8
<1>4. ASSUME NEW c \in Conns, CloseIdle(c)
      PROVE  /\ UNCHANGED <<txVars, broken, unsure>> /\ status[c] = "idle"
             /\ status' = [status EXCEPT ![c] = "closed"]
             /\ serverTx' = [serverTx EXCEPT ![c] = FALSE]
  BY <1>4 DEF CloseIdle, histVars
<1>5. CASE UNCHANGED vars
  BY <1>5 DEF vars, txVars, poolVars, histVars, HistoryTypes
<1>6. CASE UNCHANGED <<txVars, broken, serverTx, unsure, status>>
  BY <1>6 DEF txVars, HistoryTypes
<1>7. ASSUME NEW g \in Goroutines, NEW c \in Conns, Pick(g, c)
      PROVE  /\ SessionFollowsServer' /\ NewInv' /\ broken' \in [Conns -> BOOLEAN]
             /\ serverTx' \in [Conns -> BOOLEAN] /\ unsure' \in [Conns -> BOOLEAN]
  BY <1>2, <1>7 DEF HolderInv, FrameTypes, HistoryTypes, TxInv, TxTypeOK, txVars
<1>8. ASSUME NEW c \in Conns, CloseIdle(c)
      PROVE  /\ SessionFollowsServer' /\ NewInv' /\ broken' \in [Conns -> BOOLEAN]
             /\ serverTx' \in [Conns -> BOOLEAN] /\ unsure' \in [Conns -> BOOLEAN]
  <2>1. /\ UNCHANGED <<inTx, broken, unsure>>
        /\ serverTx' \in [Conns -> BOOLEAN] /\ ~serverTx'[c] /\ status'[c] = "closed"
        /\ \A d \in Conns \ {c} : serverTx'[d] = serverTx[d] /\ status'[d] = status[d]
    <3>1. /\ UNCHANGED <<txVars, broken, unsure>>
          /\ status' = [status EXCEPT ![c] = "closed"]
          /\ serverTx' = [serverTx EXCEPT ![c] = FALSE]
      BY <1>4, <1>8
    <3>2. /\ status \in [Conns -> {"new", "idle", "held", "closed"}]
          /\ serverTx \in [Conns -> BOOLEAN]
      BY DEF HolderInv, FrameTypes, HistoryTypes
    <3>3. QED
      BY <3>1, <3>2 DEF txVars
  <2>2. QED
    BY <2>1 DEF HistoryTypes
<1>9. QED
  BY <1>1, <1>3, <1>5, <1>6, <1>7, <1>8, NextSteps

-----------------------------------------------------------------------------
(* Transactions of the driver API. *)

\* Session's state changes only on the connection that answers.
LEMMA TxKept ==
  ASSUME TxInv, HolderInv, HistoryTypes, [Next]_vars
  PROVE  TxInv' /\ origin' \in [Conns -> {"text", "api"}]
<1>1. ASSUME NEW g \in Goroutines, NEW answer \in Outcomes, AnswerStep(g, answer)
      PROVE  TxInv' /\ origin' \in [Conns -> {"text", "api"}]
  BY <1>1, AnswerOnConn, AnswersAreTxOf, TxOfExact DEF HolderInv, FrameTypes, HistoryTypes
<1>2. CASE UNCHANGED <<txVars, origin>>
  BY <1>2, TxUnchangedExact DEF HistoryTypes
<1>3. QED
  BY <1>1, <1>2, NextSteps DEF CallStep, Call, CallInTx, Pick, CloseIdle, vars, histVars

LEMMA ApiKept ==
  ASSUME TxInv, HolderInv, HistoryTypes, ApiTxEndsWithSqlTx, [Next]_vars
  PROVE  ApiTxEndsWithSqlTx'
<1> USE DEF ApiTxEndsWithSqlTx
<1>0. HolderInv'
  BY HoldersKept
<1>1. ASSUME NEW g \in Goroutines, NEW answer \in Outcomes, AnswerStep(g, answer)
      PROVE  ApiTxEndsWithSqlTx'
  <2> DEFINE c == conn[g]
  <2>1. c \in Conns /\ c # NoConn /\ OnConn(g)
    BY <1>1, AnswerOnConn, NoConnIsNoConn
  <2>2. TxOf(c, scope[g]) /\ scope[g] \in ScopeOrNil
    BY <1>1, AnswersAreTxOf DEF HolderInv, FrameTypes
  <2>3. \A d \in Conns \ {c} : /\ inTx'[d] = inTx[d] /\ txScope'[d] = txScope[d]
                                /\ origin'[d] = origin[d]
    BY <2>1, <2>2, TxOfExact DEF HistoryTypes
  <2>4. \A h \in Goroutines \ {g} : conn'[h] = conn[h] /\ txScopeOf'[h] = txScopeOf[h]
    BY <1>1 DEF AnswerStep, ExecContext, PrepareContext, StmtExecContext, BeginTx,
       CommitOrRollback, Execute, Proceed, Release, HolderInv, FrameTypes
  <2>5. \A h \in Goroutines \ {g} : conn[h] # c
    BY <2>1 DEF HolderInv
  <2> HIDE DEF c
  <2>6. ASSUME NEW d \in Conns \ {c}, inTx'[d], origin'[d] = "api"
        PROVE  \E h \in Goroutines : conn'[h] = d /\ txScopeOf'[h] = {txScope'[d]}
    <3>1. PICK h \in Goroutines : conn[h] = d /\ txScopeOf[h] = {txScope[d]}
      BY <2>3, <2>6
    <3>2. h # g
      BY <3>1, <2>6 DEF c
    <3>3. QED
      BY <2>3, <2>4, <3>1, <3>2
  <2>7. ASSUME inTx'[c], origin'[c] = "api"
        PROVE  conn'[g] = c /\ txScopeOf'[g] = {txScope'[c]}
    <3>1. CASE BeginTx(g, answer) /\ answer = "ok"
      <4>1. /\ SessionBeginTx(c, scope[g]) /\ UNCHANGED conn
            /\ txScopeOf' = [txScopeOf EXCEPT ![g] = {scope[g]}]
        BY <3>1 DEF BeginTx, c
      <4>2. QED
        BY <2>1, <4>1 DEF SessionBeginTx, TxInv, TxTypeOK, HolderInv, FrameTypes, c
    <3>2. CASE CommitOrRollback(g, answer)
      <4>1. closeTx(c)
        BY <3>2 DEF CommitOrRollback, EndTx, c
      <4>2. ~inTx'[c]
        BY <2>1, <4>1, CloseTxExact
      <4>3. QED
        BY <2>7, <4>2
    <3>3. CASE \/ ExecContext(g, answer) \/ PrepareContext(g, answer)
               \/ StmtExecContext(g, answer) \/ (BeginTx(g, answer) /\ answer # "ok")
      <4>1. /\ inTx[c] /\ origin[c] = "api" /\ txScope'[c] = txScope[c]
            /\ UNCHANGED txScopeOf
        <5>1. UNCHANGED txScopeOf
          BY <3>3 DEF ExecContext, PrepareContext, StmtExecContext, BeginTx, Execute
        <5>2. \/ UNCHANGED <<txVars, origin>>
              \/ ~inTx[c] /\ openTx(c, scope[g]) /\ origin' = [origin EXCEPT ![c] = "text"]
              \/ closeTx(c) /\ UNCHANGED origin
          BY <3>3 DEF ExecContext, PrepareContext, StmtExecContext, BeginTx, ObserveAnswer,
             Observe, c
        <5>3. ~closeTx(c) \/ UNCHANGED txVars
          BY <2>1, <2>7, CloseTxExact
        <5>4. QED
          BY <2>1, <2>7, <5>1, <5>2, <5>3 DEF HistoryTypes, txVars
      <4>2. txScopeOf[g] = {txScope[c]}
        BY <2>1, <2>5, <4>1
      <4>3. UNCHANGED conn
        BY <3>3, <4>2 DEF ExecContext, PrepareContext, StmtExecContext, BeginTx, Execute,
           Proceed, InSqlTx
      <4>4. QED
        BY <4>1, <4>2, <4>3 DEF c
    <3>4. QED
      BY <1>1, <3>1, <3>2, <3>3 DEF AnswerStep
  <2>8. QED
    BY <2>1, <2>6, <2>7
<1>2. ASSUME NEW g \in Goroutines, NEW c \in Conns, Pick(g, c)
      PROVE  ApiTxEndsWithSqlTx'
  <2>1. conn[g] = NoConn
    BY <1>2 DEF Pick, HolderInv, OnConn
  <2>2. /\ UNCHANGED <<txVars, origin, txScopeOf>> /\ conn' = [conn EXCEPT ![g] = c]
    BY <1>2 DEF Pick, histVars
  <2>3. \A h \in Goroutines : conn[h] # NoConn => conn'[h] = conn[h]
    BY <2>1, <2>2 DEF HolderInv, FrameTypes
  <2>4. ASSUME NEW d \in Conns, inTx'[d], origin'[d] = "api"
        PROVE  \E h \in Goroutines : conn'[h] = d /\ txScopeOf'[h] = {txScope'[d]}
    <3>1. PICK h \in Goroutines : conn[h] = d /\ txScopeOf[h] = {txScope[d]}
      BY <2>2, <2>4 DEF txVars
    <3>2. QED
      BY <2>2, <2>3, <3>1, NoConnIsNoConn DEF txVars
  <2>5. QED
    BY <2>4
<1>3. CASE UNCHANGED <<txVars, origin, conn, txScopeOf>>
  BY <1>3 DEF txVars
<1>4. QED
  BY <1>1, <1>2, <1>3, NextSteps DEF CallStep, Call, CallInTx, CloseIdle, vars, histVars, callVars

-----------------------------------------------------------------------------
(* The invariant and what it says. *)

LEMMA InitIInv == Init => IInv
<1> SUFFICES ASSUME Init PROVE IInv
  OBVIOUS
<1>1. TxInv
  BY TxInitExact DEF Init
<1>2. HolderInv
  BY AttemptsPositive, NoConnIsNoConn DEF Init, HolderInv, FrameTypes, OnConn, InSqlTx, ScopeOrNil
<1>3. HistoryTypes /\ OnceInv /\ NewInv /\ SessionFollowsServer /\ ApiTxEndsWithSqlTx
  BY DEF Init, TxInit, HistoryTypes, OnceTypes, OnceInv, NewInv, SessionFollowsServer, ApiTxEndsWithSqlTx
<1>4. QED
  BY <1>1, <1>2, <1>3 DEF IInv

LEMMA Inductive == Spec => []IInv
<1>1. IInv /\ [Next]_vars => IInv'
  <2> SUFFICES ASSUME IInv, [Next]_vars PROVE IInv'
    OBVIOUS
  <2>1. QED
    BY HoldersKept, OnceKept, ServerKept, TxKept, ApiKept DEF IInv, HistoryTypes
<1>2. QED
  BY <1>1, InitIInv, PTL DEF Spec

\* Every reachable state is well typed and a connection in use has one user:
\* the serial use every Session relies on.
THEOREM TypeCorrect == Spec => []TypeOK
<1>1. IInv => TypeOK
  <2> SUFFICES ASSUME IInv PROVE TypeOK
    OBVIOUS
  <2>1. ASSUME NEW c \in Conns
        PROVE  Cardinality({g \in Goroutines : conn[g] = c}) = IF status[c] = "held" THEN 1 ELSE 0
    <3>1. CASE status[c] = "held"
      <4>1. PICK h \in Goroutines : conn[h] = c
        BY <3>1 DEF IInv, HolderInv
      <4>2. {g \in Goroutines : conn[g] = c} = {h}
        BY <4>1, NoConnIsNoConn DEF IInv, HolderInv
      <4>3. QED
        BY <3>1, <4>2, FS_Singleton
    <3>2. CASE status[c] # "held"
      <4>1. {g \in Goroutines : conn[g] = c} = {}
        BY <3>2, NoConnIsNoConn DEF IInv, HolderInv
      <4>2. QED
        BY <3>2, <4>1, FS_EmptySet
    <3>3. QED
      BY <3>1, <3>2
  <2>2. QED
    BY <2>1 DEF IInv, TypeOK, TxInv, HolderInv, FrameTypes, HistoryTypes, OnceTypes, NewInv
<1>2. QED
  BY <1>1, Inductive, PTL

\* Through every mixture of pooled connections, sql.Tx, textual control,
\* retries and failures, the counters stay exact.
THEOREM CountersExact == Spec => []CounterExact
<1>1. IInv => CounterExact
  BY DEF IInv, TxInv
<1>2. QED
  BY <1>1, Inductive, PTL

\* Neither ErrSkip nor ErrBadConn makes the middleware observe a statement twice
\* or miss one, and what it observes ran or was refused for its arguments.
THEOREM StatementsObservedOnce == Spec => []ObservedOnce
<1>1. IInv => ObservedOnce
  BY DEF IInv, OnceInv, ObservedOnce, HistoryTypes, OnceTypes
<1>2. QED
  BY <1>1, Inductive, PTL

\* A Session and its server agree until transaction control fails.
THEOREM SessionsFollowServers == Spec => []SessionFollowsServer
<1>1. IInv => SessionFollowsServer
  BY DEF IInv
<1>2. QED
  BY <1>1, Inductive, PTL

\* No transaction of the driver API is counted after its sql.Tx has ended.
THEOREM ApiTxsEnd == Spec => []ApiTxEndsWithSqlTx
<1>1. IInv => ApiTxEndsWithSqlTx
  BY DEF IInv
<1>2. QED
  BY <1>1, Inductive, PTL
=============================================================================
