------------------------------- MODULE Driver -------------------------------
(***************************************************************************)
(* The database/sql middleware (driver.go).  A wrappedConn calls the       *)
(* underlying connection first and tells its Session afterwards, depending *)
(* on how that call came out:                                              *)
(*   "ok"    it succeeded;                                                 *)
(*   "fail"  an error of the statement or the transaction;                 *)
(*   "skip"  driver.ErrSkip: database/sql prepares the statement instead;  *)
(*   "bad"   driver.ErrBadConn: the connection is dead, and outside a      *)
(*           transaction database/sql tries again on another one;          *)
(*   "args"  the wrapper itself refused the arguments of the statement,    *)
(*           and nothing reached the underlying connection.                *)
(* database/sql, the connection pool and the server are not in the         *)
(* repository; they are the parts marked external, modelled by what        *)
(* driver.go and its comments rely on.                                     *)
(***************************************************************************)
EXTENDS TxAttribution

CONSTANTS
  Goroutines,   \* users of the *sql.DB
  NoConn,
  Attempts      \* bound: connections database/sql tries for one call

ASSUME NoConnIsNoConn == NoConn \notin Conns
ASSUME AttemptsPositive == Attempts \in Nat \ {0}

VARIABLES
  pc,           \* where each goroutine is inside its call into *sql.DB
  conn,         \* the connection it holds
  stmt,         \* the kind of its statement: "begin", "end", "other"
  scope,        \* the scope of the context of its call
  txScopeOf,    \* the sql.Tx it has open: {the scope of its BeginTx} or {}
  left,         \* attempts left
  status,       \* of each connection: "new", "idle", "held", "closed"
  broken,       \* the underlying connection has answered ErrBadConn
  serverTx,     \* the server has a transaction open on it
  origin,       \* history: what opened the tracked transaction, "text" or "api"
  unsure,       \* history: transaction control failed, the server decides
  ran, refused, \* history: how often the call's statement ran, was refused
  observed      \* for its arguments, and was observed

callVars == <<pc, conn, stmt, scope, left>>
poolVars == <<status, broken>>
onceVars == <<ran, refused, observed>>
histVars == <<origin, unsure, onceVars>>
vars == <<txVars, callVars, txScopeOf, poolVars, serverTx, histVars>>

Outcomes == {"ok", "fail", "skip", "bad", "args"}

\* A connection that was never opened has no transaction, and a connection in
\* use is used by one goroutine (the serial use Session's contract asks for).
TypeOK ==
  /\ TxTypeOK
  /\ pc \in [Goroutines -> {"idle", "pick", "exec", "prepare", "stmt", "begin"}]
  /\ conn \in [Goroutines -> Conns \cup {NoConn}]
  /\ stmt \in [Goroutines -> {"begin", "end", "other", "beginTx"}]
  /\ scope \in [Goroutines -> ScopeOrNil]
  /\ txScopeOf \in [Goroutines -> SUBSET ScopeOrNil]
  /\ left \in [Goroutines -> 0..Attempts]
  /\ status \in [Conns -> {"new", "idle", "held", "closed"}]
  /\ broken \in [Conns -> BOOLEAN] /\ serverTx \in [Conns -> BOOLEAN]
  /\ origin \in [Conns -> {"text", "api"}] /\ unsure \in [Conns -> BOOLEAN]
  /\ ran \in [Goroutines -> 0..1] /\ refused \in [Goroutines -> 0..1]
  /\ observed \in [Goroutines -> 0..1]
  /\ \A c \in Conns : status[c] = "new" => ~inTx[c] /\ ~serverTx[c]
  /\ \A c \in Conns : Cardinality({g \in Goroutines : conn[g] = c})
                        = IF status[c] = "held" THEN 1 ELSE 0

Init ==
  /\ TxInit
  /\ pc = [g \in Goroutines |-> "idle"]
  /\ conn = [g \in Goroutines |-> NoConn]
  /\ stmt = [g \in Goroutines |-> "other"]
  /\ scope = [g \in Goroutines |-> NoScope]
  /\ txScopeOf = [g \in Goroutines |-> {}]
  /\ left = [g \in Goroutines |-> 0]
  /\ status = [c \in Conns |-> "new"]
  /\ broken = [c \in Conns |-> FALSE]
  /\ serverTx = [c \in Conns |-> FALSE]
  /\ origin = [c \in Conns |-> "text"]
  /\ unsure = [c \in Conns |-> FALSE]
  /\ ran = [g \in Goroutines |-> 0]
  /\ refused = [g \in Goroutines |-> 0]
  /\ observed = [g \in Goroutines |-> 0]

InSqlTx(g) == txScopeOf[g] # {}

-----------------------------------------------------------------------------
(* database/sql (external). *)

\* A call on the *sql.DB with the context's scope s: a statement or BeginTx.
Call(g, k, s) ==
  /\ pc[g] = "idle" /\ ~InSqlTx(g)
  /\ pc' = [pc EXCEPT ![g] = "pick"]
  /\ stmt' = [stmt EXCEPT ![g] = k]
  /\ scope' = [scope EXCEPT ![g] = s]
  /\ left' = [left EXCEPT ![g] = Attempts]
  /\ ran' = [ran EXCEPT ![g] = 0]
  /\ refused' = [refused EXCEPT ![g] = 0]
  /\ observed' = [observed EXCEPT ![g] = 0]
  /\ UNCHANGED <<txVars, conn, txScopeOf, poolVars, serverTx, origin, unsure>>

\* A statement on the sql.Tx runs on its connection and is not retried.
CallInTx(g, k, s) ==
  /\ pc[g] = "idle" /\ InSqlTx(g)
  /\ \E l \in {"exec", "prepare"} : pc' = [pc EXCEPT ![g] = l]
  /\ stmt' = [stmt EXCEPT ![g] = k]
  /\ scope' = [scope EXCEPT ![g] = s]
  /\ left' = [left EXCEPT ![g] = 1]
  /\ ran' = [ran EXCEPT ![g] = 0]
  /\ refused' = [refused EXCEPT ![g] = 0]
  /\ observed' = [observed EXCEPT ![g] = 0]
  /\ UNCHANGED <<txVars, conn, txScopeOf, poolVars, serverTx, origin, unsure>>

\* The pool hands out an idle connection or opens a new one.
Pick(g, c) ==
  /\ pc[g] = "pick" /\ status[c] \in {"new", "idle"}
  /\ status' = [status EXCEPT ![c] = "held"]
  /\ conn' = [conn EXCEPT ![g] = c]
  /\ left' = [left EXCEPT ![g] = @ - 1]
  /\ \E l \in IF stmt[g] = "beginTx" THEN {"begin"} ELSE {"exec", "prepare"} :
       pc' = [pc EXCEPT ![g] = l]
  /\ UNCHANGED <<txVars, stmt, scope, txScopeOf, broken, serverTx, histVars>>

\* The call returns; its connection becomes idle in the pool or is closed.
Release(g, next) ==
  /\ pc' = [pc EXCEPT ![g] = "idle"]
  /\ conn' = [conn EXCEPT ![g] = NoConn]
  /\ status' = [status EXCEPT ![conn[g]] = next]

\* After an answer, the call goes on with the prepared path, on another
\* connection, or returns; only ErrBadConn closes the connection, and a sql.Tx
\* keeps its own until it ends.
Proceed(g, answer) ==
  CASE answer = "skip" ->
         pc' = [pc EXCEPT ![g] = "prepare"] /\ UNCHANGED <<conn, status>>
    [] answer # "skip" /\ InSqlTx(g) ->
         pc' = [pc EXCEPT ![g] = "idle"] /\ UNCHANGED <<conn, status>>
    [] answer = "bad" /\ ~InSqlTx(g) /\ left[g] > 0 ->
         /\ pc' = [pc EXCEPT ![g] = "pick"]
         /\ conn' = [conn EXCEPT ![g] = NoConn]
         /\ status' = [status EXCEPT ![conn[g]] = "closed"]
    [] OTHER -> Release(g, IF answer = "bad" THEN "closed" ELSE "idle")

\* How the underlying connection may answer; a dead one stays dead.
Answers(g) == IF broken[conn[g]] THEN {"bad"} ELSE Outcomes \ {"args"}

\* How an execution may come out: a driver without the context interfaces takes
\* no named arguments, and namedValuesToValues refuses them without asking it.
ExecAnswers(g) == Answers(g) \cup {"args"}

\* What an answer means for the server: a dead connection has lost its
\* transaction, a failed BEGIN opens nothing, a failed COMMIT may or may not
\* have ended the transaction, and of refused arguments it knows nothing.
ServerAnswers(c, k, answer) ==
  /\ broken' = [broken EXCEPT ![c] = @ \/ answer = "bad"]
  /\ unsure' = [unsure EXCEPT ![c] = @ \/ (k # "other" /\ answer \in {"fail", "args"})]
  /\ serverTx' \in
       {[serverTx EXCEPT ![c] = b] : b \in
          CASE answer = "bad" -> {FALSE}
            [] k = "begin" /\ answer = "ok" -> {TRUE}
            [] k = "end" /\ answer = "ok" -> {FALSE}
            [] k = "end" /\ answer = "fail" -> {FALSE, serverTx[c]}
            [] OTHER -> {serverTx[c]}}

\* Pool housekeeping closes an idle connection: its lifetime is over, or
\* ResetSession or IsValid, both passed through to the driver, refused it.
CloseIdle(c) ==
  /\ status[c] = "idle"
  /\ status' = [status EXCEPT ![c] = "closed"]
  /\ serverTx' = [serverTx EXCEPT ![c] = FALSE]
  /\ UNCHANGED <<txVars, callVars, txScopeOf, broken, histVars>>

-----------------------------------------------------------------------------
(* wrappedConn, wrappedStmt and wrappedTx. *)

\* The Session's Observe, as far as the transaction state goes.
Observe(c, k, s) ==
  CASE k = "begin" /\ ~inTx[c] -> openTx(c, s) /\ origin' = [origin EXCEPT ![c] = "text"]
    [] k = "end" -> closeTx(c) /\ UNCHANGED origin
    [] OTHER -> UNCHANGED <<txVars, origin>>

\* Mistake: only a dead connection is left unobserved.
ConclusiveUnlessBad(answer) == answer # "bad"

\* The answers ExecContext and its like observe; a skipped or bad execution is
\* left for the prepared path or the retry.
Conclusive(answer) == answer \notin {"skip", "bad"}

ObserveAnswer(g, answer) ==
  IF Conclusive(answer)
  THEN Observe(conn[g], stmt[g], scope[g]) /\ observed' = [observed EXCEPT ![g] = @ + 1]
  ELSE UNCHANGED <<txVars, origin, observed>>

\* A statement sent to the server, or refused before.
Execute(g, answer) ==
  /\ ServerAnswers(conn[g], stmt[g], answer)
  /\ ran' = [ran EXCEPT ![g] = @ + (IF answer \in {"ok", "fail"} THEN 1 ELSE 0)]
  /\ refused' = [refused EXCEPT ![g] = @ + (IF answer = "args" THEN 1 ELSE 0)]
  /\ Proceed(g, answer)
  /\ UNCHANGED <<stmt, scope, left, txScopeOf>>

\* wrappedConn.ExecContext and QueryContext.
ExecContext(g, answer) ==
  /\ pc[g] = "exec" /\ answer \in ExecAnswers(g)
  /\ Execute(g, answer)
  /\ ObserveAnswer(g, answer)

\* PrepareContext: the statement is wrapped with the kind it was classified as.
PrepareContext(g, answer) ==
  /\ pc[g] = "prepare" /\ answer \in Answers(g) \ {"skip"}
  /\ IF answer = "ok"
     THEN pc' = [pc EXCEPT ![g] = "stmt"] /\ UNCHANGED <<conn, status>>
     ELSE Proceed(g, answer)
  /\ ServerAnswers(conn[g], "other", answer)
  /\ UNCHANGED <<txVars, stmt, scope, left, txScopeOf, origin, onceVars>>

\* Mistake: the prepared path forgets to observe.
StmtExecContextUnobserved(g, answer) ==
  /\ pc[g] = "stmt" /\ answer \in ExecAnswers(g) \ {"skip"}
  /\ Execute(g, answer)
  /\ UNCHANGED <<txVars, origin, observed>>

\* wrappedStmt.ExecContext and QueryContext.
StmtExecContext(g, answer) ==
  /\ pc[g] = "stmt" /\ answer \in ExecAnswers(g) \ {"skip"}
  /\ Execute(g, answer)
  /\ ObserveAnswer(g, answer)

\* Mistake: Session.BeginTx forgets the textual transaction it replaces.
SessionBeginTxUnclosed(c, s) == openTx(c, s)

\* Session.BeginTx, closeTx and openTx in one: nobody reads the counter here.
SessionBeginTx(c, s) ==
  /\ inTx' = [inTx EXCEPT ![c] = TRUE]
  /\ txScope' = [txScope EXCEPT ![c] = s]
  /\ openTxs' = [t \in Scopes |-> openTxs[t] + (IF t = s THEN 1 ELSE 0)
                                    - (IF c \in OpenOn(t) THEN 1 ELSE 0)]

\* wrappedConn.BeginTx; Begin is the same with a context without a scope.
BeginTx(g, answer) ==
  LET c == conn[g] IN
  /\ pc[g] = "begin" /\ answer \in Answers(g) \ {"skip"}
  /\ IF answer = "ok"
     THEN /\ SessionBeginTx(c, scope[g])
          /\ origin' = [origin EXCEPT ![c] = "api"]
          /\ txScopeOf' = [txScopeOf EXCEPT ![g] = {scope[g]}]
          /\ pc' = [pc EXCEPT ![g] = "idle"]
          /\ UNCHANGED <<conn, status>>
     ELSE /\ Proceed(g, answer)
          /\ UNCHANGED <<txVars, origin, txScopeOf>>
  /\ ServerAnswers(c, IF answer = "fail" THEN "other" ELSE "begin", answer)
  /\ UNCHANGED <<stmt, scope, left, onceVars>>

\* Mistake: EndTx is called only if the underlying call succeeded.
EndTxOnSuccess(c, answer) == IF answer = "ok" THEN closeTx(c) ELSE UNCHANGED txVars

\* Session.EndTx, whatever the underlying Commit or Rollback answered.
EndTx(c, answer) == closeTx(c)

\* wrappedTx.Commit and Rollback.  database/sql also rolls back when the
\* context of the sql.Tx ends, and releases the connection afterwards.
CommitOrRollback(g, answer) ==
  LET c == conn[g] IN
  /\ pc[g] = "idle" /\ InSqlTx(g) /\ answer \in Answers(g) \ {"skip"}
  /\ ServerAnswers(c, "end", answer)
  /\ EndTx(c, answer)
  /\ txScopeOf' = [txScopeOf EXCEPT ![g] = {}]
  /\ Release(g, IF answer = "bad" THEN "closed" ELSE "idle")
  /\ UNCHANGED <<stmt, scope, left, origin, onceVars>>

Next ==
  \/ \E g \in Goroutines :
       \/ \E s \in ScopeOrNil :
            \/ \E k \in {"begin", "end", "other"} : Call(g, k, s) \/ CallInTx(g, k, s)
            \/ Call(g, "beginTx", s)
       \/ \E c \in Conns : Pick(g, c)
       \/ \E answer \in Outcomes :
            \/ ExecContext(g, answer) \/ PrepareContext(g, answer)
            \/ StmtExecContext(g, answer) \/ BeginTx(g, answer)
            \/ CommitOrRollback(g, answer)
  \/ \E c \in Conns : CloseIdle(c)

Spec == Init /\ [][Next]_vars

-----------------------------------------------------------------------------
(* Properties. *)

\* A statement that ran is observed once, however many times database/sql
\* skips to the prepared path or retries on another connection ("observing here
\* would double-count", driver.go), and one that came to nothing is not.  Only a
\* statement whose arguments the wrapper refused is observed without having run.
ObservedOnce ==
  \A g \in Goroutines : observed[g] = ran[g] + refused[g] /\ observed[g] <= 1

\* As long as no transaction control has failed on a live connection, on the
\* server or for its arguments, its Session and the server agree on whether it is
\* inside a transaction, through textual control, sql.Tx and any mixture of both,
\* on pooled connections too.
SessionFollowsServer ==
  \A c \in Conns :
    status[c] \in {"idle", "held"} /\ ~broken[c] /\ ~unsure[c] => inTx[c] = serverTx[c]

\* A transaction begun through the driver API is counted only while the sql.Tx
\* is open, under the scope of its BeginTx: it never outlives Commit or
\* Rollback, failed ones and dead connections included, on a connection the
\* pool gives to someone else or drops ("leaving the counter stuck high would
\* poison every later checkpoint", driver.go).
ApiTxEndsWithSqlTx ==
  \A c \in Conns : inTx[c] /\ origin[c] = "api" =>
    \E g \in Goroutines : conn[g] = c /\ txScopeOf[g] = {txScope[c]}

\* "A dropped connection rolls back server-side; the counter must follow"
\* (session.go, EndTx): a closed connection counts as no open transaction.
CounterFollowsDrop == \A c \in Conns : status[c] = "closed" => ~inTx[c]
=============================================================================
