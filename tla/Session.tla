------------------------------ MODULE Session ------------------------------
(***************************************************************************)
(* Sessions and checkpoints over the transaction-attribution state         *)
(* (session.go, detector.go, check.go, roundtripper.go).                   *)
(*                                                                         *)
(* A connection runs its statements serially; goroutines start and finish  *)
(* scopes and run checkpoints, each with the context it carries.  Every    *)
(* access to the shared counters is one step, so everybody interleaves     *)
(* between the read of a counter and the report based on it.  A detection  *)
(* event ("event") is what decideAndReport receives; what the allow tiers  *)
(* make of it is in AllowTiers.                                            *)
(***************************************************************************)
EXTENDS TxAttribution

CONSTANTS
  Goroutines,   \* goroutines that start and finish scopes and run checkpoints
  Detect        \* the opt-in signals that are on (detector.go options)

Procs == Conns \cup Goroutines

ASSUME ProcsDistinct == Conns \cap Goroutines = {}
ASSUME DetectOptions == Detect \subseteq {"unscopedTx", "unscopedCheck", "nested", "leaked"}

VARIABLES
  started,    \* the scopes StartScope has created
  finished,   \* finished[s]: the atomic finished flag
  pc,         \* where each process is inside its current call
  ctx,        \* the context of that call
  seen,       \* the counter value that call loaded
  witness,    \* history: the connections really open in the scope at that load
  leaks,      \* history: the LeakedTx reports of each scope
  reports     \* what the step just taken handed to the reporters

frameVars == <<pc, ctx, seen, witness>>
scopeVars == <<started, finished, leaks>>
vars == <<txVars, scopeVars, frameVars, reports>>

\* A context carries a scope holder, possibly wrapped with an allow region.
\* AllowInTransactionHere leaves a context without scope unmarked.
Background == [scope |-> NoScope, mark |-> FALSE]
AllContexts == {Background} \cup [scope : Scopes, mark : BOOLEAN]
Contexts == {x \in AllContexts : x.scope \in started \cup {NoScope}}

Locations == {"idle", "opening", "crossReport", "checkers", "checkersReport",
              "checkReport", "gated", "finishing"}
Kinds == {"event", "staleCall", "staleMark", "unscopedTx", "unscopedCheck",
          "nested", "leaked"}
Reports == [kind : Kinds, by : Procs, scope : ScopeOrNil, open : Int]

Report(k, p, s, n) == [kind |-> k, by |-> p, scope |-> s, open |-> n]
\* A signal that reaches the reporters only when its option is on.
OptIn(k, p, s, n) == IF k \in Detect THEN {Report(k, p, s, n)} ELSE {}

TypeOK ==
  /\ TxTypeOK
  /\ started \subseteq Scopes
  /\ finished \in [Scopes -> BOOLEAN]
  /\ leaks \in [Scopes -> Nat]
  /\ pc \in [Procs -> Locations]
  /\ ctx \in [Procs -> AllContexts]
  /\ seen \in [Procs -> 0..Cardinality(Conns)]
  /\ witness \in [Procs -> SUBSET Conns]
  /\ reports \subseteq Reports

Init ==
  /\ TxInit
  /\ started = {}
  /\ finished = [s \in Scopes |-> FALSE]
  /\ leaks = [s \in Scopes |-> 0]
  /\ pc = [p \in Procs |-> "idle"]
  /\ ctx = [p \in Procs |-> Background]
  /\ seen = [p \in Procs |-> 0]
  /\ witness = [p \in Procs |-> {}]
  /\ reports = {}

-----------------------------------------------------------------------------
(* Call frames. *)

\* The process goes on to l with context x; it holds no loaded value there.
GoTo(p, l, x) ==
  /\ pc' = [pc EXCEPT ![p] = l]
  /\ ctx' = [ctx EXCEPT ![p] = x]
  /\ seen' = [seen EXCEPT ![p] = 0]
  /\ witness' = [witness EXCEPT ![p] = {}]

\* The call returns and its locals are gone.
Return(p) == GoTo(p, "idle", Background)

\* sc.openTxs.Load() in the call of p, which goes on to l with context x.
Load(p, l, x) ==
  /\ pc' = [pc EXCEPT ![p] = l]
  /\ ctx' = [ctx EXCEPT ![p] = x]
  /\ seen' = [seen EXCEPT ![p] = openTxs[x.scope]]
  /\ witness' = [witness EXCEPT ![p] = OpenOn(x.scope)]

-----------------------------------------------------------------------------
(* Session: the statements and transaction transitions of one connection.  *)

\* Observe after observeKind: the registered checkers run on a statement they
\* may match; one they do not match is done.
AfterObserveKind(c, x) == Return(c) \/ GoTo(c, "checkers", x)

openTxAndReport(c, s) ==
  /\ openTx(c, s)
  /\ reports' = IF s = NoScope THEN OptIn("unscopedTx", c, NoScope, 0) ELSE {}

\* Mistake: observeKind opens without its !s.inTx guard.
ObserveBeginUnguarded(c, x) ==
  /\ pc[c] = "idle"
  /\ openTxAndReport(c, x.scope)
  /\ AfterObserveKind(c, x)
  /\ UNCHANGED scopeVars

\* Observe("BEGIN"): only outside a transaction does it open one.
ObserveBegin(c, x) ==
  /\ pc[c] = "idle"
  /\ IF inTx[c] THEN UNCHANGED txVars /\ reports' = {} ELSE openTxAndReport(c, x.scope)
  /\ AfterObserveKind(c, x)
  /\ UNCHANGED scopeVars

\* Observe("COMMIT") and Observe("ROLLBACK").
ObserveEnd(c, x) ==
  /\ pc[c] = "idle"
  /\ closeTx(c)
  /\ AfterObserveKind(c, x)
  /\ reports' = {}
  /\ UNCHANGED scopeVars

\* Observe of a read: only the checkers look at it.
ObserveOther(c, x) ==
  /\ pc[c] = "idle"
  /\ GoTo(c, "checkers", x)
  /\ reports' = {}
  /\ UNCHANGED <<txVars, scopeVars>>

\* Observe of a write: reportIfCrossConn up to the load of the counter.
ObserveWrite(c, x) ==
  /\ pc[c] = "idle"
  /\ IF x.scope = NoScope THEN AfterObserveKind(c, x) ELSE Load(c, "crossReport", x)
  /\ reports' = {}
  /\ UNCHANGED <<txVars, scopeVars>>

\* Mistake: any transaction of the connection is taken for one of this scope.
SelfAnyScope(c) == IF inTx[c] THEN 1 ELSE 0

Self(c) == IF inTx[c] /\ txScope[c] = ctx[c].scope THEN 1 ELSE 0

\* reportIfCrossConn from the load on: the connection's own transaction is
\* taken off what was loaded.
crossVerdict(c) ==
  LET foreign == seen[c] - Self(c) IN
  IF foreign > 0
  THEN {Report("event", c, ctx[c].scope, foreign)}
  ELSE {r \in {Report("staleMark", c, ctx[c].scope, 0)} : seen[c] = 0 /\ ctx[c].mark}

ReportIfCrossConn(c) ==
  /\ pc[c] = "crossReport"
  /\ reports' = crossVerdict(c)
  /\ AfterObserveKind(c, ctx[c])
  /\ UNCHANGED <<txVars, scopeVars>>

\* runStatementCheckers and reportStatementOps: every open transaction of the
\* scope counts, the connection's own included.  One matching checker stands
\* for all that match: they share the one load.
CheckersLoad(c) ==
  /\ pc[c] = "checkers"
  /\ IF ctx[c].scope = NoScope THEN Return(c) ELSE Load(c, "checkersReport", ctx[c])
  /\ reports' = {}
  /\ UNCHANGED <<txVars, scopeVars>>

\* Mistake: the checkers take the connection's own transaction off, like a write.
checkersVerdictOwnExcluded(c) ==
  {r \in {Report("event", c, ctx[c].scope, seen[c] - Self(c))} : r.open > 0}

checkersVerdict(c) ==
  IF seen[c] > 0
  THEN {Report("event", c, ctx[c].scope, seen[c])}
  ELSE {r \in {Report("staleMark", c, ctx[c].scope, 0)} : ctx[c].mark}

CheckersReport(c) ==
  /\ pc[c] = "checkersReport"
  /\ reports' = checkersVerdict(c)
  /\ Return(c)
  /\ UNCHANGED <<txVars, scopeVars>>

\* Mistake: BeginTx opens over a textual transaction without closing it.
BeginTxCloseSkipped(c, x) ==
  /\ pc[c] = "idle"
  /\ GoTo(c, "opening", x)
  /\ reports' = {}
  /\ UNCHANGED <<txVars, scopeVars>>

\* BeginTx is closeTx, then openTx: two separate steps on shared counters.
BeginTxClose(c, x) ==
  /\ pc[c] = "idle"
  /\ closeTx(c)
  /\ GoTo(c, "opening", x)
  /\ reports' = {}
  /\ UNCHANGED scopeVars

BeginTxOpen(c) ==
  /\ pc[c] = "opening"
  /\ openTxAndReport(c, ctx[c].scope)
  /\ Return(c)
  /\ UNCHANGED scopeVars

EndTx(c) ==
  /\ pc[c] = "idle"
  /\ closeTx(c)
  /\ reports' = {}
  /\ UNCHANGED <<scopeVars, frameVars>>

SessionStep(c) ==
  \/ \E x \in Contexts :
       \/ ObserveBegin(c, x) \/ ObserveEnd(c, x) \/ ObserveOther(c, x)
       \/ ObserveWrite(c, x) \/ BeginTxClose(c, x)
  \/ ReportIfCrossConn(c) \/ CheckersLoad(c) \/ CheckersReport(c)
  \/ BeginTxOpen(c) \/ EndTx(c)

-----------------------------------------------------------------------------
(* Detector: scopes and checkpoints, from any goroutine. *)

\* StartScope on context x; a scope already on x is shadowed.
StartScope(g, s, x) ==
  /\ pc[g] = "idle" /\ s \notin started
  /\ started' = started \cup {s}
  /\ reports' = IF x.scope = NoScope THEN {} ELSE OptIn("nested", g, s, 0)
  /\ UNCHANGED <<txVars, finished, leaks, frameVars>>

\* Detector.check up to the load of the counter.
CheckLoad(g, x) ==
  /\ IF x.scope = NoScope
     THEN /\ reports' = OptIn("unscopedCheck", g, NoScope, 0)
          /\ Return(g)
     ELSE /\ reports' = {}
          /\ Load(g, "checkReport", x)
  /\ UNCHANGED <<txVars, scopeVars>>

Check(g, x) == pc[g] = "idle" /\ CheckLoad(g, x)

\* Detector.check from the load on; allowed: the call has AllowInTransaction.
checkVerdict(g, allowed) ==
  IF seen[g] > 0
  THEN {Report("event", g, ctx[g].scope, seen[g])}
  ELSE {r \in {Report("staleCall", g, ctx[g].scope, 0)} : allowed}
         \cup {r \in {Report("staleMark", g, ctx[g].scope, 0)} : ctx[g].mark}

CheckReport(g) ==
  /\ pc[g] = "checkReport"
  /\ \E allowed \in BOOLEAN : reports' = checkVerdict(g, allowed)
  /\ Return(g)
  /\ UNCHANGED <<txVars, scopeVars>>

\* Mistake: the gate looks at the counter alone.
checkNeededCounterOnly(x) ==
  IF x.scope # NoScope THEN openTxs[x.scope] > 0 ELSE "unscopedCheck" \in Detect

\* RoundTrip asks checkNeeded first and calls Check, which loads the counter
\* again, only if it answers yes.
checkNeeded(x) ==
  IF x.scope # NoScope THEN openTxs[x.scope] > 0 \/ x.mark ELSE "unscopedCheck" \in Detect

RoundTrip(g, x) ==
  /\ pc[g] = "idle"
  /\ reports' = {}
  /\ IF checkNeeded(x) THEN GoTo(g, "gated", x) ELSE UNCHANGED frameVars
  /\ UNCHANGED <<txVars, scopeVars>>

RoundTripCheck(g) == pc[g] = "gated" /\ CheckLoad(g, ctx[g])

\* Mistake: finish lets every caller through.
FinishScopeUnguarded(g, s) ==
  /\ pc[g] = "idle" /\ s \in started
  /\ finished' = [finished EXCEPT ![s] = TRUE]
  /\ GoTo(g, "finishing", [scope |-> s, mark |-> FALSE])
  /\ reports' = {}
  /\ UNCHANGED <<txVars, started, leaks>>

\* finishScope: the compare-and-swap lets one of the callers through, which
\* then loads the counter.  The call shortfalls are in AllowTiers.
FinishScope(g, s) ==
  /\ pc[g] = "idle" /\ s \in started
  /\ IF finished[s]
     THEN UNCHANGED <<finished, frameVars>>
     ELSE /\ finished' = [finished EXCEPT ![s] = TRUE]
          /\ GoTo(g, "finishing", [scope |-> s, mark |-> FALSE])
  /\ reports' = {}
  /\ UNCHANGED <<txVars, started, leaks>>

ReportLeakedTx(g) ==
  LET s == ctx[g].scope IN
  /\ pc[g] = "finishing"
  /\ reports' = IF openTxs[s] > 0 THEN OptIn("leaked", g, s, openTxs[s]) ELSE {}
  /\ leaks' = [leaks EXCEPT ![s] = @ + Cardinality(reports')]
  /\ Return(g)
  /\ UNCHANGED <<txVars, started, finished>>

DetectorStep(g) ==
  \/ \E x \in Contexts :
       \/ \E s \in Scopes : StartScope(g, s, x)
       \/ Check(g, x) \/ RoundTrip(g, x)
  \/ \E s \in Scopes : FinishScope(g, s)
  \/ CheckReport(g) \/ RoundTripCheck(g) \/ ReportLeakedTx(g)

Next ==
  \/ \E c \in Conns : SessionStep(c)
  \/ \E g \in Goroutines : DetectorStep(g)

Spec == Init /\ [][Next]_vars

-----------------------------------------------------------------------------
(* Properties. *)

\* A transaction keeps the scope it was begun under until it is closed: no
\* statement, whatever context it carries, re-attributes an open transaction
\* (observeKind's inTx guard; BeginTx closes before it opens).
AttributionSticky ==
  [][\A c \in Conns : inTx[c] /\ inTx'[c] => txScope'[c] = txScope[c]]_vars

Judging(p) == pc[p] \in {"crossReport", "checkersReport", "checkReport"}

\* The transactions a verdict is about: those open in the scope at the load,
\* without the connection's own when a write is judged.
Judged(p) == IF pc[p] = "crossReport" THEN witness[p] \ {p} ELSE witness[p]

\* Whatever other connections and goroutines do between the load of a counter
\* and the report, a verdict is the truth of the load: an event is reported
\* exactly when another transaction (any, for a checkpoint or a statement
\* checker) was open in the scope, with their exact number, and an allow is
\* called stale only when no transaction of the scope was open at all
\* (reportIfCrossConn, runStatementCheckers, check).
VerdictJustified ==
  [][\A p \in Procs : Judging(p) /\ pc'[p] # pc[p] =>
       LET events == {r \in reports' : r.kind = "event"} IN
       /\ Judged(p) # {} => reports' = {Report("event", p, ctx[p].scope, Cardinality(Judged(p)))}
       /\ Judged(p) = {} => events = {}
       /\ reports' # events => witness[p] = {}]_vars

\* However many goroutines call finish, and whatever is still open then, a
\* scope reports its leaked transactions at most once (finishScope's
\* compare-and-swap).
LeakReportedOnce == \A s \in Scopes : leaks[s] <= 1

\* The gate in front of RoundTrip's Check never swallows a report: where it
\* says no, a Check taken at that same instant would have reported nothing
\* (checkNeeded "mirrors check()").
GateMirrorsCheck ==
  [][\A g \in Goroutines, x \in Contexts :
       RoundTrip(g, x) /\ pc'[g] = "idle" =>
         IF x.scope = NoScope
         THEN OptIn("unscopedCheck", g, NoScope, 0) = {}
         ELSE OpenOn(x.scope) = {} /\ ~x.mark]_vars

\* The counters implement the set of open transactions they stand for.
Attribution == INSTANCE OpenTransactions WITH
  Observers <- Procs,
  Number <- Cardinality,
  owner <- [c \in Conns |-> IF inTx[c] THEN {txScope[c]} ELSE {}],
  view <- [p \in Procs |-> Judged(p)],
  verdicts <- {[by |-> r.by, open |-> r.open] : r \in {q \in reports : q.kind = "event"}}

\* Every behaviour of sessions and checkpoints is a behaviour of that
\* abstract specification (session.go, check.go, detector.go together).
ImplementsAttribution == Attribution!Spec
=============================================================================
