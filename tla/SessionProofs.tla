--------------------------- MODULE SessionProofs ---------------------------
(***************************************************************************)
(* Theorems about Session, for any finite set of connections and any sets  *)
(* of scopes and goroutines.                                               *)
(***************************************************************************)
EXTENDS Session, TxAttributionProofs

ConnLocations == {"idle", "opening", "crossReport", "checkers", "checkersReport"}
GoroutineLocations == {"idle", "checkReport", "gated", "finishing"}

FrameTypeOK ==
  /\ pc \in [Procs -> Locations]
  /\ ctx \in [Procs -> AllContexts]
  /\ seen \in [Procs -> 0..Cardinality(Conns)]
  /\ witness \in [Procs -> SUBSET Conns]

\* What a call knows of the counter it loaded: the number it holds is that of
\* the witnesses, and its own transaction is among them exactly while it is
\* still in it (the connection is serial, so nobody closes it in between).
FrameInv ==
  /\ FrameTypeOK
  /\ \A c \in Conns : pc[c] \in ConnLocations
  /\ \A g \in Goroutines : pc[g] \in GoroutineLocations
  /\ \A p \in Procs : Judging(p) => /\ ctx[p].scope \in Scopes
                                    /\ seen[p] = Cardinality(witness[p])
  /\ \A p \in Procs : ~Judging(p) => witness[p] = {}
  /\ \A c \in Conns : pc[c] = "crossReport" =>
       (c \in witness[c] <=> inTx[c] /\ txScope[c] = ctx[c].scope)
  /\ \A c \in Conns : pc[c] = "opening" => ~inTx[c]
  /\ \A g \in Goroutines : pc[g] = "finishing" => ctx[g].scope \in Scopes

ScopeTypeOK ==
  /\ started \subseteq Scopes
  /\ finished \in [Scopes -> BOOLEAN]
  /\ leaks \in [Scopes -> Nat]

\* The one caller finish lets through has not reported yet, and there is one.
LeakInv ==
  /\ \A g \in Goroutines : pc[g] = "finishing" =>
       finished[ctx[g].scope] /\ leaks[ctx[g].scope] = 0
  /\ \A g, h \in Goroutines :
       pc[g] = "finishing" /\ pc[h] = "finishing" /\ ctx[g].scope = ctx[h].scope => g = h
  /\ \A s \in Scopes : leaks[s] \in {0, 1} /\ (~finished[s] => leaks[s] = 0)

IInv == TxInv /\ FrameInv /\ ScopeTypeOK /\ LeakInv /\ reports \subseteq Reports

-----------------------------------------------------------------------------
(* Call frames. *)

\* Where a process may go without holding a loaded counter value.
MayGoTo(p, l, x) ==
  /\ l \in Locations \ {"crossReport", "checkersReport", "checkReport"}
  /\ x \in AllContexts
  /\ p \in Conns => l \in ConnLocations
  /\ p \in Goroutines => l \in GoroutineLocations
  /\ l = "opening" => ~inTx'[p]
  /\ l = "finishing" => x.scope \in Scopes

\* Where a process may load a counter.
MayLoad(p, l, x) ==
  /\ x \in AllContexts /\ x.scope \in Scopes
  /\ p \in Conns => l \in {"crossReport", "checkersReport"}
  /\ p \in Goroutines => l = "checkReport"

\* No connection but p opens or closes a transaction.
OthersUntouched(p) ==
  \A d \in Conns \ {p} : inTx'[d] = inTx[d] /\ txScope'[d] = txScope[d]

LEMMA TxStepsTouchOne ==
  ASSUME TxTypeOK, NEW c \in Conns, NEW s,
         openTx(c, s) \/ closeTx(c) \/ UNCHANGED txVars
  PROVE  OthersUntouched(c)
BY DEF TxTypeOK, openTx, closeTx, txVars, OthersUntouched

\* A process that goes somewhere without a counter value keeps every frame
\* consistent, because nobody else's own transaction moved.
LEMMA GoToKeepsFrames ==
  ASSUME FrameInv, NEW p \in Procs, NEW l, NEW x,
         GoTo(p, l, x), MayGoTo(p, l, x), OthersUntouched(p)
  PROVE  FrameInv'
<1> USE DEF FrameInv, FrameTypeOK, GoTo, MayGoTo
<1>1. FrameTypeOK'
  <2>1. 0 \in 0..Cardinality(Conns)
    BY ConnsFinite, FS_CardinalityType
  <2>2. QED
    BY <2>1
<1>2. /\ \A c \in Conns : pc'[c] \in ConnLocations
      /\ \A g \in Goroutines : pc'[g] \in GoroutineLocations
      /\ \A g \in Goroutines : pc'[g] = "finishing" => ctx'[g].scope \in Scopes
  BY DEF Procs
<1>3. /\ \A q \in Procs : Judging(q)' => /\ ctx'[q].scope \in Scopes
                                         /\ seen'[q] = Cardinality(witness'[q])
      /\ \A q \in Procs : ~Judging(q)' => witness'[q] = {}
  BY DEF Judging
<1>4. \A c \in Conns : pc'[c] = "crossReport" =>
        (c \in witness'[c] <=> inTx'[c] /\ txScope'[c] = ctx'[c].scope)
  BY DEF OthersUntouched, Procs
<1>5. \A c \in Conns : pc'[c] = "opening" => ~inTx'[c]
  BY DEF OthersUntouched, Procs
<1>6. QED
  BY <1>1, <1>2, <1>3, <1>4, <1>5

\* A process that loads a counter gets the number of the connections that
\* hold a transaction of the scope, its own included.
LEMMA LoadKeepsFrames ==
  ASSUME TxInv, FrameInv, NEW p \in Procs, NEW l, NEW x,
         Load(p, l, x), MayLoad(p, l, x), UNCHANGED txVars
  PROVE  FrameInv'
<1> USE DEF FrameInv, FrameTypeOK, Load, MayLoad
<1>1. /\ openTxs[x.scope] = Cardinality(OpenOn(x.scope))
      /\ openTxs[x.scope] \in 0..Cardinality(Conns)
      /\ OpenOn(x.scope) \in SUBSET Conns
      /\ l \in {"crossReport", "checkersReport", "checkReport"}
  BY DEF TxInv, TxTypeOK, CounterExact, OpenOn, Procs
<1>2. FrameTypeOK'
  BY <1>1 DEF Locations
<1>3. /\ \A c \in Conns : pc'[c] \in ConnLocations
      /\ \A g \in Goroutines : pc'[g] \in GoroutineLocations
      /\ \A g \in Goroutines : pc'[g] = "finishing" => ctx'[g].scope \in Scopes
  BY <1>1 DEF Procs, ConnLocations, GoroutineLocations
<1>4. /\ \A q \in Procs : Judging(q)' => /\ ctx'[q].scope \in Scopes
                                         /\ seen'[q] = Cardinality(witness'[q])
      /\ \A q \in Procs : ~Judging(q)' => witness'[q] = {}
  BY <1>1 DEF Judging
<1>5. \A c \in Conns : pc'[c] = "crossReport" =>
        (c \in witness'[c] <=> inTx'[c] /\ txScope'[c] = ctx'[c].scope)
  BY DEF OpenOn, txVars, Procs
<1>6. \A c \in Conns : pc'[c] = "opening" => ~inTx'[c]
  BY <1>1 DEF txVars, Procs
<1>7. QED
  BY <1>2, <1>3, <1>4, <1>5, <1>6

\* Only a goroutine that enters finishScope could disturb the leak accounting.
LEMMA LeakInvKept ==
  ASSUME LeakInv, FrameTypeOK, NEW p \in Procs, NEW l, NEW x,
         GoTo(p, l, x) \/ Load(p, l, x), l # "finishing", UNCHANGED <<finished, leaks>>
  PROVE  LeakInv'
<1>1. \A g \in Goroutines : pc'[g] = "finishing" => pc[g] = "finishing" /\ ctx'[g] = ctx[g]
  BY DEF FrameTypeOK, GoTo, Load, Procs
<1>2. QED
  BY <1>1 DEF LeakInv

\* Every step of a call, other than entering finishScope, keeps the frames and
\* the scopes' bookkeeping consistent.
LEMMA CallStep ==
  ASSUME IInv, NEW p \in Procs, NEW l, NEW x, UNCHANGED scopeVars, l # "finishing",
         \/ GoTo(p, l, x) /\ MayGoTo(p, l, x) /\ OthersUntouched(p)
         \/ Load(p, l, x) /\ MayLoad(p, l, x) /\ UNCHANGED txVars
  PROVE  FrameInv' /\ ScopeTypeOK' /\ LeakInv'
<1>1. FrameInv'
  BY GoToKeepsFrames, LoadKeepsFrames DEF IInv
<1>2. ScopeTypeOK'
  BY DEF IInv, ScopeTypeOK, scopeVars
<1>3. LeakInv'
  BY LeakInvKept DEF IInv, FrameInv, scopeVars
<1>4. QED
  BY <1>1, <1>2, <1>3

LEMMA ContextTypes ==
  /\ Contexts \subseteq AllContexts
  /\ Background \in AllContexts
  /\ \A x \in AllContexts : x.scope \in ScopeOrNil /\ x.mark \in BOOLEAN
<1>1. ASSUME NEW x \in AllContexts
      PROVE  x.scope \in ScopeOrNil /\ x.mark \in BOOLEAN
  <2>1. CASE x = Background
    BY <2>1 DEF Background, ScopeOrNil
  <2>2. CASE x \in [scope : Scopes, mark : BOOLEAN]
    BY <2>2 DEF ScopeOrNil
  <2>3. QED
    BY <2>1, <2>2 DEF AllContexts
<1>2. Contexts \subseteq AllContexts /\ Background \in AllContexts
  BY DEF Contexts, AllContexts
<1>3. QED
  BY <1>1, <1>2

LEMMA ReportTypes ==
  ASSUME NEW k \in Kinds, NEW p \in Procs, NEW s \in ScopeOrNil, NEW n \in Int
  PROVE  Report(k, p, s, n) \in Reports /\ OptIn(k, p, s, n) \subseteq Reports
BY DEF Report, OptIn, Reports

\* Observe goes on to the statement checkers or returns.
LEMMA AfterObserve ==
  ASSUME IInv, NEW c \in Conns, NEW x \in AllContexts, AfterObserveKind(c, x),
         OthersUntouched(c), UNCHANGED scopeVars
  PROVE  FrameInv' /\ ScopeTypeOK' /\ LeakInv'
<1>1. /\ c \in Procs /\ c \notin Goroutines
      /\ MayGoTo(c, "idle", Background) /\ MayGoTo(c, "checkers", x)
  BY ContextTypes, ProcsDistinct DEF Procs, MayGoTo, Locations, ConnLocations
<1>2. GoTo(c, "idle", Background) \/ GoTo(c, "checkers", x)
  BY DEF AfterObserveKind, Return
<1>3. QED
  BY <1>1, <1>2, CallStep

LEMMA ConnReturns ==
  ASSUME IInv, NEW c \in Conns, Return(c), OthersUntouched(c), UNCHANGED scopeVars
  PROVE  FrameInv' /\ ScopeTypeOK' /\ LeakInv'
BY AfterObserve, ContextTypes DEF AfterObserveKind

-----------------------------------------------------------------------------
(* The steps of a connection. *)

LEMMA SessionStepKeepsInv ==
  ASSUME IInv, NEW c \in Conns, SessionStep(c)
  PROVE  IInv'
<1>0. /\ c \in Procs /\ c \notin Goroutines /\ ctx[c] \in AllContexts
      /\ TxInv /\ TxTypeOK /\ FrameInv
  BY ProcsDistinct DEF Procs, IInv, TxInv, FrameInv, FrameTypeOK
<1>1. ASSUME NEW x \in Contexts, ObserveBegin(c, x)
      PROVE  IInv'
  <2>1. x \in AllContexts /\ x.scope \in ScopeOrNil /\ AfterObserveKind(c, x)
    BY <1>1, ContextTypes DEF ObserveBegin
  <2>2. \/ ~inTx[c] /\ openTx(c, x.scope)
        \/ UNCHANGED txVars
    BY <1>1 DEF ObserveBegin, openTxAndReport
  <2>3. TxInv' /\ OthersUntouched(c)
    BY <1>0, <2>1, <2>2, OpenTxExact, TxUnchangedExact, TxStepsTouchOne
  <2>4. reports' \subseteq Reports
    BY <1>0, <1>1, ReportTypes DEF ObserveBegin, openTxAndReport, Kinds, ScopeOrNil
  <2>5. QED
    BY <1>1, <2>1, <2>3, <2>4, AfterObserve DEF IInv, ObserveBegin
<1>2. ASSUME NEW x \in Contexts, ObserveEnd(c, x)
      PROVE  IInv'
  <2>1. TxInv' /\ OthersUntouched(c)
    BY <1>0, <1>2, CloseTxExact, TxStepsTouchOne DEF ObserveEnd
  <2>2. QED
    BY <1>2, <2>1, ContextTypes, AfterObserve DEF IInv, ObserveEnd
<1>3. ASSUME NEW x \in Contexts, ObserveOther(c, x)
      PROVE  IInv'
  <2>1. TxInv' /\ OthersUntouched(c) /\ AfterObserveKind(c, x)
    BY <1>0, <1>3, TxUnchangedExact, TxStepsTouchOne DEF ObserveOther, AfterObserveKind
  <2>2. QED
    BY <1>3, <2>1, ContextTypes, AfterObserve DEF IInv, ObserveOther
<1>4. ASSUME NEW x \in Contexts, ObserveWrite(c, x)
      PROVE  IInv'
  <2>1. TxInv' /\ OthersUntouched(c)
    BY <1>0, <1>4, TxUnchangedExact, TxStepsTouchOne DEF ObserveWrite
  <2>2. FrameInv' /\ ScopeTypeOK' /\ LeakInv'
    <3>1. CASE AfterObserveKind(c, x)
      BY <1>4, <2>1, <3>1, ContextTypes, AfterObserve DEF ObserveWrite
    <3>2. CASE x.scope # NoScope /\ Load(c, "crossReport", x)
      <4>1. MayLoad(c, "crossReport", x)
        BY <1>0, <3>2, ContextTypes DEF MayLoad, ScopeOrNil
      <4>2. QED
        BY <1>0, <1>4, <3>2, <4>1, CallStep DEF ObserveWrite
    <3>3. QED
      BY <1>4, <3>1, <3>2 DEF ObserveWrite
  <2>3. QED
    BY <1>4, <2>1, <2>2 DEF IInv, ObserveWrite
<1>5. ASSUME NEW x \in Contexts, BeginTxClose(c, x)
      PROVE  IInv'
  <2>1. TxInv' /\ OthersUntouched(c) /\ ~inTx'[c]
    BY <1>0, <1>5, CloseTxExact, TxStepsTouchOne DEF BeginTxClose
  <2>2. MayGoTo(c, "opening", x)
    BY <1>0, <2>1, ContextTypes DEF MayGoTo, Locations, ConnLocations
  <2>3. QED
    BY <1>0, <1>5, <2>1, <2>2, CallStep DEF IInv, BeginTxClose
<1>6. ASSUME ReportIfCrossConn(c)
      PROVE  IInv'
  <2>1. TxInv' /\ OthersUntouched(c) /\ AfterObserveKind(c, ctx[c])
    BY <1>0, <1>6, TxUnchangedExact, TxStepsTouchOne DEF ReportIfCrossConn
  <2>2. reports' \subseteq Reports
    <3>1. ctx[c].scope \in ScopeOrNil /\ seen[c] \in Int /\ seen[c] - Self(c) \in Int
      BY <1>0, ContextTypes, ConnsFinite, FS_CardinalityType DEF FrameInv, FrameTypeOK, Self
    <3>2. \A k \in {"event", "staleMark"}, n \in {seen[c] - Self(c), 0} :
            Report(k, c, ctx[c].scope, n) \in Reports
      BY <1>0, <3>1, ReportTypes DEF Kinds
    <3>3. QED
      BY <1>6, <3>2 DEF ReportIfCrossConn, crossVerdict
  <2>3. QED
    BY <1>0, <1>6, <2>1, <2>2, AfterObserve DEF IInv, ReportIfCrossConn
<1>7. ASSUME CheckersLoad(c)
      PROVE  IInv'
  <2>1. TxInv' /\ OthersUntouched(c)
    BY <1>0, <1>7, TxUnchangedExact, TxStepsTouchOne DEF CheckersLoad
  <2>2. CASE Return(c)
    BY <1>7, <2>1, <2>2, ConnReturns DEF IInv, CheckersLoad
  <2>3. CASE ctx[c].scope # NoScope /\ Load(c, "checkersReport", ctx[c])
    <3>1. MayLoad(c, "checkersReport", ctx[c])
      BY <1>0, <2>3, ContextTypes DEF MayLoad, ScopeOrNil
    <3>2. QED
      BY <1>0, <1>7, <2>1, <2>3, <3>1, CallStep DEF IInv, CheckersLoad
  <2>4. QED
    BY <1>7, <2>2, <2>3 DEF CheckersLoad
<1>8. ASSUME CheckersReport(c)
      PROVE  IInv'
  <2>1. TxInv' /\ OthersUntouched(c)
    BY <1>0, <1>8, TxUnchangedExact, TxStepsTouchOne DEF CheckersReport
  <2>2. reports' \subseteq Reports
    <3>1. ctx[c].scope \in ScopeOrNil /\ seen[c] \in Int
      BY <1>0, ContextTypes, ConnsFinite, FS_CardinalityType DEF FrameInv, FrameTypeOK
    <3>2. \A k \in {"event", "staleMark"}, n \in {seen[c], 0} :
            Report(k, c, ctx[c].scope, n) \in Reports
      BY <1>0, <3>1, ReportTypes DEF Kinds
    <3>3. QED
      BY <1>8, <3>2 DEF CheckersReport, checkersVerdict
  <2>3. QED
    BY <1>8, <2>1, <2>2, ConnReturns DEF IInv, CheckersReport
<1>9. ASSUME BeginTxOpen(c)
      PROVE  IInv'
  <2>1. ctx[c].scope \in ScopeOrNil /\ openTx(c, ctx[c].scope)
    BY <1>0, <1>9, ContextTypes DEF BeginTxOpen, openTxAndReport
  <2>2. TxInv' /\ OthersUntouched(c)
    BY <1>0, <1>9, <2>1, OpenTxExact, TxStepsTouchOne DEF BeginTxOpen, FrameInv
  <2>3. reports' \subseteq Reports
    BY <1>0, <1>9, ReportTypes DEF BeginTxOpen, openTxAndReport, Kinds, ScopeOrNil
  <2>4. QED
    BY <1>9, <2>2, <2>3, ConnReturns DEF IInv, BeginTxOpen
<1>10. ASSUME EndTx(c)
       PROVE  IInv'
  <2>1. TxInv' /\ closeTx(c)
    BY <1>0, <1>10, CloseTxExact DEF EndTx
  <2>2. OthersUntouched(c)
    BY <1>0, <2>1, TxStepsTouchOne
  <2>3. QED
    BY <1>0, <1>10, <2>1, <2>2
    DEF IInv, EndTx, FrameInv, FrameTypeOK, Judging, OthersUntouched, frameVars, scopeVars, ScopeTypeOK, LeakInv
<1>11. QED
  BY <1>1, <1>2, <1>3, <1>4, <1>5, <1>6, <1>7, <1>8, <1>9, <1>10 DEF SessionStep

-----------------------------------------------------------------------------
(* The steps of a goroutine. *)

LEMMA GoroutineReturns ==
  ASSUME IInv, NEW g \in Goroutines, Return(g), OthersUntouched(g), UNCHANGED scopeVars
  PROVE  FrameInv' /\ ScopeTypeOK' /\ LeakInv'
<1>1. g \in Procs /\ g \notin Conns /\ MayGoTo(g, "idle", Background)
  BY ContextTypes, ProcsDistinct DEF Procs, MayGoTo, Locations, GoroutineLocations
<1>2. QED
  BY <1>1, CallStep DEF Return

\* Both Check and the Check behind RoundTrip's gate.
LEMMA CheckLoadKeepsInv ==
  ASSUME IInv, NEW g \in Goroutines, NEW x \in AllContexts, CheckLoad(g, x)
  PROVE  IInv'
<1>1. g \in Procs /\ g \notin Conns /\ UNCHANGED txVars /\ UNCHANGED scopeVars
  BY ProcsDistinct DEF Procs, CheckLoad
<1>2. TxInv' /\ OthersUntouched(g)
  BY <1>1, TxUnchangedExact DEF IInv, OthersUntouched, txVars
<1>3. CASE x.scope = NoScope
  <2>1. reports' \subseteq Reports
    BY <1>1, <1>3, ReportTypes DEF CheckLoad, Kinds, ScopeOrNil
  <2>2. QED
    BY <1>1, <1>2, <1>3, <2>1, GoroutineReturns DEF CheckLoad, IInv
<1>4. CASE x.scope # NoScope
  <2>1. MayLoad(g, "checkReport", x)
    BY <1>1, <1>4, ContextTypes DEF MayLoad, ScopeOrNil
  <2>2. Load(g, "checkReport", x) /\ reports' = {}
    BY <1>4 DEF CheckLoad
  <2>3. QED
    BY <1>1, <1>2, <2>1, <2>2, CallStep DEF IInv
<1>5. QED
  BY <1>3, <1>4

LEMMA DetectorStepKeepsInv ==
  ASSUME IInv, NEW g \in Goroutines, DetectorStep(g)
  PROVE  IInv'
<1>0. /\ g \in Procs /\ g \notin Conns /\ ctx[g] \in AllContexts
      /\ TxInv /\ FrameInv /\ ScopeTypeOK /\ LeakInv
  BY ProcsDistinct DEF Procs, IInv, FrameInv, FrameTypeOK
<1>a. ASSUME UNCHANGED txVars
      PROVE  TxInv' /\ OthersUntouched(g)
  BY <1>0, <1>a, TxUnchangedExact DEF OthersUntouched, txVars
<1>1. ASSUME NEW x \in Contexts, NEW s \in Scopes, StartScope(g, s, x)
      PROVE  IInv'
  <2>1. TxInv' /\ OthersUntouched(g)
    BY <1>1, <1>a DEF StartScope
  <2>2. FrameInv' /\ LeakInv'
    BY <1>0, <1>1 DEF StartScope, FrameInv, FrameTypeOK, Judging, LeakInv, frameVars, txVars
  <2>3. ScopeTypeOK'
    BY <1>0, <1>1 DEF StartScope, ScopeTypeOK
  <2>4. reports' \subseteq Reports
    BY <1>0, <1>1, ReportTypes DEF StartScope, Kinds, ScopeOrNil
  <2>5. QED
    BY <2>1, <2>2, <2>3, <2>4 DEF IInv
<1>2. ASSUME NEW x \in Contexts, Check(g, x)
      PROVE  IInv'
  BY <1>2, CheckLoadKeepsInv, ContextTypes DEF Check
<1>3. ASSUME NEW x \in Contexts, RoundTrip(g, x)
      PROVE  IInv'
  <2>1. TxInv' /\ OthersUntouched(g) /\ reports' = {}
    BY <1>3, <1>a DEF RoundTrip
  <2>2. CASE GoTo(g, "gated", x)
    <3>1. MayGoTo(g, "gated", x)
      BY <1>0, ContextTypes DEF MayGoTo, Locations, GoroutineLocations
    <3>2. QED
      BY <1>0, <1>3, <2>1, <2>2, <3>1, CallStep DEF IInv, RoundTrip
  <2>3. CASE UNCHANGED frameVars
    <3>1. FrameInv' /\ ScopeTypeOK' /\ LeakInv'
      BY <1>0, <1>3, <2>3 DEF RoundTrip, FrameInv, FrameTypeOK, Judging, ScopeTypeOK, LeakInv,
                              frameVars, txVars, scopeVars
    <3>2. QED
      BY <2>1, <3>1 DEF IInv
  <2>4. QED
    BY <1>3, <2>2, <2>3 DEF RoundTrip
<1>4. ASSUME NEW s \in Scopes, FinishScope(g, s)
      PROVE  IInv'
  <2>1. TxInv' /\ OthersUntouched(g) /\ reports' = {}
    BY <1>4, <1>a DEF FinishScope
  <2>2. CASE finished[s]
    BY <1>0, <1>4, <2>1, <2>2 DEF IInv, FinishScope, FrameInv, FrameTypeOK, Judging, ScopeTypeOK,
                                  LeakInv, frameVars, txVars
  <2>3. CASE ~finished[s]
    <3> DEFINE x == [scope |-> s, mark |-> FALSE]
    <3>1. GoTo(g, "finishing", x) /\ finished' = [finished EXCEPT ![s] = TRUE]
      BY <1>4, <2>3 DEF FinishScope
    <3>2. MayGoTo(g, "finishing", x)
      BY <1>0 DEF MayGoTo, Locations, GoroutineLocations, AllContexts
    <3>3. FrameInv'
      BY <1>0, <2>1, <3>1, <3>2, GoToKeepsFrames
    <3>4. ScopeTypeOK'
      BY <1>0, <1>4, <3>1 DEF ScopeTypeOK, FinishScope
    <3>5. \A h \in Goroutines : pc'[h] = "finishing" =>
            \/ h = g /\ ctx'[h].scope = s
            \/ h # g /\ pc[h] = "finishing" /\ ctx'[h] = ctx[h] /\ ctx[h].scope # s
      BY <1>0, <2>3, <3>1 DEF GoTo, LeakInv, FrameInv, FrameTypeOK, Procs
    <3>6. LeakInv'
      BY <1>0, <1>4, <2>3, <3>1, <3>5 DEF LeakInv, FinishScope, FrameInv, ScopeTypeOK
    <3>7. QED
      BY <2>1, <3>3, <3>4, <3>6 DEF IInv
  <2>4. QED
    BY <2>2, <2>3
<1>5. ASSUME CheckReport(g)
      PROVE  IInv'
  <2>1. TxInv' /\ OthersUntouched(g)
    BY <1>5, <1>a DEF CheckReport
  <2>2. reports' \subseteq Reports
    <3>1. ctx[g].scope \in ScopeOrNil /\ seen[g] \in Int
      BY <1>0, ContextTypes, ConnsFinite, FS_CardinalityType DEF FrameInv, FrameTypeOK
    <3>2. \A k \in {"event", "staleCall", "staleMark"}, n \in {seen[g], 0} :
            Report(k, g, ctx[g].scope, n) \in Reports
      BY <1>0, <3>1, ReportTypes DEF Kinds
    <3>3. QED
      BY <1>5, <3>2 DEF CheckReport, checkVerdict
  <2>3. QED
    BY <1>5, <2>1, <2>2, GoroutineReturns DEF IInv, CheckReport
<1>6. ASSUME RoundTripCheck(g)
      PROVE  IInv'
  BY <1>0, <1>6, CheckLoadKeepsInv DEF RoundTripCheck
<1>7. ASSUME ReportLeakedTx(g)
      PROVE  IInv'
  <2> DEFINE s == ctx[g].scope
  <2>1. TxInv' /\ OthersUntouched(g)
    BY <1>7, <1>a DEF ReportLeakedTx
  <2>2. s \in Scopes /\ finished[s] /\ leaks[s] = 0 /\ openTxs[s] \in Int
    BY <1>0, <1>7, ConnsFinite, FS_CardinalityType
    DEF ReportLeakedTx, FrameInv, LeakInv, TxInv, TxTypeOK
  <2>3. /\ reports' \subseteq Reports
        /\ reports' = {} \/ \E r : reports' = {r}
    BY <1>0, <1>7, <2>2, ReportTypes DEF ReportLeakedTx, OptIn, Kinds, ScopeOrNil
  <2>4. Cardinality(reports') \in {0, 1}
    BY <2>3, FS_EmptySet, FS_Singleton
  <2>5. /\ leaks' = [leaks EXCEPT ![s] = @ + Cardinality(reports')]
        /\ leaks'[s] \in {0, 1}
    BY <1>0, <1>7, <2>2, <2>4 DEF ReportLeakedTx, ScopeTypeOK
  <2>6. ScopeTypeOK'
    BY <1>0, <1>7, <2>2, <2>5 DEF ReportLeakedTx, ScopeTypeOK
  <2>7. FrameInv'
    <3>1. MayGoTo(g, "idle", Background) /\ GoTo(g, "idle", Background)
      BY <1>0, <1>7, ContextTypes DEF MayGoTo, Locations, GoroutineLocations, ReportLeakedTx, Return
    <3>2. QED
      BY <1>0, <2>1, <3>1, GoToKeepsFrames
  <2>8. LeakInv'
    <3>1. \A h \in Goroutines : pc'[h] = "finishing" =>
            pc[h] = "finishing" /\ ctx'[h] = ctx[h] /\ ctx[h].scope # s /\ ctx[h].scope \in Scopes
      BY <1>0, <1>7 DEF ReportLeakedTx, Return, GoTo, LeakInv, FrameInv, FrameTypeOK, Procs
    <3>2. \A t \in Scopes : t # s => leaks'[t] = leaks[t]
      BY <1>0, <2>5 DEF ScopeTypeOK
    <3>3. finished' = finished
      BY <1>7 DEF ReportLeakedTx
    <3>4. QED
      BY <1>0, <2>2, <2>5, <3>1, <3>2, <3>3 DEF LeakInv
  <2>9. QED
    BY <2>1, <2>3, <2>6, <2>7, <2>8 DEF IInv
<1>8. QED
  BY <1>1, <1>2, <1>3, <1>4, <1>5, <1>6, <1>7 DEF DetectorStep

-----------------------------------------------------------------------------
(* Theorems. *)

\* The strengthening that makes the counters, the frames and the leak
\* accounting inductive holds in every reachable state.
THEOREM Inductive == Spec => []IInv
<1>1. Init => IInv
  <2> SUFFICES ASSUME Init PROVE IInv
    OBVIOUS
  <2>1. TxInv
    BY TxInitExact DEF Init
  <2>2. 0 \in 0..Cardinality(Conns) /\ Background \in AllContexts
    BY ConnsFinite, FS_CardinalityType, ContextTypes
  <2>3. FrameInv
    BY <2>2 DEF Init, FrameInv, FrameTypeOK, Judging, Locations, ConnLocations, GoroutineLocations, Procs
  <2>4. ScopeTypeOK /\ LeakInv /\ reports \subseteq Reports
    BY DEF Init, ScopeTypeOK, LeakInv, Procs
  <2>5. QED
    BY <2>1, <2>3, <2>4 DEF IInv
<1>2. IInv /\ [Next]_vars => IInv'
  <2> SUFFICES ASSUME IInv, [Next]_vars PROVE IInv'
    OBVIOUS
  <2>1. CASE UNCHANGED vars
    BY <2>1, TxUnchangedExact DEF vars, IInv, FrameInv, FrameTypeOK, Judging, ScopeTypeOK, LeakInv,
                                  frameVars, scopeVars, txVars
  <2>2. CASE Next
    BY <2>2, SessionStepKeepsInv, DetectorStepKeepsInv DEF Next
  <2>3. QED
    BY <2>1, <2>2
<1>3. QED
  BY <1>1, <1>2, PTL DEF Spec

\* Every variable keeps its type; in particular no scope counter leaves the
\* range 0..number of connections.
THEOREM TypeCorrect == Spec => []TypeOK
<1>1. IInv => TypeOK
  BY DEF IInv, TypeOK, TxInv, FrameInv, FrameTypeOK, ScopeTypeOK
<1>2. QED
  BY <1>1, Inductive, PTL

\* Whatever the interleaving of connections, scopes and goroutines, every
\* counter is the number of connections holding a transaction of its scope.
THEOREM CountersExact == Spec => []CounterExact
<1>1. IInv => CounterExact
  BY DEF IInv, TxInv
<1>2. QED
  BY <1>1, Inductive, PTL

\* Concurrent and repeated finish calls report a scope's leak at most once.
THEOREM LeaksReportedOnce == Spec => []LeakReportedOnce
<1>1. IInv => LeakReportedOnce
  BY DEF IInv, LeakInv, LeakReportedOnce
<1>2. QED
  BY <1>1, Inductive, PTL

-----------------------------------------------------------------------------
(* Action properties. *)

\* What a step may do to the transaction state: open a transaction on a
\* connection outside one, close one, or nothing.
TxStep ==
  \/ UNCHANGED txVars
  \/ \E c \in Conns : closeTx(c)
  \/ \E c \in Conns, s \in ScopeOrNil : ~inTx[c] /\ openTx(c, s)

LEMMA StepsAreTxSteps ==
  ASSUME IInv, [Next]_vars
  PROVE  TxStep
<1>1. CASE UNCHANGED vars
  BY <1>1 DEF vars, TxStep
<1>2. ASSUME NEW c \in Conns, SessionStep(c)
      PROVE  TxStep
  <2>1. ASSUME NEW x \in Contexts, ObserveBegin(c, x)
        PROVE  TxStep
    BY <2>1, ContextTypes DEF TxStep, ObserveBegin, openTxAndReport
  <2>2. ASSUME NEW x \in Contexts, ObserveEnd(c, x) \/ BeginTxClose(c, x)
        PROVE  TxStep
    BY <2>2 DEF TxStep, ObserveEnd, BeginTxClose
  <2>3. ASSUME NEW x \in Contexts, ObserveOther(c, x) \/ ObserveWrite(c, x)
        PROVE  TxStep
    BY <2>3 DEF TxStep, ObserveOther, ObserveWrite
  <2>4. CASE BeginTxOpen(c)
    <3>1. ~inTx[c] /\ ctx[c] \in AllContexts /\ openTx(c, ctx[c].scope)
      BY <2>4 DEF BeginTxOpen, openTxAndReport, IInv, FrameInv, FrameTypeOK, Procs
    <3>2. QED
      BY <3>1, ContextTypes DEF TxStep
  <2>5. CASE EndTx(c)
    BY <2>5 DEF TxStep, EndTx
  <2>6. CASE ReportIfCrossConn(c) \/ CheckersLoad(c) \/ CheckersReport(c)
    BY <2>6 DEF TxStep, ReportIfCrossConn, CheckersLoad, CheckersReport
  <2>7. QED
    BY <1>2, <2>1, <2>2, <2>3, <2>4, <2>5, <2>6 DEF SessionStep
<1>3. ASSUME NEW g \in Goroutines, DetectorStep(g)
      PROVE  TxStep
  BY <1>3 DEF TxStep, DetectorStep, StartScope, Check, CheckLoad, RoundTrip, FinishScope,
              CheckReport, RoundTripCheck, ReportLeakedTx
<1>4. QED
  BY <1>1, <1>2, <1>3 DEF Next

\* An open transaction is never re-attributed to another scope.
THEOREM AttributionIsSticky == Spec => AttributionSticky
<1>1. IInv /\ [Next]_vars =>
        [\A c \in Conns : inTx[c] /\ inTx'[c] => txScope'[c] = txScope[c]]_vars
  <2> SUFFICES ASSUME IInv, [Next]_vars, NEW c \in Conns, inTx[c], inTx'[c]
               PROVE  txScope'[c] = txScope[c]
    OBVIOUS
  <2>1. TxStep /\ TxTypeOK
    BY StepsAreTxSteps DEF IInv, TxInv
  <2>2. QED
    BY <2>1 DEF TxStep, TxTypeOK, openTx, closeTx, txVars
<1>2. QED
  BY <1>1, Inductive, PTL DEF Spec, AttributionSticky

\* The verdict on what a call loaded, when it is given.
VerdictTrue(p) ==
  LET events == {r \in reports' : r.kind = "event"} IN
  /\ Judged(p) # {} => reports' = {Report("event", p, ctx[p].scope, Cardinality(Judged(p)))}
  /\ Judged(p) = {} => events = {}
  /\ reports' # events => witness[p] = {}

\* The number judged is what the code computes: the loaded value, less one
\* when a write's own transaction is in it.
LEMMA JudgedCount ==
  ASSUME IInv, NEW p \in Procs, Judging(p)
  PROVE  /\ Cardinality(Judged(p)) = IF pc[p] = "crossReport" THEN seen[p] - Self(p) ELSE seen[p]
         /\ Cardinality(Judged(p)) \in Nat
         /\ Judged(p) = {} <=> Cardinality(Judged(p)) = 0
         /\ seen[p] \in Nat /\ (seen[p] = 0 <=> witness[p] = {})
<1>1. /\ witness[p] \subseteq Conns /\ Judged(p) \subseteq Conns
      /\ seen[p] = Cardinality(witness[p])
  BY DEF IInv, FrameInv, FrameTypeOK, Judged
<1>2. /\ IsFiniteSet(witness[p]) /\ IsFiniteSet(Judged(p))
      /\ Cardinality(witness[p]) \in Nat /\ Cardinality(Judged(p)) \in Nat
  BY <1>1, ConnsCount, ConnsFinite, FS_CardinalityType
<1>3. CASE pc[p] = "crossReport"
  <2>1. p \in Conns
    BY <1>3 DEF IInv, FrameInv, GoroutineLocations, Procs
  <2>2. p \in witness[p] <=> Self(p) = 1
    BY <1>3, <2>1 DEF IInv, FrameInv, Self
  <2>3. Cardinality(Judged(p)) = seen[p] - Self(p)
    BY <1>1, <1>2, <1>3, <2>2, FS_RemoveElement DEF Judged, Self
  <2>4. QED
    BY <1>1, <1>2, <1>3, <2>3, FS_EmptySet
<1>4. CASE pc[p] # "crossReport"
  BY <1>1, <1>2, <1>4, FS_EmptySet DEF Judged
<1>5. QED
  BY <1>3, <1>4

LEMMA VerdictStep ==
  ASSUME IInv, NEW p \in Procs, ReportIfCrossConn(p) \/ CheckersReport(p) \/ CheckReport(p)
  PROVE  Judging(p) /\ VerdictTrue(p)
<1>1. Judging(p)
  BY DEF Judging, ReportIfCrossConn, CheckersReport, CheckReport
<1>2. /\ \A n : Report("event", p, ctx[p].scope, n).kind = "event"
      /\ \A n : Report("staleCall", p, ctx[p].scope, n).kind # "event"
      /\ \A n : Report("staleMark", p, ctx[p].scope, n).kind # "event"
  BY DEF Report
<1>3. CASE ReportIfCrossConn(p)
  BY <1>1, <1>2, <1>3, JudgedCount DEF ReportIfCrossConn, crossVerdict, VerdictTrue
<1>4. CASE CheckersReport(p)
  BY <1>1, <1>2, <1>4, JudgedCount DEF CheckersReport, checkersVerdict, VerdictTrue
<1>5. CASE CheckReport(p)
  BY <1>1, <1>2, <1>5, JudgedCount DEF CheckReport, checkVerdict, VerdictTrue
<1>6. QED
  BY <1>1, <1>3, <1>4, <1>5

\* A step of another process leaves the frame of p alone.
LEMMA VerdictsAreVerdictSteps ==
  ASSUME IInv, [Next]_vars, NEW p \in Procs, Judging(p), pc'[p] # pc[p]
  PROVE  ReportIfCrossConn(p) \/ CheckersReport(p) \/ CheckReport(p)
<1>0. pc \in [Procs -> Locations]
  BY DEF IInv, FrameInv, FrameTypeOK
<1>1. pc[p] \in {"crossReport", "checkersReport", "checkReport"}
  BY DEF Judging
<1>2. ASSUME NEW c \in Conns, SessionStep(c)
      PROVE  ReportIfCrossConn(p) \/ CheckersReport(p)
  <2>1. c = p
    BY <1>0, <1>2 DEF SessionStep, ObserveBegin, ObserveEnd, ObserveOther, ObserveWrite, BeginTxClose,
       ReportIfCrossConn, CheckersLoad, CheckersReport, BeginTxOpen, EndTx, AfterObserveKind,
       Load, Return, GoTo, frameVars
  <2>2. QED
    BY <1>1, <1>2, <2>1 DEF SessionStep, ObserveBegin, ObserveEnd, ObserveOther, ObserveWrite,
       BeginTxClose, CheckersLoad, BeginTxOpen, EndTx
<1>3. ASSUME NEW g \in Goroutines, DetectorStep(g)
      PROVE  CheckReport(p)
  <2>1. g = p
    BY <1>0, <1>3 DEF DetectorStep, StartScope, Check, CheckLoad, RoundTrip, FinishScope,
       CheckReport, RoundTripCheck, ReportLeakedTx, Load, Return, GoTo, frameVars
  <2>2. QED
    BY <1>1, <1>3, <2>1 DEF DetectorStep, StartScope, Check, RoundTrip, FinishScope,
       RoundTripCheck, ReportLeakedTx
<1>4. QED
  BY <1>2, <1>3 DEF Next, vars, frameVars

\* A verdict is the truth of the instant its counter was loaded, whatever
\* happened between the load and the report.
THEOREM VerdictsJustified == Spec => VerdictJustified
<1>1. IInv /\ [Next]_vars =>
        [\A p \in Procs : Judging(p) /\ pc'[p] # pc[p] =>
           LET events == {r \in reports' : r.kind = "event"} IN
           /\ Judged(p) # {} => reports' = {Report("event", p, ctx[p].scope, Cardinality(Judged(p)))}
           /\ Judged(p) = {} => events = {}
           /\ reports' # events => witness[p] = {}]_vars
  <2> SUFFICES ASSUME IInv, [Next]_vars, NEW p \in Procs, Judging(p), pc'[p] # pc[p]
               PROVE  VerdictTrue(p)
    BY DEF VerdictTrue
  <2>1. QED
    BY VerdictsAreVerdictSteps, VerdictStep
<1>2. QED
  BY <1>1, Inductive, PTL DEF Spec, VerdictJustified

\* RoundTrip's gate lets every Check through that could report anything.
THEOREM GateIsSound == Spec => GateMirrorsCheck
<1>1. IInv /\ [Next]_vars =>
        [\A g \in Goroutines, x \in Contexts :
           RoundTrip(g, x) /\ pc'[g] = "idle" =>
             IF x.scope = NoScope
             THEN OptIn("unscopedCheck", g, NoScope, 0) = {}
             ELSE OpenOn(x.scope) = {} /\ ~x.mark]_vars
  <2> SUFFICES ASSUME IInv, NEW g \in Goroutines, NEW x \in Contexts, RoundTrip(g, x), pc'[g] = "idle"
               PROVE  IF x.scope = NoScope
                      THEN OptIn("unscopedCheck", g, NoScope, 0) = {}
                      ELSE OpenOn(x.scope) = {} /\ ~x.mark
    OBVIOUS
  <2>1. ~checkNeeded(x)
    BY DEF RoundTrip, GoTo, IInv, FrameInv, FrameTypeOK, Procs
  <2>2. CASE x.scope = NoScope
    BY <2>1, <2>2 DEF checkNeeded, OptIn
  <2>3. CASE x.scope # NoScope
    <3>1. x.scope \in Scopes
      BY <2>3, ContextTypes DEF ScopeOrNil
    <3>2. OpenOn(x.scope) \subseteq Conns /\ Cardinality(OpenOn(x.scope)) = 0
      BY <2>1, <2>3, <3>1, ConnsFinite, FS_CardinalityType
      DEF checkNeeded, OpenOn, IInv, TxInv, TxTypeOK, CounterExact
    <3>3. QED
      BY <2>1, <2>3, <3>2, ConnsCount, FS_EmptySet DEF checkNeeded
  <2>4. QED
    BY <2>2, <2>3
<1>2. QED
  BY <1>1, Inductive, PTL DEF Spec, GateMirrorsCheck

-----------------------------------------------------------------------------
(* Refinement: the state of OpenTransactions, as Session has it. *)

OwnerBar == [c \in Conns |-> IF inTx[c] THEN {txScope[c]} ELSE {}]
ViewBar == [p \in Procs |-> Judged(p)]
VerdictsBar == {[by |-> r.by, open |-> r.open] : r \in {q \in reports : q.kind = "event"}}

\* What a transaction step does to the owners.
LEMMA TxStepMaps ==
  ASSUME TxTypeOK
  PROVE  /\ UNCHANGED txVars => OwnerBar' = OwnerBar
         /\ \A c \in Conns : closeTx(c) => OwnerBar' = [OwnerBar EXCEPT ![c] = {}]
         /\ \A c \in Conns, s \in ScopeOrNil : ~inTx[c] /\ openTx(c, s) =>
              OwnerBar[c] = {} /\ OwnerBar' = [OwnerBar EXCEPT ![c] = {s}]
<1>1. UNCHANGED txVars => OwnerBar' = OwnerBar
  BY DEF OwnerBar, txVars
<1>2. ASSUME NEW c \in Conns, closeTx(c)
      PROVE  OwnerBar' = [OwnerBar EXCEPT ![c] = {}]
  BY <1>2 DEF OwnerBar, TxTypeOK, closeTx, txVars
<1>3. ASSUME NEW c \in Conns, NEW s \in ScopeOrNil, ~inTx[c], openTx(c, s)
      PROVE  OwnerBar[c] = {} /\ OwnerBar' = [OwnerBar EXCEPT ![c] = {s}]
  BY <1>3 DEF OwnerBar, TxTypeOK, openTx
<1>4. QED
  BY <1>1, <1>2, <1>3

\* Nobody's view changes when a process that judges nothing goes on.
LEMMA QuietFrames ==
  ASSUME FrameInv, NEW p \in Procs, NEW l, NEW x, ~Judging(p),
         (GoTo(p, l, x) /\ MayGoTo(p, l, x)) \/ UNCHANGED frameVars
  PROVE  ViewBar' = ViewBar
<1>1. ASSUME NEW q \in Procs
      PROVE  Judged(q)' = Judged(q)
  BY DEF FrameInv, FrameTypeOK, Judged, Judging, GoTo, MayGoTo, frameVars
<1>2. QED
  BY <1>1 DEF ViewBar

\* A load is a look at the open transactions of the scope.
LEMMA LoadMaps ==
  ASSUME FrameInv, NEW p \in Procs, NEW l, NEW x, ~Judging(p), Load(p, l, x), x.scope \in Scopes
  PROVE  /\ ViewBar[p] = {}
         /\ \E own \in {{}, {p}} :
              ViewBar' = [ViewBar EXCEPT ![p] = {c \in Conns : x.scope \in OwnerBar[c]} \ own]
<1>1. {c \in Conns : x.scope \in OwnerBar[c]} = OpenOn(x.scope)
  BY DEF OwnerBar, OpenOn
<1>2. ASSUME NEW q \in Procs, q # p
      PROVE  Judged(q)' = Judged(q)
  BY <1>2 DEF FrameInv, FrameTypeOK, Judged, Load
<1>3. Judged(p)' = IF l = "crossReport" THEN OpenOn(x.scope) \ {p} ELSE OpenOn(x.scope) \ {}
  BY DEF FrameInv, FrameTypeOK, Judged, Load
<1>4. ViewBar[p] = {}
  BY DEF FrameInv, Judged, ViewBar
<1>5. QED
  BY <1>1, <1>2, <1>3, <1>4 DEF ViewBar

\* A report of something else than an event is not a verdict.
LEMMA SilentReports ==
  ASSUME \A r \in reports' : r.kind # "event"
  PROVE  VerdictsBar' = {}
BY DEF VerdictsBar

\* The abstract actions in terms of the mapped state.
LEMMA AbstractSteps ==
  /\ UNCHANGED <<OwnerBar, ViewBar>> /\ VerdictsBar' = {} => Attribution!Next
  /\ \A c \in Conns :
       OwnerBar' = [OwnerBar EXCEPT ![c] = {}] /\ UNCHANGED ViewBar /\ VerdictsBar' = {}
       => Attribution!Next
  /\ \A c \in Conns, s \in ScopeOrNil :
       /\ OwnerBar[c] = {} /\ OwnerBar' = [OwnerBar EXCEPT ![c] = {s}]
       /\ UNCHANGED ViewBar /\ VerdictsBar' = {}
       => Attribution!Next
  /\ \A p \in Procs, s \in Scopes : \A own \in {{}, {p}} :
       /\ ViewBar[p] = {}
       /\ ViewBar' = [ViewBar EXCEPT ![p] = {c \in Conns : s \in OwnerBar[c]} \ own]
       /\ UNCHANGED OwnerBar /\ VerdictsBar' = {}
       => Attribution!Next
  /\ \A p \in Procs :
       /\ ViewBar[p] # {} /\ VerdictsBar' = {[by |-> p, open |-> Cardinality(ViewBar[p])]}
       /\ ViewBar' = [ViewBar EXCEPT ![p] = {}] /\ UNCHANGED OwnerBar
       => Attribution!Next
<1> USE DEF OwnerBar, ViewBar, VerdictsBar, Attribution!Next
<1>1. UNCHANGED <<OwnerBar, ViewBar>> /\ VerdictsBar' = {} => Attribution!Next
  BY DEF Attribution!Quiet
<1>2. ASSUME NEW c \in Conns,
             OwnerBar' = [OwnerBar EXCEPT ![c] = {}] /\ UNCHANGED ViewBar /\ VerdictsBar' = {}
      PROVE  Attribution!Next
  <2>1. Attribution!End(c)
    BY <1>2 DEF Attribution!End
  <2>2. QED
    BY <2>1
<1>3. ASSUME NEW c \in Conns, NEW s \in ScopeOrNil,
             OwnerBar[c] = {}, OwnerBar' = [OwnerBar EXCEPT ![c] = {s}],
             UNCHANGED ViewBar, VerdictsBar' = {}
      PROVE  Attribution!Next
  <2>1. Attribution!Begin(c)
    BY <1>3 DEF Attribution!Begin, ScopeOrNil
  <2>2. QED
    BY <2>1
<1>4. ASSUME NEW p \in Procs, NEW s \in Scopes, NEW own \in {{}, {p}},
             ViewBar[p] = {},
             ViewBar' = [ViewBar EXCEPT ![p] = {c \in Conns : s \in OwnerBar[c]} \ own],
             UNCHANGED OwnerBar, VerdictsBar' = {}
      PROVE  Attribution!Next
  <2>1. Attribution!Look(p, s)
    BY <1>4 DEF Attribution!Look, Attribution!Open
  <2>2. QED
    BY <2>1
<1>5. ASSUME NEW p \in Procs,
             ViewBar[p] # {}, VerdictsBar' = {[by |-> p, open |-> Cardinality(ViewBar[p])]},
             ViewBar' = [ViewBar EXCEPT ![p] = {}], UNCHANGED OwnerBar
      PROVE  Attribution!Next
  <2>1. Attribution!Judge(p)
    <3> HIDE DEF OwnerBar, VerdictsBar
    <3>1. [q \in Procs |-> Judged(q)][p] # {}
      BY <1>5
    <3>2. QED
      BY <1>5, <3>1 DEF Attribution!Judge, OwnerBar, VerdictsBar
  <2>2. QED
    BY <2>1
<1> HIDE DEF OwnerBar, ViewBar, VerdictsBar, Attribution!Next
<1>6. QED
  BY <1>1, <1>2, <1>3, <1>4, <1>5

\* A transaction step that is seen by nobody begins or ends a transaction.
LEMMA TxStepRefines ==
  ASSUME IInv, TxStep, ViewBar' = ViewBar, VerdictsBar' = {}
  PROVE  Attribution!Next
<1>1. TxTypeOK
  BY DEF IInv, TxInv
<1>2. CASE UNCHANGED txVars
  BY <1>1, <1>2, TxStepMaps, AbstractSteps
<1>3. CASE \E c \in Conns : closeTx(c)
  BY <1>1, <1>3, TxStepMaps, AbstractSteps
<1>4. CASE \E c \in Conns, s \in ScopeOrNil : ~inTx[c] /\ openTx(c, s)
  BY <1>1, <1>4, TxStepMaps, AbstractSteps
<1>5. QED
  BY <1>2, <1>3, <1>4 DEF TxStep

\* A call without a loaded value that moves on, with reports other than an
\* event, is a transaction step or nothing at all.
LEMMA QuietStepRefines ==
  ASSUME IInv, TxStep, NEW p \in Procs, NEW l, NEW x, ~Judging(p),
         (GoTo(p, l, x) /\ MayGoTo(p, l, x)) \/ UNCHANGED frameVars,
         \A r \in reports' : r.kind # "event"
  PROVE  Attribution!Next
BY QuietFrames, SilentReports, TxStepRefines DEF IInv

LEMMA LoadRefines ==
  ASSUME IInv, NEW p \in Procs, NEW l, NEW x, ~Judging(p), Load(p, l, x), x.scope \in Scopes,
         UNCHANGED txVars, reports' = {}
  PROVE  Attribution!Next
<1>1. UNCHANGED OwnerBar /\ VerdictsBar' = {}
  BY SilentReports DEF OwnerBar, txVars
<1>2. QED
  BY <1>1, LoadMaps, AbstractSteps DEF IInv

\* A verdict step judges what it saw.
LEMMA VerdictRefines ==
  ASSUME IInv, NEW p \in Procs, ReportIfCrossConn(p) \/ CheckersReport(p) \/ CheckReport(p)
  PROVE  Attribution!Next
<1>1. Judging(p) /\ VerdictTrue(p) /\ UNCHANGED txVars
  BY VerdictStep DEF ReportIfCrossConn, CheckersReport, CheckReport
<1>2. UNCHANGED OwnerBar
  BY <1>1 DEF OwnerBar, txVars
<1>3. ViewBar' = [ViewBar EXCEPT ![p] = {}]
  <2>1. GoTo(p, "idle", Background) \/ GoTo(p, "checkers", ctx[p])
    BY DEF ReportIfCrossConn, CheckersReport, CheckReport, AfterObserveKind, Return
  <2>2. Judged(p)' = {}
    BY <2>1 DEF GoTo, Judged, IInv, FrameInv, FrameTypeOK
  <2>3. ASSUME NEW q \in Procs, q # p
        PROVE  Judged(q)' = Judged(q)
    BY <2>1, <2>3 DEF GoTo, Judged, IInv, FrameInv, FrameTypeOK
  <2>4. QED
    BY <2>2, <2>3 DEF ViewBar
<1>4. CASE Judged(p) = {}
  <2>1. \A r \in reports' : r.kind # "event"
    BY <1>1, <1>4 DEF VerdictTrue
  <2>2. ViewBar' = ViewBar
    BY <1>3, <1>4 DEF ViewBar
  <2>3. QED
    BY <1>2, <2>1, <2>2, SilentReports, AbstractSteps
<1>5. CASE Judged(p) # {}
  <2>1. reports' = {Report("event", p, ctx[p].scope, Cardinality(Judged(p)))}
    BY <1>1, <1>5 DEF VerdictTrue
  <2>2. VerdictsBar' = {[by |-> p, open |-> Cardinality(Judged(p))]}
    <3> DEFINE r0 == Report("event", p, ctx[p].scope, Cardinality(Judged(p)))
    <3>1. r0.kind = "event" /\ r0.by = p /\ r0.open = Cardinality(Judged(p))
      BY DEF Report
    <3> HIDE DEF r0
    <3>2. {q \in reports' : q.kind = "event"} = {r0}
      BY <2>1, <3>1 DEF r0
    <3>3. VerdictsBar' = {[by |-> r.by, open |-> r.open] : r \in {r0}}
      BY <3>2 DEF VerdictsBar
    <3>4. QED
      BY <3>1, <3>3
  <2>3. ViewBar[p] = Judged(p)
    BY DEF ViewBar
  <2>4. QED
    BY <1>2, <1>3, <1>5, <2>2, <2>3, AbstractSteps
<1>6. QED
  BY <1>4, <1>5

LEMMA SessionStepRefines ==
  ASSUME IInv, NEW c \in Conns, SessionStep(c)
  PROVE  Attribution!Next
<1>0. /\ c \in Procs /\ c \notin Goroutines /\ ctx[c] \in AllContexts
      /\ FrameInv /\ TxTypeOK /\ TxStep
  BY ProcsDistinct, StepsAreTxSteps DEF Procs, IInv, TxInv, FrameInv, FrameTypeOK, Next
<1>a. \A x \in AllContexts : MayGoTo(c, "idle", Background) /\ MayGoTo(c, "checkers", x)
  BY <1>0, ContextTypes DEF MayGoTo, Locations, ConnLocations
<1>b. \A l \in {"idle", "opening", "checkers"} : pc[c] = l => ~Judging(c)
  BY DEF Judging
<1>1. ASSUME NEW x \in Contexts,
             ObserveBegin(c, x) \/ ObserveEnd(c, x) \/ ObserveOther(c, x)
      PROVE  Attribution!Next
  <2>1. \A r \in reports' : r.kind # "event"
    BY <1>1 DEF ObserveBegin, ObserveEnd, ObserveOther, openTxAndReport, OptIn, Report
  <2>2. pc[c] = "idle" /\ (GoTo(c, "idle", Background) \/ GoTo(c, "checkers", x))
    BY <1>1 DEF ObserveBegin, ObserveEnd, ObserveOther, AfterObserveKind, Return
  <2>3. QED
    BY <1>0, <1>a, <1>b, <2>1, <2>2, ContextTypes, QuietStepRefines
<1>2. ASSUME NEW x \in Contexts, BeginTxClose(c, x)
      PROVE  Attribution!Next
  <2>1. ~inTx'[c]
    BY <1>0, <1>2, CloseTxExact DEF BeginTxClose, IInv
  <2>2. MayGoTo(c, "opening", x)
    BY <1>0, <2>1, ContextTypes DEF MayGoTo, Locations, ConnLocations
  <2>3. QED
    BY <1>0, <1>2, <1>b, <2>2, QuietStepRefines DEF BeginTxClose
<1>3. CASE BeginTxOpen(c)
  <2>1. \A r \in reports' : r.kind # "event"
    BY <1>3 DEF BeginTxOpen, openTxAndReport, OptIn, Report
  <2>2. pc[c] = "opening" /\ GoTo(c, "idle", Background)
    BY <1>3 DEF BeginTxOpen, Return
  <2>3. QED
    BY <1>0, <1>a, <1>b, <2>1, <2>2, QuietStepRefines
<1>4. CASE EndTx(c)
  BY <1>0, <1>4, <1>b, QuietStepRefines DEF EndTx
<1>5. ASSUME NEW x \in Contexts, ObserveWrite(c, x)
      PROVE  Attribution!Next
  <2>1. CASE AfterObserveKind(c, x)
    <3>1. GoTo(c, "idle", Background) \/ GoTo(c, "checkers", x)
      BY <2>1 DEF AfterObserveKind, Return
    <3>2. pc[c] = "idle" /\ reports' = {}
      BY <1>5 DEF ObserveWrite
    <3>3. QED
      BY <1>0, <1>a, <1>b, <3>1, <3>2, ContextTypes, QuietStepRefines
  <2>2. CASE x.scope # NoScope /\ Load(c, "crossReport", x)
    <3>1. x.scope \in Scopes
      BY <2>2, ContextTypes DEF ScopeOrNil
    <3>2. QED
      BY <1>0, <1>5, <1>b, <2>2, <3>1, LoadRefines DEF ObserveWrite
  <2>3. QED
    BY <1>5, <2>1, <2>2 DEF ObserveWrite
<1>6. CASE CheckersLoad(c)
  <2>1. pc[c] = "checkers" /\ reports' = {} /\ UNCHANGED txVars
    BY <1>6 DEF CheckersLoad
  <2>2. CASE GoTo(c, "idle", Background)
    BY <1>0, <1>a, <1>b, <2>1, <2>2, QuietStepRefines
  <2>3. CASE ctx[c].scope # NoScope /\ Load(c, "checkersReport", ctx[c])
    <3>1. ctx[c].scope \in Scopes
      BY <1>0, <2>3, ContextTypes DEF ScopeOrNil
    <3>2. QED
      BY <1>0, <1>b, <2>1, <2>3, <3>1, LoadRefines
  <2>4. QED
    BY <1>6, <2>2, <2>3 DEF CheckersLoad, Return
<1>7. CASE ReportIfCrossConn(c) \/ CheckersReport(c)
  BY <1>0, <1>7, VerdictRefines
<1>8. QED
  BY <1>1, <1>2, <1>3, <1>4, <1>5, <1>6, <1>7 DEF SessionStep

LEMMA CheckLoadRefines ==
  ASSUME IInv, TxStep, NEW g \in Goroutines, NEW x \in AllContexts, ~Judging(g), CheckLoad(g, x)
  PROVE  Attribution!Next
<1>1. g \in Procs /\ g \notin Conns
  BY ProcsDistinct DEF Procs
<1>2. CASE x.scope = NoScope
  <2>1. GoTo(g, "idle", Background) /\ MayGoTo(g, "idle", Background)
    BY <1>1, <1>2, ContextTypes DEF CheckLoad, Return, MayGoTo, Locations, GoroutineLocations
  <2>2. \A r \in reports' : r.kind # "event"
    BY <1>2 DEF CheckLoad, OptIn, Report
  <2>3. QED
    BY <1>1, <2>1, <2>2, QuietStepRefines
<1>3. CASE x.scope # NoScope
  <2>1. x.scope \in Scopes
    BY <1>3, ContextTypes DEF ScopeOrNil
  <2>2. Load(g, "checkReport", x) /\ reports' = {} /\ UNCHANGED txVars
    BY <1>3 DEF CheckLoad
  <2>3. QED
    BY <1>1, <2>1, <2>2, LoadRefines
<1>4. QED
  BY <1>2, <1>3

LEMMA DetectorStepRefines ==
  ASSUME IInv, NEW g \in Goroutines, DetectorStep(g)
  PROVE  Attribution!Next
<1>0. /\ g \in Procs /\ g \notin Conns /\ ctx[g] \in AllContexts
      /\ FrameInv /\ TxStep
  BY ProcsDistinct, StepsAreTxSteps DEF Procs, IInv, FrameInv, FrameTypeOK, Next
<1>b. \A l \in {"idle", "gated", "finishing"} : pc[g] = l => ~Judging(g)
  BY DEF Judging
<1>1. ASSUME NEW s \in Scopes, NEW x \in Contexts, StartScope(g, s, x)
      PROVE  Attribution!Next
  <2>1. \A r \in reports' : r.kind # "event"
    BY <1>1 DEF StartScope, OptIn, Report
  <2>2. QED
    BY <1>0, <1>1, <1>b, <2>1, QuietStepRefines DEF StartScope
<1>2. ASSUME NEW x \in Contexts, Check(g, x)
      PROVE  Attribution!Next
  BY <1>0, <1>2, <1>b, ContextTypes, CheckLoadRefines DEF Check
<1>3. ASSUME NEW x \in Contexts, RoundTrip(g, x)
      PROVE  Attribution!Next
  <2>1. MayGoTo(g, "gated", x)
    BY <1>0, ContextTypes DEF MayGoTo, Locations, GoroutineLocations
  <2>2. QED
    BY <1>0, <1>3, <1>b, <2>1, QuietStepRefines DEF RoundTrip
<1>4. ASSUME NEW s \in Scopes, FinishScope(g, s)
      PROVE  Attribution!Next
  <2> DEFINE x == [scope |-> s, mark |-> FALSE]
  <2>1. MayGoTo(g, "finishing", x)
    BY <1>0 DEF MayGoTo, Locations, GoroutineLocations, AllContexts
  <2>2. pc[g] = "idle" /\ reports' = {} /\ (GoTo(g, "finishing", x) \/ UNCHANGED frameVars)
    BY <1>4 DEF FinishScope
  <2>3. QED
    BY <1>0, <1>b, <2>1, <2>2, QuietStepRefines
<1>5. CASE CheckReport(g)
  BY <1>0, <1>5, VerdictRefines
<1>6. CASE RoundTripCheck(g)
  BY <1>0, <1>6, <1>b, CheckLoadRefines DEF RoundTripCheck
<1>7. CASE ReportLeakedTx(g)
  <2>1. \A r \in reports' : r.kind # "event"
    BY <1>7 DEF ReportLeakedTx, OptIn, Report
  <2>2. GoTo(g, "idle", Background) /\ MayGoTo(g, "idle", Background) /\ pc[g] = "finishing"
    BY <1>0, <1>7, ContextTypes DEF ReportLeakedTx, Return, MayGoTo, Locations, GoroutineLocations
  <2>3. QED
    BY <1>0, <1>b, <2>1, <2>2, QuietStepRefines
<1>8. QED
  BY <1>1, <1>2, <1>3, <1>4, <1>5, <1>6, <1>7 DEF DetectorStep

\* Sessions and checkpoints implement the set of open transactions: the
\* counters, the serial frames and the reports are a refinement of
\* OpenTransactions.
THEOREM SessionImplementsAttribution == Spec => ImplementsAttribution
<1>1. Init => Attribution!Init
  BY DEF Init, TxInit, Attribution!Init, Judged, Procs
<1>2. IInv /\ [Next]_vars => [Attribution!Next]_(Attribution!absVars)
  <2> SUFFICES ASSUME IInv, [Next]_vars
               PROVE  Attribution!Next \/ UNCHANGED Attribution!absVars
    OBVIOUS
  <2>1. CASE Next
    BY <2>1, SessionStepRefines, DetectorStepRefines DEF Next
  <2>2. CASE UNCHANGED vars
    BY <2>2 DEF vars, txVars, frameVars, Judged, Attribution!absVars
  <2>3. QED
    BY <2>1, <2>2
<1>3. QED
  BY <1>1, <1>2, Inductive, PTL DEF Spec, ImplementsAttribution, Attribution!Spec
=============================================================================
