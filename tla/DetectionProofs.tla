-------------------------- MODULE DetectionProofs --------------------------
(***************************************************************************)
(* The composition adds nothing to its parts: every behaviour of Detection *)
(* is one of Session and one of AllowTiers, so what is proved of the two   *)
(* holds where they meet.                                                  *)
(***************************************************************************)
EXTENDS Detection, SessionProofs

-----------------------------------------------------------------------------
(* Session. *)

LEMMA StepsAreSessionSteps ==
  ASSUME [DetectionNext]_allVars
  PROVE  [Next]_vars
<1>1. CASE UNCHANGED allVars
  BY <1>1 DEF allVars
<1>2. CASE Declare
  BY <1>2 DEF Declare
<1>3. ASSUME NEW p \in Procs, ProcStep(p)
      PROVE  [Next]_vars
  <2>1. ASSUME p \in Conns, Statement(p)
        PROVE  SessionStep(p)
    BY <2>1 DEF Statement, SessionStep, Carried
  <2>2. ASSUME p \in Goroutines, Checkpoint(p)
        PROVE  DetectorStep(p)
    BY <2>2 DEF Checkpoint, DetectorStep, Carried
  <2>3. ASSUME p \in Goroutines, Finished(p)
        PROVE  DetectorStep(p)
    BY <2>3 DEF Finished, DetectorStep
  <2>4. ASSUME Verdict(p)
        PROVE  \/ p \in Conns /\ SessionStep(p)
               \/ p \in Goroutines /\ DetectorStep(p)
    BY <2>4 DEF Verdict, SessionStep, DetectorStep
  <2>5. ASSUME Tier(p) \/ ReportCallShortfalls(p)
        PROVE  UNCHANGED vars
    BY <2>5 DEF Tier, ReportCallShortfalls
  <2>6. QED
    BY <1>3, <2>1, <2>2, <2>3, <2>4, <2>5 DEF ProcStep, Next
<1>4. QED
  BY <1>1, <1>2, <1>3 DEF DetectionNext

\* Scopes, sessions and checkpoints behave in the composition as they do alone:
\* neither callMu nor the allow tiers make them do anything new
\* (session.go, check.go, detector.go).
THEOREM ImplementsSession == DetectionSpec => Spec
<1>1. DetectionInit => Init
  BY DEF DetectionInit
<1>2. [DetectionNext]_allVars => [Next]_vars
  BY StepsAreSessionSteps
<1>3. QED
  BY <1>1, <1>2, PTL DEF DetectionSpec, Spec

\* So every counter is exact in the composition as well: it is the number of
\* connections inside a transaction of the scope (openTx, closeTx).
THEOREM CountersExactThere == DetectionSpec => []CounterExact
BY ImplementsSession, CountersExact, PTL

-----------------------------------------------------------------------------
(* AllowTiers. *)

\* What decideAndReport is called with is a site of the program.
AimInv == aim \in [Procs -> SUBSET Sites]

LEMMA SitesAtLocations ==
  ASSUME NEW l \in Locations
  PROVE  SitesAt(l) \subseteq Sites
BY DEF SitesAt, Sites, Locations

LEMMA AimedKeepsAim ==
  ASSUME AimInv, IInv', NEW p \in Procs, Aimed(p)
  PROVE  AimInv'
<1>1. pc'[p] \in Locations
  BY DEF IInv, FrameInv, FrameTypeOK
<1>2. InReach(p) \subseteq Sites
  BY <1>1, SitesAtLocations DEF InReach
<1>3. CASE Judging(p)'
  BY <1>2, <1>3 DEF Aimed, AimInv
<1>4. CASE ~Judging(p)'
  BY <1>4 DEF Aimed, AimInv
<1>5. QED
  BY <1>3, <1>4

LEMMA StepsKeepAim ==
  ASSUME AimInv, IInv', [DetectionNext]_allVars
  PROVE  AimInv'
<1>1. CASE UNCHANGED allVars
  BY <1>1 DEF allVars, siteVars, AimInv
<1>2. CASE Declare
  BY <1>2 DEF Declare, siteVars, AimInv
<1>3. ASSUME NEW p \in Procs, ProcStep(p)
      PROVE  AimInv'
  <2>1. ASSUME Statement(p) \/ Checkpoint(p) \/ Verdict(p)
        PROVE  AimInv'
    BY <2>1, AimedKeepsAim DEF Statement, Checkpoint, Verdict
  <2>2. ASSUME Tier(p) \/ ReportCallShortfalls(p) \/ Finished(p)
        PROVE  AimInv'
    BY <2>2 DEF Tier, ReportCallShortfalls, Finished, siteVars, AimInv
  <2>3. QED
    BY <1>3, <2>1, <2>2 DEF ProcStep
<1>4. QED
  BY <1>1, <1>2, <1>3 DEF DetectionNext

\* Only a process that has loaded the counter of a scope gives a verdict.
LEMMA VerdictInScope ==
  ASSUME IInv, AimInv, NEW p \in Procs, Verdict(p)
  PROVE  ctx[p].scope \in Scopes /\ aim[p] \subseteq Sites
<1>1. Judging(p)
  BY DEF Verdict, ReportIfCrossConn, CheckersReport, CheckReport, Judging
<1>2. QED
  BY <1>1 DEF IInv, FrameInv, AimInv

LEMMA StepsAreTierSteps ==
  ASSUME IInv, AimInv, [DetectionNext]_allVars
  PROVE  [Tiers!Next]_(Tiers!vars)
<1>0. UNCHANGED tierVars => UNCHANGED Tiers!vars
  BY DEF tierVars, Tiers!vars, Tiers!scopeVars, Tiers!listVars, Tiers!finishVars, Tiers!callVars
<1>1. CASE UNCHANGED allVars
  BY <1>0, <1>1 DEF allVars
<1>2. CASE Declare
  <2>1. started \subseteq Scopes
    BY DEF IInv, ScopeTypeOK
  <2>2. QED
    BY <1>2, <2>1 DEF Declare, Tiers!Next
<1>3. ASSUME NEW p \in Procs, ProcStep(p)
      PROVE  [Tiers!Next]_(Tiers!vars)
  <2>1. ASSUME Statement(p) \/ Checkpoint(p) \/ Finished(p)
        PROVE  UNCHANGED Tiers!vars
    BY <1>0, <2>1 DEF Statement, Checkpoint, Finished
  <2>2. ASSUME Verdict(p)
        PROVE  [Tiers!Next]_(Tiers!vars)
    <3>1. Decide(p)
      BY <2>2 DEF Verdict
    <3>2. ctx[p].scope \in Scopes /\ aim[p] \subseteq Sites
      BY <2>2, VerdictInScope
    <3>3. CASE UNCHANGED tierVars
      BY <1>0, <3>3
    <3>4. CASE \E s \in aim[p] : Tiers!DecideAndReport(p, ctx[p].scope, s)
      BY <3>2, <3>4 DEF Tiers!Next
    <3>5. QED
      BY <3>1, <3>3, <3>4 DEF Decide
  <2>3. ASSUME Tier(p)
        PROVE  Tiers!Next
    BY <2>3 DEF Tier, Tiers!Next
  <2>4. ASSUME p \in Goroutines, ReportCallShortfalls(p)
        PROVE  Tiers!Next
    <3>1. ctx[p].scope \in Scopes
      BY <2>4 DEF ReportCallShortfalls, IInv, FrameInv
    <3>2. QED
      BY <2>4, <3>1 DEF ReportCallShortfalls, Tiers!Next
  <2>5. QED
    BY <1>3, <2>1, <2>2, <2>3, <2>4 DEF ProcStep
<1>4. QED
  BY <1>1, <1>2, <1>3 DEF DetectionNext

\* The events AllowTiers is driven by include those the code detects: with a
\* scope and a site of the program, decided by the process that detected them,
\* and finished by the one finishScope that gets through
\* (reportIfCrossConn, check, runStatementCheckers, finishScope).
THEOREM ImplementsTiers == DetectionSpec => Tiers!Spec
<1>1. DetectionInit => AimInv /\ Tiers!Init
  BY DEF DetectionInit, AimInv
<1>2. DetectionSpec => []IInv
  BY ImplementsSession, Inductive, PTL
<1>3. AimInv /\ IInv' /\ [DetectionNext]_allVars => AimInv'
  BY StepsKeepAim
<1>4. IInv /\ AimInv /\ [DetectionNext]_allVars => [Tiers!Next]_(Tiers!vars)
  BY StepsAreTierSteps
<1>5. QED
  BY <1>1, <1>2, <1>3, <1>4, PTL DEF DetectionSpec, Tiers!Spec

-----------------------------------------------------------------------------
(* What is counted is what happened. *)

\* A call that has loaded a counter knows the one site it is of.
OneSite == \A p \in Procs : Judging(p) => \E s \in Sites : aim[p] = {s}

CountTypeOK ==
  /\ n \in [Scopes -> [Keys -> Nat]]
  /\ inside \in [Scopes -> [Keys \cup Regions -> Nat]]
  /\ \A e \in Scopes, k \in Keys : IsFiniteSet(OnTheWay(e, k))

CountInv == AimInv /\ OneSite /\ CountTypeOK /\ EffectsCounted

\* A step of p leaves the calls of everybody else where they are.
MovesAlone(p) ==
  \A q \in Procs \ {p} : /\ pc'[q] = pc[q] /\ ctx'[q] = ctx[q]
                         /\ witness'[q] = witness[q] /\ aim'[q] = aim[q]

CallSteps(p) ==
  \/ p \in Conns /\ Statement(p)
  \/ p \in Goroutines /\ (Checkpoint(p) \/ Finished(p))

LEMMA StatementMovesAlone ==
  ASSUME FrameTypeOK, NEW c \in Conns, Statement(c)
  PROVE  /\ ~Judging(c)
         /\ \A q \in Procs \ {c} : pc'[q] = pc[q] /\ ctx'[q] = ctx[q] /\ witness'[q] = witness[q]
<1> USE DEF FrameTypeOK
<1>1. ASSUME NEW x \in Carried,
             \/ ObserveBegin(c, x) \/ ObserveEnd(c, x) \/ ObserveOther(c, x)
             \/ ObserveWrite(c, x) \/ BeginTxClose(c, x)
      PROVE  /\ pc[c] = "idle"
             /\ \E l, y : GoTo(c, l, y) \/ Load(c, l, y)
  BY <1>1 DEF ObserveBegin, ObserveEnd, ObserveOther, ObserveWrite, BeginTxClose,
              AfterObserveKind, Return
<1>2. ASSUME CheckersLoad(c) \/ BeginTxOpen(c)
      PROVE  /\ pc[c] \in {"checkers", "opening"}
             /\ \E l, y : GoTo(c, l, y) \/ Load(c, l, y)
  BY <1>2 DEF CheckersLoad, BeginTxOpen, Return
<1>3. ASSUME EndTx(c)
      PROVE  pc[c] = "idle" /\ UNCHANGED frameVars
  BY <1>3 DEF EndTx
<1>4. /\ pc[c] \in {"idle", "checkers", "opening"}
      /\ UNCHANGED frameVars \/ \E l, y : GoTo(c, l, y) \/ Load(c, l, y)
  BY <1>1, <1>2, <1>3 DEF Statement
<1>5. QED
  BY <1>4 DEF Judging, GoTo, Load, frameVars

LEMMA CheckpointMovesAlone ==
  ASSUME FrameTypeOK, NEW g \in Goroutines, Checkpoint(g) \/ Finished(g)
  PROVE  /\ ~Judging(g)
         /\ \A q \in Procs \ {g} : pc'[q] = pc[q] /\ ctx'[q] = ctx[q] /\ witness'[q] = witness[q]
<1> USE DEF FrameTypeOK
<1>1. ASSUME NEW x \in Carried, (\E s \in Scopes : StartScope(g, s, x)) \/ Check(g, x) \/ RoundTrip(g, x)
      PROVE  /\ pc[g] = "idle"
             /\ UNCHANGED frameVars \/ \E l, y : GoTo(g, l, y) \/ Load(g, l, y)
  BY <1>1 DEF StartScope, Check, CheckLoad, RoundTrip, Return
<1>2. ASSUME (\E s \in Scopes : FinishScope(g, s)) \/ RoundTripCheck(g) \/ ReportLeakedTx(g)
      PROVE  /\ pc[g] \in {"idle", "gated", "finishing"}
             /\ UNCHANGED frameVars \/ \E l, y : GoTo(g, l, y) \/ Load(g, l, y)
  BY <1>2 DEF FinishScope, RoundTripCheck, CheckLoad, ReportLeakedTx, Return
<1>3. /\ pc[g] \in {"idle", "gated", "finishing"}
      /\ UNCHANGED frameVars \/ \E l, y : GoTo(g, l, y) \/ Load(g, l, y)
  BY <1>1, <1>2 DEF Checkpoint, Finished
<1>4. QED
  BY <1>3 DEF Judging, GoTo, Load, frameVars

LEMMA VerdictMovesAlone ==
  ASSUME FrameTypeOK, NEW p \in Procs, Verdict(p)
  PROVE  /\ Judging(p) /\ ~Judging(p)'
         /\ \A q \in Procs \ {p} : pc'[q] = pc[q] /\ ctx'[q] = ctx[q] /\ witness'[q] = witness[q]
<1>1. /\ Judging(p)
      /\ GoTo(p, "checkers", ctx[p]) \/ GoTo(p, "idle", Background)
  BY DEF Verdict, ReportIfCrossConn, CheckersReport, CheckReport, AfterObserveKind, Return, Judging
<1>2. QED
  BY <1>1 DEF FrameTypeOK, GoTo, Judging

\* The aim moves with the call.
LEMMA AimMovesAlone ==
  ASSUME AimInv, NEW p \in Procs, Aimed(p) \/ UNCHANGED siteVars
  PROVE  \A q \in Procs \ {p} : aim'[q] = aim[q]
BY DEF AimInv, Aimed, siteVars

\* A call that holds no counter value before or after a step of its own leaves
\* everything that is on its way where it is.
LEMMA SameOnTheWay ==
  ASSUME NEW p \in Procs, MovesAlone(p),
         ~(Judging(p) /\ Judged(p) # {}), ~(Judging(p)' /\ Judged(p)' # {}),
         NEW e, NEW k
  PROVE  OnTheWay(e, k)' = OnTheWay(e, k)
BY DEF OnTheWay, MovesAlone, Judging, Judged

\* A load that finds a transaction open.
LEMMA LoadCounted ==
  ASSUME CountInv, NEW p \in Procs, MovesAlone(p), ~Judging(p),
         Judging(p)', Judged(p)' # {}, NEW s \in Sites, aim'[p] = {s},
         NEW e0 \in Scopes, ctx'[p].scope = e0, Happens(e0, s), UNCHANGED n
  PROVE  CountTypeOK' /\ EffectsCounted'
<1>1. s.key \in Keys /\ s.region \notin Keys
  BY AsInAllowTiers DEF Tiers!SitesTyped, Tiers!NamesDisjoint
<1>2. ASSUME NEW e \in Scopes, NEW k \in Keys
      PROVE  /\ inside'[e][k] = IF e = e0 /\ k = s.key THEN inside[e][k] + 1 ELSE inside[e][k]
             /\ OnTheWay(e, k)' = IF e = e0 /\ k = s.key THEN OnTheWay(e, k) \cup {p}
                                  ELSE OnTheWay(e, k)
             /\ p \notin OnTheWay(e, k)
  <2>1. inside'[e][k] = IF e = e0 /\ k = s.key THEN inside[e][k] + 1 ELSE inside[e][k]
    BY <1>1 DEF Happens, CountInv, CountTypeOK
  <2>2. p \notin OnTheWay(e, k)
    BY DEF OnTheWay
  <2>3. p \in OnTheWay(e, k)' <=> e = e0 /\ k = s.key
    BY DEF OnTheWay
  <2>4. \A q \in Procs \ {p} : q \in OnTheWay(e, k)' <=> q \in OnTheWay(e, k)
    BY DEF OnTheWay, MovesAlone, Judging, Judged
  <2>5. OnTheWay(e, k) \subseteq Procs /\ OnTheWay(e, k)' \subseteq Procs
    BY DEF OnTheWay
  <2>6. QED
    BY <2>1, <2>2, <2>3, <2>4, <2>5
<1>3. inside' \in [Scopes -> [Keys \cup Regions -> Nat]]
  BY DEF Happens, CountInv, CountTypeOK
<1>4. ASSUME NEW e \in Scopes, NEW k \in Keys
      PROVE  /\ IsFiniteSet(OnTheWay(e, k)')
             /\ n[e][k] + Cardinality(OnTheWay(e, k)') = inside'[e][k]
  <2>1. /\ IsFiniteSet(OnTheWay(e, k)) /\ Cardinality(OnTheWay(e, k)) \in Nat
        /\ n[e][k] \in Nat /\ n[e][k] + Cardinality(OnTheWay(e, k)) = inside[e][k]
    BY FS_CardinalityType DEF CountInv, CountTypeOK, EffectsCounted
  <2>2. /\ IsFiniteSet(OnTheWay(e, k) \cup {p})
        /\ Cardinality(OnTheWay(e, k) \cup {p}) = Cardinality(OnTheWay(e, k)) + 1
    BY <1>2, <2>1, FS_AddElement
  <2>3. CASE e = e0 /\ k = s.key
    <3>1. /\ inside'[e][k] = inside[e][k] + 1
          /\ OnTheWay(e, k)' = OnTheWay(e, k) \cup {p}
      BY <1>2, <2>3
    <3>2. QED
      BY <2>1, <2>2, <3>1
  <2>4. CASE ~(e = e0 /\ k = s.key)
    <3>1. /\ inside'[e][k] = inside[e][k]
          /\ OnTheWay(e, k)' = OnTheWay(e, k)
      BY <1>2, <2>4
    <3>2. QED
      BY <2>1, <3>1
  <2>5. QED
    BY <2>3, <2>4
<1>5. QED
  BY <1>3, <1>4 DEF CountInv, CountTypeOK, EffectsCounted

\* The decision of an event takes it off its way and counts it.
LEMMA DecisionCounted ==
  ASSUME CountInv, NEW p \in Procs, MovesAlone(p), Judging(p), ~Judging(p)', Judged(p) # {},
         NEW s \in Sites, aim[p] = {s}, NEW e0 \in Scopes, ctx[p].scope = e0,
         n' = [n EXCEPT ![e0][s.key] = @ + 1], UNCHANGED inside
  PROVE  CountTypeOK' /\ EffectsCounted'
<1>1. s.key \in Keys
  BY AsInAllowTiers DEF Tiers!SitesTyped
<1>2. ASSUME NEW e \in Scopes, NEW k \in Keys
      PROVE  /\ n'[e][k] = IF e = e0 /\ k = s.key THEN n[e][k] + 1 ELSE n[e][k]
             /\ OnTheWay(e, k)' = IF e = e0 /\ k = s.key THEN OnTheWay(e, k) \ {p}
                                  ELSE OnTheWay(e, k)
             /\ e = e0 /\ k = s.key => p \in OnTheWay(e, k)
  <2>1. n'[e][k] = IF e = e0 /\ k = s.key THEN n[e][k] + 1 ELSE n[e][k]
    BY <1>1 DEF CountInv, CountTypeOK
  <2>2. p \in OnTheWay(e, k) <=> e = e0 /\ k = s.key
    BY DEF OnTheWay
  <2>3. p \notin OnTheWay(e, k)'
    BY DEF OnTheWay
  <2>4. \A q \in Procs \ {p} : q \in OnTheWay(e, k)' <=> q \in OnTheWay(e, k)
    BY DEF OnTheWay, MovesAlone, Judging, Judged
  <2>5. OnTheWay(e, k) \subseteq Procs /\ OnTheWay(e, k)' \subseteq Procs
    BY DEF OnTheWay
  <2>6. OnTheWay(e, k)' = IF e = e0 /\ k = s.key THEN OnTheWay(e, k) \ {p} ELSE OnTheWay(e, k)
    <3>1. OnTheWay(e, k)' = OnTheWay(e, k) \ {p}
      BY <2>3, <2>4, <2>5
    <3>2. ~(e = e0 /\ k = s.key) => OnTheWay(e, k) \ {p} = OnTheWay(e, k)
      BY <2>2
    <3>3. QED
      BY <3>1, <3>2
  <2>7. QED
    BY <2>1, <2>2, <2>6
<1>3. n' \in [Scopes -> [Keys -> Nat]]
  BY <1>1 DEF CountInv, CountTypeOK
<1>4. ASSUME NEW e \in Scopes, NEW k \in Keys
      PROVE  /\ IsFiniteSet(OnTheWay(e, k)')
             /\ n'[e][k] + Cardinality(OnTheWay(e, k)') = inside[e][k]
  <2>1. /\ IsFiniteSet(OnTheWay(e, k)) /\ Cardinality(OnTheWay(e, k)) \in Nat
        /\ n[e][k] \in Nat /\ n[e][k] + Cardinality(OnTheWay(e, k)) = inside[e][k]
    BY FS_CardinalityType DEF CountInv, CountTypeOK, EffectsCounted
  <2>2. /\ IsFiniteSet(OnTheWay(e, k) \ {p})
        /\ p \in OnTheWay(e, k) =>
             Cardinality(OnTheWay(e, k) \ {p}) = Cardinality(OnTheWay(e, k)) - 1
    BY <2>1, FS_RemoveElement
  <2>3. CASE e = e0 /\ k = s.key
    <3>1. /\ n'[e][k] = n[e][k] + 1 /\ p \in OnTheWay(e, k)
          /\ OnTheWay(e, k)' = OnTheWay(e, k) \ {p}
      BY <1>2, <2>3
    <3>2. QED
      BY <2>1, <2>2, <3>1
  <2>4. CASE ~(e = e0 /\ k = s.key)
    <3>1. /\ n'[e][k] = n[e][k]
          /\ OnTheWay(e, k)' = OnTheWay(e, k)
      BY <1>2, <2>4
    <3>2. QED
      BY <2>1, <3>1
  <2>5. QED
    BY <2>3, <2>4
<1>5. QED
  BY <1>3, <1>4 DEF CountInv, CountTypeOK, EffectsCounted

\* A step that neither counts nor moves anything.
LEMMA NothingCounted ==
  ASSUME CountInv, UNCHANGED <<n, inside>>,
         \A e \in Scopes, k \in Keys : OnTheWay(e, k)' = OnTheWay(e, k)
  PROVE  CountTypeOK' /\ EffectsCounted'
BY DEF CountInv, CountTypeOK, EffectsCounted

\* The calls of the others still know their sites.
LEMMA OthersKeepSites ==
  ASSUME OneSite, NEW p \in Procs, MovesAlone(p), Judging(p)' => \E s \in Sites : aim'[p] = {s}
  PROVE  OneSite'
BY DEF OneSite, MovesAlone, Judging

\* A step of a call up to a load, or one that loads nothing.
LEMMA CallStepCounts ==
  ASSUME CountInv, IInv', NEW p \in Procs, ~Judging(p), MovesAlone(p), Aimed(p), UNCHANGED n
  PROVE  CountInv'
<1>1. AimInv'
  BY AimedKeepsAim DEF CountInv
<1>2. CASE ~Judging(p)'
  <2>1. /\ UNCHANGED <<n, inside>>
        /\ OneSite'
    BY <1>2, OthersKeepSites DEF Aimed, CountInv
  <2>2. \A e \in Scopes, k \in Keys : OnTheWay(e, k)' = OnTheWay(e, k)
    BY <1>2, SameOnTheWay
  <2>3. QED
    BY <1>1, <2>1, <2>2, NothingCounted DEF CountInv
<1>3. CASE Judging(p)'
  <2>1. ctx'[p].scope \in Scopes /\ pc'[p] \in Locations
    BY <1>3 DEF IInv, FrameInv, FrameTypeOK
  <2>2. PICK s \in Sites :
          /\ aim'[p] = {s}
          /\ IF Judged(p)' = {} THEN UNCHANGED inside ELSE Happens(ctx'[p].scope, s)
    <3>1. InReach(p) \subseteq Sites
      BY <2>1, SitesAtLocations DEF InReach
    <3>2. QED
      BY <1>3, <3>1 DEF Aimed, CountInv, AimInv
  <2>3. OneSite'
    BY <2>2, OthersKeepSites DEF CountInv
  <2>4. CASE Judged(p)' = {}
    <3>1. \A e \in Scopes, k \in Keys : OnTheWay(e, k)' = OnTheWay(e, k)
      BY <2>4, SameOnTheWay
    <3>2. UNCHANGED <<n, inside>>
      BY <2>2, <2>4
    <3>3. QED
      BY <1>1, <2>3, <3>1, <3>2, NothingCounted DEF CountInv
  <2>5. CASE Judged(p)' # {}
    <3>1. CountTypeOK' /\ EffectsCounted'
      BY <1>3, <2>1, <2>2, <2>5, LoadCounted
    <3>2. QED
      BY <1>1, <2>3, <3>1 DEF CountInv
  <2>6. QED
    BY <2>4, <2>5
<1>4. QED
  BY <1>2, <1>3

\* A verdict is an event exactly when the load found something open, and an
\* event is decided under the site of its call.
LEMMA VerdictCounts ==
  ASSUME CountInv, IInv, IInv', NEW p \in Procs, Verdict(p)
  PROVE  CountInv'
<1>1. /\ Judging(p) /\ ~Judging(p)' /\ MovesAlone(p)
      /\ ctx[p].scope \in Scopes /\ UNCHANGED inside
  <2>1. /\ Judging(p) /\ ~Judging(p)'
        /\ \A q \in Procs \ {p} : pc'[q] = pc[q] /\ ctx'[q] = ctx[q] /\ witness'[q] = witness[q]
    BY VerdictMovesAlone DEF IInv, FrameInv
  <2>2. Aimed(p)
    BY DEF Verdict
  <2>3. \A q \in Procs \ {p} : aim'[q] = aim[q]
    BY <2>2, AimMovesAlone DEF CountInv
  <2>4. ctx[p].scope \in Scopes
    BY VerdictInScope DEF CountInv
  <2>5. UNCHANGED inside
    BY <2>1, <2>2 DEF Aimed
  <2>6. QED
    BY <2>1, <2>3, <2>4, <2>5 DEF MovesAlone
<1>2. AimInv' /\ OneSite'
  BY <1>1, AimedKeepsAim, OthersKeepSites DEF Verdict, CountInv
<1>3. (\E r \in reports' : r.kind = "event") <=> Judged(p) # {}
  <2>1. VerdictTrue(p)
    BY VerdictStep DEF Verdict
  <2>2. Report("event", p, ctx[p].scope, Cardinality(Judged(p))).kind = "event"
    BY DEF Report
  <2>3. QED
    BY <2>1, <2>2 DEF VerdictTrue
<1>4. CASE Judged(p) = {}
  <2>1. UNCHANGED <<n, inside>>
    BY <1>1, <1>3, <1>4 DEF Verdict, Decide, tierVars
  <2>2. \A e \in Scopes, k \in Keys : OnTheWay(e, k)' = OnTheWay(e, k)
    BY <1>1, <1>4, SameOnTheWay
  <2>3. QED
    BY <1>2, <2>1, <2>2, NothingCounted DEF CountInv
<1>5. CASE Judged(p) # {}
  <2>1. PICK s \in Sites : aim[p] = {s}
    BY <1>1 DEF CountInv, OneSite
  <2>2. n' = [n EXCEPT ![ctx[p].scope][s.key] = @ + 1]
    BY <1>3, <1>5, <2>1 DEF Verdict, Decide, Tiers!DecideAndReport
  <2>3. CountTypeOK' /\ EffectsCounted'
    BY <1>1, <1>5, <2>1, <2>2, DecisionCounted
  <2>4. QED
    BY <1>2, <2>3 DEF CountInv
<1>6. QED
  BY <1>4, <1>5

\* Steps of the tiers and of a finish neither load nor count.
LEMMA QuietStepCounts ==
  ASSUME CountInv, UNCHANGED <<vars, siteVars, n>>
  PROVE  CountInv'
<1>1. AimInv' /\ OneSite'
  BY DEF CountInv, AimInv, OneSite, vars, frameVars, siteVars, Judging
<1>2. \A e \in Scopes, k \in Keys : OnTheWay(e, k)' = OnTheWay(e, k)
  BY DEF OnTheWay, Judging, Judged, vars, frameVars, siteVars
<1>3. UNCHANGED <<n, inside>>
  BY DEF siteVars
<1>4. QED
  BY <1>1, <1>2, <1>3, NothingCounted DEF CountInv

LEMMA StepsKeepCounts ==
  ASSUME CountInv, IInv, IInv', [DetectionNext]_allVars
  PROVE  CountInv'
<1>1. CASE UNCHANGED allVars
  BY <1>1, QuietStepCounts DEF allVars, tierVars
<1>2. CASE Declare
  BY <1>2, QuietStepCounts DEF Declare, Tiers!EnterRegion, Tiers!Add, Tiers!scopeVars
<1>3. ASSUME NEW p \in Procs, ProcStep(p)
      PROVE  CountInv'
  <2>0. FrameTypeOK /\ AimInv
    BY DEF IInv, FrameInv, CountInv
  <2>1. ASSUME p \in Conns, Statement(p)
        PROVE  CountInv'
    <3>1. ~Judging(p) /\ MovesAlone(p)
      BY <2>0, <2>1, StatementMovesAlone, AimMovesAlone DEF Statement, MovesAlone
    <3>2. Aimed(p) /\ UNCHANGED n
      BY <2>1 DEF Statement, tierVars
    <3>3. QED
      BY <3>1, <3>2, CallStepCounts
  <2>2. ASSUME p \in Goroutines, Checkpoint(p)
        PROVE  CountInv'
    <3>1. ~Judging(p) /\ MovesAlone(p)
      BY <2>0, <2>2, CheckpointMovesAlone, AimMovesAlone DEF Checkpoint, MovesAlone
    <3>2. Aimed(p) /\ UNCHANGED n
      BY <2>2 DEF Checkpoint, tierVars
    <3>3. QED
      BY <3>1, <3>2, CallStepCounts
  <2>3. ASSUME p \in Goroutines, Finished(p)
        PROVE  CountInv'
    <3>1. ~Judging(p) /\ MovesAlone(p) /\ UNCHANGED <<n, inside, aim>>
      BY <2>0, <2>3, CheckpointMovesAlone, AimMovesAlone DEF Finished, MovesAlone, tierVars, siteVars
    <3>2. ~Judging(p)'
      BY <2>0, <2>3 DEF Finished, ReportLeakedTx, Return, GoTo, FrameTypeOK, Judging
    <3>3. AimInv' /\ OneSite'
      BY <3>1, <3>2, OthersKeepSites DEF CountInv, AimInv
    <3>4. \A e \in Scopes, k \in Keys : OnTheWay(e, k)' = OnTheWay(e, k)
      BY <3>1, <3>2, SameOnTheWay
    <3>5. QED
      BY <3>1, <3>3, <3>4, NothingCounted DEF CountInv
  <2>4. ASSUME Verdict(p)
        PROVE  CountInv'
    BY <2>4, VerdictCounts
  <2>5. ASSUME Tier(p)
        PROVE  CountInv'
    BY <2>5, QuietStepCounts DEF Tier, Tiers!ConsultCallSite, Tiers!ConsultRegion,
       Tiers!ConsultAllowlist, Tiers!NoteAllowlist, Tiers!scopeVars
  <2>6. ASSUME ReportCallShortfalls(p)
        PROVE  CountInv'
    BY <2>6, QuietStepCounts DEF ReportCallShortfalls, Tiers!FinishCalls, Tiers!FinishMark,
       Tiers!scopeVars
  <2>7. QED
    BY <1>3, <2>1, <2>2, <2>3, <2>4, <2>5, <2>6 DEF ProcStep
<1>4. QED
  BY <1>1, <1>2, <1>3 DEF DetectionNext

LEMMA CountsKept == DetectionSpec => []CountInv
<1>1. DetectionInit => CountInv
  <2> SUFFICES ASSUME DetectionInit PROVE CountInv
    OBVIOUS
  <2>1. \A p \in Procs : ~Judging(p)
    BY DEF DetectionInit, Init, Judging
  <2>2. \A e \in Scopes, k \in Keys : OnTheWay(e, k) = {}
    BY <2>1 DEF OnTheWay
  <2>3. IsFiniteSet({}) /\ Cardinality({}) = 0
    BY FS_EmptySet
  <2>4. AimInv /\ OneSite
    BY <2>1 DEF DetectionInit, AimInv, OneSite
  <2>5. CountTypeOK /\ EffectsCounted
    <3>1. /\ n = [e \in Scopes |-> [k \in Keys |-> 0]]
          /\ inside = [e \in Scopes |-> [x \in Keys \cup Regions |-> 0]]
      BY DEF DetectionInit, Tiers!Init
    <3>2. CountTypeOK
      BY <2>2, <2>3, <3>1 DEF CountTypeOK
    <3>3. ASSUME NEW e \in Scopes, NEW k \in Keys
          PROVE  n[e][k] + Cardinality(OnTheWay(e, k)) = inside[e][k]
      <4>1. n[e][k] = 0 /\ inside[e][k] = 0
        BY <3>1
      <4>2. Cardinality(OnTheWay(e, k)) = 0
        BY <2>2, <2>3
      <4>3. QED
        BY <4>1, <4>2
    <3>4. QED
      BY <3>2, <3>3 DEF EffectsCounted
  <2>6. QED
    BY <2>4, <2>5 DEF CountInv
<1>2. DetectionSpec => []IInv
  BY ImplementsSession, Inductive, PTL
<1>3. CountInv /\ IInv /\ IInv' /\ [DetectionNext]_allVars => CountInv'
  BY StepsKeepCounts
<1>4. QED
  BY <1>1, <1>2, <1>3, PTL DEF DetectionSpec

\* The count that exact-call declarations are held against is the number of
\* side effects that happened inside a transaction, for any number of
\* connections, goroutines, scopes and sites (reportIfCrossConn, check,
\* runStatementCheckers, decideAndReport, bumpCall).
THEOREM EffectsAreCounted == DetectionSpec => []EffectsCounted
<1>1. CountInv => EffectsCounted
  BY DEF CountInv
<1>2. QED
  BY <1>1, CountsKept, PTL

-----------------------------------------------------------------------------
(* What is proved of AllowTiers holds where it meets Session.              *)

TierProofs == INSTANCE AllowTiersProofs
  WITH Execs <- Scopes, Goroutines <- Procs, pc <- at

LEMMA TierAssumptions ==
  /\ TierProofs!SitesTyped /\ TierProofs!CountsTyped /\ TierProofs!BoundsTyped
  /\ TierProofs!SomethingToDo /\ TierProofs!NamesDisjoint /\ TierProofs!DeclarationsFinite
BY AsInAllowTiers DEF
       Tiers!SitesTyped, TierProofs!SitesTyped, Tiers!CountsTyped, TierProofs!CountsTyped,
       Tiers!BoundsTyped, TierProofs!BoundsTyped,
       Tiers!SomethingToDo, TierProofs!SomethingToDo,
       Tiers!NamesDisjoint, TierProofs!NamesDisjoint,
       Tiers!DeclarationsFinite, TierProofs!DeclarationsFinite,
       Tiers!Declarations, TierProofs!Declarations

\* The module of the proofs restates the definitions of AllowTiers: the two
\* instances are one specification.
LEMMA SameTierSteps ==
  /\ Tiers!Init => TierProofs!Init
  /\ [Tiers!Next]_(Tiers!vars) => [TierProofs!Next]_(TierProofs!vars)
<1>1. Tiers!Init <=> TierProofs!Init
  BY DEF
       Tiers!Init, TierProofs!Init, Tiers!scopeVars, TierProofs!scopeVars,
       Tiers!listVars, TierProofs!listVars, Tiers!finishVars, TierProofs!finishVars,
       Tiers!callVars, TierProofs!callVars, Tiers!EntryOf, TierProofs!EntryOf,
       Tiers!NoEvent, TierProofs!NoEvent
<1>2. Tiers!Next <=> TierProofs!Next
  BY DEF
       Tiers!DecideAndReport, TierProofs!DecideAndReport,
       Tiers!ConsultCallSite, TierProofs!ConsultCallSite,
       Tiers!ConsultRegion, TierProofs!ConsultRegion,
       Tiers!ConsultAllowlist, TierProofs!ConsultAllowlist,
       Tiers!NoteAllowlist, TierProofs!NoteAllowlist,
       Tiers!FinishCalls, TierProofs!FinishCalls,
       Tiers!EnterRegion, TierProofs!EnterRegion, Tiers!FinishMark, TierProofs!FinishMark,
       Tiers!Add, TierProofs!Add, Tiers!Next, TierProofs!Next, Tiers!Exec, TierProofs!Exec,
       Tiers!Site, TierProofs!Site, Tiers!Key, TierProofs!Key,
       Tiers!EntryOf, TierProofs!EntryOf, Tiers!noteDeclared, TierProofs!noteDeclared,
       Tiers!CallShortfalls, TierProofs!CallShortfalls, Tiers!Unmet, TierProofs!Unmet,
       Tiers!scopeVars, TierProofs!scopeVars, Tiers!callVars, TierProofs!callVars,
       Tiers!listVars, TierProofs!listVars, Tiers!finishVars, TierProofs!finishVars,
       Tiers!coversCalls, TierProofs!coversCalls, Tiers!maxCount, TierProofs!maxCount,
       Tiers!InFlight, TierProofs!InFlight, Tiers!markUsed, TierProofs!markUsed,
       Tiers!Covering, TierProofs!Covering, Tiers!Registered, TierProofs!Registered,
       Tiers!CountedRegions, TierProofs!CountedRegions,
       Tiers!Forgotten, TierProofs!Forgotten, Tiers!Resolved, TierProofs!Resolved,
       Tiers!Unlocked, TierProofs!Unlocked, Tiers!FallThrough, TierProofs!FallThrough,
       Tiers!Decided, TierProofs!Decided, Tiers!bumpCall, TierProofs!bumpCall,
       Tiers!AfterCallSite, TierProofs!AfterCallSite,
       Tiers!AfterRegion, TierProofs!AfterRegion,
       Tiers!HasAllowlist, TierProofs!HasAllowlist, Tiers!NoEvent, TierProofs!NoEvent
<1>3. UNCHANGED Tiers!vars => UNCHANGED TierProofs!vars
  BY DEF
       Tiers!vars, TierProofs!vars, Tiers!scopeVars, TierProofs!scopeVars,
       Tiers!listVars, TierProofs!listVars, Tiers!finishVars, TierProofs!finishVars,
       Tiers!callVars, TierProofs!callVars
<1>4. QED
  BY <1>1, <1>2, <1>3

LEMMA ImplementsTierProofs == DetectionSpec => TierProofs!Spec
<1>1. DetectionSpec => Tiers!Spec
  BY ImplementsTiers
<1>2. /\ Tiers!Init => TierProofs!Init
      /\ [Tiers!Next]_(Tiers!vars) => [TierProofs!Next]_(TierProofs!vars)
  BY SameTierSteps
<1>3. QED
  BY <1>1, <1>2, PTL DEF Tiers!Spec, TierProofs!Spec

\* What the proofs below use.
TierFacts ==
  /\ TierProofs!TypeOK /\ TierProofs!FrameInv
  /\ TierProofs!DriftReportedOnce /\ TierProofs!RegionDriftReported
  /\ TierProofs!NothingInFlight

LEMMA TierFactsHold == DetectionSpec => []TierFacts
<1>1. /\ TierProofs!Spec => [](TierProofs!TypeOK /\ TierProofs!FrameInv)
      /\ TierProofs!Spec => []TierProofs!DriftReportedOnce
      /\ TierProofs!Spec => []TierProofs!RegionDriftReported
      /\ TierProofs!Spec => []TierProofs!NothingInFlight
  BY TierAssumptions, TierProofs!CallsFramed, TierProofs!DriftIsReportedOnce,
     TierProofs!RegionDriftIsReported, TierProofs!NothingLeftInFlight
     DEF TierProofs!SitesTyped, TierProofs!CountsTyped, TierProofs!BoundsTyped,
         TierProofs!SomethingToDo, TierProofs!NamesDisjoint, TierProofs!DeclarationsFinite
<1>2. QED
  BY <1>1, ImplementsTierProofs, PTL DEF TierFacts

-----------------------------------------------------------------------------
(* A pinned identity. *)

LEMMA PinnedTruth ==
  ASSUME CountInv, TierFacts
  PROVE  PinTellsTheTruth
<1>1. SUFFICES ASSUME NEW e \in Scopes, NEW k \in Keys, NEW s0 \in SitesOf(k),
                      FinishedAlone(e), PinnedTo(k, s0.counts), inside[e][k] > 0
               PROVE  inside[e][k] \notin s0.counts
                        <=> k \in stale[e] \/ Tiers!Violations(e, k) # {}
  BY DEF PinTellsTheTruth
<1>2. n[e][k] = inside[e][k]
  <2>1. OnTheWay(e, k) = {} /\ n[e][k] \in Nat /\ n[e][k] + Cardinality(OnTheWay(e, k)) = inside[e][k]
    BY <1>1 DEF FinishedAlone, CountInv, CountTypeOK, EffectsCounted
  <2>2. QED
    BY <2>1, FS_EmptySet
<1>3. s0 \in Sites /\ TierProofs!PinnedBy(k, s0.counts)
  BY <1>1 DEF PinnedTo, SitesOf, TierProofs!PinnedBy
<1>4. TierProofs!FinishedClean(e)
  BY <1>1 DEF FinishedAlone, TierProofs!FinishedClean
<1>5. (k \in stale[e] \/ TierProofs!Violations(e, k) # {}) <=> n[e][k] \notin s0.counts
  BY <1>1, <1>2, <1>3, <1>4 DEF TierFacts, TierProofs!DriftReportedOnce
<1>6. TierProofs!Violations(e, k) = Tiers!Violations(e, k)
  BY DEF TierProofs!Violations, Tiers!Violations, TierProofs!Decisions, Tiers!Decisions
<1>7. QED
  BY <1>2, <1>5, <1>6

\* What an exact-call declaration promises, end to end: from the connection
\* whose write finds a transaction open to the StaleAllow or Violation of the
\* finish, for any number of connections and goroutines
\* (openTx, reportIfCrossConn, decideAndReport, reportCallShortfalls).
THEOREM PinsTellTheTruth == DetectionSpec => []PinTellsTheTruth
<1>1. CountInv /\ TierFacts => PinTellsTheTruth
  BY PinnedTruth
<1>2. QED
  BY <1>1, CountsKept, TierFactsHold, PTL

-----------------------------------------------------------------------------
(* A pinned region. *)

\* Detected inside region r and not yet with its counter: on the way to
\* decideAndReport, or inside it.
Pending(e, r) ==
  {p \in Procs :
     \/ /\ Judging(p) /\ Judged(p) # {} /\ ctx[p].scope = e
        /\ \E s \in aim[p] : s.region = r
     \/ at[p] = "mark" /\ event[p].exec = e /\ event[p].site.region = r}

\* No call site of the region has an allow of its own.
Strict(r) == \A s \in SitesIn(r) : ~s.allowed

\* The region's counter and what is pending are what happened inside it; a call
\* is on its way to decideAndReport or inside it, never both.
InsideInv ==
  /\ \A p \in Procs : Judging(p) => at[p] = "idle"
  /\ \A e \in Scopes, r \in Regions :
       Strict(r) => /\ IsFiniteSet(Pending(e, r))
                    /\ inside[e][r] = markN[e][r] + Cardinality(Pending(e, r))

\* A step of p leaves the events of everybody else where they are.
DecidesAlone(p) == \A q \in Procs \ {p} : at'[q] = at[q] /\ event'[q] = event[q]

LEMMA OthersPending ==
  ASSUME NEW p \in Procs, MovesAlone(p), DecidesAlone(p), NEW e, NEW r
  PROVE  Pending(e, r)' = IF p \in Pending(e, r)' THEN Pending(e, r) \cup {p} ELSE Pending(e, r) \ {p}
<1>1. \A q \in Procs \ {p} : q \in Pending(e, r)' <=> q \in Pending(e, r)
  BY DEF Pending, MovesAlone, DecidesAlone, Judging, Judged
<1>2. Pending(e, r) \subseteq Procs /\ Pending(e, r)' \subseteq Procs
  BY DEF Pending
<1>3. QED
  BY <1>1, <1>2

\* Nothing is added to the region or its counter, and p stays what it was to it.
LEMMA InsideKept ==
  ASSUME InsideInv, NEW p \in Procs, MovesAlone(p), DecidesAlone(p),
         Judging(p)' => at'[p] = "idle",
         \A e \in Scopes, r \in Regions : Strict(r) =>
           /\ p \in Pending(e, r)' <=> p \in Pending(e, r)
           /\ inside'[e][r] = inside[e][r] /\ markN'[e][r] = markN[e][r]
  PROVE  InsideInv'
<1>1. \A q \in Procs : Judging(q)' => at'[q] = "idle"
  BY DEF InsideInv, MovesAlone, DecidesAlone, Judging
<1>2. ASSUME NEW e \in Scopes, NEW r \in Regions, Strict(r)
      PROVE  Pending(e, r)' = Pending(e, r)
  <2>1. p \in Pending(e, r)' <=> p \in Pending(e, r)
    BY <1>2
  <2>2. Pending(e, r)' = IF p \in Pending(e, r)' THEN Pending(e, r) \cup {p} ELSE Pending(e, r) \ {p}
    BY OthersPending
  <2>3. CASE p \in Pending(e, r)
    BY <2>1, <2>2, <2>3
  <2>4. CASE p \notin Pending(e, r)
    BY <2>1, <2>2, <2>4
  <2>5. QED
    BY <2>3, <2>4
<1>3. \A r \in Regions : Strict(r)' <=> Strict(r)
  BY DEF Strict
<1>4. QED
  BY <1>1, <1>2, <1>3 DEF InsideInv

\* Nothing moves.
LEMMA InsideStill ==
  ASSUME InsideInv, UNCHANGED <<vars, siteVars, at, event, markN>>
  PROVE  InsideInv'
<1>1. \A e \in Scopes, r \in Regions : Pending(e, r)' = Pending(e, r)
  BY DEF Pending, Judging, Judged, vars, frameVars, siteVars
<1>2. QED
  BY <1>1 DEF InsideInv, Judging, Strict, vars, frameVars, siteVars

\* A load that finds a transaction open adds to the region of its call.
LEMMA LoadInside ==
  ASSUME CountInv, TierFacts, InsideInv, NEW p \in Procs, MovesAlone(p),
         UNCHANGED <<at, event, markN>>,
         ~Judging(p), Judging(p)', Judged(p)' # {}, at[p] = "idle",
         NEW s \in Sites, aim'[p] = {s}, NEW e0 \in Scopes, ctx'[p].scope = e0, Happens(e0, s)
  PROVE  InsideInv'
<1>1. s.key \notin Regions /\ DecidesAlone(p)
  BY AsInAllowTiers DEF Tiers!SitesTyped, Tiers!NamesDisjoint, DecidesAlone
<1>2. \A q \in Procs : Judging(q)' => at'[q] = "idle"
  BY DEF InsideInv, MovesAlone, Judging
<1>3. ASSUME NEW e \in Scopes, NEW r \in Regions, Strict(r)
      PROVE  IsFiniteSet(Pending(e, r)') /\ inside'[e][r] = markN'[e][r] + Cardinality(Pending(e, r)')
  <2>1. /\ IsFiniteSet(Pending(e, r)) /\ Cardinality(Pending(e, r)) \in Nat
        /\ inside[e][r] = markN[e][r] + Cardinality(Pending(e, r))
    BY <1>3, FS_CardinalityType DEF InsideInv
  <2>2. inside'[e][r] = IF e = e0 /\ r = s.region THEN inside[e][r] + 1 ELSE inside[e][r]
    BY <1>1 DEF Happens, CountInv, CountTypeOK
  <2>3. p \notin Pending(e, r) /\ (p \in Pending(e, r)' <=> e = e0 /\ r = s.region)
    BY DEF Pending
  <2>4. inside[e][r] \in Nat /\ markN[e][r] \in Nat
    BY DEF CountInv, CountTypeOK, TierFacts, TierProofs!TypeOK
  <2>5. CASE e = e0 /\ r = s.region
    <3>1. Pending(e, r)' = Pending(e, r) \cup {p}
      BY <1>1, <2>3, <2>5, OthersPending
    <3>2. /\ IsFiniteSet(Pending(e, r) \cup {p})
          /\ Cardinality(Pending(e, r) \cup {p}) = Cardinality(Pending(e, r)) + 1
      BY <2>1, <2>3, FS_AddElement
    <3>3. inside'[e][r] = inside[e][r] + 1
      BY <2>2, <2>5
    <3>4. markN[e][r] + (Cardinality(Pending(e, r)) + 1) = inside[e][r] + 1
      BY <2>1, <2>4
    <3>5. QED
      BY <3>1, <3>2, <3>3, <3>4
  <2>6. CASE ~(e = e0 /\ r = s.region)
    <3>1. Pending(e, r)' = Pending(e, r)
      BY <1>1, <2>3, <2>6, OthersPending
    <3>2. QED
      BY <2>1, <2>2, <2>6, <3>1
  <2>7. QED
    BY <2>5, <2>6
<1>4. QED
  BY <1>2, <1>3 DEF InsideInv, Strict

\* A step of a call up to a load, or one that loads nothing.
LEMMA CallStepInside ==
  ASSUME CountInv, TierFacts, IInv', InsideInv, NEW p \in Procs, ~Judging(p), MovesAlone(p),
         Aimed(p), UNCHANGED tierVars, at[p] = "idle"
  PROVE  InsideInv'
<1>1. UNCHANGED <<at, event, markN>> /\ DecidesAlone(p)
  BY DEF tierVars, DecidesAlone
<1>2. \A e \in Scopes, r \in Regions : p \notin Pending(e, r)
  BY DEF Pending
<1>3. CASE ~(Judging(p)' /\ Judged(p)' # {})
  <2>1. \A e \in Scopes, r \in Regions : p \notin Pending(e, r)'
    BY <1>1, <1>3 DEF Pending
  <2>2. UNCHANGED inside
    BY <1>3 DEF Aimed
  <2>3. QED
    BY <1>1, <1>2, <2>1, <2>2, InsideKept
<1>4. CASE Judging(p)' /\ Judged(p)' # {}
  <2>1. ctx'[p].scope \in Scopes /\ pc'[p] \in Locations
    BY <1>4 DEF IInv, FrameInv, FrameTypeOK
  <2>2. InReach(p) \subseteq Sites
    BY <2>1, SitesAtLocations DEF InReach
  <2>3. PICK s \in Sites : aim'[p] = {s} /\ Happens(ctx'[p].scope, s)
    BY <1>4, <2>2 DEF Aimed, CountInv, AimInv
  <2>4. QED
    BY <1>1, <1>4, <2>1, <2>3, LoadInside
<1>5. QED
  BY <1>3, <1>4

\* An event goes from decideAndReport to the counter of its region.
LEMMA DecisionMoves ==
  ASSUME TierFacts, NEW p \in Procs, NEW e \in Scopes, NEW s \in Sites,
         Tiers!DecideAndReport(p, e, s)
  PROVE  /\ DecidesAlone(p) /\ UNCHANGED markN
         /\ at'[p] = "mark" <=> ~s.allowed /\ s.region # NoRegion
         /\ at'[p] = "mark" => event'[p].exec = e /\ event'[p].site = s
<1> DEFINE x == [site |-> s, exec |-> e, call |-> Tiers!bumpCall(e, s.key)]
<1>1. x.site = s /\ x.exec = e
  OBVIOUS
<1>2. /\ UNCHANGED markN
      /\ IF s.allowed THEN Tiers!FallThrough(p, "note", x, {}) ELSE Tiers!AfterCallSite(p, x, {})
  BY DEF Tiers!DecideAndReport
<1> HIDE DEF x
<1>3. PICK l \in {"note", "mark", "list", "idle"} :
        /\ at' = [at EXCEPT ![p] = l]
        /\ l = "mark" <=> ~s.allowed /\ s.region # NoRegion
        /\ \E y : event' = [event EXCEPT ![p] = y] /\ (l = "mark" => y = x)
  BY <1>1, <1>2 DEF Tiers!FallThrough, Tiers!AfterCallSite, Tiers!AfterRegion, Tiers!Decided
<1>4. DOMAIN at = Procs /\ DOMAIN event = Procs
  BY DEF TierFacts, TierProofs!TypeOK
<1>5. QED
  BY <1>1, <1>2, <1>3, <1>4 DEF DecidesAlone

LEMMA VerdictInside ==
  ASSUME CountInv, TierFacts, IInv, IInv', InsideInv, NEW p \in Procs, Verdict(p)
  PROVE  InsideInv'
<1>1. /\ Judging(p) /\ ~Judging(p)' /\ at[p] = "idle" /\ Aimed(p) /\ Decide(p)
      /\ \A q \in Procs \ {p} : pc'[q] = pc[q] /\ ctx'[q] = ctx[q] /\ witness'[q] = witness[q]
  BY VerdictMovesAlone DEF IInv, FrameInv, Verdict
<1>2. MovesAlone(p) /\ UNCHANGED inside
  BY <1>1, AimMovesAlone DEF Aimed, CountInv, MovesAlone
<1>3. (\E r \in reports' : r.kind = "event") <=> Judged(p) # {}
  <2>1. VerdictTrue(p)
    BY VerdictStep DEF Verdict
  <2>2. Report("event", p, ctx[p].scope, Cardinality(Judged(p))).kind = "event"
    BY DEF Report
  <2>3. QED
    BY <2>1, <2>2 DEF VerdictTrue
<1>4. CASE Judged(p) = {}
  <2>1. UNCHANGED <<at, event, markN>> /\ DecidesAlone(p)
    BY <1>1, <1>3, <1>4 DEF Decide, tierVars, DecidesAlone
  <2>2. \A e \in Scopes, r \in Regions : p \notin Pending(e, r) /\ p \notin Pending(e, r)'
    BY <1>1, <1>4, <2>1 DEF Pending
  <2>3. QED
    BY <1>1, <1>2, <2>1, <2>2, InsideKept
<1>5. CASE Judged(p) # {}
  <2>1. PICK s \in Sites : aim[p] = {s}
    BY <1>1 DEF CountInv, OneSite
  <2>2. ctx[p].scope \in Scopes /\ Tiers!DecideAndReport(p, ctx[p].scope, s)
    BY <1>1, <1>3, <1>5, <2>1, VerdictInScope DEF Decide, CountInv
  <2>3. /\ DecidesAlone(p) /\ UNCHANGED markN
        /\ at'[p] = "mark" <=> ~s.allowed /\ s.region # NoRegion
        /\ at'[p] = "mark" => event'[p].exec = ctx[p].scope /\ event'[p].site = s
    BY <2>2, DecisionMoves
  <2>4. ASSUME NEW e \in Scopes, NEW r \in Regions, Strict(r)
        PROVE  p \in Pending(e, r)' <=> p \in Pending(e, r)
    <3>1. p \in Pending(e, r) <=> ctx[p].scope = e /\ s.region = r
      BY <1>1, <1>5, <2>1 DEF Pending
    <3>2. p \in Pending(e, r)' <=> at'[p] = "mark" /\ event'[p].exec = e /\ event'[p].site.region = r
      BY <1>1 DEF Pending
    <3>3. s.region = r => ~s.allowed /\ s.region # NoRegion
      BY <2>4, AsInAllowTiers DEF Strict, SitesIn, Tiers!NamesDisjoint
    <3>4. QED
      BY <2>3, <3>1, <3>2, <3>3
  <2>5. QED
    BY <1>1, <1>2, <2>3, <2>4, InsideKept
<1>6. QED
  BY <1>4, <1>5

\* The steps of the tiers are of one call, which holds no counter value.
LEMMA TierMoves ==
  ASSUME TierFacts, InsideInv, NEW p \in Procs, Tier(p)
  PROVE  /\ MovesAlone(p) /\ DecidesAlone(p) /\ ~Judging(p) /\ ~Judging(p)' /\ UNCHANGED inside
         /\ at'[p] = "mark" => at[p] = "note" /\ event'[p] = event[p]
         /\ at[p] = "mark" => Tiers!ConsultRegion(p)
         /\ ~Tiers!ConsultRegion(p) => UNCHANGED markN
<1>1. UNCHANGED <<vars, siteVars>> /\ at[p] # "idle"
  BY DEF Tier, Tiers!ConsultCallSite, Tiers!ConsultRegion, Tiers!ConsultAllowlist,
         Tiers!NoteAllowlist
<1>2. MovesAlone(p) /\ ~Judging(p) /\ ~Judging(p)' /\ UNCHANGED inside
  BY <1>1 DEF MovesAlone, InsideInv, Judging, vars, frameVars, siteVars
<1>3. DOMAIN at = Procs /\ DOMAIN event = Procs
  BY DEF TierFacts, TierProofs!TypeOK
<1>4. PICK l \in {"mark", "list", "listNote", "idle"} :
        /\ at' = [at EXCEPT ![p] = l]
        /\ l = "mark" => at[p] = "note" /\ event' = [event EXCEPT ![p] = event[p]]
        /\ event' = event \/ \E y : event' = [event EXCEPT ![p] = y]
  <2>1. CASE Tiers!ConsultCallSite(p)
    BY <2>1 DEF Tiers!ConsultCallSite, Tiers!AfterCallSite, Tiers!AfterRegion,
                Tiers!FallThrough, Tiers!Decided
  <2>2. CASE Tiers!ConsultRegion(p)
    BY <2>2 DEF Tiers!ConsultRegion, Tiers!AfterRegion, Tiers!FallThrough, Tiers!Decided
  <2>3. CASE Tiers!ConsultAllowlist(p)
    BY <2>3 DEF Tiers!ConsultAllowlist, Tiers!Decided
  <2>4. CASE Tiers!NoteAllowlist(p)
    BY <2>4 DEF Tiers!NoteAllowlist, Tiers!Decided
  <2>5. QED
    BY <2>1, <2>2, <2>3, <2>4 DEF Tier
<1>5. DecidesAlone(p)
  BY <1>3, <1>4 DEF DecidesAlone
<1>6. at'[p] = "mark" => at[p] = "note" /\ event'[p] = event[p]
  BY <1>3, <1>4
<1>7. /\ at[p] = "mark" => Tiers!ConsultRegion(p)
      /\ ~Tiers!ConsultRegion(p) => UNCHANGED markN
  BY DEF Tier, Tiers!ConsultCallSite, Tiers!ConsultAllowlist, Tiers!NoteAllowlist, Tiers!scopeVars
<1>8. QED
  BY <1>2, <1>5, <1>6, <1>7

\* The region's counter takes an event off what is pending.
LEMMA RegionCounted ==
  ASSUME TierFacts, CountInv, InsideInv, NEW p \in Procs, Tier(p), Tiers!ConsultRegion(p)
  PROVE  InsideInv'
<1> DEFINE e0 == event[p].exec  r0 == event[p].site.region
<1>1. /\ MovesAlone(p) /\ DecidesAlone(p) /\ ~Judging(p) /\ ~Judging(p)' /\ UNCHANGED inside
      /\ at'[p] # "mark" /\ at[p] = "mark"
  BY TierMoves DEF Tiers!ConsultRegion
<1>2. markN' = [markN EXCEPT ![e0][r0] = markN[e0][r0] + 1]
  BY DEF Tiers!ConsultRegion, Tiers!Exec, Tiers!Site
<1>3. \A e, r : p \notin Pending(e, r)' /\ (p \in Pending(e, r) <=> e = e0 /\ r = r0)
  BY <1>1 DEF Pending
<1> HIDE DEF e0, r0
<1>4. \A q \in Procs : Judging(q)' => at'[q] = "idle"
  BY <1>1 DEF InsideInv, MovesAlone, DecidesAlone, Judging
<1>5. ASSUME NEW e \in Scopes, NEW r \in Regions, Strict(r)
      PROVE  IsFiniteSet(Pending(e, r)') /\ inside'[e][r] = markN'[e][r] + Cardinality(Pending(e, r)')
  <2>1. /\ IsFiniteSet(Pending(e, r)) /\ Cardinality(Pending(e, r)) \in Nat
        /\ inside[e][r] = markN[e][r] + Cardinality(Pending(e, r))
    BY <1>5, FS_CardinalityType DEF InsideInv
  <2>2. markN[e][r] \in Nat
    BY DEF TierFacts, TierProofs!TypeOK
  <2>3. markN'[e][r] = IF e = e0 /\ r = r0 THEN markN[e][r] + 1 ELSE markN[e][r]
    BY <1>2 DEF TierFacts, TierProofs!TypeOK
  <2>4. Pending(e, r)' = Pending(e, r) \ {p}
    BY <1>1, <1>3, OthersPending
  <2>5. CASE e = e0 /\ r = r0
    <3>1. /\ IsFiniteSet(Pending(e, r) \ {p})
          /\ Cardinality(Pending(e, r) \ {p}) = Cardinality(Pending(e, r)) - 1
      BY <1>3, <2>1, <2>5, FS_RemoveElement
    <3>2. markN'[e][r] = markN[e][r] + 1
      BY <2>3, <2>5
    <3>3. inside[e][r] = (markN[e][r] + 1) + (Cardinality(Pending(e, r)) - 1)
      BY <2>1, <2>2
    <3>4. QED
      BY <1>1, <2>4, <3>1, <3>2, <3>3
  <2>6. CASE ~(e = e0 /\ r = r0)
    <3>1. Pending(e, r)' = Pending(e, r)
      BY <1>3, <2>4, <2>6
    <3>2. QED
      BY <1>1, <2>1, <2>3, <2>6, <3>1
  <2>7. QED
    BY <2>5, <2>6
<1>6. QED
  BY <1>4, <1>5 DEF InsideInv, Strict

LEMMA TierInside ==
  ASSUME TierFacts, CountInv, InsideInv, NEW p \in Procs, Tier(p)
  PROVE  InsideInv'
<1>1. CASE Tiers!ConsultRegion(p)
  BY <1>1, RegionCounted
<1>2. CASE ~Tiers!ConsultRegion(p)
  <2>1. /\ MovesAlone(p) /\ DecidesAlone(p) /\ ~Judging(p) /\ ~Judging(p)'
        /\ UNCHANGED <<inside, markN>> /\ at[p] # "mark"
        /\ at'[p] = "mark" => at[p] = "note" /\ event'[p] = event[p]
    BY <1>2, TierMoves
  <2>2. ASSUME NEW e \in Scopes, NEW r \in Regions, Strict(r)
        PROVE  p \notin Pending(e, r) /\ p \notin Pending(e, r)'
    <3>1. at[p] = "note" => event[p].site \in Sites /\ event[p].site.allowed
      BY DEF TierFacts, TierProofs!FrameInv, TierProofs!NoteAllowed, TierProofs!Site,
             TierProofs!TypeOK, TierProofs!Events
    <3>2. at[p] = "note" => event[p].site.region # r
      BY <2>2, <3>1 DEF Strict, SitesIn
    <3>3. QED
      BY <2>1, <3>2 DEF Pending
  <2>3. QED
    BY <2>1, <2>2, InsideKept
<1>3. QED
  BY <1>1, <1>2

LEMMA StepsKeepInside ==
  ASSUME CountInv, TierFacts, IInv, IInv', InsideInv, [DetectionNext]_allVars
  PROVE  InsideInv'
<1>1. CASE UNCHANGED allVars
  BY <1>1, InsideStill DEF allVars, tierVars
<1>2. CASE Declare
  BY <1>2, InsideStill DEF Declare, Tiers!EnterRegion, Tiers!Add, Tiers!scopeVars, Tiers!callVars
<1>3. ASSUME NEW p \in Procs, ProcStep(p)
      PROVE  InsideInv'
  <2>0. FrameTypeOK /\ AimInv
    BY DEF IInv, FrameInv, CountInv
  <2>1. ASSUME p \in Conns, Statement(p)
        PROVE  InsideInv'
    <3>1. ~Judging(p) /\ MovesAlone(p)
      BY <2>0, <2>1, StatementMovesAlone, AimMovesAlone DEF Statement, MovesAlone
    <3>2. Aimed(p) /\ UNCHANGED tierVars /\ at[p] = "idle"
      BY <2>1 DEF Statement
    <3>3. QED
      BY <3>1, <3>2, CallStepInside
  <2>2. ASSUME p \in Goroutines, Checkpoint(p)
        PROVE  InsideInv'
    <3>1. ~Judging(p) /\ MovesAlone(p)
      BY <2>0, <2>2, CheckpointMovesAlone, AimMovesAlone DEF Checkpoint, MovesAlone
    <3>2. Aimed(p) /\ UNCHANGED tierVars /\ at[p] = "idle"
      BY <2>2 DEF Checkpoint
    <3>3. QED
      BY <3>1, <3>2, CallStepInside
  <2>3. ASSUME p \in Goroutines, Finished(p)
        PROVE  InsideInv'
    <3>1. /\ ~Judging(p) /\ MovesAlone(p) /\ DecidesAlone(p)
          /\ UNCHANGED <<inside, aim, at, event, markN>>
      BY <2>0, <2>3, CheckpointMovesAlone, AimMovesAlone
         DEF Finished, MovesAlone, DecidesAlone, tierVars, siteVars
    <3>2. ~Judging(p)'
      BY <2>0, <2>3 DEF Finished, ReportLeakedTx, Return, GoTo, FrameTypeOK, Judging
    <3>3. \A e \in Scopes, r \in Regions : p \in Pending(e, r)' <=> p \in Pending(e, r)
      BY <3>1, <3>2 DEF Pending
    <3>4. QED
      BY <3>1, <3>2, <3>3, InsideKept
  <2>4. ASSUME Verdict(p)
        PROVE  InsideInv'
    BY <2>4, VerdictInside
  <2>5. ASSUME Tier(p)
        PROVE  InsideInv'
    BY <2>5, TierInside
  <2>6. ASSUME ReportCallShortfalls(p)
        PROVE  InsideInv'
    BY <2>6, InsideStill DEF ReportCallShortfalls, Tiers!FinishCalls, Tiers!FinishMark,
       Tiers!scopeVars, Tiers!callVars
  <2>7. QED
    BY <1>3, <2>1, <2>2, <2>3, <2>4, <2>5, <2>6 DEF ProcStep
<1>4. QED
  BY <1>1, <1>2, <1>3 DEF DetectionNext

LEMMA InitInside ==
  ASSUME DetectionInit
  PROVE  InsideInv
<1>1. \A p \in Procs : ~Judging(p) /\ at[p] = "idle"
  BY DEF DetectionInit, Init, Judging, Tiers!Init
<1>2. IsFiniteSet({}) /\ Cardinality({}) = 0
  BY FS_EmptySet
<1>3. \A e \in Scopes, r \in Regions : Pending(e, r) = {} /\ inside[e][r] = 0 /\ markN[e][r] = 0
  BY <1>1 DEF DetectionInit, Tiers!Init, Pending
<1>4. QED
  BY <1>1, <1>2, <1>3 DEF InsideInv

LEMMA RegionTruth ==
  ASSUME CountInv, TierFacts, InsideInv
  PROVE  RegionTellsTheTruth
<1>1. SUFFICES ASSUME NEW e \in Scopes, NEW r \in Tiers!Registered(e),
                      FinishedAlone(e), OnlyPinnedBy(r)
               PROVE  inside[e][r] \notin RegionCounts[r] <=>
                        \/ r \in stale[e]
                        \/ \E x \in log : /\ x.event.exec = e /\ x.event.site.region = r
                                          /\ x.verdict = "violation"
  BY DEF RegionTellsTheTruth
<1>2. r \in Regions /\ r \in entered[e] /\ r \in TierProofs!CountedRegions
  BY DEF Tiers!Registered, Tiers!CountedRegions, TierProofs!CountedRegions
<1>3. Strict(r) /\ TierProofs!Alone(r)
  BY <1>1 DEF OnlyPinnedBy, Strict, SitesIn, TierProofs!Alone
<1>4. TierProofs!FinishedClean(e) /\ ~TierProofs!InFlight(e)
  BY <1>1 DEF FinishedAlone, TierProofs!FinishedClean, TierFacts, TierProofs!NothingInFlight
<1>5. Pending(e, r) = {}
  <2>1. SUFFICES ASSUME NEW p \in Procs, p \in Pending(e, r)
                 PROVE  FALSE
    BY DEF Pending
  <2>2. ~(at[p] = "mark" /\ event[p].exec = e)
    BY <1>4 DEF TierProofs!InFlight, TierProofs!Exec
  <2>3. PICK s \in aim[p] : Judging(p) /\ Judged(p) # {} /\ ctx[p].scope = e
    BY <2>1, <2>2 DEF Pending
  <2>4. s.key \in Keys
    <3>1. aim[p] \subseteq Sites
      BY DEF CountInv, AimInv
    <3>2. \A t \in Sites : t.key \in Keys
      BY AsInAllowTiers DEF Tiers!SitesTyped
    <3>3. QED
      BY <3>1, <3>2
  <2>5. p \in OnTheWay(e, s.key)
    BY <2>3 DEF OnTheWay
  <2>6. QED
    BY <1>1, <2>4, <2>5 DEF FinishedAlone
<1>6. inside[e][r] = markN[e][r]
  <2>1. inside[e][r] = markN[e][r] + Cardinality(Pending(e, r))
    BY <1>2, <1>3 DEF InsideInv
  <2>2. Cardinality(Pending(e, r)) = 0
    BY <1>5, FS_EmptySet
  <2>3. markN[e][r] \in Nat
    BY <1>2 DEF TierFacts, TierProofs!TypeOK
  <2>4. QED
    BY <2>1, <2>2, <2>3
<1>7. QED
  BY <1>2, <1>3, <1>4, <1>6 DEF TierFacts, TierProofs!RegionDriftReported, TierProofs!Inside

\* What a counted region promises, end to end: the events its counter has seen
\* at an undisturbed finish are the side effects that happened inside it while
\* a transaction was open, writes, statements and checkpoints together, and the
\* finish tells whether their number is a declared one (AllowInTransactionHere,
\* mark.n.Add, reportCallShortfalls).
THEOREM RegionsTellTheTruth == DetectionSpec => []RegionTellsTheTruth
<1>1. DetectionInit => InsideInv
  BY InitInside
<1>2. DetectionSpec => []IInv
  BY ImplementsSession, Inductive, PTL
<1>3. CountInv /\ TierFacts /\ IInv /\ IInv' /\ InsideInv /\ [DetectionNext]_allVars => InsideInv'
  BY StepsKeepInside
<1>4. CountInv /\ TierFacts /\ InsideInv => RegionTellsTheTruth
  BY RegionTruth
<1>5. QED
  BY <1>1, <1>2, <1>3, <1>4, CountsKept, TierFactsHold, PTL DEF DetectionSpec
=============================================================================
