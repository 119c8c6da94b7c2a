----------------------------- MODULE Detection -----------------------------
(***************************************************************************)
(* Sessions, checkpoints, scopes and allow tiers together: the events that *)
(* Session detects are those that AllowTiers decides, and a finish reads   *)
(* the counts they left behind.  A call is followed from the load of the   *)
(* counter to the return of decideAndReport (session.go, check.go,         *)
(* allow.go, detector.go).                                                 *)
(*                                                                         *)
(* Steps are those of the two modules.  What is added is where they meet:  *)
(* the site whose event it is, the context that leads to its allow region, *)
(* callMu, which makes calls wait for a finish, and the order of a finish. *)
(***************************************************************************)
EXTENDS Session

CONSTANTS
  ScopeOf, AnyScope, Keys, Regions, NoRegion, RegionCounts, Listed, Addable,
  MaxEvents, MaxAdds, \* as in AllowTiers; a scope of Session is an execution
  WriteSites,         \* the sites that write through a connection
  StatementSites,     \* those whose statement a checker matches
  CheckSites          \* the calls of Check

Sites == WriteSites \cup StatementSites \cup CheckSites

\* Session.Observe and the statement checkers take no CheckOption, and a write
\* and a matched statement are operations of different kinds.
ASSUME SitesSorted ==
  /\ \A s \in WriteSites \cup StatementSites : ~s.allowed /\ s.counts = {}
  /\ \A s \in WriteSites, t \in StatementSites : s.key # t.key

VARIABLES
  n, declared, entered, markN, entries, used, adds, fpc, unread, stale,
  at, event, declined, consulted, log, clean,  \* AllowTiers; at is its pc
  aim,        \* {the site whose counter value the process has loaded} or {}
  inside      \* history: how many loads of each execution found a transaction
              \* really open, by identity and by allow region

Tiers == INSTANCE AllowTiers WITH Execs <- Scopes, Goroutines <- Procs, pc <- at

ASSUME AsInAllowTiers ==
  /\ Tiers!SitesTyped /\ Tiers!CountsTyped /\ Tiers!BoundsTyped
  /\ Tiers!SomethingToDo /\ Tiers!NamesDisjoint /\ Tiers!DeclarationsFinite
  /\ NoRegion \notin Keys

siteVars == <<aim, inside>>
tierVars == <<n, declared, entered, markN, entries, used, adds, fpc, unread, stale,
              at, event, declined, consulted, log, clean>>
allVars == <<vars, tierVars, siteVars>>

DetectionInit ==
  /\ Init
  /\ Tiers!Init
  /\ aim = [p \in Procs |-> {}]
  /\ inside = [e \in Scopes |-> [x \in Keys \cup Regions |-> 0]]

-----------------------------------------------------------------------------
(* Contexts and sites. *)

\* AllowInTransactionHere has made the marked contexts.
Carried == {x \in Contexts : x.mark => entered[x.scope] # {}}

\* The sites that a call at location l can be of.
SitesAt(l) ==
  CASE l = "crossReport" -> WriteSites
    [] l \in {"checkers", "checkersReport"} -> StatementSites
    [] l = "checkReport" -> CheckSites
    [] l = "gated" -> {s \in CheckSites : ~s.allowed}
    [] OTHER -> {}

\* Those the call of p can be of after this step: their region is on the
\* context, and one call carries one context.
InReach(p) ==
  {s \in SitesAt(pc'[p]) :
     /\ s.region \in entered[ctx'[p].scope] \cup {NoRegion}
     /\ ctx'[p].mark <=> s.region # NoRegion
     /\ \A t \in aim[p] : t.region = s.region
     /\ pc[p] = "gated" => ~s.allowed}

InCall(p) == pc[p] \notin {"idle", "opening", "finishing"}

\* The bound: a call begins only if its events cannot exceed MaxEvents.
Room(e) ==
  \A k \in Keys :
    inside[e][k] + Cardinality({p \in Procs : InCall(p) /\ ctx[p].scope = e}) < MaxEvents

\* The call of p goes on, or begins, in a scope: there is a site it is of.
HasSite(p) ==
  InCall(p)' /\ ctx'[p].scope # NoScope =>
    /\ InReach(p) # {}
    /\ pc[p] = "idle" => Room(ctx'[p].scope)

\* A side effect at site s inside a transaction of execution e.
Happens(e, s) ==
  inside' = [inside EXCEPT ![e] =
    [x \in Keys \cup Regions |-> IF x \in {s.key, s.region} THEN @[x] + 1 ELSE @[x]]]

\* What a step of Session by p means for the sites: a load is for one of them.
Aimed(p) ==
  /\ HasSite(p)
  /\ IF Judging(p)'
     THEN \E s \in InReach(p) :
            /\ aim' = [aim EXCEPT ![p] = {s}]
            /\ IF Judged(p)' = {} THEN UNCHANGED inside ELSE Happens(ctx'[p].scope, s)
     ELSE /\ aim' = IF pc'[p] = "idle" THEN [aim EXCEPT ![p] = {}] ELSE aim
          /\ UNCHANGED inside

-----------------------------------------------------------------------------
(* The steps. *)

\* Statements and transaction transitions up to a load.
Statement(c) ==
  /\ at[c] = "idle"
  /\ \/ \E x \in Carried :
          \/ ObserveBegin(c, x) \/ ObserveEnd(c, x) \/ ObserveOther(c, x)
          \/ ObserveWrite(c, x) \/ BeginTxClose(c, x)
     \/ CheckersLoad(c) \/ BeginTxOpen(c) \/ EndTx(c)
  /\ Aimed(c)
  /\ UNCHANGED tierVars

\* Scopes begun and finished, checkpoints up to a load.
Checkpoint(g) ==
  /\ at[g] = "idle"
  /\ \/ \E x \in Carried :
          \/ \E s \in Scopes : StartScope(g, s, x)
          \/ Check(g, x) \/ RoundTrip(g, x)
     \/ \E s \in Scopes : FinishScope(g, s)
     \/ RoundTripCheck(g)
  /\ Aimed(g)
  /\ UNCHANGED tierVars

\* Mistake: an event of a marked context needs no decision.
DecideUnlessMarked(p) ==
  IF ~ctx[p].mark /\ \E r \in reports' : r.kind = "event"
  THEN \E s \in aim[p] : Tiers!DecideAndReport(p, ctx[p].scope, s)
  ELSE UNCHANGED tierVars

\* The verdict on the loaded value; an event goes to decideAndReport at once,
\* with the loaded value and the site of the call.
Decide(p) ==
  IF \E r \in reports' : r.kind = "event"
  THEN \E s \in aim[p] : Tiers!DecideAndReport(p, ctx[p].scope, s)
  ELSE UNCHANGED tierVars

Verdict(p) ==
  /\ at[p] = "idle"
  /\ \/ p \in Conns /\ (ReportIfCrossConn(p) \/ CheckersReport(p))
     \/ /\ p \in Goroutines /\ CheckReport(p)
        /\ \A s \in aim[p] : reports' = checkVerdict(p, s.allowed)
  /\ Decide(p)
  /\ Aimed(p)

\* The tiers that an event falls through, inside the call that detected it.
Tier(p) ==
  /\ \/ Tiers!ConsultCallSite(p) \/ Tiers!ConsultRegion(p)
     \/ Tiers!ConsultAllowlist(p) \/ Tiers!NoteAllowlist(p)
  /\ UNCHANGED <<vars, siteVars>>

\* The one finishScope that gets through: first the shortfalls ...
ReportCallShortfalls(g) ==
  LET e == ctx[g].scope IN
  /\ pc[g] = "finishing"
  /\ \/ Tiers!FinishCalls(e)
     \/ \E r \in Regions : Tiers!FinishMark(e, r)
  /\ UNCHANGED <<vars, siteVars>>

\* Mistake: the marks are not waited for, and callMu stays locked.
FinishedEarly(g) ==
  /\ pc[g] = "finishing" /\ fpc[ctx[g].scope] # "open"
  /\ ReportLeakedTx(g)
  /\ UNCHANGED <<tierVars, siteVars>>

\* ... then the leaks.
Finished(g) ==
  /\ pc[g] = "finishing" /\ fpc[ctx[g].scope] = "done"
  /\ ReportLeakedTx(g)
  /\ UNCHANGED <<tierVars, siteVars>>

ProcStep(p) ==
  \/ p \in Conns /\ Statement(p)
  \/ p \in Goroutines /\ (Checkpoint(p) \/ ReportCallShortfalls(p) \/ Finished(p))
  \/ Verdict(p) \/ Tier(p)

\* AllowInTransactionHere on a context of scope e, and Allowlist.Add.
Declare ==
  /\ \/ \E e \in started, r \in Regions : Tiers!EnterRegion(e, r)
     \/ \E x \in Addable : Tiers!Add(x)
  /\ UNCHANGED <<vars, siteVars>>

DetectionNext == Declare \/ \E p \in Procs : ProcStep(p)

Busy(p) == pc[p] # "idle" \/ at[p] # "idle"

\* A call that has begun goes on: callMu is the only lock it waits for, and no
\* step of a call waits for another call to begin.
DetectionSpec ==
  /\ DetectionInit
  /\ [][DetectionNext]_allVars
  /\ \A p \in Procs : WF_allVars(Busy(p) /\ ProcStep(p))

-----------------------------------------------------------------------------
(* Properties. *)

\* Loaded while a transaction was open, not yet with decideAndReport.
OnTheWay(e, k) ==
  {p \in Procs : /\ Judging(p) /\ Judged(p) # {} /\ ctx[p].scope = e
                 /\ \E s \in aim[p] : s.key = k}

\* The call count that exact-call declarations are held against is the number
\* of side effects that really happened inside a transaction of the execution:
\* none is lost between counter and count, none counted twice, and none that
\* ran outside is counted, however transactions, statements and finishes
\* interleave (reportIfCrossConn, check, decideAndReport, bumpCall).
EffectsCounted ==
  \A e \in Scopes, k \in Keys :
    n[e][k] + Cardinality(OnTheWay(e, k)) = inside[e][k]

\* The finish of e ran alone and has said everything.
FinishedAlone(e) ==
  /\ fpc[e] = "done" /\ clean[e]
  /\ \A k \in Keys : OnTheWay(e, k) = {}

SitesOf(k) == {s \in Sites : s.key = k}
SitesIn(r) == {s \in Sites : s.region = r}

\* k is pinned to counts at every one of its sites and by nothing else.
PinnedTo(k, counts) ==
  /\ counts # {}
  /\ \A s \in SitesOf(k) : s.allowed /\ s.counts = counts /\ s.region = NoRegion
  /\ \A x \in Listed \cup Addable : x.key # k

\* What an exact-call declaration promises a team, end to end: a scope that
\* performs the operation inside transactions a number of times that is not
\* declared is told so, by a Violation or a StaleAllow, and one that performs
\* it a declared number of times is not bothered (AllowInTransaction's doc).
PinTellsTheTruth ==
  \A e \in Scopes, k \in Keys : \A counts \in {s.counts : s \in SitesOf(k)} :
    FinishedAlone(e) /\ PinnedTo(k, counts) /\ inside[e][k] > 0 =>
      (inside[e][k] \notin counts <=> k \in stale[e] \/ Tiers!Violations(e, k) # {})

OnlyPinnedBy(r) == \A s \in SitesIn(r) : ~s.allowed /\ \A x \in Listed \cup Addable : x.key # s.key

\* The same of a counted region whose effects no call site allows and no list:
\* it pins the side effects performed inside it, writes, statements and
\* checkpoints together; entered and left without any, it is told as well
\* (AllowInTransactionHere's doc).
RegionTellsTheTruth ==
  \A e \in Scopes : \A r \in Tiers!Registered(e) :
    LET reported == \E x \in log : /\ x.event.exec = e /\ x.event.site.region = r
                                   /\ x.verdict = "violation"
    IN FinishedAlone(e) /\ OnlyPinnedBy(r) =>
         (inside[e][r] \notin RegionCounts[r] <=> r \in stale[e] \/ reported)

\* Nobody waits for ever: a call that has begun returns, although deciding an
\* event needs callMu, which a finish holds while it reads the region counters
\* (reportCallShortfalls, bumpCall, noteDeclared).
EveryCallReturns == \A p \in Procs : Busy(p) ~> ~Busy(p)
=============================================================================
