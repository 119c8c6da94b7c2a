----------------------------- MODULE AllowTiers -----------------------------
(***************************************************************************)
(* What becomes of a detection event: decideAndReport and the exact-call   *)
(* accounting behind it (check.go, allow.go, allowlist.go).  Events of one *)
(* scope execution run on several goroutines; each consults, in order, the *)
(* AllowInTransaction of its call site, the AllowInTransactionHere region  *)
(* of its context and the shared Allowlist, and every counter on the way   *)
(* is bumped in a critical section (or atomic) of its own.  The Allowlist  *)
(* may grow and be replaced entry by entry meanwhile.  Finishing the       *)
(* execution verifies the declared counts against the totals.              *)
(***************************************************************************)
EXTENDS Integers, FiniteSets

CONSTANTS
  Execs,        \* scope executions, each with its own holder
  ScopeOf,      \* the scope name of each
  AnyScope,     \* the wildcard scope of Allowlist entries
  Keys,         \* the operations; with the scope name, a violation identity
  Regions,      \* the allow regions in the code
  NoRegion,     \* a context without one
  RegionCounts, \* the exact counts a region declares; {}: any number
  Sites,        \* the call sites: [key, allowed, counts, region]
  Listed,       \* the Allowlist's entries to begin with: [scope, key, counts];
                \* no counts: any number
  Addable,      \* the entries Add registers later
  Goroutines,
  MaxEvents,    \* bound: detection events of one identity in one execution
  MaxAdds       \* bound: calls of Add

ASSUME SitesTyped ==
  Sites \subseteq [key : Keys, allowed : BOOLEAN, counts : SUBSET Int,
                   region : Regions \cup {NoRegion}]
ASSUME CountsTyped ==
  /\ RegionCounts \in [Regions -> SUBSET Int]
  /\ \A x \in Listed \cup Addable :
       x \in [scope : {ScopeOf[e] : e \in Execs} \cup {AnyScope}, key : Keys, counts : SUBSET Int]
  /\ \A x, y \in Listed : x.scope = y.scope /\ x.key = y.key => x = y
ASSUME BoundsTyped == MaxEvents \in Nat \ {0} /\ MaxAdds \in Nat
ASSUME SomethingToDo == Sites # {} /\ Execs # {}
ASSUME NamesDisjoint == NoRegion \notin Regions /\ Keys \cap Regions = {}

\* What is declared anywhere; a declared slice is finite.
Declarations ==
  {s.counts : s \in Sites} \cup {RegionCounts[r] : r \in Regions}
    \cup {x.counts : x \in Listed \cup Addable}
ASSUME DeclarationsFinite ==
  \A counts \in Declarations : \E m \in counts \cup {0} : m >= 0 /\ \A c \in counts : c <= m

VARIABLES
  n,          \* calls[key].n of each execution, 0 while there is no entry
  declared,   \* calls[key].declared: the counts last consulted
  entered,    \* the regions entered, a counted one being registered
  markN,      \* allowMark.n of each region
  entries,    \* Allowlist.entries: the listed entry of each (scope, key) with
              \* the number of the Add that made it
  used,       \* those whose flag says they have suppressed something
  adds,       \* how many Add calls there were
  fpc,        \* where finishScope is: "open", "marks", "done"
  unread,     \* the registered regions finishScope has still to read
  stale,      \* the StaleAllows it found, by identity or region
  pc,         \* where each goroutine is inside decideAndReport
  event,      \* its event: the site, the execution and the call index
  declined,   \* the counts that have declined it
  consulted,  \* {the entry decide returned for it} or {}
  log,        \* history: every decided event
  clean       \* history: nothing ran during or after finishScope

scopeVars == <<n, declared, entered, markN>>
finishVars == <<fpc, unread, stale>>
listVars == <<entries, used, adds>>
callVars == <<pc, event, declined, consulted>>
vars == <<scopeVars, listVars, finishVars, callVars, log, clean>>

\* maxCount and coversCalls; a set stands for the declared slice.
maxCount(counts) == CHOOSE m \in counts \cup {0} : m >= 0 /\ \A c \in counts : c <= m
coversCalls(counts, k) == counts = {} \/ k <= maxCount(counts)

\* A declaration finish reports: the total is neither declared nor beyond the
\* largest declared count, where violations have already been reported.
Unmet(counts, total) == total <= maxCount(counts) /\ total \notin counts

CountedRegions == {r \in Regions : RegionCounts[r] # {}}
Locations == {"idle", "note", "mark", "list", "listNote"}
Verdicts == {"callSite", "region", "list", "violation"}
Calls == 0..MaxEvents
Events == [site : Sites, exec : Execs, call : Calls]
NoEvent == [site |-> CHOOSE s \in Sites : TRUE, exec |-> CHOOSE e \in Execs : TRUE, call |-> 0]
CountUniverse == UNION Declarations
EntryOf(x, i) == [scope |-> x.scope, key |-> x.key, counts |-> x.counts, id |-> i]
EntryObjects == {EntryOf(x, i) : x \in Listed \cup Addable, i \in 0..MaxAdds}

\* Only counted declarations are ever verified, so only they can be stale at
\* finish (registerMark, reportCallShortfalls); an identity has one entry.
TypeOK ==
  /\ n \in [Execs -> [Keys -> Calls]]
  /\ declared \in [Execs -> [Keys -> SUBSET CountUniverse]]
  /\ entered \in [Execs -> SUBSET Regions]
  /\ markN \in [Execs -> [Regions -> Nat]]
  /\ entries \subseteq EntryObjects /\ used \subseteq entries /\ adds \in 0..MaxAdds
  /\ \A x, y \in entries : x.scope = y.scope /\ x.key = y.key => x = y
  /\ fpc \in [Execs -> {"open", "marks", "done"}]
  /\ unread \in [Execs -> SUBSET CountedRegions]
  /\ stale \in [Execs -> SUBSET (Keys \cup CountedRegions)]
  /\ pc \in [Goroutines -> Locations]
  /\ event \in [Goroutines -> Events]
  /\ declined \in [Goroutines -> SUBSET CountUniverse]
  /\ consulted \in [Goroutines -> SUBSET EntryObjects]
  /\ \A x \in log : x.verdict \in Verdicts /\ x.event \in Events
  /\ clean \in [Execs -> BOOLEAN]

Init ==
  /\ n = [e \in Execs |-> [k \in Keys |-> 0]]
  /\ declared = [e \in Execs |-> [k \in Keys |-> {}]]
  /\ entered = [e \in Execs |-> {}]
  /\ markN = [e \in Execs |-> [r \in Regions |-> 0]]
  /\ entries = {EntryOf(x, 0) : x \in Listed} /\ used = {} /\ adds = 0
  /\ fpc = [e \in Execs |-> "open"]
  /\ unread = [e \in Execs |-> {}]
  /\ stale = [e \in Execs |-> {}]
  /\ pc = [g \in Goroutines |-> "idle"]
  /\ event = [g \in Goroutines |-> NoEvent]
  /\ declined = [g \in Goroutines |-> {}]
  /\ consulted = [g \in Goroutines |-> {}]
  /\ log = {}
  /\ clean = [e \in Execs |-> TRUE]

-----------------------------------------------------------------------------
(* decideAndReport. *)

Site(g) == event[g].site
Exec(g) == event[g].exec
Key(g) == Site(g).key

\* Event x is decided: its goroutine returns from decideAndReport.
Decided(g, x, verdict, counts) ==
  /\ log' = log \cup {[event |-> x, verdict |-> verdict, allowedCalls |-> counts,
                       by |-> consulted[g]]}
  /\ pc' = [pc EXCEPT ![g] = "idle"]
  /\ event' = [event EXCEPT ![g] = NoEvent]
  /\ declined' = [declined EXCEPT ![g] = {}]
  /\ consulted' = [consulted EXCEPT ![g] = {}]

\* Event x goes on to the tier at l, with the counts that have declined it.
FallThrough(g, l, x, counts) ==
  /\ pc' = [pc EXCEPT ![g] = l]
  /\ event' = [event EXCEPT ![g] = x]
  /\ declined' = [declined EXCEPT ![g] = counts]
  /\ UNCHANGED <<consulted, log>>

\* The detector has an Allowlist, an empty one perhaps.
HasAllowlist == Listed \cup Addable # {}

\* The tiers that follow the call site's and the region's, for event x.
AfterRegion(g, x, counts) ==
  IF HasAllowlist THEN FallThrough(g, "list", x, counts)
  ELSE Decided(g, x, "violation", counts)

AfterCallSite(g, x, counts) ==
  IF x.site.region # NoRegion THEN FallThrough(g, "mark", x, counts)
  ELSE AfterRegion(g, x, counts)

\* callMu of execution e is not held by a finish reading the marks.
Unlocked(e) == fpc[e] # "marks"

\* scope.noteDeclared: the last declaration wins, an uncounted one is ignored.
noteDeclared(e, k, counts) ==
  /\ counts # {} => Unlocked(e)
  /\ declared' = IF counts = {} THEN declared ELSE [declared EXCEPT ![e][k] = counts]

\* Mistake: the index is read before the increment.
bumpCallBefore(e, k) == n[e][k]

\* scope.bumpCall: the 1-based index of the event that increments n.
bumpCall(e, k) == n[e][k] + 1

\* A detection event at site s in execution e: its identity is counted.
DecideAndReport(g, e, s) ==
  /\ pc[g] = "idle" /\ n[e][s.key] < MaxEvents /\ Unlocked(e)
  /\ s.region \in entered[e] \cup {NoRegion}
  /\ n' = [n EXCEPT ![e][s.key] = @ + 1]
  /\ clean' = [clean EXCEPT ![e] = @ /\ fpc[e] = "open"]
  /\ LET x == [site |-> s, exec |-> e, call |-> bumpCall(e, s.key)] IN
     IF s.allowed THEN FallThrough(g, "note", x, {}) ELSE AfterCallSite(g, x, {})
  /\ UNCHANGED <<declared, entered, markN, listVars, finishVars>>

\* The AllowInTransaction of the call site.
ConsultCallSite(g) ==
  /\ pc[g] = "note"
  /\ noteDeclared(Exec(g), Key(g), Site(g).counts)
  /\ IF coversCalls(Site(g).counts, event[g].call)
     THEN Decided(g, event[g], "callSite", {})
     ELSE AfterCallSite(g, event[g], Site(g).counts)
  /\ UNCHANGED <<n, entered, markN, listVars, finishVars, clean>>

\* Mistake: the region's counts are held against the identity's call index.
ConsultRegionByIdentity(g) ==
  LET r == Site(g).region  counts == RegionCounts[r]  e == Exec(g) IN
  /\ pc[g] = "mark"
  /\ markN' = [markN EXCEPT ![e][r] = @ + 1]
  /\ IF coversCalls(counts, event[g].call)
     THEN Decided(g, event[g], "region", {})
     ELSE AfterRegion(g, event[g], declined[g] \cup counts)
  /\ UNCHANGED <<n, declared, entered, listVars, finishVars, clean>>

\* Mistake: the decision is taken on the total before this event.
ConsultRegionBefore(g) ==
  LET r == Site(g).region  counts == RegionCounts[r]  e == Exec(g) IN
  /\ pc[g] = "mark"
  /\ markN' = [markN EXCEPT ![e][r] = @ + 1]
  /\ IF coversCalls(counts, markN[e][r])
     THEN Decided(g, event[g], "region", {})
     ELSE AfterRegion(g, event[g], declined[g] \cup counts)
  /\ UNCHANGED <<n, declared, entered, listVars, finishVars, clean>>

\* The region pins its own total, across identities: mark.n.Add(1).
ConsultRegion(g) ==
  LET r == Site(g).region  counts == RegionCounts[r]  e == Exec(g) IN
  /\ pc[g] = "mark"
  /\ markN' = [markN EXCEPT ![e][r] = @ + 1]
  /\ IF coversCalls(counts, markN'[e][r])
     THEN Decided(g, event[g], "region", {})
     ELSE AfterRegion(g, event[g], declined[g] \cup counts)
  /\ UNCHANGED <<n, declared, entered, listVars, finishVars, clean>>

\* Mistake: the wildcard is looked up first.
ResolvedAnyFirst(e, k) ==
  LET at(scope) == {x \in entries : x.scope = scope /\ x.key = k} IN
  IF at(AnyScope) # {} THEN at(AnyScope) ELSE at(ScopeOf[e])

\* The entry Allowlist.decide resolves, if any: the exact scope, then AnyScope.
Resolved(e, k) ==
  LET at(scope) == {x \in entries : x.scope = scope /\ x.key = k} IN
  IF at(ScopeOf[e]) # {} THEN at(ScopeOf[e]) ELSE at(AnyScope)

Covering(S, call) == {x \in S : coversCalls(x.counts, call)}

\* decide marks the entry used only when it covers the call.
markUsed(S, call) == used' = used \cup Covering(S, call)

ConsultAllowlist(g) ==
  LET found == Resolved(Exec(g), Key(g)) IN
  /\ pc[g] = "list"
  /\ markUsed(found, event[g].call)
  /\ IF found # {}
     THEN /\ pc' = [pc EXCEPT ![g] = "listNote"]
          /\ consulted' = [consulted EXCEPT ![g] = found]
          /\ UNCHANGED <<event, declined, log>>
     ELSE Decided(g, event[g], "violation", declined[g])
  /\ UNCHANGED <<scopeVars, entries, adds, finishVars, clean>>

\* Its declaration is remembered after the list's own lock is released, when
\* the entry may have been replaced already.
NoteAllowlist(g) ==
  /\ pc[g] = "listNote"
  /\ \E x \in consulted[g] :
       /\ noteDeclared(Exec(g), Key(g), x.counts)
       /\ IF coversCalls(x.counts, event[g].call)
          THEN Decided(g, event[g], "list", {})
          ELSE Decided(g, event[g], "violation", declined[g] \cup x.counts)
  /\ UNCHANGED <<n, entered, markN, listVars, finishVars, clean>>

\* Mistake: an entry that replaces another one inherits its flag.
ForgottenNever(old, new) == used' = IF old \cap used # {} THEN (used \ old) \cup {new} ELSE used

\* The flag lives in the entry and is dropped with it.
Forgotten(old, new) == used' = used \ old

\* Allowlist.Add: a new, unused entry takes the place of the identity's old one.
Add(x) ==
  LET new == EntryOf(x, adds + 1)
      old == {y \in entries : y.scope = x.scope /\ y.key = x.key}
  IN /\ adds < MaxAdds
     /\ adds' = adds + 1
     /\ entries' = (entries \ old) \cup {new}
     /\ Forgotten(old, new)
     /\ UNCHANGED <<scopeVars, finishVars, callVars, log, clean>>

\* AllowInTransactionHere; registerMark puts a counted region on the scope.
EnterRegion(e, r) ==
  /\ r \notin entered[e]
  /\ RegionCounts[r] # {} => Unlocked(e)
  /\ entered' = [entered EXCEPT ![e] = @ \cup {r}]
  /\ clean' = [clean EXCEPT ![e] = @ /\ fpc[e] = "open"]
  /\ UNCHANGED <<n, declared, markN, listVars, finishVars, callVars, log>>

-----------------------------------------------------------------------------
(* reportCallShortfalls, inside the one finishScope that gets through. *)

InFlight(e) == \E g \in Goroutines : pc[g] # "idle" /\ Exec(g) = e

\* Mistake: uncounted regions are registered too.
RegisteredAll(e) == entered[e]

Registered(e) == entered[e] \cap CountedRegions

\* Mistake: the total is not compared with the largest declared count.
CallShortfallsUnbounded(e) == {k \in Keys : declared[e][k] # {} /\ n[e][k] \notin declared[e][k]}

CallShortfalls(e) == {k \in Keys : declared[e][k] # {} /\ Unmet(declared[e][k], n[e][k])}

\* The identities are read under callMu.
FinishCalls(e) ==
  /\ fpc[e] = "open"
  /\ fpc' = [fpc EXCEPT ![e] = IF Registered(e) = {} THEN "done" ELSE "marks"]
  /\ unread' = [unread EXCEPT ![e] = Registered(e)]
  /\ stale' = [stale EXCEPT ![e] = CallShortfalls(e)]
  /\ clean' = [clean EXCEPT ![e] = @ /\ ~InFlight(e)]
  /\ UNCHANGED <<scopeVars, listVars, callVars, log>>

\* The region counters are atomics that callMu does not protect: each is read
\* at an instant of its own.
FinishMark(e, r) ==
  /\ fpc[e] = "marks" /\ r \in unread[e]
  /\ unread' = [unread EXCEPT ![e] = @ \ {r}]
  /\ fpc' = [fpc EXCEPT ![e] = IF unread[e] = {r} THEN "done" ELSE "marks"]
  /\ stale' = IF Unmet(RegionCounts[r], markN[e][r])
              THEN [stale EXCEPT ![e] = @ \cup {r}] ELSE stale
  /\ UNCHANGED <<scopeVars, listVars, callVars, log, clean>>

Next ==
  \/ \E g \in Goroutines :
       \/ \E e \in Execs, s \in Sites : DecideAndReport(g, e, s)
       \/ ConsultCallSite(g) \/ ConsultRegion(g) \/ ConsultAllowlist(g) \/ NoteAllowlist(g)
  \/ \E e \in Execs :
       \/ FinishCalls(e)
       \/ \E r \in Regions : EnterRegion(e, r) \/ FinishMark(e, r)
  \/ \E x \in Addable : Add(x)

Spec == Init /\ [][Next]_vars

-----------------------------------------------------------------------------
(* Properties. *)

Decisions(e, k) == {x \in log : x.event.exec = e /\ x.event.site.key = k}
Violations(e, k) == {x \in Decisions(e, k) : x.verdict = "violation"}
RegionDecisions(e, r) ==
  {x \in log : x.event.exec = e /\ x.event.site.region = r /\ x.verdict = "region"}
ReportedCalls(e, k) == {x.event.call : x \in Violations(e, k)}

\* Every call site of identity k carries the same counted allow, and no later
\* tier can cover what it declines.
PinnedBy(k, counts) ==
  /\ counts # {} /\ \A x \in Listed \cup Addable : x.key # k
  /\ \A s \in Sites : s.key = k => s.allowed /\ s.counts = counts /\ s.region = NoRegion

\* The finish of e is over, and no event ran beside or after it.
FinishedClean(e) == fpc[e] = "done" /\ clean[e]

\* "Calls beyond the largest declared count are reported as Violations" and no
\* others: once concurrent events of a pinned identity have all been decided,
\* the reported call indices are exactly those after the largest count, none
\* of them lost or shared by two racing calls (check.go, AllowInTransaction).
GrowthSurfaces ==
  \A e \in Execs, k \in Keys : \A counts \in {s.counts : s \in Sites} :
    PinnedBy(k, counts) /\ ~InFlight(e) =>
      ReportedCalls(e, k) = (maxCount(counts) + 1)..n[e][k]

\* A pinned execution that finishes with nothing else running reports a drift
\* exactly once: as a StaleAllow if calls disappeared, as Violations if calls
\* were added, and as neither when the total is a declared one.  An identity
\* that produced no event at all has no entry to verify.
DriftReportedOnce ==
  \A e \in Execs, k \in Keys : \A counts \in {s.counts : s \in Sites} :
    PinnedBy(k, counts) /\ FinishedClean(e) /\ n[e][k] > 0 =>
      /\ (k \in stale[e] \/ Violations(e, k) # {}) <=> n[e][k] \notin counts
      /\ ~(k \in stale[e] /\ Violations(e, k) # {})

\* A counted region suppresses at most its largest count over all identities
\* together, and an execution that finishes undisturbed reports it stale only
\* if what it suppressed is not a declared number of events; a region that
\* never declined is then stale exactly in that case.
RegionPinsItsTotal ==
  \A e \in Execs, r \in Regions :
    LET counts == RegionCounts[r]
        covered == Cardinality(RegionDecisions(e, r))
    IN counts # {} =>
         /\ covered <= maxCount(counts)
         /\ FinishedClean(e) /\ r \in entered[e] /\ markN[e][r] = covered
              => (r \in stale[e] <=> covered \notin counts)

UnusedEntries == entries \ used

\* An Allowlist entry leaves UnusedEntries exactly when it has suppressed an
\* event of some execution: consulting it without covering the call does not
\* keep it alive, neither does what the entry it replaced had suppressed, nor
\* an event that resolved the old entry before the replacement.
UsedMeansSuppressed ==
  \A x \in entries :
    x \notin UnusedEntries <=>
      \/ \E y \in log : y.verdict = "list" /\ y.by = {x}
      \/ \E g \in Goroutines : /\ pc[g] = "listNote"
                               /\ x \in Covering(consulted[g], event[g].call)

\* A counted entry pins the calls of its scope whatever the wildcard allows
\* ("exact scope first, then the AnyScope wildcard"; "further calls are
\* reported as Violations", allowlist.go): as long as it is not replaced, the
\* reported call indices of an identity nothing else allows are exactly those
\* after its largest count, whichever wildcard entries come and go.
EntryPinsCalls ==
  \A e \in Execs : \A x \in entries :
    /\ x.id = 0 /\ x.scope = ScopeOf[e] /\ x.counts # {}
    /\ \A s \in Sites : s.key = x.key => ~s.allowed /\ s.region = NoRegion
    /\ ~InFlight(e)
    => ReportedCalls(e, x.key) = (maxCount(x.counts) + 1)..n[e][x.key]

\* reportCallShortfalls does not report totals above the largest count because
\* "the excess calls already surfaced as Violations" (allow.go): whenever an
\* undisturbed execution finishes above its last declaration, something was
\* reported for that identity.
ExcessSurfaced ==
  \A e \in Execs, k \in Keys :
    FinishedClean(e) /\ declared[e][k] # {} /\ n[e][k] > maxCount(declared[e][k])
      => Violations(e, k) # {}
=============================================================================
