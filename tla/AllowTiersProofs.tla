-------------------------- MODULE AllowTiersProofs --------------------------
(***************************************************************************)
(* Theorems about AllowTiers, for any executions, call sites, regions and  *)
(* entries, any number of goroutines and any bounds.                       *)
(***************************************************************************)
EXTENDS AllowTiers, FiniteSetTheorems, TLAPS

-----------------------------------------------------------------------------
(* Declarations. *)

\* maxCount is what its name says.
LEMMA MaxCount ==
  ASSUME NEW counts \in Declarations
  PROVE  maxCount(counts) \in Nat /\ \A c \in counts : c <= maxCount(counts)
<1>1. PICK m \in counts \cup {0} : m >= 0 /\ \A c \in counts : c <= m
  BY DeclarationsFinite
<1> DEFINE top == maxCount(counts)
<1>2. top \in counts \cup {0} /\ top >= 0 /\ \A c \in counts : c <= top
  BY <1>1 DEF maxCount
<1>3. \A s \in Sites : s.counts \subseteq Int
  BY SitesTyped
<1>4. \A x \in Listed \cup Addable : x.counts \subseteq Int
  BY CountsTyped
<1>5. counts \subseteq Int
  BY <1>3, <1>4, CountsTyped DEF Declarations
<1> HIDE DEF top
<1>6. top \in Nat
  BY <1>2, <1>5
<1>7. QED
  BY <1>2, <1>6 DEF top

LEMMA Declared ==
  /\ \A s \in Sites : s.counts \in Declarations
  /\ \A r \in Regions : RegionCounts[r] \in Declarations
  /\ \A x \in EntryObjects : x.counts \in Declarations /\ x.id \in Nat /\ x.key \in Keys
  /\ \A counts \in Declarations : counts \in SUBSET CountUniverse
BY CountsTyped, BoundsTyped DEF Declarations, EntryObjects, EntryOf, CountUniverse

\* Sites and events have the fields they should have.
LEMMA SiteFields ==
  \A s \in Sites : /\ s.key \in Keys /\ s.allowed \in BOOLEAN /\ s.counts \in SUBSET Int
                   /\ s.region \in Regions \cup {NoRegion}
BY SitesTyped

LEMMA NoEventTyped == NoEvent \in Events
BY SomethingToDo, BoundsTyped DEF NoEvent, Events, Calls

-----------------------------------------------------------------------------
(* Types. *)

CallTyped ==
  /\ pc \in [Goroutines -> Locations]
  /\ event \in [Goroutines -> Events]
  /\ declined \in [Goroutines -> SUBSET CountUniverse]
  /\ consulted \in [Goroutines -> SUBSET EntryObjects]
  /\ \A x \in log : x.verdict \in Verdicts /\ x.event \in Events

LEMMA FallTyped ==
  ASSUME CallTyped, NEW g \in Goroutines, NEW l \in Locations, NEW x \in Events,
         NEW counts \in SUBSET CountUniverse, FallThrough(g, l, x, counts)
  PROVE  CallTyped'
BY DEF CallTyped, FallThrough

LEMMA DecidedTyped ==
  ASSUME CallTyped, NEW g \in Goroutines, NEW x \in Events, NEW v \in Verdicts,
         NEW counts, Decided(g, x, v, counts)
  PROVE  CallTyped'
<1>1. /\ pc' \in [Goroutines -> Locations] /\ event' \in [Goroutines -> Events]
      /\ declined' \in [Goroutines -> SUBSET CountUniverse]
      /\ consulted' \in [Goroutines -> SUBSET EntryObjects]
  BY NoEventTyped DEF CallTyped, Decided, Locations
<1>2. \A y \in log' : y.verdict \in Verdicts /\ y.event \in Events
  BY DEF CallTyped, Decided
<1>3. QED
  BY <1>1, <1>2 DEF CallTyped

LEMMA AfterRegionTyped ==
  ASSUME CallTyped, NEW g \in Goroutines, NEW x \in Events,
         NEW counts \in SUBSET CountUniverse, AfterRegion(g, x, counts)
  PROVE  CallTyped'
<1>1. CASE HasAllowlist
  BY <1>1, FallTyped DEF AfterRegion, Locations
<1>2. CASE ~HasAllowlist
  BY <1>2, DecidedTyped DEF AfterRegion, Verdicts
<1>3. QED
  BY <1>1, <1>2

LEMMA AfterCallSiteTyped ==
  ASSUME CallTyped, NEW g \in Goroutines, NEW x \in Events,
         NEW counts \in SUBSET CountUniverse, AfterCallSite(g, x, counts)
  PROVE  CallTyped'
<1>1. CASE x.site.region # NoRegion
  BY <1>1, FallTyped DEF AfterCallSite, Locations
<1>2. CASE x.site.region = NoRegion
  BY <1>2, AfterRegionTyped DEF AfterCallSite
<1>3. QED
  BY <1>1, <1>2

LEMMA EventFields ==
  ASSUME CallTyped, NEW g \in Goroutines
  PROVE  /\ event[g] \in Events /\ Exec(g) \in Execs /\ Site(g) \in Sites
         /\ Key(g) \in Keys /\ event[g].call \in Calls
         /\ Site(g).counts \in SUBSET CountUniverse
<1>1. event[g] \in Events
  BY DEF CallTyped
<1>2. Exec(g) \in Execs /\ Site(g) \in Sites /\ event[g].call \in Calls
  BY <1>1 DEF Events, Exec, Site
<1>3. QED
  BY <1>1, <1>2, Declared, SiteFields DEF Key

\* TypeOK in two parts: what a call carries, and the rest.
RestTyped ==
  /\ n \in [Execs -> [Keys -> Calls]]
  /\ declared \in [Execs -> [Keys -> SUBSET CountUniverse]]
  /\ entered \in [Execs -> SUBSET Regions]
  /\ markN \in [Execs -> [Regions -> Nat]]
  /\ entries \subseteq EntryObjects /\ used \subseteq entries /\ adds \in 0..MaxAdds
  /\ \A x, y \in entries : x.scope = y.scope /\ x.key = y.key => x = y
  /\ fpc \in [Execs -> {"open", "marks", "done"}]
  /\ unread \in [Execs -> SUBSET CountedRegions]
  /\ stale \in [Execs -> SUBSET (Keys \cup CountedRegions)]
  /\ clean \in [Execs -> BOOLEAN]

LEMMA TypeParts == TypeOK <=> CallTyped /\ RestTyped
BY DEF TypeOK, CallTyped, RestTyped

\* A goroutine reads a mark only for a call site inside a region.
MarkSited == \A g \in Goroutines : pc[g] = "mark" => Site(g).region \in Regions

LEMMA NoteDeclaredTyped ==
  ASSUME RestTyped, NEW e \in Execs, NEW k \in Keys, NEW counts \in SUBSET CountUniverse,
         noteDeclared(e, k, counts)
  PROVE  declared' \in [Execs -> [Keys -> SUBSET CountUniverse]]
BY DEF RestTyped, noteDeclared

LEMMA DecideAndReportTyped ==
  ASSUME TypeOK, NEW g \in Goroutines, NEW e \in Execs, NEW s \in Sites, DecideAndReport(g, e, s)
  PROVE  TypeOK'
<1> DEFINE x == [site |-> s, exec |-> e, call |-> bumpCall(e, s.key)]
<1>1. s.key \in Keys /\ n[e][s.key] \in Nat /\ n[e][s.key] < MaxEvents
  BY SiteFields, BoundsTyped DEF TypeOK, DecideAndReport, Calls
<1>2. n[e][s.key] + 1 \in Calls
  BY <1>1, BoundsTyped DEF Calls
<1>3. x \in Events
  BY <1>2 DEF Events, bumpCall
<1>4. CallTyped'
  <2>1. CallTyped
    BY TypeParts
  <2>2. IF s.allowed THEN FallThrough(g, "note", x, {}) ELSE AfterCallSite(g, x, {})
    BY DEF DecideAndReport
  <2> HIDE DEF x
  <2>3. CASE s.allowed
    BY <2>1, <2>2, <2>3, <1>3, FallTyped DEF Locations
  <2>4. CASE ~s.allowed
    BY <2>1, <2>2, <2>4, <1>3, AfterCallSiteTyped
  <2>5. QED
    BY <2>3, <2>4
<1>5. n' \in [Execs -> [Keys -> Calls]] /\ clean' \in [Execs -> BOOLEAN]
  <2>1. n' = [n EXCEPT ![e] = [n[e] EXCEPT ![s.key] = n[e][s.key] + 1]]
    BY DEF DecideAndReport
  <2>2. n' \in [Execs -> [Keys -> Calls]]
    BY <2>1, <1>1, <1>2 DEF TypeOK
  <2>3. clean' \in [Execs -> BOOLEAN]
    BY DEF TypeOK, DecideAndReport
  <2>4. QED
    BY <2>2, <2>3
<1>6. RestTyped'
  BY <1>5 DEF TypeOK, RestTyped, DecideAndReport, scopeVars, listVars, finishVars
<1>7. QED
  BY <1>4, <1>6 DEF TypeOK, CallTyped, RestTyped

LEMMA ConsultCallSiteTyped ==
  ASSUME TypeOK, NEW g \in Goroutines, ConsultCallSite(g)
  PROVE  TypeOK'
<1>1. CallTyped /\ RestTyped
  BY TypeParts
<1>2. CallTyped'
  <2>1. CASE coversCalls(Site(g).counts, event[g].call)
    BY <2>1, <1>1, EventFields, DecidedTyped DEF ConsultCallSite, Verdicts
  <2>2. CASE ~coversCalls(Site(g).counts, event[g].call)
    BY <2>2, <1>1, EventFields, AfterCallSiteTyped DEF ConsultCallSite
  <2>3. QED
    BY <2>1, <2>2
<1>3. declared' \in [Execs -> [Keys -> SUBSET CountUniverse]]
  BY <1>1, EventFields, NoteDeclaredTyped DEF ConsultCallSite
<1>4. RestTyped'
  BY <1>1, <1>3 DEF RestTyped, ConsultCallSite, listVars, finishVars
<1>5. QED
  BY <1>2, <1>4 DEF TypeOK, CallTyped, RestTyped

LEMMA ConsultRegionTyped ==
  ASSUME TypeOK, MarkSited, NEW g \in Goroutines, ConsultRegion(g)
  PROVE  TypeOK'
<1>1. CallTyped /\ RestTyped
  BY TypeParts
<1> DEFINE r == Site(g).region
<1>2. r \in Regions /\ RegionCounts[r] \in SUBSET CountUniverse
  BY Declared DEF MarkSited, ConsultRegion
<1>3. declined[g] \cup RegionCounts[r] \in SUBSET CountUniverse
  BY <1>1, <1>2 DEF CallTyped
<1>4. CallTyped'
  <2>1. CASE coversCalls(RegionCounts[r], markN'[Exec(g)][r])
    BY <2>1, <1>1, EventFields, DecidedTyped DEF ConsultRegion, Verdicts
  <2>2. CASE ~coversCalls(RegionCounts[r], markN'[Exec(g)][r])
    BY <2>2, <1>1, <1>3, EventFields, AfterRegionTyped DEF ConsultRegion
  <2>3. QED
    BY <2>1, <2>2
<1>5. markN' \in [Execs -> [Regions -> Nat]]
  <2>1. Exec(g) \in Execs
    BY <1>1, EventFields
  <2>2. markN[Exec(g)][r] \in Nat
    BY <2>1, <1>1, <1>2 DEF RestTyped
  <2>3. markN' = [markN EXCEPT ![Exec(g)] = [markN[Exec(g)] EXCEPT ![r] = markN[Exec(g)][r] + 1]]
    BY DEF ConsultRegion
  <2>4. QED
    BY <2>1, <2>2, <2>3, <1>1, <1>2 DEF RestTyped
<1>6. RestTyped'
  BY <1>1, <1>5 DEF RestTyped, ConsultRegion, listVars, finishVars
<1>7. QED
  BY <1>4, <1>6 DEF TypeOK, CallTyped, RestTyped

LEMMA ResolvedTyped ==
  ASSUME RestTyped, NEW e, NEW k
  PROVE  /\ Resolved(e, k) \subseteq entries
         /\ \A x \in Resolved(e, k) : x.key = k /\ Resolved(e, k) = {x}
BY DEF RestTyped, Resolved

LEMMA ConsultAllowlistTyped ==
  ASSUME TypeOK, NEW g \in Goroutines, ConsultAllowlist(g)
  PROVE  TypeOK'
<1>1. CallTyped /\ RestTyped
  BY TypeParts
<1> DEFINE found == Resolved(Exec(g), Key(g))
<1>2. found \subseteq entries /\ found \in SUBSET EntryObjects
  BY <1>1, ResolvedTyped DEF RestTyped
<1>3. CallTyped'
  <2>1. CASE found # {}
    BY <2>1, <1>1, <1>2 DEF ConsultAllowlist, CallTyped, Locations
  <2>2. CASE found = {}
    BY <2>2, <1>1, EventFields, DecidedTyped DEF ConsultAllowlist, Verdicts
  <2>3. QED
    BY <2>1, <2>2
<1>4. used' \subseteq entries
  BY <1>1, <1>2 DEF RestTyped, ConsultAllowlist, markUsed, Covering
<1>5. RestTyped'
  BY <1>1, <1>4 DEF RestTyped, ConsultAllowlist, scopeVars, finishVars
<1>6. QED
  BY <1>3, <1>5 DEF TypeOK, CallTyped, RestTyped

LEMMA NoteAllowlistTyped ==
  ASSUME TypeOK, NEW g \in Goroutines, NoteAllowlist(g)
  PROVE  TypeOK'
<1>1. CallTyped /\ RestTyped
  BY TypeParts
<1>2. PICK x \in consulted[g] :
        /\ noteDeclared(Exec(g), Key(g), x.counts)
        /\ IF coversCalls(x.counts, event[g].call)
           THEN Decided(g, event[g], "list", {})
           ELSE Decided(g, event[g], "violation", declined[g] \cup x.counts)
  BY DEF NoteAllowlist
<1>3. x.counts \in SUBSET CountUniverse
  <2>1. x \in EntryObjects
    BY <1>1 DEF CallTyped
  <2>2. QED
    BY <2>1, Declared
<1>4. CallTyped'
  BY <1>1, <1>2, EventFields, DecidedTyped DEF Verdicts
<1>5. declared' \in [Execs -> [Keys -> SUBSET CountUniverse]]
  BY <1>1, <1>2, <1>3, EventFields, NoteDeclaredTyped
<1>6. RestTyped'
  BY <1>1, <1>5 DEF RestTyped, NoteAllowlist, listVars, finishVars
<1>7. QED
  BY <1>4, <1>6 DEF TypeOK, CallTyped, RestTyped

LEMMA AddTyped ==
  ASSUME TypeOK, NEW x \in Addable, Add(x)
  PROVE  TypeOK'
<1> DEFINE new == EntryOf(x, adds + 1)
<1>1. adds + 1 \in 0..MaxAdds
  BY BoundsTyped DEF TypeOK, Add
<1>2. new \in EntryObjects /\ new.scope = x.scope /\ new.key = x.key
  BY <1>1 DEF EntryObjects, EntryOf
<1>3. entries' \subseteq EntryObjects /\ adds' \in 0..MaxAdds
  BY <1>1, <1>2 DEF TypeOK, Add
<1>4. used' \subseteq entries'
  BY DEF TypeOK, Add, Forgotten
<1>5. \A y, z \in entries' : y.scope = z.scope /\ y.key = z.key => y = z
  <2> HIDE DEF new
  <2>1. entries' = (entries \ {y \in entries : y.scope = x.scope /\ y.key = x.key}) \cup {new}
    BY DEF Add, new
  <2>2. \A y, z \in entries : y.scope = z.scope /\ y.key = z.key => y = z
    BY DEF TypeOK
  <2>3. QED
    BY <2>1, <2>2, <1>2
<1>6. CallTyped'
  BY TypeParts DEF CallTyped, Add, callVars
<1>7. RestTyped'
  BY <1>3, <1>4, <1>5, TypeParts DEF RestTyped, Add, scopeVars, finishVars
<1>8. QED
  BY <1>6, <1>7 DEF TypeOK, CallTyped, RestTyped

LEMMA ScopeStepTyped ==
  ASSUME TypeOK, NEW e \in Execs,
         FinishCalls(e) \/ \E r \in Regions : EnterRegion(e, r) \/ FinishMark(e, r)
  PROVE  TypeOK'
<1>1. CallTyped /\ RestTyped
  BY TypeParts
<1>2. CASE FinishCalls(e)
  <2>1. Registered(e) \in SUBSET CountedRegions /\ CallShortfalls(e) \in SUBSET Keys
    BY DEF Registered, CallShortfalls
  <2>2. RestTyped'
    BY <1>1, <1>2, <2>1 DEF RestTyped, FinishCalls, scopeVars, listVars
  <2>3. CallTyped'
    BY <1>1, <1>2 DEF CallTyped, FinishCalls, callVars
  <2>4. QED
    BY <2>2, <2>3 DEF TypeOK, CallTyped, RestTyped
<1>3. ASSUME NEW r \in Regions, EnterRegion(e, r)
      PROVE  TypeOK'
  <2>1. RestTyped'
    BY <1>1, <1>3 DEF RestTyped, EnterRegion, listVars, finishVars
  <2>2. CallTyped'
    BY <1>1, <1>3 DEF CallTyped, EnterRegion, callVars
  <2>3. QED
    BY <2>1, <2>2 DEF TypeOK, CallTyped, RestTyped
<1>4. ASSUME NEW r \in Regions, FinishMark(e, r)
      PROVE  TypeOK'
  <2>1. r \in CountedRegions
    BY <1>1, <1>4 DEF RestTyped, FinishMark
  <2>2. stale' \in [Execs -> SUBSET (Keys \cup CountedRegions)]
    BY <1>1, <1>4, <2>1 DEF RestTyped, FinishMark
  <2>3. RestTyped'
    BY <1>1, <1>4, <2>2 DEF RestTyped, FinishMark, scopeVars, listVars
  <2>4. CallTyped'
    BY <1>1, <1>4 DEF CallTyped, FinishMark, callVars
  <2>5. QED
    BY <2>3, <2>4 DEF TypeOK, CallTyped, RestTyped
<1>5. QED
  BY <1>2, <1>3, <1>4

-----------------------------------------------------------------------------
(* What a goroutine's step comes to: its event moves on or is decided. *)

Others(g) ==
  \A h \in Goroutines \ {g} :
    pc'[h] = pc[h] /\ event'[h] = event[h] /\ consulted'[h] = consulted[h]

Moved(g, l, x, c) ==
  /\ Others(g) /\ pc'[g] = l /\ event'[g] = x /\ consulted'[g] = c
  /\ log' = log

Ended(g, x, v) ==
  /\ Others(g) /\ pc'[g] = "idle" /\ event'[g] = NoEvent /\ consulted'[g] = {}
  /\ \E y : /\ y.event = x /\ y.verdict = v /\ y.by = consulted[g]
            /\ log' = log \cup {y}

\* The event of a call site that covers nothing goes to one of the later tiers.
Later(g, x) ==
  \/ x.site.region \in Regions /\ Moved(g, "mark", x, consulted[g])
  \/ HasAllowlist /\ Moved(g, "list", x, consulted[g])
  \/ ~HasAllowlist /\ Ended(g, x, "violation")

LEMMA FallMoves ==
  ASSUME CallTyped, NEW g \in Goroutines, NEW l, NEW x, NEW counts, FallThrough(g, l, x, counts)
  PROVE  Moved(g, l, x, consulted[g])
BY DEF CallTyped, FallThrough, Moved, Others

LEMMA DecidedEnds ==
  ASSUME CallTyped, NEW g \in Goroutines, NEW x, NEW v, NEW counts, Decided(g, x, v, counts)
  PROVE  Ended(g, x, v)
<1> DEFINE y == [event |-> x, verdict |-> v, allowedCalls |-> counts, by |-> consulted[g]]
<1>1. log' = log \cup {y} /\ y.event = x /\ y.verdict = v /\ y.by = consulted[g]
  BY DEF Decided
<1>2. /\ Others(g) /\ pc'[g] = "idle" /\ event'[g] = NoEvent /\ consulted'[g] = {}
  BY DEF Decided, Others, CallTyped
<1> HIDE DEF y
<1>3. QED
  BY <1>1, <1>2 DEF Ended

LEMMA AfterRegionOutcome ==
  ASSUME CallTyped, NEW g \in Goroutines, NEW x, NEW counts, AfterRegion(g, x, counts)
  PROVE  Later(g, x) /\ (~HasAllowlist => Ended(g, x, "violation"))
                     /\ (HasAllowlist => Moved(g, "list", x, consulted[g]))
<1>1. CASE HasAllowlist
  BY <1>1, FallMoves DEF AfterRegion, Later
<1>2. CASE ~HasAllowlist
  BY <1>2, DecidedEnds DEF AfterRegion, Later
<1>3. QED
  BY <1>1, <1>2

LEMMA AfterCallSiteOutcome ==
  ASSUME CallTyped, NEW g \in Goroutines, NEW x \in Events, NEW counts, AfterCallSite(g, x, counts)
  PROVE  Later(g, x)
<1>1. x.site.region \in Regions \cup {NoRegion}
  BY SiteFields DEF Events
<1>2. CASE x.site.region # NoRegion
  BY <1>1, <1>2, FallMoves DEF AfterCallSite, Later
<1>3. CASE x.site.region = NoRegion
  BY <1>3, AfterRegionOutcome DEF AfterCallSite
<1>4. QED
  BY <1>2, <1>3

LEMMA DecideAndReportOutcome ==
  ASSUME TypeOK, NEW g \in Goroutines, NEW e \in Execs, NEW s \in Sites, DecideAndReport(g, e, s),
         NEW x, x = [site |-> s, exec |-> e, call |-> n[e][s.key] + 1]
  PROVE  /\ x \in Events
         /\ IF s.allowed THEN Moved(g, "note", x, consulted[g]) ELSE Later(g, x)
<1>1. s.key \in Keys /\ n[e][s.key] \in Nat /\ n[e][s.key] < MaxEvents
  BY SiteFields, BoundsTyped DEF TypeOK, DecideAndReport, Calls
<1>2. n[e][s.key] + 1 \in Calls
  BY <1>1, BoundsTyped DEF Calls
<1>3. x \in Events
  BY <1>2 DEF Events
<1>4. IF s.allowed THEN FallThrough(g, "note", x, {}) ELSE AfterCallSite(g, x, {})
  BY DEF DecideAndReport, bumpCall
<1>5. CallTyped
  BY TypeParts
<1>6. CASE s.allowed
  BY <1>3, <1>4, <1>5, <1>6, FallMoves
<1>7. CASE ~s.allowed
  BY <1>3, <1>4, <1>5, <1>7, AfterCallSiteOutcome
<1>8. QED
  BY <1>6, <1>7

LEMMA ConsultCallSiteOutcome ==
  ASSUME TypeOK, NEW g \in Goroutines, ConsultCallSite(g)
  PROVE  IF coversCalls(Site(g).counts, event[g].call)
         THEN Ended(g, event[g], "callSite") ELSE Later(g, event[g])
<1>1. CallTyped /\ event[g] \in Events
  BY TypeParts, EventFields
<1>2. CASE coversCalls(Site(g).counts, event[g].call)
  BY <1>1, <1>2, DecidedEnds DEF ConsultCallSite
<1>3. CASE ~coversCalls(Site(g).counts, event[g].call)
  BY <1>1, <1>3, AfterCallSiteOutcome DEF ConsultCallSite
<1>4. QED
  BY <1>2, <1>3

LEMMA ConsultRegionOutcome ==
  ASSUME TypeOK, NEW g \in Goroutines, ConsultRegion(g)
  PROVE  IF coversCalls(RegionCounts[Site(g).region], markN'[Exec(g)][Site(g).region])
         THEN Ended(g, event[g], "region") ELSE Later(g, event[g])
<1>1. CallTyped
  BY TypeParts
<1> DEFINE covers == coversCalls(RegionCounts[Site(g).region], markN'[Exec(g)][Site(g).region])
<1>2. IF covers THEN Decided(g, event[g], "region", {})
      ELSE AfterRegion(g, event[g], declined[g] \cup RegionCounts[Site(g).region])
  BY DEF ConsultRegion
<1> HIDE DEF covers
<1>3. CASE covers
  BY <1>1, <1>2, <1>3, DecidedEnds DEF covers
<1>4. CASE ~covers
  BY <1>1, <1>2, <1>4, AfterRegionOutcome DEF covers
<1>5. QED
  BY <1>3, <1>4

LEMMA ConsultAllowlistOutcome ==
  ASSUME TypeOK, NEW g \in Goroutines, ConsultAllowlist(g)
  PROVE  LET found == Resolved(Exec(g), Key(g)) IN
         IF found # {} THEN Moved(g, "listNote", event[g], found)
         ELSE Ended(g, event[g], "violation")
<1>1. CallTyped
  BY TypeParts
<1> DEFINE found == Resolved(Exec(g), Key(g))
<1>2. CASE found # {}
  BY <1>1, <1>2 DEF ConsultAllowlist, CallTyped, Moved, Others
<1>3. CASE found = {}
  BY <1>1, <1>3, DecidedEnds DEF ConsultAllowlist
<1>4. QED
  BY <1>2, <1>3

LEMMA NoteAllowlistOutcome ==
  ASSUME TypeOK, NEW g \in Goroutines, NoteAllowlist(g)
  PROVE  \E x \in consulted[g] :
           /\ noteDeclared(Exec(g), Key(g), x.counts)
           /\ IF coversCalls(x.counts, event[g].call)
              THEN Ended(g, event[g], "list") ELSE Ended(g, event[g], "violation")
<1>1. PICK x \in consulted[g] :
        /\ noteDeclared(Exec(g), Key(g), x.counts)
        /\ IF coversCalls(x.counts, event[g].call)
           THEN Decided(g, event[g], "list", {})
           ELSE Decided(g, event[g], "violation", declined[g] \cup x.counts)
  BY DEF NoteAllowlist
<1>2. CallTyped
  BY TypeParts
<1>3. CASE coversCalls(x.counts, event[g].call)
  BY <1>1, <1>2, <1>3, DecidedEnds
<1>4. CASE ~coversCalls(x.counts, event[g].call)
  BY <1>1, <1>2, <1>4, DecidedEnds
<1>5. QED
  BY <1>3, <1>4

-----------------------------------------------------------------------------
(* What the calls carry along. *)

\* An event's index has been counted.
Within(x) == x.call \in 1..n[x.exec][x.site.key]

CallsWithin ==
  /\ \A g \in Goroutines : pc[g] # "idle" => Within(event[g])
  /\ \A y \in log : Within(y.event)

\* Only an allowed call site is consulted.
NoteAllowed == \A g \in Goroutines : pc[g] = "note" => Site(g).allowed

\* decide's result is one entry of the call's identity.
Holds(g, c) == \E x \in EntryObjects : c = {x} /\ x.key = Key(g) /\ x.id <= adds
Held ==
  \A g \in Goroutines : /\ pc[g] = "listNote" => Holds(g, consulted[g])
                        /\ pc[g] # "listNote" => consulted[g] = {}

\* No entry is younger than the last Add.
Aged ==
  /\ \A x \in entries : x.id <= adds
  /\ \A y \in log : \A x \in y.by : x \in EntryObjects /\ x.id <= adds

FrameInv == CallsWithin /\ MarkSited /\ NoteAllowed /\ Held /\ Aged

\* The identities' counters only grow and the list stays.
Counting ==
  /\ \A e \in Execs, k \in Keys : n'[e][k] >= n[e][k]
  /\ entries' = entries /\ adds' = adds

LEMMA WithinGrows ==
  ASSUME TypeOK, TypeOK', \A e \in Execs, k \in Keys : n'[e][k] >= n[e][k],
         NEW x \in Events, Within(x)
  PROVE  x.call \in 1..n'[x.exec][x.site.key]
<1> DEFINE e == x.exec  k == x.site.key
<1>1. e \in Execs /\ k \in Keys /\ x.call \in Int
  BY SiteFields, BoundsTyped DEF Events, Calls
<1>2. n[e][k] \in Int /\ n'[e][k] \in Int
  BY <1>1, BoundsTyped DEF TypeOK, Calls
<1>3. n'[e][k] >= n[e][k] /\ x.call \in 1..n[e][k]
  BY <1>1 DEF Within
<1> HIDE DEF e, k
<1>4. x.call \in 1..n'[e][k]
  BY <1>1, <1>2, <1>3
<1>5. QED
  BY <1>4 DEF e, k

LEMMA MovedFrame ==
  ASSUME TypeOK, TypeOK', FrameInv, Counting, NEW g \in Goroutines, NEW l, NEW x \in Events, NEW c,
         Moved(g, l, x, c), l # "idle", x.call \in 1..n'[x.exec][x.site.key],
         l = "mark" => x.site.region \in Regions, l = "note" => x.site.allowed,
         l = "listNote" => \E y \in EntryObjects : c = {y} /\ y.key = x.site.key /\ y.id <= adds,
         l # "listNote" => c = {}
  PROVE  FrameInv'
<1>1. CallsWithin'
  <2>1. \A h \in Goroutines : pc'[h] # "idle" => Within(event[h])'
    <3>1. SUFFICES ASSUME NEW h \in Goroutines, pc'[h] # "idle"
                   PROVE  Within(event[h])'
      OBVIOUS
    <3>2. CASE h = g
      BY <3>2 DEF Moved, Within
    <3>3. CASE h # g
      <4>1. pc[h] # "idle" /\ event'[h] = event[h] /\ event[h] \in Events /\ Within(event[h])
        BY <3>1, <3>3 DEF Moved, Others, FrameInv, CallsWithin, TypeOK
      <4>2. QED
        BY <4>1, WithinGrows DEF Counting, Within
    <3>4. QED
      BY <3>2, <3>3
  <2>2. \A y \in log' : Within(y.event)'
    <3>1. \A y \in log : y.event \in Events /\ Within(y.event)
      BY DEF TypeOK, FrameInv, CallsWithin
    <3>2. \A y \in log : y.event.call \in 1..n'[y.event.exec][y.event.site.key]
      BY <3>1, WithinGrows DEF Counting
    <3>3. QED
      BY <3>2 DEF Moved, Within
  <2>3. QED
    BY <2>1, <2>2 DEF CallsWithin
<1>2. MarkSited' /\ NoteAllowed'
  BY DEF Moved, Others, FrameInv, MarkSited, NoteAllowed, Site
<1>3. Held'
  BY DEF Moved, Others, FrameInv, Held, Holds, Key, Site, Counting
<1>4. Aged'
  BY DEF Moved, FrameInv, Aged, Counting
<1>5. QED
  BY <1>1, <1>2, <1>3, <1>4 DEF FrameInv

LEMMA EndedFrame ==
  ASSUME TypeOK, TypeOK', FrameInv, Counting, NEW g \in Goroutines, NEW x \in Events, NEW v,
         Ended(g, x, v), x.call \in 1..n'[x.exec][x.site.key]
  PROVE  FrameInv'
<1>1. PICK z : /\ z.event = x /\ z.verdict = v /\ z.by = consulted[g]
               /\ log' = log \cup {z}
  BY DEF Ended
<1>2. CallsWithin'
  <2>1. \A h \in Goroutines : pc'[h] # "idle" => Within(event[h])'
    <3>1. SUFFICES ASSUME NEW h \in Goroutines, pc'[h] # "idle"
                   PROVE  Within(event[h])'
      OBVIOUS
    <3>2. pc[h] # "idle" /\ event'[h] = event[h] /\ event[h] \in Events /\ Within(event[h])
      BY <3>1 DEF Ended, Others, FrameInv, CallsWithin, TypeOK
    <3>3. QED
      BY <3>2, WithinGrows DEF Counting, Within
  <2>2. \A y \in log : y.event \in Events /\ Within(y.event)
    BY DEF TypeOK, FrameInv, CallsWithin
  <2>3. \A y \in log : y.event.call \in 1..n'[y.event.exec][y.event.site.key]
    BY <2>2, WithinGrows DEF Counting
  <2>4. \A y \in log' : y.event.call \in 1..n'[y.event.exec][y.event.site.key]
    BY <2>3, <1>1
  <2>5. QED
    BY <2>1, <2>4 DEF CallsWithin, Within
<1>3. MarkSited' /\ NoteAllowed'
  BY DEF Ended, Others, FrameInv, MarkSited, NoteAllowed, Site
<1>4. Held'
  BY DEF Ended, Others, FrameInv, Held, Holds, Key, Site, Counting
<1>5. Aged'
  <2>1. \A y \in consulted[g] : y \in EntryObjects /\ y.id <= adds
    BY DEF FrameInv, Held, Holds
  <2>2. QED
    BY <1>1, <2>1 DEF FrameInv, Aged, Counting
<1>6. QED
  BY <1>2, <1>3, <1>4, <1>5 DEF FrameInv

LEMMA LaterFrame ==
  ASSUME TypeOK, TypeOK', FrameInv, Counting, NEW g \in Goroutines, NEW x \in Events,
         Later(g, x), consulted[g] = {}, x.call \in 1..n'[x.exec][x.site.key]
  PROVE  FrameInv'
<1>1. CASE x.site.region \in Regions /\ Moved(g, "mark", x, consulted[g])
  BY <1>1, MovedFrame
<1>2. CASE HasAllowlist /\ Moved(g, "list", x, consulted[g])
  BY <1>2, MovedFrame
<1>3. CASE ~HasAllowlist /\ Ended(g, x, "violation")
  BY <1>3, EndedFrame
<1>4. QED
  BY <1>1, <1>2, <1>3 DEF Later

LEMMA InFlightWithin ==
  ASSUME TypeOK, FrameInv, NEW g \in Goroutines, pc[g] # "idle", n' = n
  PROVE  /\ event[g] \in Events
         /\ event[g].call \in 1..n'[event[g].exec][event[g].site.key]
         /\ pc[g] # "listNote" => consulted[g] = {}
BY DEF TypeOK, FrameInv, CallsWithin, Within, Held

LEMMA DecideAndReportFrame ==
  ASSUME TypeOK, TypeOK', FrameInv, NEW g \in Goroutines, NEW e \in Execs, NEW s \in Sites,
         DecideAndReport(g, e, s)
  PROVE  /\ FrameInv' /\ Counting
         /\ consulted[g] = {} /\ pc[g] = "idle" /\ s.key \in Keys
         /\ n'[e][s.key] = n[e][s.key] + 1 /\ n[e][s.key] \in Nat
         /\ \A d \in Execs, k \in Keys : d # e \/ k # s.key => n'[d][k] = n[d][k]
<1> DEFINE x == [site |-> s, exec |-> e, call |-> n[e][s.key] + 1]
<1>1. /\ x \in Events
      /\ IF s.allowed THEN Moved(g, "note", x, consulted[g]) ELSE Later(g, x)
  BY DecideAndReportOutcome
<1>2. s.key \in Keys /\ \A d \in Execs, k \in Keys : n[d][k] \in Nat
  BY SiteFields, BoundsTyped DEF TypeOK, Calls
<1>3. /\ n'[e][s.key] = n[e][s.key] + 1
      /\ \A d \in Execs, k \in Keys : d # e \/ k # s.key => n'[d][k] = n[d][k]
  BY <1>2 DEF TypeOK, DecideAndReport
<1>4. \A d \in Execs, k \in Keys : n'[d][k] >= n[d][k]
  <2>1. SUFFICES ASSUME NEW d \in Execs, NEW k \in Keys
                 PROVE  n'[d][k] >= n[d][k]
    OBVIOUS
  <2>2. CASE d = e /\ k = s.key
    BY <1>2, <1>3, <2>2
  <2>3. CASE d # e \/ k # s.key
    BY <1>2, <1>3, <2>3
  <2>4. QED
    BY <2>2, <2>3
<1>5. Counting
  BY <1>4 DEF Counting, DecideAndReport, listVars
<1>6. consulted[g] = {} /\ pc[g] = "idle"
  BY DEF DecideAndReport, FrameInv, Held
<1>7. x.call \in 1..n'[x.exec][x.site.key] /\ x.site = s
  BY <1>2, <1>3
<1> HIDE DEF x
<1>8. FrameInv'
  <2>1. CASE s.allowed
    BY <1>1, <1>5, <1>6, <1>7, <2>1, MovedFrame
  <2>2. CASE ~s.allowed
    BY <1>1, <1>5, <1>6, <1>7, <2>2, LaterFrame
  <2>3. QED
    BY <2>1, <2>2
<1>9. QED
  BY <1>2, <1>3, <1>5, <1>6, <1>8

LEMMA CountingSame ==
  ASSUME TypeOK, n' = n, entries' = entries, adds' = adds
  PROVE  Counting
<1>1. \A e \in Execs, k \in Keys : n[e][k] \in Int
  BY BoundsTyped DEF TypeOK, Calls
<1>2. QED
  BY <1>1 DEF Counting

LEMMA ConsultCallSiteFrame ==
  ASSUME TypeOK, TypeOK', FrameInv, NEW g \in Goroutines, ConsultCallSite(g)
  PROVE  FrameInv'
<1>1. Counting /\ n' = n /\ pc[g] = "note"
  BY CountingSame DEF ConsultCallSite, listVars
<1>2. CASE coversCalls(Site(g).counts, event[g].call)
  BY <1>1, <1>2, InFlightWithin, ConsultCallSiteOutcome, EndedFrame
<1>3. CASE ~coversCalls(Site(g).counts, event[g].call)
  BY <1>1, <1>3, InFlightWithin, ConsultCallSiteOutcome, LaterFrame
<1>4. QED
  BY <1>2, <1>3

LEMMA ConsultRegionFrame ==
  ASSUME TypeOK, TypeOK', FrameInv, NEW g \in Goroutines, ConsultRegion(g)
  PROVE  FrameInv'
<1>1. Counting /\ n' = n /\ pc[g] = "mark"
  BY CountingSame DEF ConsultRegion, listVars
<1>2. Ended(g, event[g], "region") \/ Later(g, event[g])
  BY ConsultRegionOutcome
<1>3. QED
  BY <1>1, <1>2, InFlightWithin, EndedFrame, LaterFrame

LEMMA ConsultAllowlistFrame ==
  ASSUME TypeOK, TypeOK', FrameInv, NEW g \in Goroutines, ConsultAllowlist(g)
  PROVE  FrameInv'
<1> DEFINE found == Resolved(Exec(g), Key(g))
<1>1. Counting /\ n' = n /\ pc[g] = "list"
  BY CountingSame DEF ConsultAllowlist, scopeVars
<1>2. IF found # {} THEN Moved(g, "listNote", event[g], found)
      ELSE Ended(g, event[g], "violation")
  BY ConsultAllowlistOutcome
<1>3. /\ event[g] \in Events
      /\ event[g].call \in 1..n'[event[g].exec][event[g].site.key]
  BY <1>1, InFlightWithin
<1>4. CASE found # {}
  <2>1. PICK y \in found : found = {y} /\ y.key = Key(g) /\ y \in entries
    BY <1>4, TypeParts, ResolvedTyped
  <2>2. y \in EntryObjects /\ y.id <= adds /\ y.key = event[g].site.key
    BY <2>1 DEF TypeOK, FrameInv, Aged, Key, Site
  <2> HIDE DEF found
  <2>3. QED
    BY <1>1, <1>2, <1>3, <1>4, <2>1, <2>2, MovedFrame
<1>5. CASE found = {}
  BY <1>1, <1>2, <1>3, <1>5, EndedFrame
<1>6. QED
  BY <1>4, <1>5

LEMMA NoteAllowlistFrame ==
  ASSUME TypeOK, TypeOK', FrameInv, NEW g \in Goroutines, NoteAllowlist(g)
  PROVE  FrameInv'
<1>1. Counting /\ n' = n /\ pc[g] = "listNote"
  BY CountingSame DEF NoteAllowlist, listVars
<1>2. Ended(g, event[g], "list") \/ Ended(g, event[g], "violation")
  BY NoteAllowlistOutcome
<1>3. QED
  BY <1>1, <1>2, InFlightWithin, EndedFrame

LEMMA AddFrame ==
  ASSUME TypeOK, FrameInv, NEW x \in Addable, Add(x)
  PROVE  FrameInv'
<1>1. /\ n' = n /\ pc' = pc /\ event' = event /\ consulted' = consulted /\ log' = log
      /\ adds' = adds + 1 /\ adds \in Int
  BY BoundsTyped DEF Add, scopeVars, callVars, TypeOK
<1>2. CallsWithin' /\ MarkSited' /\ NoteAllowed'
  BY <1>1 DEF FrameInv, CallsWithin, MarkSited, NoteAllowed, Within, Site
<1>3. \A y \in EntryObjects : y.id <= adds => y.id <= adds'
  BY <1>1, Declared
<1>4. Held'
  <2>1. \A g \in Goroutines : Holds(g, consulted[g]) => Holds(g, consulted[g])'
    BY <1>1, <1>3 DEF Holds, Key, Site
  <2>2. QED
    BY <1>1, <2>1 DEF FrameInv, Held
<1>5. \A y \in entries' : y.id <= adds'
  <2>1. \A y \in entries : y.id <= adds'
    BY <1>3 DEF TypeOK, FrameInv, Aged
  <2>2. EntryOf(x, adds + 1).id <= adds'
    BY <1>1 DEF EntryOf
  <2>3. QED
    BY <2>1, <2>2 DEF Add
<1>6. \A y \in log : \A z \in y.by : z \in EntryObjects /\ z.id <= adds'
  BY <1>1, <1>3 DEF FrameInv, Aged
<1>7. QED
  BY <1>1, <1>2, <1>4, <1>5, <1>6 DEF FrameInv, Aged

\* Neither a finish nor a region's entry touches a call.
LEMMA ScopeStepQuiet ==
  ASSUME NEW e \in Execs,
         FinishCalls(e) \/ \E r \in Regions : EnterRegion(e, r) \/ FinishMark(e, r)
  PROVE  /\ n' = n /\ declared' = declared /\ markN' = markN
         /\ entries' = entries /\ used' = used /\ adds' = adds
         /\ pc' = pc /\ event' = event /\ consulted' = consulted /\ log' = log
BY DEF FinishCalls, EnterRegion, FinishMark, scopeVars, listVars, callVars

LEMMA QuietFrame ==
  ASSUME FrameInv, n' = n, entries' = entries, adds' = adds, pc' = pc, event' = event,
         consulted' = consulted, log' = log
  PROVE  FrameInv'
BY DEF FrameInv, CallsWithin, Within, MarkSited, NoteAllowed, Held, Holds, Aged, Site, Key

LEMMA InitFrame == Init => TypeOK /\ FrameInv
<1> SUFFICES ASSUME Init PROVE TypeOK /\ FrameInv
  OBVIOUS
<1>1. 0 \in Calls /\ 0 \in 0..MaxAdds
  BY BoundsTyped DEF Calls
<1>2. entries \subseteq EntryObjects /\ \A x, y \in entries : x.scope = y.scope /\ x.key = y.key => x = y
  BY <1>1, CountsTyped DEF Init, EntryObjects, EntryOf
<1>3. CallTyped
  BY NoEventTyped DEF Init, CallTyped, Locations
<1>4. RestTyped
  BY <1>1, <1>2 DEF Init, RestTyped
<1>5. CallsWithin /\ MarkSited /\ NoteAllowed /\ Held
  BY DEF Init, CallsWithin, MarkSited, NoteAllowed, Held
<1>6. Aged
  BY <1>1, BoundsTyped DEF Init, Aged, EntryOf
<1>7. QED
  BY <1>3, <1>4, <1>5, <1>6, TypeParts DEF FrameInv

LEMMA NextFrame ==
  ASSUME TypeOK, FrameInv, [Next]_vars
  PROVE  TypeOK' /\ FrameInv'
<1>1. ASSUME NEW g \in Goroutines, NEW e \in Execs, NEW s \in Sites, DecideAndReport(g, e, s)
      PROVE  TypeOK' /\ FrameInv'
  <2>1. TypeOK'
    BY <1>1, DecideAndReportTyped
  <2>2. QED
    BY <1>1, <2>1, DecideAndReportFrame
<1>2. ASSUME NEW g \in Goroutines, ConsultCallSite(g)
      PROVE  TypeOK' /\ FrameInv'
  BY <1>2, ConsultCallSiteTyped, ConsultCallSiteFrame
<1>3. ASSUME NEW g \in Goroutines, ConsultRegion(g)
      PROVE  TypeOK' /\ FrameInv'
  <2>1. TypeOK'
    BY <1>3, ConsultRegionTyped DEF FrameInv
  <2>2. QED
    BY <1>3, <2>1, ConsultRegionFrame
<1>4. ASSUME NEW g \in Goroutines, ConsultAllowlist(g)
      PROVE  TypeOK' /\ FrameInv'
  BY <1>4, ConsultAllowlistTyped, ConsultAllowlistFrame
<1>5. ASSUME NEW g \in Goroutines, NoteAllowlist(g)
      PROVE  TypeOK' /\ FrameInv'
  BY <1>5, NoteAllowlistTyped, NoteAllowlistFrame
<1>6. ASSUME NEW e \in Execs,
             FinishCalls(e) \/ \E r \in Regions : EnterRegion(e, r) \/ FinishMark(e, r)
      PROVE  TypeOK' /\ FrameInv'
  <2>1. TypeOK'
    BY <1>6, ScopeStepTyped
  <2>2. FrameInv'
    BY <1>6, ScopeStepQuiet, QuietFrame
  <2>3. QED
    BY <2>1, <2>2
<1>7. ASSUME NEW x \in Addable, Add(x)
      PROVE  TypeOK' /\ FrameInv'
  BY <1>7, AddTyped, AddFrame
<1>8. CASE UNCHANGED vars
  <2>1. TypeOK'
    BY <1>8 DEF TypeOK, vars, scopeVars, listVars, finishVars, callVars
  <2>2. FrameInv'
    BY <1>8, QuietFrame DEF vars, scopeVars, listVars, callVars
  <2>3. QED
    BY <2>1, <2>2
<1>9. QED
  BY <1>1, <1>2, <1>3, <1>4, <1>5, <1>6, <1>7, <1>8 DEF Next

\* Calls never lose what they carry along.
THEOREM CallsFramed == Spec => [](TypeOK /\ FrameInv)
<1>1. Init => TypeOK /\ FrameInv
  BY InitFrame
<1>2. TypeOK /\ FrameInv /\ [Next]_vars => (TypeOK /\ FrameInv)'
  BY NextFrame
<1>3. QED
  BY <1>1, <1>2, PTL DEF Spec

\* Every variable keeps its type: a call's index stays within the identity's
\* count, a flag is set only on an entry of the list, and only counted
\* declarations are ever found stale (check.go, allow.go, allowlist.go).
THEOREM TypeCorrect == Spec => []TypeOK
BY CallsFramed, PTL

-----------------------------------------------------------------------------
(* The flags of the Allowlist's entries. *)

\* Entry x has covered a decided event, or the one a goroutine still holds.
Traced(x) ==
  \/ \E y \in log : y.verdict = "list" /\ y.by = {x}
  \/ \E h \in Goroutines : /\ pc[h] = "listNote"
                           /\ x \in Covering(consulted[h], event[h].call)

LEMMA UsedTraced ==
  TypeOK => (UsedMeansSuppressed <=> \A x \in entries : x \in used <=> Traced(x))
BY DEF UsedMeansSuppressed, UnusedEntries, Traced

LEMMA TracedMoved ==
  ASSUME NEW g \in Goroutines, NEW l, NEW z, NEW c, NEW x, Moved(g, l, z, c),
         pc[g] # "listNote", l # "listNote"
  PROVE  Traced(x)' <=> Traced(x)
BY DEF Moved, Others, Traced, Covering

LEMMA TracedEnded ==
  ASSUME NEW g \in Goroutines, NEW z, NEW v, NEW x, Ended(g, z, v), v # "list",
         pc[g] = "listNote" => x \notin Covering(consulted[g], event[g].call)
  PROVE  Traced(x)' <=> Traced(x)
<1>1. PICK y : /\ y.verdict = v /\ log' = log \cup {y}
  BY DEF Ended
<1>2. (\E u \in log' : u.verdict = "list" /\ u.by = {x})
        <=> (\E u \in log : u.verdict = "list" /\ u.by = {x})
  BY <1>1
<1>3. ASSUME NEW h \in Goroutines
      PROVE  (pc[h] = "listNote" /\ x \in Covering(consulted[h], event[h].call))'
               <=> (pc[h] = "listNote" /\ x \in Covering(consulted[h], event[h].call))
  <2>1. CASE h = g
    BY <2>1 DEF Ended
  <2>2. CASE h # g
    BY <2>2 DEF Ended, Others, Covering
  <2>3. QED
    BY <2>1, <2>2
<1>4. QED
  BY <1>2, <1>3 DEF Traced

LEMMA TracedLater ==
  ASSUME NEW g \in Goroutines, NEW z, NEW x, Later(g, z), pc[g] # "listNote"
  PROVE  Traced(x)' <=> Traced(x)
<1>1. CASE Moved(g, "mark", z, consulted[g])
  BY <1>1, TracedMoved
<1>2. CASE Moved(g, "list", z, consulted[g])
  BY <1>2, TracedMoved
<1>3. CASE Ended(g, z, "violation")
  BY <1>3, TracedEnded
<1>4. QED
  BY <1>1, <1>2, <1>3 DEF Later

\* The list's entries and their flags stay, and so does what they have covered.
LEMMA UsedSame ==
  ASSUME TypeOK, TypeOK', UsedMeansSuppressed, entries' = entries, used' = used,
         \A x \in entries : Traced(x)' <=> Traced(x)
  PROVE  UsedMeansSuppressed'
<1>1. \A x \in entries : x \in used <=> Traced(x)
  BY UsedTraced
<1>2. \A x \in entries' : x \in used' <=> Traced(x)'
  BY <1>1
<1>3. QED
  BY <1>2 DEF UsedMeansSuppressed, UnusedEntries, Traced

LEMMA CallsUsed ==
  ASSUME TypeOK, TypeOK', FrameInv, UsedMeansSuppressed, NEW g \in Goroutines,
         \/ \E e \in Execs, s \in Sites : DecideAndReport(g, e, s)
         \/ ConsultCallSite(g) \/ ConsultRegion(g)
  PROVE  UsedMeansSuppressed'
<1>1. ASSUME NEW e \in Execs, NEW s \in Sites, DecideAndReport(g, e, s)
      PROVE  UsedMeansSuppressed'
  <2> DEFINE z == [site |-> s, exec |-> e, call |-> n[e][s.key] + 1]
  <2>1. pc[g] = "idle" /\ entries' = entries /\ used' = used
    BY <1>1 DEF DecideAndReport, listVars
  <2>2. IF s.allowed THEN Moved(g, "note", z, consulted[g]) ELSE Later(g, z)
    BY <1>1, DecideAndReportOutcome
  <2> HIDE DEF z
  <2>3. \A x \in entries : Traced(x)' <=> Traced(x)
    BY <2>1, <2>2, TracedMoved, TracedLater
  <2>4. QED
    BY <2>1, <2>3, UsedSame
<1>2. CASE ConsultCallSite(g)
  <2>1. pc[g] = "note" /\ entries' = entries /\ used' = used
    BY <1>2 DEF ConsultCallSite, listVars
  <2>2. Ended(g, event[g], "callSite") \/ Later(g, event[g])
    BY <1>2, ConsultCallSiteOutcome
  <2>3. \A x \in entries : Traced(x)' <=> Traced(x)
    BY <2>1, <2>2, TracedEnded, TracedLater
  <2>4. QED
    BY <2>1, <2>3, UsedSame
<1>3. CASE ConsultRegion(g)
  <2>1. pc[g] = "mark" /\ entries' = entries /\ used' = used
    BY <1>3 DEF ConsultRegion, listVars
  <2>2. Ended(g, event[g], "region") \/ Later(g, event[g])
    BY <1>3, ConsultRegionOutcome
  <2>3. \A x \in entries : Traced(x)' <=> Traced(x)
    BY <2>1, <2>2, TracedEnded, TracedLater
  <2>4. QED
    BY <2>1, <2>3, UsedSame
<1>4. QED
  BY <1>1, <1>2, <1>3

LEMMA ConsultAllowlistUsed ==
  ASSUME TypeOK, TypeOK', FrameInv, UsedMeansSuppressed, NEW g \in Goroutines, ConsultAllowlist(g)
  PROVE  UsedMeansSuppressed'
<1> DEFINE found == Resolved(Exec(g), Key(g))
<1>1. /\ pc[g] = "list" /\ entries' = entries
      /\ used' = used \cup Covering(found, event[g].call)
  BY DEF ConsultAllowlist, markUsed
<1>2. IF found # {} THEN Moved(g, "listNote", event[g], found)
      ELSE Ended(g, event[g], "violation")
  BY ConsultAllowlistOutcome
<1> HIDE DEF found
<1>3. CASE found # {}
  <2>1. ASSUME NEW x \in entries
        PROVE  Traced(x)' <=> Traced(x) \/ x \in Covering(found, event[g].call)
    BY <1>1, <1>2, <1>3 DEF Moved, Others, Traced, Covering
  <2>2. \A x \in entries : x \in used <=> Traced(x)
    BY UsedTraced
  <2>3. \A x \in entries' : x \in used' <=> Traced(x)'
    BY <1>1, <2>1, <2>2
  <2>4. QED
    BY <2>3 DEF UsedMeansSuppressed, UnusedEntries, Traced
<1>4. CASE found = {}
  <2>1. used' = used
    BY <1>1, <1>4 DEF Covering
  <2>2. \A x \in entries : Traced(x)' <=> Traced(x)
    BY <1>1, <1>2, <1>4, TracedEnded
  <2>3. QED
    BY <1>1, <2>1, <2>2, UsedSame
<1>5. QED
  BY <1>3, <1>4

LEMMA NoteAllowlistUsed ==
  ASSUME TypeOK, TypeOK', FrameInv, UsedMeansSuppressed, NEW g \in Goroutines, NoteAllowlist(g)
  PROVE  UsedMeansSuppressed'
<1>1. pc[g] = "listNote" /\ entries' = entries /\ used' = used
  BY DEF NoteAllowlist, listVars
<1>2. PICK z \in consulted[g] :
        IF coversCalls(z.counts, event[g].call)
        THEN Ended(g, event[g], "list") ELSE Ended(g, event[g], "violation")
  BY NoteAllowlistOutcome
<1>3. consulted[g] = {z}
  BY <1>1, <1>2 DEF FrameInv, Held, Holds
<1>4. CASE coversCalls(z.counts, event[g].call)
  <2>1. PICK y : y.verdict = "list" /\ y.by = {z} /\ log' = log \cup {y}
    BY <1>2, <1>3, <1>4 DEF Ended
  <2>2. \A h \in Goroutines : pc'[h] = "listNote" =>
           pc[h] = "listNote" /\ consulted'[h] = consulted[h] /\ event'[h] = event[h]
    BY <1>2, <1>4 DEF Ended, Others
  <2>3. \A h \in Goroutines \ {g} : pc'[h] = pc[h] /\ consulted'[h] = consulted[h] /\ event'[h] = event[h]
    BY <1>2, <1>4 DEF Ended, Others
  <2>4. ASSUME NEW x \in entries
        PROVE  Traced(x)' <=> Traced(x)
    <3>1. CASE x = z
      <4>1. Traced(x)'
        BY <2>1, <3>1 DEF Traced
      <4>2. Traced(x)
        BY <1>1, <1>3, <1>4, <3>1 DEF Traced, Covering
      <4>3. QED
        BY <4>1, <4>2
    <3>2. CASE x # z
      <4>1. (\E u \in log' : u.verdict = "list" /\ u.by = {x})
              <=> (\E u \in log : u.verdict = "list" /\ u.by = {x})
        BY <2>1, <3>2
      <4>2. x \notin Covering(consulted[g], event[g].call)
        BY <1>3, <3>2 DEF Covering
      <4>3. QED
        BY <2>2, <2>3, <4>1, <4>2 DEF Traced, Covering
    <3>3. QED
      BY <3>1, <3>2
  <2>5. QED
    BY <1>1, <2>4, UsedSame
<1>5. CASE ~coversCalls(z.counts, event[g].call)
  <2>1. \A x : x \notin Covering(consulted[g], event[g].call)
    BY <1>3, <1>5 DEF Covering
  <2>2. \A x \in entries : Traced(x)' <=> Traced(x)
    BY <1>2, <1>5, <2>1, TracedEnded
  <2>3. QED
    BY <1>1, <2>2, UsedSame
<1>6. QED
  BY <1>4, <1>5

LEMMA AddUsed ==
  ASSUME TypeOK, TypeOK', FrameInv, UsedMeansSuppressed, NEW x \in Addable, Add(x)
  PROVE  UsedMeansSuppressed'
<1> DEFINE new == EntryOf(x, adds + 1)
           old == {y \in entries : y.scope = x.scope /\ y.key = x.key}
<1>1. /\ entries' = (entries \ old) \cup {new} /\ used' = used \ old
      /\ pc' = pc /\ event' = event /\ consulted' = consulted /\ log' = log
  BY DEF Add, Forgotten, callVars
<1>2. new.id = adds + 1 /\ adds \in Int
  BY BoundsTyped DEF EntryOf, TypeOK
<1> HIDE DEF new, old
<1>3. \A y : Traced(y)' <=> Traced(y)
  BY <1>1 DEF Traced, Covering
<1>4. \A y \in entries : y \in used <=> Traced(y)
  BY UsedTraced
<1>5. ~Traced(new) /\ new \notin used
  <2>1. \A y \in EntryObjects : y.id <= adds => y # new
    BY <1>2, Declared
  <2>2. \A y \in log : y.by # {new}
    BY <2>1 DEF FrameInv, Aged
  <2>3. \A h \in Goroutines : new \notin consulted[h]
    BY <2>1 DEF FrameInv, Held, Holds
  <2>4. new \notin used
    BY <2>1 DEF FrameInv, Aged, TypeOK
  <2>5. QED
    BY <2>2, <2>3, <2>4 DEF Traced, Covering
<1>6. \A y \in entries' : y \in used' <=> Traced(y)'
  BY <1>1, <1>3, <1>4, <1>5
<1>7. QED
  BY <1>6 DEF UsedMeansSuppressed, UnusedEntries, Traced

LEMMA NextUsed ==
  ASSUME TypeOK, FrameInv, UsedMeansSuppressed, [Next]_vars
  PROVE  UsedMeansSuppressed'
<1>1. TypeOK' /\ FrameInv'
  BY NextFrame
<1>2. ASSUME NEW g \in Goroutines,
             \/ \E e \in Execs, s \in Sites : DecideAndReport(g, e, s)
             \/ ConsultCallSite(g) \/ ConsultRegion(g)
      PROVE  UsedMeansSuppressed'
  BY <1>1, <1>2, CallsUsed
<1>3. ASSUME NEW g \in Goroutines, ConsultAllowlist(g)
      PROVE  UsedMeansSuppressed'
  BY <1>1, <1>3, ConsultAllowlistUsed
<1>4. ASSUME NEW g \in Goroutines, NoteAllowlist(g)
      PROVE  UsedMeansSuppressed'
  BY <1>1, <1>4, NoteAllowlistUsed
<1>5. ASSUME NEW x \in Addable, Add(x)
      PROVE  UsedMeansSuppressed'
  BY <1>1, <1>5, AddUsed
<1>6. ASSUME NEW e \in Execs,
             FinishCalls(e) \/ \E r \in Regions : EnterRegion(e, r) \/ FinishMark(e, r)
      PROVE  UsedMeansSuppressed'
  BY <1>6, ScopeStepQuiet DEF UsedMeansSuppressed, UnusedEntries, Covering
<1>7. CASE UNCHANGED vars
  BY <1>7 DEF UsedMeansSuppressed, UnusedEntries, Covering, vars, scopeVars, listVars, callVars
<1>8. QED
  BY <1>2, <1>3, <1>4, <1>5, <1>6, <1>7 DEF Next

\* However calls, replacements and finishes interleave, an Allowlist entry is
\* reported unused unless that very entry has covered an event (decide and
\* UnusedEntries, allowlist.go).
THEOREM FlagsTellSuppression == Spec => []UsedMeansSuppressed
<1>1. Init => TypeOK /\ FrameInv /\ UsedMeansSuppressed
  <2>1. Init => UsedMeansSuppressed
    BY DEF Init, UsedMeansSuppressed, UnusedEntries
  <2>2. QED
    BY <2>1, InitFrame
<1>2. TypeOK /\ FrameInv /\ UsedMeansSuppressed /\ [Next]_vars
        => (TypeOK /\ FrameInv /\ UsedMeansSuppressed)'
  BY NextFrame, NextUsed
<1>3. QED
  BY <1>1, <1>2, PTL DEF Spec

-----------------------------------------------------------------------------
(* Every counted call is decided or on its way. *)

\* Event x belongs to identity k of execution e.
Of(x, e, k) == x.exec = e /\ x.site.key = k

Accounted(e, k, i) ==
  \/ \E y \in log : Of(y.event, e, k) /\ y.event.call = i
  \/ \E g \in Goroutines : pc[g] # "idle" /\ Of(event[g], e, k) /\ event[g].call = i

CoveredInv == \A e \in Execs, k \in Keys : \A i \in 1..n[e][k] : Accounted(e, k, i)

Handles(g, x) ==
  \/ \E l, c : l # "idle" /\ Moved(g, l, x, c)
  \/ \E v : Ended(g, x, v)

LEMMA LaterHandles ==
  ASSUME NEW g \in Goroutines, NEW x, Later(g, x)
  PROVE  Handles(g, x)
<1>1. CASE Moved(g, "mark", x, consulted[g])
  BY <1>1 DEF Handles
<1>2. CASE Moved(g, "list", x, consulted[g])
  BY <1>2 DEF Handles
<1>3. CASE Ended(g, x, "violation")
  BY <1>3 DEF Handles
<1>4. QED
  BY <1>1, <1>2, <1>3 DEF Later

LEMMA AccountedHandled ==
  ASSUME NEW g \in Goroutines, NEW x, Handles(g, x), pc[g] # "idle" => x = event[g],
         NEW e, NEW k, NEW i,
         Accounted(e, k, i) \/ (Of(x, e, k) /\ x.call = i)
  PROVE  Accounted(e, k, i)'
<1>1. CASE \E l, c : l # "idle" /\ Moved(g, l, x, c)
  <2>1. /\ Others(g) /\ pc'[g] # "idle" /\ event'[g] = x /\ log' = log
    BY <1>1 DEF Moved
  <2>2. CASE Of(x, e, k) /\ x.call = i
    BY <2>1, <2>2 DEF Accounted, Of
  <2>3. CASE \E y \in log : Of(y.event, e, k) /\ y.event.call = i
    BY <2>1, <2>3 DEF Accounted, Of
  <2>4. CASE \E h \in Goroutines : pc[h] # "idle" /\ Of(event[h], e, k) /\ event[h].call = i
    BY <2>1, <2>2, <2>4 DEF Accounted, Of, Others
  <2>5. QED
    BY <2>2, <2>3, <2>4 DEF Accounted
<1>2. ASSUME NEW v, Ended(g, x, v)
      PROVE  Accounted(e, k, i)'
  <2>1. PICK y : y.event = x /\ log' = log \cup {y}
    BY <1>2 DEF Ended
  <2>2. Others(g)
    BY <1>2 DEF Ended
  <2>3. CASE Of(x, e, k) /\ x.call = i
    BY <2>1, <2>3 DEF Accounted, Of
  <2>4. CASE \E u \in log : Of(u.event, e, k) /\ u.event.call = i
    BY <2>1, <2>4 DEF Accounted, Of
  <2>5. CASE \E h \in Goroutines : pc[h] # "idle" /\ Of(event[h], e, k) /\ event[h].call = i
    <3>1. PICK h \in Goroutines : pc[h] # "idle" /\ Of(event[h], e, k) /\ event[h].call = i
      BY <2>5
    <3>2. CASE h = g
      BY <2>3, <3>1, <3>2
    <3>3. CASE h # g
      BY <2>2, <3>1, <3>3 DEF Accounted, Of, Others
    <3>4. QED
      BY <3>2, <3>3
  <2>6. QED
    BY <2>3, <2>4, <2>5 DEF Accounted
<1>3. QED
  BY <1>1, <1>2 DEF Handles

LEMMA GoroutineHandles ==
  ASSUME TypeOK, NEW g \in Goroutines,
         ConsultCallSite(g) \/ ConsultRegion(g) \/ ConsultAllowlist(g) \/ NoteAllowlist(g)
  PROVE  Handles(g, event[g]) /\ pc[g] # "idle" /\ n' = n
<1>1. CASE ConsultCallSite(g)
  <2>1. Ended(g, event[g], "callSite") \/ Later(g, event[g])
    BY <1>1, ConsultCallSiteOutcome
  <2>2. Handles(g, event[g])
    BY <2>1, LaterHandles DEF Handles
  <2>3. QED
    BY <1>1, <2>2 DEF ConsultCallSite
<1>2. CASE ConsultRegion(g)
  <2>1. Ended(g, event[g], "region") \/ Later(g, event[g])
    BY <1>2, ConsultRegionOutcome
  <2>2. Handles(g, event[g])
    BY <2>1, LaterHandles DEF Handles
  <2>3. QED
    BY <1>2, <2>2 DEF ConsultRegion
<1>3. CASE ConsultAllowlist(g)
  <2>1. \/ Moved(g, "listNote", event[g], Resolved(Exec(g), Key(g)))
        \/ Ended(g, event[g], "violation")
    BY <1>3, ConsultAllowlistOutcome
  <2>2. Handles(g, event[g])
    BY <2>1 DEF Handles
  <2>3. QED
    BY <1>3, <2>2 DEF ConsultAllowlist, scopeVars
<1>4. CASE NoteAllowlist(g)
  <2>1. Ended(g, event[g], "list") \/ Ended(g, event[g], "violation")
    BY <1>4, NoteAllowlistOutcome
  <2>2. Handles(g, event[g])
    BY <2>1 DEF Handles
  <2>3. QED
    BY <1>4, <2>2 DEF NoteAllowlist
<1>5. QED
  BY <1>1, <1>2, <1>3, <1>4

LEMMA NextCovered ==
  ASSUME TypeOK, FrameInv, CoveredInv, [Next]_vars
  PROVE  CoveredInv'
<1>1. ASSUME NEW g \in Goroutines, NEW e \in Execs, NEW s \in Sites, DecideAndReport(g, e, s)
      PROVE  CoveredInv'
  <2> DEFINE x == [site |-> s, exec |-> e, call |-> n[e][s.key] + 1]
  <2>1. TypeOK'
    BY <1>1, DecideAndReportTyped
  <2>2. /\ pc[g] = "idle" /\ s.key \in Keys
        /\ n'[e][s.key] = n[e][s.key] + 1 /\ n[e][s.key] \in Nat
        /\ \A d \in Execs, k \in Keys : d # e \/ k # s.key => n'[d][k] = n[d][k]
    BY <1>1, <2>1, DecideAndReportFrame
  <2>3. IF s.allowed THEN Moved(g, "note", x, consulted[g]) ELSE Later(g, x)
    BY <1>1, DecideAndReportOutcome
  <2>4. Handles(g, x)
    <3> HIDE DEF x
    <3>1. QED
      BY <2>3, LaterHandles DEF Handles
  <2>5. x.exec = e /\ x.site.key = s.key /\ x.call = n[e][s.key] + 1
    OBVIOUS
  <2> HIDE DEF x
  <2>6. ASSUME NEW d \in Execs, NEW k \in Keys, NEW i \in 1..n'[d][k]
        PROVE  Accounted(d, k, i)'
    <3>1. CASE d = e /\ k = s.key /\ i = n[e][s.key] + 1
      BY <2>2, <2>4, <2>5, <3>1, AccountedHandled DEF Of
    <3>2. CASE ~(d = e /\ k = s.key /\ i = n[e][s.key] + 1)
      <4>1. i \in 1..n[d][k]
        <5>1. CASE d = e /\ k = s.key
          BY <2>2, <2>6, <3>2, <5>1
        <5>2. CASE d # e \/ k # s.key
          BY <2>2, <2>6, <5>2
        <5>3. QED
          BY <5>1, <5>2
      <4>2. QED
        BY <2>2, <2>4, <4>1, AccountedHandled DEF CoveredInv
    <3>3. QED
      BY <3>1, <3>2
  <2>7. QED
    BY <2>6 DEF CoveredInv
<1>2. ASSUME NEW g \in Goroutines,
             ConsultCallSite(g) \/ ConsultRegion(g) \/ ConsultAllowlist(g) \/ NoteAllowlist(g)
      PROVE  CoveredInv'
  <2>1. Handles(g, event[g]) /\ pc[g] # "idle" /\ n' = n
    BY <1>2, GoroutineHandles
  <2>2. \A e \in Execs, k \in Keys : \A i \in 1..n[e][k] : Accounted(e, k, i)'
    BY <2>1, AccountedHandled DEF CoveredInv
  <2>3. QED
    BY <2>1, <2>2 DEF CoveredInv
<1>3. CASE n' = n /\ pc' = pc /\ event' = event /\ log' = log
  BY <1>3 DEF CoveredInv, Accounted, Of
<1>4. ASSUME NEW e \in Execs,
             FinishCalls(e) \/ \E r \in Regions : EnterRegion(e, r) \/ FinishMark(e, r)
      PROVE  CoveredInv'
  BY <1>3, <1>4, ScopeStepQuiet
<1>5. ASSUME NEW x \in Addable, Add(x)
      PROVE  CoveredInv'
  BY <1>3, <1>5 DEF Add, scopeVars, callVars
<1>6. CASE UNCHANGED vars
  BY <1>3, <1>6 DEF vars, scopeVars, callVars
<1>7. QED
  BY <1>1, <1>2, <1>4, <1>5, <1>6 DEF Next

\* The decided events of an identity are cut at m: reported exactly when their
\* index is beyond it.
Cut(e, k, m) ==
  \A y \in log : Of(y.event, e, k) => (y.verdict = "violation" <=> y.event.call > m)

LEMMA CutSurfaces ==
  ASSUME TypeOK, FrameInv, CoveredInv, NEW e \in Execs, NEW k \in Keys, NEW m \in Nat,
         Cut(e, k, m), ~InFlight(e)
  PROVE  ReportedCalls(e, k) = (m + 1)..n[e][k]
<1>0. n[e][k] \in Nat
  BY BoundsTyped DEF TypeOK, Calls
<1>1. ASSUME NEW y \in Violations(e, k)
      PROVE  y.event.call \in (m + 1)..n[e][k]
  <2>1. y \in log /\ Of(y.event, e, k) /\ y.verdict = "violation"
    BY <1>1 DEF Violations, Decisions, Of
  <2>2. y.event.call \in 1..n[e][k]
    BY <2>1 DEF FrameInv, CallsWithin, Within, Of
  <2>3. y.event.call > m
    BY <2>1 DEF Cut
  <2>4. QED
    BY <1>0, <2>2, <2>3
<1>2. ASSUME NEW i \in (m + 1)..n[e][k]
      PROVE  \E y \in Violations(e, k) : y.event.call = i
  <2>1. i \in 1..n[e][k] /\ i > m
    BY <1>0, <1>2
  <2>2. Accounted(e, k, i)
    BY <2>1 DEF CoveredInv
  <2>3. PICK y \in log : Of(y.event, e, k) /\ y.event.call = i
    BY <2>2 DEF Accounted, InFlight, Of, Exec
  <2>4. y.verdict = "violation"
    BY <2>1, <2>3 DEF Cut
  <2>5. QED
    BY <2>3, <2>4 DEF Violations, Decisions, Of
<1>3. QED
  BY <1>1, <1>2 DEF ReportedCalls

-----------------------------------------------------------------------------
(* Identities pinned at their call sites. *)

\* An event of the pinned identity k waits for its call site's declaration, or
\* for the list once that has declined it.
Waits(l, x, e, k, counts) ==
  Of(x, e, k) => \/ l = "note"
                 \/ l = "list" /\ x.call > maxCount(counts) /\ declared[e][k] = counts

Pinned(e, k, counts) ==
  /\ Cut(e, k, maxCount(counts))
  /\ \A y \in log : Of(y.event, e, k) => declared[e][k] = counts
  /\ \A g \in Goroutines : pc[g] # "idle" => Waits(pc[g], event[g], e, k, counts)
  /\ declared[e][k] \in {{}, counts}

PinnedInv ==
  \A e \in Execs, k \in Keys : \A counts \in {s.counts : s \in Sites} :
    PinnedBy(k, counts) => Pinned(e, k, counts)

LEMMA PinnedMoved ==
  ASSUME NEW e \in Execs, NEW k \in Keys, NEW counts, Pinned(e, k, counts),
         NEW g \in Goroutines, NEW l, NEW x, NEW c, Moved(g, l, x, c),
         declared'[e][k] \in {declared[e][k], counts},
         Of(x, e, k) => \/ l = "note"
                        \/ l = "list" /\ x.call > maxCount(counts) /\ declared'[e][k] = counts
  PROVE  Pinned(e, k, counts)'
<1>1. Cut(e, k, maxCount(counts))'
  BY DEF Pinned, Cut, Of, Moved
<1>2. \A y \in log' : Of(y.event, e, k) => declared'[e][k] = counts
  BY DEF Pinned, Moved
<1>3. \A h \in Goroutines : pc'[h] # "idle" => Waits(pc[h], event[h], e, k, counts)'
  BY DEF Pinned, Moved, Others, Waits, Of
<1>4. declared'[e][k] \in {{}, counts}
  BY DEF Pinned
<1>5. QED
  BY <1>1, <1>2, <1>3, <1>4 DEF Pinned, Of

LEMMA PinnedEnded ==
  ASSUME NEW e \in Execs, NEW k \in Keys, NEW counts, Pinned(e, k, counts),
         NEW g \in Goroutines, NEW x, NEW v, Ended(g, x, v),
         declared'[e][k] \in {declared[e][k], counts},
         Of(x, e, k) => /\ v = "violation" <=> x.call > maxCount(counts)
                        /\ declared'[e][k] = counts
  PROVE  Pinned(e, k, counts)'
<1>1. PICK y : y.event = x /\ y.verdict = v /\ log' = log \cup {y}
  BY DEF Ended
<1>2. Cut(e, k, maxCount(counts))'
  BY <1>1 DEF Pinned, Cut, Of
<1>3. \A z \in log' : Of(z.event, e, k) => declared'[e][k] = counts
  BY <1>1 DEF Pinned
<1>4. \A h \in Goroutines : pc'[h] # "idle" => Waits(pc[h], event[h], e, k, counts)'
  BY DEF Pinned, Ended, Others, Waits, Of
<1>5. declared'[e][k] \in {{}, counts}
  BY DEF Pinned
<1>6. QED
  BY <1>2, <1>3, <1>4, <1>5 DEF Pinned, Of

LEMMA PinnedLater ==
  ASSUME NEW e \in Execs, NEW k \in Keys, NEW counts, Pinned(e, k, counts),
         NEW g \in Goroutines, NEW x, Later(g, x),
         declared'[e][k] \in {declared[e][k], counts},
         Of(x, e, k) => /\ x.call > maxCount(counts) /\ declared'[e][k] = counts
                        /\ x.site.region \notin Regions
  PROVE  Pinned(e, k, counts)'
<1>1. CASE x.site.region \in Regions /\ Moved(g, "mark", x, consulted[g])
  BY <1>1, PinnedMoved
<1>2. CASE Moved(g, "list", x, consulted[g])
  BY <1>2, PinnedMoved
<1>3. CASE Ended(g, x, "violation")
  BY <1>3, PinnedEnded
<1>4. QED
  BY <1>1, <1>2, <1>3 DEF Later

LEMMA GoroutinePinned ==
  ASSUME TypeOK, FrameInv, NEW e \in Execs, NEW k \in Keys, NEW s0 \in Sites,
         PinnedBy(k, s0.counts), Pinned(e, k, s0.counts), NEW g \in Goroutines,
         \/ \E d \in Execs, s \in Sites : DecideAndReport(g, d, s)
         \/ ConsultCallSite(g) \/ ConsultRegion(g) \/ ConsultAllowlist(g) \/ NoteAllowlist(g)
  PROVE  Pinned(e, k, s0.counts)'
<1> DEFINE counts == s0.counts
<1>1. counts \in Declarations /\ maxCount(counts) \in Nat
  BY Declared, MaxCount
<1>2. CallTyped /\ event[g] \in Events /\ event[g].call \in Int
  BY TypeParts, EventFields, BoundsTyped DEF Calls
<1>3. Of(event[g], e, k) /\ pc[g] # "idle"
        => \/ pc[g] = "note"
           \/ pc[g] = "list" /\ event[g].call > maxCount(counts) /\ declared[e][k] = counts
  BY DEF Pinned, Waits
<1>4. \A s \in Sites : s.key = k => s.allowed /\ s.counts = counts /\ s.region \notin Regions
  BY NamesDisjoint DEF PinnedBy
<1>5. ASSUME NEW d \in Execs, NEW s \in Sites, DecideAndReport(g, d, s)
      PROVE  Pinned(e, k, counts)'
  <2> DEFINE x == [site |-> s, exec |-> d, call |-> n[d][s.key] + 1]
  <2>1. IF s.allowed THEN Moved(g, "note", x, consulted[g]) ELSE Later(g, x)
    BY <1>5, DecideAndReportOutcome
  <2>2. declared' = declared /\ (Of(x, e, k) => s.allowed)
    BY <1>4, <1>5 DEF DecideAndReport, Of
  <2> HIDE DEF x
  <2>3. QED
    BY <2>1, <2>2, PinnedMoved, PinnedLater
<1>6. CASE ConsultCallSite(g)
  <2>1. noteDeclared(Exec(g), Key(g), Site(g).counts) /\ pc[g] = "note"
    BY <1>6 DEF ConsultCallSite
  <2>2. IF coversCalls(Site(g).counts, event[g].call)
        THEN Ended(g, event[g], "callSite") ELSE Later(g, event[g])
    BY <1>6, ConsultCallSiteOutcome
  <2>3. CASE Of(event[g], e, k)
    <3>1. Exec(g) = e /\ Key(g) = k /\ Site(g).counts = counts /\ event[g].site.region \notin Regions
      BY <1>2, <1>4, <2>3, EventFields DEF Of, Exec, Key, Site
    <3>2. counts # {}
      BY DEF PinnedBy
    <3>3. declared'[e][k] = counts
      BY <2>1, <3>1, <3>2 DEF noteDeclared, TypeOK
    <3>4. coversCalls(counts, event[g].call) <=> ~(event[g].call > maxCount(counts))
      BY <1>1, <1>2, <3>2 DEF coversCalls
    <3> HIDE DEF counts
    <3>5. CASE coversCalls(counts, event[g].call)
      BY <2>2, <3>1, <3>3, <3>4, <3>5, PinnedEnded DEF counts
    <3>6. CASE ~coversCalls(counts, event[g].call)
      BY <2>2, <3>1, <3>3, <3>4, <3>6, PinnedLater DEF counts
    <3>7. QED
      BY <3>5, <3>6
  <2>4. CASE ~Of(event[g], e, k)
    <3>1. Exec(g) # e \/ Key(g) # k
      BY <2>4 DEF Of, Exec, Key, Site
    <3>2. declared'[e][k] = declared[e][k]
      BY <2>1, <3>1 DEF noteDeclared, TypeOK
    <3>3. QED
      BY <2>2, <2>4, <3>2, PinnedEnded, PinnedLater
  <2>5. QED
    BY <2>3, <2>4
<1>7. CASE ConsultRegion(g)
  <2>1. declared' = declared /\ ~Of(event[g], e, k)
    BY <1>3, <1>7 DEF ConsultRegion
  <2>2. Ended(g, event[g], "region") \/ Later(g, event[g])
    BY <1>7, ConsultRegionOutcome
  <2>3. QED
    BY <2>1, <2>2, PinnedEnded, PinnedLater
<1>8. CASE ConsultAllowlist(g)
  <2>1. declared' = declared /\ pc[g] = "list"
    BY <1>8 DEF ConsultAllowlist, scopeVars
  <2>2. \/ Resolved(Exec(g), Key(g)) # {} /\ Moved(g, "listNote", event[g], Resolved(Exec(g), Key(g)))
        \/ Ended(g, event[g], "violation")
    BY <1>8, ConsultAllowlistOutcome
  <2>3. CASE Of(event[g], e, k)
    <3>1. \A y \in entries : y.key # k
      <4>1. \A z \in Listed \cup Addable : z.key # k
        BY DEF PinnedBy
      <4>2. \A y \in EntryObjects : y.key # k
        BY <4>1 DEF EntryObjects, EntryOf
      <4>3. QED
        BY <4>2 DEF TypeOK
    <3>2. Resolved(Exec(g), Key(g)) = {}
      BY <2>3, <3>1, TypeParts, ResolvedTyped DEF Of, Key, Site
    <3>3. QED
      BY <1>3, <2>1, <2>2, <2>3, <3>2, PinnedEnded
  <2>4. CASE ~Of(event[g], e, k)
    BY <2>1, <2>2, <2>4, PinnedMoved, PinnedEnded
  <2>5. QED
    BY <2>3, <2>4
<1>9. CASE NoteAllowlist(g)
  <2>1. ~Of(event[g], e, k)
    BY <1>3, <1>9 DEF NoteAllowlist
  <2>2. PICK y \in consulted[g] :
          /\ noteDeclared(Exec(g), Key(g), y.counts)
          /\ Ended(g, event[g], "list") \/ Ended(g, event[g], "violation")
    BY <1>9, NoteAllowlistOutcome
  <2>3. Exec(g) # e \/ Key(g) # k
    BY <2>1 DEF Of, Exec, Key, Site
  <2>4. declared'[e][k] = declared[e][k]
    BY <2>2, <2>3 DEF noteDeclared, TypeOK
  <2>5. QED
    BY <2>1, <2>2, <2>4, PinnedEnded
<1>10. QED
  BY <1>5, <1>6, <1>7, <1>8, <1>9

LEMMA NextPinned ==
  ASSUME TypeOK, FrameInv, PinnedInv, [Next]_vars
  PROVE  PinnedInv'
<1>1. SUFFICES ASSUME NEW e \in Execs, NEW k \in Keys, NEW s0 \in Sites, PinnedBy(k, s0.counts)
               PROVE  Pinned(e, k, s0.counts)'
  BY DEF PinnedInv, PinnedBy
<1>2. Pinned(e, k, s0.counts)
  BY <1>1 DEF PinnedInv
<1>3. ASSUME NEW g \in Goroutines,
             \/ \E d \in Execs, s \in Sites : DecideAndReport(g, d, s)
             \/ ConsultCallSite(g) \/ ConsultRegion(g) \/ ConsultAllowlist(g) \/ NoteAllowlist(g)
      PROVE  Pinned(e, k, s0.counts)'
  BY <1>1, <1>2, <1>3, GoroutinePinned
<1>4. CASE declared' = declared /\ pc' = pc /\ event' = event /\ log' = log
  BY <1>2, <1>4 DEF Pinned, Cut, Waits, Of
<1>5. ASSUME NEW d \in Execs,
             FinishCalls(d) \/ \E r \in Regions : EnterRegion(d, r) \/ FinishMark(d, r)
      PROVE  Pinned(e, k, s0.counts)'
  BY <1>4, <1>5, ScopeStepQuiet
<1>6. ASSUME NEW x \in Addable, Add(x)
      PROVE  Pinned(e, k, s0.counts)'
  BY <1>4, <1>6 DEF Add, scopeVars, callVars
<1>7. CASE UNCHANGED vars
  BY <1>4, <1>7 DEF vars, scopeVars, callVars
<1>8. QED
  BY <1>3, <1>5, <1>6, <1>7 DEF Next

LEMMA InitPinned == Init => CoveredInv /\ PinnedInv
BY DEF Init, CoveredInv, PinnedInv, Pinned, Cut, Waits

\* Once the events of an identity pinned at its call sites have all been
\* decided, in whatever order their goroutines ran, the reported indices are
\* exactly those beyond the largest declared count (decideAndReport, check.go).
THEOREM GrowthAlwaysSurfaces == Spec => []GrowthSurfaces
<1>1. Init => TypeOK /\ FrameInv /\ CoveredInv /\ PinnedInv
  BY InitFrame, InitPinned
<1>2. TypeOK /\ FrameInv /\ CoveredInv /\ PinnedInv /\ [Next]_vars
        => (TypeOK /\ FrameInv /\ CoveredInv /\ PinnedInv)'
  BY NextFrame, NextCovered, NextPinned
<1>3. TypeOK /\ FrameInv /\ CoveredInv /\ PinnedInv => GrowthSurfaces
  <2>1. SUFFICES ASSUME TypeOK, FrameInv, CoveredInv, PinnedInv,
                        NEW e \in Execs, NEW k \in Keys, NEW s \in Sites,
                        PinnedBy(k, s.counts), ~InFlight(e)
                 PROVE  ReportedCalls(e, k) = (maxCount(s.counts) + 1)..n[e][k]
    BY DEF GrowthSurfaces
  <2>2. Cut(e, k, maxCount(s.counts))
    BY <2>1 DEF PinnedInv, Pinned
  <2>3. maxCount(s.counts) \in Nat
    BY MaxCount, Declared
  <2>4. QED
    BY <2>1, <2>2, <2>3, CutSurfaces
<1>4. QED
  BY <1>1, <1>2, <1>3, PTL DEF Spec

-----------------------------------------------------------------------------
(* Identities pinned by an entry of the Allowlist. *)

\* Entry x, there from the beginning, pins what nothing else allows.
ListPinned(e, x) ==
  /\ x.id = 0 /\ x.scope = ScopeOf[e] /\ x.counts # {}
  /\ \A s \in Sites : s.key = x.key => ~s.allowed /\ s.region = NoRegion

\* Its events wait for the list, or hold the entry itself.
Listing(g, e, x) ==
  pc[g] # "idle" /\ Of(event[g], e, x.key)
    => \/ pc[g] = "list"
       \/ pc[g] = "listNote" /\ consulted[g] = {x}

EntryCut(e, x) ==
  /\ Cut(e, x.key, maxCount(x.counts))
  /\ \A g \in Goroutines : Listing(g, e, x)

EntryInv == \A e \in Execs : \A x \in entries : ListPinned(e, x) => EntryCut(e, x)

LEMMA ListingMoved ==
  ASSUME NEW e \in Execs, NEW x \in EntryObjects, EntryCut(e, x),
         NEW g \in Goroutines, NEW l, NEW z, NEW c, Moved(g, l, z, c),
         Of(z, e, x.key) => l = "list" \/ (l = "listNote" /\ c = {x})
  PROVE  EntryCut(e, x)'
<1>1. Cut(e, x.key, maxCount(x.counts))'
  BY DEF EntryCut, Cut, Of, Moved
<1>2. ASSUME NEW h \in Goroutines
      PROVE  Listing(h, e, x)'
  <2>1. CASE h = g
    BY <2>1 DEF EntryCut, Listing, Of, Moved
  <2>2. CASE h # g
    BY <2>2 DEF EntryCut, Listing, Of, Moved, Others
  <2>3. QED
    BY <2>1, <2>2
<1>3. QED
  BY <1>1, <1>2 DEF EntryCut

LEMMA ListingEnded ==
  ASSUME NEW e \in Execs, NEW x \in EntryObjects, EntryCut(e, x),
         NEW g \in Goroutines, NEW z, NEW v, Ended(g, z, v),
         Of(z, e, x.key) => (v = "violation" <=> z.call > maxCount(x.counts))
  PROVE  EntryCut(e, x)'
<1>1. PICK y : y.event = z /\ y.verdict = v /\ log' = log \cup {y}
  BY DEF Ended
<1>2. Cut(e, x.key, maxCount(x.counts))'
  BY <1>1 DEF EntryCut, Cut, Of
<1>3. ASSUME NEW h \in Goroutines
      PROVE  Listing(h, e, x)'
  <2>1. CASE h = g
    BY <2>1 DEF Listing, Ended
  <2>2. CASE h # g
    BY <2>2 DEF EntryCut, Listing, Of, Ended, Others
  <2>3. QED
    BY <2>1, <2>2
<1>4. QED
  BY <1>2, <1>3 DEF EntryCut

LEMMA ListingLater ==
  ASSUME NEW e \in Execs, NEW x \in EntryObjects, EntryCut(e, x),
         NEW g \in Goroutines, NEW z, Later(g, z), HasAllowlist,
         Of(z, e, x.key) => z.site.region \notin Regions
  PROVE  EntryCut(e, x)'
<1>1. CASE z.site.region \in Regions /\ Moved(g, "mark", z, consulted[g])
  BY <1>1, ListingMoved
<1>2. CASE Moved(g, "list", z, consulted[g])
  BY <1>2, ListingMoved
<1>3. QED
  BY <1>1, <1>2 DEF Later

LEMMA GoroutineEntry ==
  ASSUME TypeOK, FrameInv, EntryInv, NEW e \in Execs, NEW x \in entries, ListPinned(e, x),
         NEW g \in Goroutines,
         \/ \E d \in Execs, s \in Sites : DecideAndReport(g, d, s)
         \/ ConsultCallSite(g) \/ ConsultRegion(g) \/ ConsultAllowlist(g) \/ NoteAllowlist(g)
  PROVE  EntryCut(e, x)'
<1> DEFINE k == x.key  m == maxCount(x.counts)
<1>1. EntryCut(e, x)
  BY DEF EntryInv
<1>2. x \in EntryObjects /\ x.counts \in Declarations /\ m \in Nat /\ HasAllowlist
  <2>1. x \in EntryObjects
    BY DEF TypeOK
  <2>2. x.counts \in Declarations
    BY <2>1, Declared
  <2>3. m \in Nat
    BY <2>2, MaxCount
  <2>4. HasAllowlist
    BY <2>1 DEF EntryObjects, HasAllowlist
  <2>5. QED
    BY <2>1, <2>2, <2>3, <2>4
<1>3. event[g] \in Events /\ event[g].call \in Int
  BY TypeParts, EventFields, BoundsTyped DEF Calls
<1>4. \A s \in Sites : s.key = k => ~s.allowed /\ s.region \notin Regions
  BY NamesDisjoint DEF ListPinned
<1>5. pc[g] # "idle" /\ Of(event[g], e, k)
        => \/ pc[g] = "list"
           \/ pc[g] = "listNote" /\ consulted[g] = {x}
  BY <1>1 DEF EntryCut, Listing, k
<1> HIDE DEF k, m
<1>6. ASSUME NEW d \in Execs, NEW s \in Sites, DecideAndReport(g, d, s)
      PROVE  EntryCut(e, x)'
  <2> DEFINE z == [site |-> s, exec |-> d, call |-> n[d][s.key] + 1]
  <2>1. IF s.allowed THEN Moved(g, "note", z, consulted[g]) ELSE Later(g, z)
    BY <1>6, DecideAndReportOutcome
  <2>2. Of(z, e, x.key) => ~s.allowed /\ z.site.region \notin Regions
    BY <1>4 DEF Of, k
  <2> HIDE DEF z
  <2>3. CASE s.allowed
    BY <1>1, <2>1, <2>2, <2>3, <1>2, ListingMoved DEF k, m
  <2>4. CASE ~s.allowed
    BY <1>1, <1>2, <2>1, <2>2, <2>4, ListingLater DEF k, m
  <2>5. QED
    BY <2>3, <2>4
<1>7. CASE ConsultCallSite(g)
  <2>1. ~Of(event[g], e, k)
    BY <1>5, <1>7 DEF ConsultCallSite
  <2>2. Ended(g, event[g], "callSite") \/ Later(g, event[g])
    BY <1>7, ConsultCallSiteOutcome
  <2>3. QED
    BY <1>1, <1>2, <2>1, <2>2, ListingEnded, <1>2, ListingLater DEF k, m
<1>8. CASE ConsultRegion(g)
  <2>1. ~Of(event[g], e, k)
    BY <1>5, <1>8 DEF ConsultRegion
  <2>2. Ended(g, event[g], "region") \/ Later(g, event[g])
    BY <1>8, ConsultRegionOutcome
  <2>3. QED
    BY <1>1, <1>2, <2>1, <2>2, ListingEnded, <1>2, ListingLater DEF k, m
<1>9. CASE ConsultAllowlist(g)
  <2> DEFINE found == Resolved(Exec(g), Key(g))
  <2>1. IF found # {} THEN Moved(g, "listNote", event[g], found)
        ELSE Ended(g, event[g], "violation")
    BY <1>9, ConsultAllowlistOutcome
  <2>2. Of(event[g], e, k) => found = {x}
    <3>1. SUFFICES ASSUME Of(event[g], e, k)
                   PROVE  found = {x}
      OBVIOUS
    <3>2. Exec(g) = e /\ Key(g) = k /\ x.scope = ScopeOf[e] /\ x.key = k
      BY <3>1 DEF Of, Exec, Key, Site, ListPinned, k
    <3>3. x \in {y \in entries : y.scope = ScopeOf[e] /\ y.key = k}
      BY <3>2
    <3>4. x \in found
      BY <3>2, <3>3 DEF Resolved
    <3>5. QED
      BY <3>4, TypeParts, ResolvedTyped
  <2> HIDE DEF found
  <2>3. CASE found # {}
    BY <1>1, <2>1, <2>2, <2>3, <1>2, ListingMoved DEF k, m
  <2>4. CASE found = {}
    BY <1>1, <2>1, <2>2, <2>4, <1>2, ListingEnded DEF k, m
  <2>5. QED
    BY <2>3, <2>4
<1>10. CASE NoteAllowlist(g)
  <2>1. PICK y \in consulted[g] :
          IF coversCalls(y.counts, event[g].call)
          THEN Ended(g, event[g], "list") ELSE Ended(g, event[g], "violation")
    BY <1>10, NoteAllowlistOutcome
  <2>2. pc[g] = "listNote"
    BY <1>10 DEF NoteAllowlist
  <2>3. CASE Of(event[g], e, k)
    <3>1. y = x /\ x.counts # {}
      BY <1>5, <2>1, <2>2, <2>3 DEF ListPinned
    <3>2. coversCalls(y.counts, event[g].call) <=> ~(event[g].call > m)
      BY <1>2, <1>3, <3>1 DEF coversCalls, m
    <3>3. CASE coversCalls(y.counts, event[g].call)
      BY <1>1, <2>1, <3>2, <3>3, <1>2, ListingEnded DEF k, m
    <3>4. CASE ~coversCalls(y.counts, event[g].call)
      BY <1>1, <2>1, <3>2, <3>4, <1>2, ListingEnded DEF k, m
    <3>5. QED
      BY <3>3, <3>4
  <2>4. CASE ~Of(event[g], e, k)
    BY <1>1, <2>1, <2>4, <1>2, ListingEnded DEF k, m
  <2>5. QED
    BY <2>3, <2>4
<1>11. QED
  BY <1>6, <1>7, <1>8, <1>9, <1>10

LEMMA NextEntry ==
  ASSUME TypeOK, FrameInv, EntryInv, [Next]_vars
  PROVE  EntryInv'
<1>1. ASSUME NEW g \in Goroutines,
             \/ \E d \in Execs, s \in Sites : DecideAndReport(g, d, s)
             \/ ConsultCallSite(g) \/ ConsultRegion(g) \/ ConsultAllowlist(g) \/ NoteAllowlist(g)
      PROVE  EntryInv'
  <2>1. entries' = entries
    BY <1>1 DEF DecideAndReport, ConsultCallSite, ConsultRegion, ConsultAllowlist, NoteAllowlist,
                listVars
  <2>2. ASSUME NEW e \in Execs, NEW x \in entries, ListPinned(e, x)
        PROVE  EntryCut(e, x)'
    BY <1>1, <2>2, GoroutineEntry
  <2>3. QED
    BY <2>1, <2>2 DEF EntryInv, ListPinned
<1>2. CASE /\ pc' = pc /\ event' = event /\ consulted' = consulted /\ log' = log
           /\ \A x \in entries' : x.id = 0 => x \in entries
  <2>1. SUFFICES ASSUME NEW e \in Execs, NEW x \in entries', ListPinned(e, x)
                 PROVE  EntryCut(e, x)'
    BY DEF EntryInv, ListPinned
  <2>2. x \in entries
    BY <1>2, <2>1 DEF ListPinned
  <2>3. EntryCut(e, x)
    BY <2>1, <2>2 DEF EntryInv
  <2>4. QED
    BY <1>2, <2>3 DEF EntryCut, Cut, Listing, Of
<1>3. ASSUME NEW d \in Execs,
             FinishCalls(d) \/ \E r \in Regions : EnterRegion(d, r) \/ FinishMark(d, r)
      PROVE  EntryInv'
  BY <1>2, <1>3, ScopeStepQuiet
<1>4. ASSUME NEW y \in Addable, Add(y)
      PROVE  EntryInv'
  <2>1. EntryOf(y, adds + 1).id # 0
    BY BoundsTyped DEF EntryOf, TypeOK
  <2>2. \A x \in entries' : x.id = 0 => x \in entries
    BY <1>4, <2>1 DEF Add
  <2>3. QED
    BY <1>2, <1>4, <2>2 DEF Add, callVars
<1>5. CASE UNCHANGED vars
  BY <1>2, <1>5 DEF vars, listVars, callVars
<1>6. QED
  BY <1>1, <1>3, <1>4, <1>5 DEF Next

\* While an exact entry stays on the list, the reported indices of an identity
\* nothing else allows are those beyond its largest count, whatever else is
\* added meanwhile (Allowlist.decide, allowlist.go).
THEOREM ExactEntryPins == Spec => []EntryPinsCalls
<1>1. Init => TypeOK /\ FrameInv /\ CoveredInv /\ EntryInv
  <2>1. Init => EntryInv
    BY DEF Init, EntryInv, EntryCut, Cut, Listing
  <2>2. QED
    BY <2>1, InitFrame, InitPinned
<1>2. TypeOK /\ FrameInv /\ CoveredInv /\ EntryInv /\ [Next]_vars
        => (TypeOK /\ FrameInv /\ CoveredInv /\ EntryInv)'
  BY NextFrame, NextCovered, NextEntry
<1>3. TypeOK /\ FrameInv /\ CoveredInv /\ EntryInv => EntryPinsCalls
  <2>1. SUFFICES ASSUME TypeOK, FrameInv, CoveredInv, EntryInv,
                        NEW e \in Execs, NEW x \in entries, ListPinned(e, x), ~InFlight(e)
                 PROVE  ReportedCalls(e, x.key) = (maxCount(x.counts) + 1)..n[e][x.key]
    BY DEF EntryPinsCalls, ListPinned
  <2>2. Cut(e, x.key, maxCount(x.counts))
    BY <2>1 DEF EntryInv, EntryCut
  <2>3. x.key \in Keys /\ x.counts \in Declarations
    BY <2>1, Declared DEF TypeOK
  <2>4. maxCount(x.counts) \in Nat
    BY <2>3, MaxCount
  <2>5. QED
    BY <2>1, <2>2, <2>3, <2>4, CutSurfaces
<1>4. QED
  BY <1>1, <1>2, <1>3, PTL DEF Spec

-----------------------------------------------------------------------------
(* What an undisturbed finish has found. *)

\* Nothing of e runs any more; its identities have been verified, and its
\* regions but those still unread.
Settled(e) ==
  /\ ~InFlight(e)
  /\ \A k \in Keys : k \in stale[e] <=> declared[e][k] # {} /\ Unmet(declared[e][k], n[e][k])
  /\ \A r \in CountedRegions \cap entered[e] :
       r \notin unread[e] => (r \in stale[e] <=> Unmet(RegionCounts[r], markN[e][r]))
  /\ \A r \in unread[e] : r \notin stale[e]

FinishOK(e) ==
  /\ clean[e] /\ fpc[e] # "open" => Settled(e)
  /\ fpc[e] # "marks" => unread[e] = {}

FinishInv == \A e \in Execs : FinishOK(e)

LEMMA SettledSame ==
  ASSUME NEW e \in Execs, FinishOK(e), InFlight(e)' => InFlight(e),
         n'[e] = n[e], declared'[e] = declared[e], markN'[e] = markN[e], entered'[e] = entered[e],
         fpc'[e] = fpc[e], unread'[e] = unread[e], stale'[e] = stale[e], clean'[e] = clean[e]
  PROVE  FinishOK(e)'
<1>1. Settled(e) => Settled(e)'
  BY DEF Settled, Unmet
<1>2. QED
  BY <1>1 DEF FinishOK

LEMMA InFlightElsewhere ==
  ASSUME NEW g \in Goroutines, NEW x, Handles(g, x), NEW e, x.exec # e
  PROVE  InFlight(e)' => InFlight(e)
<1>1. Others(g) /\ (pc'[g] # "idle" => event'[g] = x)
  BY DEF Handles, Moved, Ended
<1>2. QED
  BY <1>1 DEF InFlight, Others, Exec

LEMMA NextFinish ==
  ASSUME TypeOK, FrameInv, FinishInv, [Next]_vars
  PROVE  FinishInv'
<1>1. SUFFICES ASSUME NEW e \in Execs
               PROVE  FinishOK(e)'
  BY DEF FinishInv
<1>2. FinishOK(e)
  BY DEF FinishInv
<1>3. ASSUME NEW g \in Goroutines, NEW d \in Execs, NEW s \in Sites, DecideAndReport(g, d, s)
      PROVE  FinishOK(e)'
  <2>1. /\ declared' = declared /\ entered' = entered /\ markN' = markN
        /\ fpc' = fpc /\ unread' = unread /\ stale' = stale
        /\ clean' = [clean EXCEPT ![d] = clean[d] /\ fpc[d] = "open"]
        /\ n' = [n EXCEPT ![d][s.key] = n[d][s.key] + 1]
    BY <1>3 DEF DecideAndReport, finishVars
  <2>2. CASE d = e
    BY <1>2, <2>1, <2>2 DEF FinishOK, TypeOK
  <2>3. CASE d # e
    <3> DEFINE x == [site |-> s, exec |-> d, call |-> n[d][s.key] + 1]
    <3>1. IF s.allowed THEN Moved(g, "note", x, consulted[g]) ELSE Later(g, x)
      BY <1>3, DecideAndReportOutcome
    <3>2. x.exec # e
      BY <2>3
    <3> HIDE DEF x
    <3>3. Handles(g, x)
      BY <3>1, LaterHandles DEF Handles
    <3>4. InFlight(e)' => InFlight(e)
      BY <3>2, <3>3, InFlightElsewhere
    <3>5. n'[e] = n[e] /\ clean'[e] = clean[e]
      BY <2>1, <2>3 DEF TypeOK
    <3>6. QED
      BY <1>2, <2>1, <3>4, <3>5, SettledSame
  <2>4. QED
    BY <2>2, <2>3
<1>4. ASSUME NEW g \in Goroutines,
             ConsultCallSite(g) \/ ConsultRegion(g) \/ ConsultAllowlist(g) \/ NoteAllowlist(g)
      PROVE  FinishOK(e)'
  <2>1. Handles(g, event[g]) /\ pc[g] # "idle" /\ n' = n
    BY <1>4, GoroutineHandles
  <2>2. entered' = entered /\ fpc' = fpc /\ unread' = unread /\ stale' = stale /\ clean' = clean
    BY <1>4 DEF ConsultCallSite, ConsultRegion, ConsultAllowlist, NoteAllowlist, scopeVars, finishVars
  <2>3. CASE Exec(g) = e
    <3>1. InFlight(e)
      BY <2>1, <2>3 DEF InFlight
    <3>2. ~(clean[e] /\ fpc[e] # "open")
      BY <1>2, <3>1 DEF FinishOK, Settled
    <3>3. QED
      BY <1>2, <2>2, <3>2 DEF FinishOK
  <2>4. CASE Exec(g) # e
    <3>1. InFlight(e)' => InFlight(e)
      BY <2>1, <2>4, InFlightElsewhere DEF Exec
    <3>2. declared'[e] = declared[e]
      BY <1>4, <2>4 DEF ConsultCallSite, ConsultRegion, ConsultAllowlist, NoteAllowlist, scopeVars,
                        noteDeclared, TypeOK
    <3>3. markN'[e] = markN[e]
      BY <1>4, <2>4 DEF ConsultCallSite, ConsultRegion, ConsultAllowlist, NoteAllowlist, scopeVars,
                        TypeOK
    <3>4. QED
      BY <1>2, <2>1, <2>2, <3>1, <3>2, <3>3, SettledSame
  <2>5. QED
    BY <2>3, <2>4
<1>5. CASE /\ UNCHANGED <<scopeVars, finishVars, clean>>
           /\ pc' = pc /\ event' = event
  BY <1>2, <1>5, SettledSame DEF scopeVars, finishVars, InFlight, Exec
<1>6. ASSUME NEW x \in Addable, Add(x)
      PROVE  FinishOK(e)'
  BY <1>5, <1>6 DEF Add, callVars
<1>7. CASE UNCHANGED vars
  BY <1>5, <1>7 DEF vars, callVars
<1>8. ASSUME NEW d \in Execs, FinishCalls(d)
      PROVE  FinishOK(e)'
  <2>1. /\ n' = n /\ declared' = declared /\ markN' = markN /\ entered' = entered
        /\ (InFlight(e)' <=> InFlight(e))
    BY <1>8 DEF FinishCalls, scopeVars, callVars, InFlight, Exec
  <2>2. CASE d # e
    <3>1. /\ fpc'[e] = fpc[e] /\ unread'[e] = unread[e] /\ stale'[e] = stale[e]
          /\ clean'[e] = clean[e]
      BY <1>8, <2>2 DEF FinishCalls, TypeOK
    <3>2. QED
      BY <1>2, <2>1, <3>1, SettledSame
  <2>3. CASE d = e
    <3>1. /\ fpc'[e] = (IF Registered(e) = {} THEN "done" ELSE "marks")
          /\ unread'[e] = Registered(e) /\ stale'[e] = CallShortfalls(e)
          /\ clean'[e] = (clean[e] /\ ~InFlight(e))
      BY <1>8, <2>3 DEF FinishCalls, TypeOK
    <3>2. \A k \in Keys : k \in stale'[e] <=> declared'[e][k] # {} /\ Unmet(declared'[e][k], n'[e][k])
      BY <2>1, <3>1 DEF CallShortfalls
    <3>3. \A r \in unread'[e] : r \notin stale'[e]
      BY <3>1, NamesDisjoint DEF Registered, CountedRegions, CallShortfalls
    <3>4. CountedRegions \cap entered'[e] \subseteq unread'[e]
      BY <2>1, <3>1 DEF Registered
    <3>5. ~InFlight(e) => Settled(e)'
      BY <2>1, <3>2, <3>3, <3>4 DEF Settled, Unmet
    <3>6. QED
      BY <3>1, <3>5 DEF FinishOK
  <2>4. QED
    BY <2>2, <2>3
<1>9. ASSUME NEW d \in Execs, NEW r \in Regions, EnterRegion(d, r)
      PROVE  FinishOK(e)'
  <2>1. /\ n' = n /\ declared' = declared /\ markN' = markN
        /\ fpc' = fpc /\ unread' = unread /\ stale' = stale
        /\ (InFlight(e)' <=> InFlight(e))
        /\ clean' = [clean EXCEPT ![d] = clean[d] /\ fpc[d] = "open"]
    BY <1>9 DEF EnterRegion, finishVars, callVars, InFlight, Exec
  <2>2. CASE d = e
    BY <1>2, <2>1, <2>2 DEF FinishOK, TypeOK
  <2>3. CASE d # e
    <3>1. entered'[e] = entered[e] /\ clean'[e] = clean[e]
      BY <1>9, <2>1, <2>3 DEF EnterRegion, TypeOK
    <3>2. QED
      BY <1>2, <2>1, <3>1, SettledSame
  <2>4. QED
    BY <2>2, <2>3
<1>10. ASSUME NEW d \in Execs, NEW r \in Regions, FinishMark(d, r)
       PROVE  FinishOK(e)'
  <2>1. /\ n' = n /\ declared' = declared /\ markN' = markN /\ entered' = entered /\ clean' = clean
        /\ (InFlight(e)' <=> InFlight(e))
    BY <1>10 DEF FinishMark, scopeVars, callVars, InFlight, Exec
  <2>2. CASE d # e
    <3>1. fpc'[e] = fpc[e] /\ unread'[e] = unread[e] /\ stale'[e] = stale[e]
      BY <1>10, <2>2 DEF FinishMark, TypeOK
    <3>2. QED
      BY <1>2, <2>1, <3>1, SettledSame
  <2>3. CASE d = e
    <3>1. fpc[e] = "marks" /\ r \in unread[e]
      BY <1>10, <2>3 DEF FinishMark
    <3>2. fpc'[e] = (IF unread[e] = {r} THEN "done" ELSE "marks") /\ unread'[e] = unread[e] \ {r}
      BY <1>10, <2>3 DEF FinishMark, TypeOK
    <3>3. stale'[e] = IF Unmet(RegionCounts[r], markN[e][r]) THEN stale[e] \cup {r} ELSE stale[e]
      BY <1>10, <2>3 DEF FinishMark, TypeOK
    <3>4. r \notin Keys
      BY NamesDisjoint
    <3>5. Settled(e) => Settled(e)'
      <4>1. SUFFICES ASSUME Settled(e)
                     PROVE  Settled(e)'
        OBVIOUS
      <4>2. \A k \in Keys : k \in stale'[e] <=> declared[e][k] # {} /\ Unmet(declared[e][k], n[e][k])
        BY <3>3, <3>4, <4>1 DEF Settled
      <4>3. \A q \in CountedRegions \cap entered[e] :
               q \notin unread'[e] => (q \in stale'[e] <=> Unmet(RegionCounts[q], markN[e][q]))
        <5>1. SUFFICES ASSUME NEW q \in CountedRegions \cap entered[e], q \notin unread'[e]
                       PROVE  q \in stale'[e] <=> Unmet(RegionCounts[q], markN[e][q])
          OBVIOUS
        <5>2. CASE q = r
          <6>1. r \notin stale[e]
            BY <3>1, <4>1 DEF Settled
          <6>2. QED
            BY <3>3, <5>2, <6>1
        <5>3. CASE q # r
          <6>1. q \notin unread[e]
            BY <3>2, <5>1, <5>3
          <6>2. q \in stale[e] <=> Unmet(RegionCounts[q], markN[e][q])
            BY <4>1, <6>1 DEF Settled
          <6>3. QED
            BY <3>3, <5>3, <6>2
        <5>4. QED
          BY <5>2, <5>3
      <4>4. \A q \in unread'[e] : q \notin stale'[e]
        BY <3>2, <3>3, <4>1 DEF Settled
      <4>5. QED
        BY <2>1, <4>1, <4>2, <4>3, <4>4 DEF Settled, Unmet
    <3>6. QED
      BY <1>2, <2>1, <3>1, <3>2, <3>5 DEF FinishOK
  <2>4. QED
    BY <2>2, <2>3
<1>11. QED
  BY <1>3, <1>4, <1>6, <1>7, <1>8, <1>9, <1>10 DEF Next

LEMMA InitFinish == Init => FinishInv
BY DEF Init, FinishInv, FinishOK

\* An undisturbed finish of a pinned identity reports a drift of its calls
\* exactly once, as a StaleAllow or as Violations (reportCallShortfalls).
THEOREM DriftIsReportedOnce == Spec => []DriftReportedOnce
<1> DEFINE Inv == TypeOK /\ FrameInv /\ CoveredInv /\ PinnedInv /\ FinishInv
<1>1. Init => Inv
  BY InitFrame, InitPinned, InitFinish
<1>2. Inv /\ [Next]_vars => Inv'
  BY NextFrame, NextCovered, NextPinned, NextFinish
<1>3. Inv => DriftReportedOnce
  <2>1. SUFFICES ASSUME Inv, NEW e \in Execs, NEW k \in Keys, NEW s \in Sites,
                        PinnedBy(k, s.counts), FinishedClean(e), n[e][k] > 0
                 PROVE  /\ (k \in stale[e] \/ Violations(e, k) # {}) <=> n[e][k] \notin s.counts
                        /\ ~(k \in stale[e] /\ Violations(e, k) # {})
    BY DEF DriftReportedOnce
  <2> DEFINE counts == s.counts  m == maxCount(counts)
  <2>2. counts # {} /\ m \in Nat /\ \A c \in counts : c <= m
    BY <2>1, Declared, MaxCount DEF PinnedBy
  <2>3. n[e][k] \in Nat
    BY <2>1, BoundsTyped DEF TypeOK, Calls
  <2>4. Settled(e)
    BY <2>1 DEF FinishInv, FinishOK, FinishedClean
  <2>5. Pinned(e, k, counts)
    BY <2>1 DEF PinnedInv
  <2>6. declared[e][k] = counts
    <3>1. Accounted(e, k, 1)
      BY <2>1, <2>3 DEF CoveredInv
    <3>2. \E y \in log : Of(y.event, e, k)
      BY <2>4, <3>1 DEF Accounted, Settled, InFlight, Of, Exec
    <3>3. QED
      BY <2>5, <3>2 DEF Pinned
  <2>7. k \in stale[e] <=> n[e][k] <= m /\ n[e][k] \notin counts
    BY <2>2, <2>4, <2>6 DEF Settled, Unmet
  <2>8. ReportedCalls(e, k) = (m + 1)..n[e][k]
    BY <2>1, <2>2, <2>4, <2>5, CutSurfaces DEF Pinned, Settled
  <2>9. Violations(e, k) # {} <=> ReportedCalls(e, k) # {}
    BY DEF ReportedCalls
  <2> HIDE DEF m, counts
  <2>10. (m + 1)..n[e][k] # {} <=> n[e][k] > m
    BY <2>2, <2>3
  <2>11. n[e][k] > m => n[e][k] \notin counts
    BY <2>2, <2>3
  <2>12. Violations(e, k) # {} <=> n[e][k] > m
    BY <2>8, <2>9, <2>10
  <2>13. /\ (k \in stale[e] \/ Violations(e, k) # {}) <=> n[e][k] \notin counts
         /\ ~(k \in stale[e] /\ Violations(e, k) # {})
    BY <2>2, <2>3, <2>7, <2>11, <2>12
  <2>14. QED
    BY <2>13 DEF counts
<1>4. QED
  BY <1>1, <1>2, <1>3, PTL DEF Spec

-----------------------------------------------------------------------------
(* Counted regions. *)

\* A counted region has decided no more events than it has seen, nor more than
\* it may.
RegionInv ==
  \A e \in Execs, r \in CountedRegions :
    /\ IsFiniteSet(RegionDecisions(e, r))
    /\ Cardinality(RegionDecisions(e, r)) <= markN[e][r]
    /\ Cardinality(RegionDecisions(e, r)) <= maxCount(RegionCounts[r])

LEMMA RegionSame ==
  ASSUME RegionInv, markN' = markN,
         \A e \in Execs, r \in CountedRegions : RegionDecisions(e, r)' = RegionDecisions(e, r)
  PROVE  RegionInv'
BY DEF RegionInv

LEMMA EndedRegion ==
  ASSUME NEW g \in Goroutines, NEW x, NEW v, Ended(g, x, v), NEW e, NEW r,
         v # "region" \/ x.exec # e \/ x.site.region # r
  PROVE  RegionDecisions(e, r)' = RegionDecisions(e, r)
BY DEF Ended, RegionDecisions

LEMMA LaterRegion ==
  ASSUME NEW g \in Goroutines, NEW x, Later(g, x), NEW e, NEW r
  PROVE  RegionDecisions(e, r)' = RegionDecisions(e, r)
<1>1. CASE log' = log
  BY <1>1 DEF RegionDecisions
<1>2. CASE Ended(g, x, "violation")
  BY <1>2, EndedRegion
<1>3. QED
  BY <1>1, <1>2 DEF Later, Moved

LEMMA ConsultRegionCounts ==
  ASSUME TypeOK, FrameInv, RegionInv, NEW g \in Goroutines, ConsultRegion(g)
  PROVE  RegionInv'
<1> DEFINE f == Exec(g)  q == Site(g).region
<1>1. f \in Execs /\ q \in Regions
  BY TypeParts, EventFields DEF ConsultRegion, FrameInv, MarkSited
<1>2. \A e \in Execs, r \in Regions : markN[e][r] \in Nat
  BY DEF TypeOK
<1>3. markN' = [markN EXCEPT ![f] = [markN[f] EXCEPT ![q] = markN[f][q] + 1]]
  BY DEF ConsultRegion
<1>4. /\ markN'[f][q] = markN[f][q] + 1
      /\ \A e \in Execs, r \in Regions : e # f \/ r # q => markN'[e][r] = markN[e][r]
  BY <1>1, <1>3 DEF TypeOK
<1>5. IF coversCalls(RegionCounts[q], markN'[f][q])
      THEN Ended(g, event[g], "region") ELSE Later(g, event[g])
  BY ConsultRegionOutcome
<1>6. event[g].exec = f /\ event[g].site.region = q
  BY DEF Exec, Site
<1> HIDE DEF f, q
<1>7. SUFFICES ASSUME NEW e \in Execs, NEW r \in CountedRegions
               PROVE  /\ IsFiniteSet(RegionDecisions(e, r)')
                      /\ Cardinality(RegionDecisions(e, r)') <= markN'[e][r]
                      /\ Cardinality(RegionDecisions(e, r)') <= maxCount(RegionCounts[r])
  BY DEF RegionInv
<1>8. /\ IsFiniteSet(RegionDecisions(e, r))
      /\ Cardinality(RegionDecisions(e, r)) <= markN[e][r]
      /\ Cardinality(RegionDecisions(e, r)) <= maxCount(RegionCounts[r])
      /\ Cardinality(RegionDecisions(e, r)) \in Nat
  BY FS_CardinalityType DEF RegionInv
<1>9. r \in Regions /\ RegionCounts[r] # {} /\ maxCount(RegionCounts[r]) \in Nat
  BY Declared, MaxCount DEF CountedRegions
<1>10. CASE RegionDecisions(e, r)' = RegionDecisions(e, r)
  <2>1. markN'[e][r] >= markN[e][r]
    <3>1. CASE e = f /\ r = q
      BY <1>1, <1>2, <1>4, <3>1
    <3>2. CASE e # f \/ r # q
      BY <1>2, <1>4, <1>9, <3>2
    <3>3. QED
      BY <3>1, <3>2
  <2>2. markN[e][r] \in Nat /\ markN'[e][r] \in Int
    BY <1>1, <1>2, <1>4, <1>9
  <2>3. QED
    BY <1>8, <1>10, <2>1, <2>2
<1>11. CASE e = f /\ r = q /\ coversCalls(RegionCounts[q], markN'[f][q])
  <2>1. PICK y : /\ y.event = event[g] /\ y.verdict = "region" /\ log' = log \cup {y}
    BY <1>5, <1>11 DEF Ended
  <2>2. RegionDecisions(e, r)' = RegionDecisions(e, r) \cup {y}
    BY <1>6, <1>11, <2>1 DEF RegionDecisions
  <2>3. /\ IsFiniteSet(RegionDecisions(e, r) \cup {y})
        /\ Cardinality(RegionDecisions(e, r) \cup {y}) <= Cardinality(RegionDecisions(e, r)) + 1
        /\ Cardinality(RegionDecisions(e, r) \cup {y}) \in Nat
    <3> DEFINE S == RegionDecisions(e, r)
    <3>1. IsFiniteSet(S) /\ Cardinality(S) \in Nat
      BY <1>8
    <3> HIDE DEF S
    <3>2. /\ IsFiniteSet(S \cup {y})
          /\ Cardinality(S \cup {y}) = IF y \in S THEN Cardinality(S) ELSE Cardinality(S) + 1
      BY <3>1, FS_AddElement
    <3>3. QED
      BY <3>1, <3>2 DEF S
  <2>4. markN'[e][r] = markN[e][r] + 1 /\ markN[e][r] \in Nat
    BY <1>1, <1>2, <1>4, <1>11
  <2>5. markN'[e][r] <= maxCount(RegionCounts[r])
    BY <1>9, <1>11 DEF coversCalls
  <2>6. Cardinality(RegionDecisions(e, r) \cup {y}) <= markN'[e][r]
    BY <1>8, <2>3, <2>4
  <2>7. Cardinality(RegionDecisions(e, r) \cup {y}) <= maxCount(RegionCounts[r])
    BY <1>9, <2>3, <2>4, <2>5, <2>6
  <2>8. QED
    BY <2>2, <2>3, <2>6, <2>7
<1>12. CASE ~(e = f /\ r = q /\ coversCalls(RegionCounts[q], markN'[f][q]))
  <2>1. CASE Ended(g, event[g], "region")
    <3>1. CASE e # f \/ r # q
      BY <1>6, <1>10, <2>1, <3>1, EndedRegion
    <3>2. CASE ~coversCalls(RegionCounts[q], markN'[f][q])
      BY <1>5, <1>10, <3>2, LaterRegion
    <3>3. QED
      BY <1>12, <3>1, <3>2
  <2>2. CASE Later(g, event[g])
    BY <1>10, <2>2, LaterRegion
  <2>3. QED
    BY <1>5, <2>1, <2>2
<1>13. QED
  BY <1>11, <1>12

LEMMA NextRegion ==
  ASSUME TypeOK, FrameInv, RegionInv, [Next]_vars
  PROVE  RegionInv'
<1>1. ASSUME NEW g \in Goroutines, NEW d \in Execs, NEW s \in Sites, DecideAndReport(g, d, s)
      PROVE  RegionInv'
  <2> DEFINE x == [site |-> s, exec |-> d, call |-> n[d][s.key] + 1]
  <2>1. IF s.allowed THEN Moved(g, "note", x, consulted[g]) ELSE Later(g, x)
    BY <1>1, DecideAndReportOutcome
  <2> HIDE DEF x
  <2>2. \A e \in Execs, r \in CountedRegions : RegionDecisions(e, r)' = RegionDecisions(e, r)
    BY <2>1, LaterRegion DEF Moved, RegionDecisions
  <2>3. QED
    BY <1>1, <2>2, RegionSame DEF DecideAndReport
<1>2. ASSUME NEW g \in Goroutines, ConsultCallSite(g)
      PROVE  RegionInv'
  <2>1. Ended(g, event[g], "callSite") \/ Later(g, event[g])
    BY <1>2, ConsultCallSiteOutcome
  <2>2. \A e \in Execs, r \in CountedRegions : RegionDecisions(e, r)' = RegionDecisions(e, r)
    BY <2>1, EndedRegion, LaterRegion
  <2>3. QED
    BY <1>2, <2>2, RegionSame DEF ConsultCallSite
<1>3. ASSUME NEW g \in Goroutines, ConsultRegion(g)
      PROVE  RegionInv'
  BY <1>3, ConsultRegionCounts
<1>4. ASSUME NEW g \in Goroutines, ConsultAllowlist(g)
      PROVE  RegionInv'
  <2>1. log' = log \/ Ended(g, event[g], "violation")
    BY <1>4, ConsultAllowlistOutcome DEF Moved
  <2>2. \A e \in Execs, r \in CountedRegions : RegionDecisions(e, r)' = RegionDecisions(e, r)
    <3>1. CASE log' = log
      BY <3>1 DEF RegionDecisions
    <3>2. CASE Ended(g, event[g], "violation")
      BY <3>2, EndedRegion
    <3>3. QED
      BY <2>1, <3>1, <3>2
  <2>3. QED
    BY <1>4, <2>2, RegionSame DEF ConsultAllowlist, scopeVars
<1>5. ASSUME NEW g \in Goroutines, NoteAllowlist(g)
      PROVE  RegionInv'
  <2>1. Ended(g, event[g], "list") \/ Ended(g, event[g], "violation")
    BY <1>5, NoteAllowlistOutcome
  <2>2. \A e \in Execs, r \in CountedRegions : RegionDecisions(e, r)' = RegionDecisions(e, r)
    BY <2>1, EndedRegion
  <2>3. QED
    BY <1>5, <2>2, RegionSame DEF NoteAllowlist
<1>6. CASE markN' = markN /\ log' = log
  BY <1>6, RegionSame DEF RegionDecisions
<1>7. ASSUME NEW e \in Execs,
             FinishCalls(e) \/ \E r \in Regions : EnterRegion(e, r) \/ FinishMark(e, r)
      PROVE  RegionInv'
  BY <1>6, <1>7, ScopeStepQuiet
<1>8. ASSUME NEW x \in Addable, Add(x)
      PROVE  RegionInv'
  BY <1>6, <1>8 DEF Add, scopeVars
<1>9. CASE UNCHANGED vars
  BY <1>6, <1>9 DEF vars, scopeVars
<1>10. QED
  BY <1>1, <1>2, <1>3, <1>4, <1>5, <1>7, <1>8, <1>9 DEF Next

LEMMA InitRegion == Init => RegionInv
<1> SUFFICES ASSUME Init, NEW e \in Execs, NEW r \in CountedRegions
             PROVE  /\ IsFiniteSet(RegionDecisions(e, r))
                    /\ Cardinality(RegionDecisions(e, r)) <= markN[e][r]
                    /\ Cardinality(RegionDecisions(e, r)) <= maxCount(RegionCounts[r])
  BY DEF RegionInv
<1>1. RegionDecisions(e, r) = {}
  BY DEF Init, RegionDecisions
<1>2. IsFiniteSet(RegionDecisions(e, r)) /\ Cardinality(RegionDecisions(e, r)) = 0
  BY <1>1, FS_EmptySet
<1>3. markN[e][r] = 0 /\ maxCount(RegionCounts[r]) \in Nat
  BY Declared, MaxCount DEF Init, CountedRegions
<1>4. QED
  BY <1>2, <1>3

\* A counted region never suppresses more than its largest count, however the
\* goroutines inside it interleave, and an undisturbed finish reports it stale
\* exactly when what it suppressed is not a declared number (allow.go).
THEOREM RegionTotalPinned == Spec => []RegionPinsItsTotal
<1> DEFINE Inv == TypeOK /\ FrameInv /\ FinishInv /\ RegionInv
<1>1. Init => Inv
  BY InitFrame, InitFinish, InitRegion
<1>2. Inv /\ [Next]_vars => Inv'
  BY NextFrame, NextFinish, NextRegion
<1>3. Inv => RegionPinsItsTotal
  <2>1. SUFFICES ASSUME Inv, NEW e \in Execs, NEW r \in Regions, RegionCounts[r] # {}
                 PROVE  LET counts == RegionCounts[r]
                            covered == Cardinality(RegionDecisions(e, r))
                        IN /\ covered <= maxCount(counts)
                           /\ FinishedClean(e) /\ r \in entered[e] /\ markN[e][r] = covered
                                => (r \in stale[e] <=> covered \notin counts)
    BY DEF RegionPinsItsTotal
  <2> DEFINE covered == Cardinality(RegionDecisions(e, r))
  <2>2. r \in CountedRegions /\ covered <= maxCount(RegionCounts[r])
    BY <2>1 DEF RegionInv, CountedRegions
  <2>3. ASSUME FinishedClean(e), r \in entered[e], markN[e][r] = covered
        PROVE  r \in stale[e] <=> covered \notin RegionCounts[r]
    <3>1. Settled(e) /\ unread[e] = {}
      BY <2>1, <2>3 DEF FinishInv, FinishOK, FinishedClean
    <3>2. r \in stale[e] <=> Unmet(RegionCounts[r], covered)
      BY <2>2, <2>3, <3>1 DEF Settled
    <3>3. QED
      BY <2>2, <3>2 DEF Unmet
  <2>4. QED
    BY <2>2, <2>3
<1>4. QED
  BY <1>1, <1>2, <1>3, PTL DEF Spec
-----------------------------------------------------------------------------
(* Regions that nothing else covers. *)

\* Neither a call site nor an entry covers what happens in region r.
Alone(r) ==
  \A s \in Sites : s.region = r => ~s.allowed /\ \A x \in Listed \cup Addable : x.key # s.key

Inside(x, e, r) == x.exec = e /\ x.site.region = r

\* The region has declined an event of e: it is reported, or about to be.
Declined(e, r) ==
  \/ \E y \in log : y.verdict = "violation" /\ Inside(y.event, e, r)
  \/ \E g \in Goroutines : pc[g] = "list" /\ Inside(event[g], e, r)

RegionOK(e, r) ==
  /\ Declined(e, r) <=> markN[e][r] > maxCount(RegionCounts[r])
  /\ \A g \in Goroutines : Inside(event[g], e, r) => pc[g] \notin {"note", "listNote"}

ReportInv == \A e \in Execs, r \in CountedRegions : Alone(r) => RegionOK(e, r)

\* A step of a call elsewhere.
LEMMA RegionElsewhere ==
  ASSUME NEW e \in Execs, NEW r, RegionOK(e, r), markN'[e][r] = markN[e][r],
         NEW g \in Goroutines, NEW x, Handles(g, x), pc[g] # "idle" => x = event[g], ~Inside(x, e, r)
  PROVE  RegionOK(e, r)'
<1>1. /\ Others(g) /\ (pc'[g] # "idle" => event'[g] = x)
      /\ log' = log \/ \E y : y.event = x /\ log' = log \cup {y}
  BY DEF Handles, Moved, Ended
<1>2. \A h \in Goroutines : pc[h] = "list" /\ Inside(event[h], e, r) => h # g
  OBVIOUS
<1>3. \A h \in Goroutines : pc'[h] # "idle" /\ Inside(event'[h], e, r) => h # g
  BY <1>1
<1>4. Declined(e, r)' <=> Declined(e, r)
  BY <1>1, <1>2, <1>3 DEF Declined, Others, Inside
<1>5. \A h \in Goroutines : Inside(event'[h], e, r) => pc'[h] \notin {"note", "listNote"}
  BY <1>1, <1>3 DEF RegionOK, Others
<1>6. QED
  BY <1>4, <1>5 DEF RegionOK, Inside

\* An event inside the region gets there before the list.
LEMMA RegionEntered ==
  ASSUME NEW e \in Execs, NEW r, RegionOK(e, r), markN'[e][r] = markN[e][r],
         NEW g \in Goroutines, pc[g] = "idle", NEW x, NEW c, Moved(g, "mark", x, c)
  PROVE  RegionOK(e, r)'
<1>1. /\ Others(g) /\ pc'[g] = "mark" /\ log' = log
  BY DEF Moved
<1>2. Declined(e, r)' <=> Declined(e, r)
  BY <1>1 DEF Declined, Others, Inside
<1>3. QED
  BY <1>1, <1>2 DEF RegionOK, Others, Inside

LEMMA RegionSilent ==
  ASSUME ReportInv, markN' = markN, pc' = pc, event' = event, log' = log
  PROVE  ReportInv'
BY DEF ReportInv, RegionOK, Declined, Inside

\* What the region declines goes to the list, which has nothing for it.
LEMMA RegionDeclines ==
  ASSUME TypeOK, NEW e \in Execs, NEW r \in CountedRegions, RegionOK(e, r),
         NEW g \in Goroutines, ConsultRegion(g), Inside(event[g], e, r)
  PROVE  RegionOK(e, r)'
<1>1. r \in Regions /\ maxCount(RegionCounts[r]) \in Nat /\ RegionCounts[r] # {}
  BY Declared, MaxCount DEF CountedRegions
<1>2. markN[e][r] \in Nat
  BY <1>1 DEF TypeOK
<1>3. Exec(g) = e /\ Site(g).region = r /\ pc[g] = "mark"
  BY DEF Inside, Exec, Site, ConsultRegion
<1>4. markN'[e][r] = markN[e][r] + 1
  BY <1>1, <1>3 DEF ConsultRegion, TypeOK
<1>5. CallTyped /\ event[g] \in Events
  BY TypeParts, EventFields
<1>6. CASE markN'[e][r] <= maxCount(RegionCounts[r])
  <2>1. Ended(g, event[g], "region")
    BY <1>3, <1>6, ConsultRegionOutcome DEF coversCalls
  <2>2. /\ Others(g) /\ pc'[g] = "idle"
        /\ \E y : y.verdict = "region" /\ log' = log \cup {y}
    BY <2>1 DEF Ended
  <2>3. ~Declined(e, r)
    BY <1>1, <1>2, <1>4, <1>6 DEF RegionOK
  <2>4. ~Declined(e, r)'
    BY <2>2, <2>3 DEF Declined, Others, Inside
  <2>5. \A h \in Goroutines : Inside(event'[h], e, r) => pc'[h] \notin {"note", "listNote"}
    BY <2>2 DEF RegionOK, Others
  <2>6. ~(markN'[e][r] > maxCount(RegionCounts[r]))
    BY <1>1, <1>2, <1>4, <1>6
  <2>7. QED
    BY <2>4, <2>5, <2>6 DEF RegionOK, Inside
<1>7. CASE ~(markN'[e][r] <= maxCount(RegionCounts[r]))
  <2>1. Later(g, event[g]) /\ AfterRegion(g, event[g], declined[g] \cup RegionCounts[r])
    BY <1>1, <1>3, <1>7, ConsultRegionOutcome DEF coversCalls, ConsultRegion
  <2>2. /\ ~HasAllowlist => Ended(g, event[g], "violation")
        /\ HasAllowlist => Moved(g, "list", event[g], consulted[g])
    BY <1>5, <2>1, AfterRegionOutcome
  <2>3. /\ Others(g) /\ pc'[g] \in {"idle", "list"}
        /\ \/ pc'[g] = "list" /\ event'[g] = event[g]
           \/ \E y : y.verdict = "violation" /\ y.event = event[g] /\ log' = log \cup {y}
    BY <2>2 DEF Moved, Ended
  <2>4. Declined(e, r)'
    BY <2>3 DEF Declined, Inside
  <2>5. \A h \in Goroutines : Inside(event'[h], e, r) => pc'[h] \notin {"note", "listNote"}
    BY <2>3 DEF RegionOK, Others
  <2>6. markN'[e][r] > maxCount(RegionCounts[r])
    BY <1>1, <1>2, <1>4, <1>7
  <2>7. QED
    BY <2>4, <2>5, <2>6 DEF RegionOK, Inside
<1>8. QED
  BY <1>6, <1>7

LEMMA RegionReports ==
  ASSUME TypeOK, NEW e \in Execs, NEW r \in CountedRegions, Alone(r), RegionOK(e, r),
         NEW g \in Goroutines, ConsultAllowlist(g), Inside(event[g], e, r)
  PROVE  RegionOK(e, r)'
<1>1. Site(g) \in Sites /\ Site(g).region = r /\ pc[g] = "list" /\ markN' = markN
  BY TypeParts, EventFields DEF Inside, Site, ConsultAllowlist, scopeVars
<1>2. \A x \in entries : x.key # Key(g)
  <2>1. \A x \in EntryObjects : \E y \in Listed \cup Addable : x.key = y.key
    BY DEF EntryObjects, EntryOf
  <2>2. entries \subseteq EntryObjects
    BY DEF TypeOK
  <2>3. \A y \in Listed \cup Addable : y.key # Key(g)
    BY <1>1 DEF Alone, Key
  <2>4. QED
    BY <2>1, <2>2, <2>3
<1>3. Resolved(Exec(g), Key(g)) = {}
  BY <1>2 DEF Resolved
<1>4. Ended(g, event[g], "violation")
  BY <1>3, ConsultAllowlistOutcome
<1>5. /\ Others(g) /\ pc'[g] = "idle"
      /\ \E y : y.verdict = "violation" /\ y.event = event[g] /\ log' = log \cup {y}
  BY <1>4 DEF Ended
<1>6. Declined(e, r) /\ Declined(e, r)'
  BY <1>1, <1>5 DEF Declined, Inside
<1>7. \A h \in Goroutines : Inside(event'[h], e, r) => pc'[h] \notin {"note", "listNote"}
  BY <1>5 DEF RegionOK, Others
<1>8. QED
  BY <1>1, <1>6, <1>7 DEF RegionOK, Inside

LEMMA NextReport ==
  ASSUME TypeOK, FrameInv, ReportInv, [Next]_vars
  PROVE  ReportInv'
<1>1. ASSUME NEW g \in Goroutines, NEW d \in Execs, NEW s \in Sites, DecideAndReport(g, d, s)
      PROVE  ReportInv'
  <2> DEFINE x == [site |-> s, exec |-> d, call |-> bumpCall(d, s.key)]
  <2>1. SUFFICES ASSUME NEW e \in Execs, NEW r \in CountedRegions, Alone(r)
                 PROVE  RegionOK(e, r)'
    BY DEF ReportInv
  <2>2. RegionOK(e, r) /\ markN' = markN /\ pc[g] = "idle"
    BY <1>1, <2>1 DEF ReportInv, DecideAndReport
  <2>3. x \in Events /\ (IF s.allowed THEN Moved(g, "note", x, consulted[g]) ELSE Later(g, x))
    BY <1>1, DecideAndReportOutcome DEF bumpCall
  <2>4. x.site = s
    OBVIOUS
  <2>5. ~s.allowed => AfterCallSite(g, x, {})
    BY <1>1 DEF DecideAndReport
  <2> HIDE DEF x
  <2>6. CASE Inside(x, e, r)
    <3>1. ~s.allowed /\ x.site.region # NoRegion
      BY <2>1, <2>4, <2>6, NamesDisjoint DEF Alone, Inside, CountedRegions
    <3>2. Moved(g, "mark", x, consulted[g])
      BY <2>5, <3>1, TypeParts, FallMoves DEF AfterCallSite
    <3>3. QED
      BY <2>2, <3>2, RegionEntered
  <2>7. CASE ~Inside(x, e, r)
    <3>1. Handles(g, x)
      BY <2>3, LaterHandles DEF Handles
    <3>2. QED
      BY <2>2, <2>7, <3>1, RegionElsewhere
  <2>8. QED
    BY <2>6, <2>7
<1>2. ASSUME NEW g \in Goroutines,
             ConsultCallSite(g) \/ ConsultRegion(g) \/ ConsultAllowlist(g) \/ NoteAllowlist(g)
      PROVE  ReportInv'
  <2>1. SUFFICES ASSUME NEW e \in Execs, NEW r \in CountedRegions, Alone(r)
                 PROVE  RegionOK(e, r)'
    BY DEF ReportInv
  <2>2. RegionOK(e, r)
    BY <2>1 DEF ReportInv
  <2>3. CASE Inside(event[g], e, r)
    <3>1. pc[g] \notin {"note", "listNote"}
      BY <2>2, <2>3 DEF RegionOK
    <3>2. ConsultRegion(g) \/ ConsultAllowlist(g)
      BY <1>2, <3>1 DEF ConsultCallSite, NoteAllowlist
    <3>3. QED
      BY <2>1, <2>2, <2>3, <3>2, RegionDeclines, RegionReports
  <2>4. CASE ~Inside(event[g], e, r)
    <3>1. Handles(g, event[g])
      BY <1>2, GoroutineHandles
    <3>2. markN'[e][r] = markN[e][r]
      <4>1. CASE ConsultRegion(g)
        <5>1. Exec(g) # e \/ Site(g).region # r
          BY <2>4 DEF Inside, Exec, Site
        <5>2. QED
          BY <4>1, <5>1 DEF ConsultRegion, TypeOK, CountedRegions
      <4>2. CASE ConsultCallSite(g) \/ ConsultAllowlist(g) \/ NoteAllowlist(g)
        BY <4>2 DEF ConsultCallSite, ConsultAllowlist, NoteAllowlist, scopeVars
      <4>3. QED
        BY <1>2, <4>1, <4>2
    <3>3. QED
      BY <2>2, <2>4, <3>1, <3>2, RegionElsewhere
  <2>5. QED
    BY <2>3, <2>4
<1>3. ASSUME NEW e \in Execs,
             FinishCalls(e) \/ \E r \in Regions : EnterRegion(e, r) \/ FinishMark(e, r)
      PROVE  ReportInv'
  BY <1>3, ScopeStepQuiet, RegionSilent
<1>4. ASSUME NEW x \in Addable, Add(x)
      PROVE  ReportInv'
  BY <1>4, RegionSilent DEF Add, scopeVars, callVars
<1>5. CASE UNCHANGED vars
  BY <1>5, RegionSilent DEF vars, scopeVars, callVars
<1>6. QED
  BY <1>1, <1>2, <1>3, <1>4, <1>5 DEF Next

LEMMA InitReport == Init => ReportInv
<1> SUFFICES ASSUME Init, NEW e \in Execs, NEW r \in CountedRegions
             PROVE  RegionOK(e, r)
  BY DEF ReportInv
<1>1. markN[e][r] = 0 /\ maxCount(RegionCounts[r]) \in Nat
  BY Declared, MaxCount DEF Init, CountedRegions
<1>2. ~Declined(e, r)
  BY DEF Init, Declined
<1>3. QED
  BY <1>1, <1>2 DEF Init, RegionOK

\* A region that nothing else covers and that e has been through undisturbed.
RegionDriftReported ==
  \A e \in Execs, r \in CountedRegions :
    FinishedClean(e) /\ r \in entered[e] /\ Alone(r) =>
      (markN[e][r] \notin RegionCounts[r] <=>
         \/ r \in stale[e]
         \/ \E y \in log : y.verdict = "violation" /\ Inside(y.event, e, r))

\* No call is left inside decideAndReport when a finish has run alone.
NothingInFlight == \A e \in Execs : FinishedClean(e) => ~InFlight(e)

\* An undisturbed finish of such a region reports a drift of the events inside
\* it, by a StaleAllow or by Violations, and nothing else (ConsultRegion's
\* counter and the one reportCallShortfalls reads; allow.go).
THEOREM RegionDriftIsReported == Spec => []RegionDriftReported
<1> DEFINE Inv == TypeOK /\ FrameInv /\ FinishInv /\ ReportInv
<1>1. Init => Inv
  BY InitFrame, InitFinish, InitReport
<1>2. Inv /\ [Next]_vars => Inv'
  BY NextFrame, NextFinish, NextReport
<1>3. Inv => RegionDriftReported
  <2>1. SUFFICES ASSUME Inv, NEW e \in Execs, NEW r \in CountedRegions,
                        FinishedClean(e), r \in entered[e], Alone(r)
                 PROVE  markN[e][r] \notin RegionCounts[r] <=>
                          \/ r \in stale[e]
                          \/ \E y \in log : y.verdict = "violation" /\ Inside(y.event, e, r)
    BY DEF RegionDriftReported
  <2>2. Settled(e) /\ unread[e] = {}
    BY <2>1 DEF FinishInv, FinishOK, FinishedClean
  <2>3. r \in stale[e] <=> Unmet(RegionCounts[r], markN[e][r])
    BY <2>1, <2>2 DEF Settled
  <2>4. \A g \in Goroutines : pc[g] = "list" => ~Inside(event[g], e, r)
    BY <2>2 DEF Settled, InFlight, Exec, Inside
  <2>5. (\E y \in log : y.verdict = "violation" /\ Inside(y.event, e, r))
          <=> markN[e][r] > maxCount(RegionCounts[r])
    BY <2>1, <2>4 DEF ReportInv, RegionOK, Declined
  <2>6. /\ markN[e][r] \in Nat /\ maxCount(RegionCounts[r]) \in Nat
        /\ \A c \in RegionCounts[r] : c <= maxCount(RegionCounts[r])
    BY <2>1, Declared, MaxCount DEF CountedRegions, TypeOK
  <2>7. markN[e][r] > maxCount(RegionCounts[r]) => markN[e][r] \notin RegionCounts[r]
    BY <2>6
  <2>8. QED
    BY <2>3, <2>5, <2>6, <2>7 DEF Unmet
<1>4. QED
  BY <1>1, <1>2, <1>3, PTL DEF Spec

\* A finish that has run alone leaves no call inside decideAndReport.
THEOREM NothingLeftInFlight == Spec => []NothingInFlight
<1> DEFINE Inv == TypeOK /\ FrameInv /\ FinishInv
<1>1. Init => Inv
  BY InitFrame, InitFinish
<1>2. Inv /\ [Next]_vars => Inv'
  BY NextFrame, NextFinish
<1>3. Inv => NothingInFlight
  BY DEF FinishInv, FinishOK, FinishedClean, Settled, NothingInFlight
<1>4. QED
  BY <1>1, <1>2, <1>3, PTL DEF Spec
=============================================================================
