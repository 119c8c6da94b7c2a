----------------------------- MODULE Reporters -----------------------------
(***************************************************************************)
(* A chain of reporters as the library is configured with: a Throttling-   *)
(* Reporter and a BaselineReporter, either of them outermost, around a     *)
(* last reporter that collects (reporter.go, baseline.go, throttle.go).    *)
(* Each hands a report on outside its own lock, so reports of different    *)
(* goroutines overtake each other between the layers.  Throttle has the    *)
(* windows; this module has the reports, the keys they are throttled by    *)
(* and what becomes of them on the way.                                    *)
(***************************************************************************)
EXTENDS Throttle, Stacks

CONSTANTS
  Reports,     \* [signal, scope, kind, name, stack]: what is reported; scope,
               \* kind and name are texts, stack the calls it was made under
  Baselined,   \* the identities in the baseline: [scope, kind, name]
  Final        \* the signals the last reporter implements

Nul == "NUL"
Join(s, t) == s \o <<Nul>> \o t

identityKey(r) == Join(r.scope, Join(r.kind, r.name))

\* The keys of the six Report methods.
throttleKey(r) ==
  CASE r.signal \in {"violation", "staleAllow"} -> identityKey(r)
    [] r.signal = "unscopedTx" -> unscopedTxKey(captureStack(r.stack))
    [] r.signal = "unscopedCheck" -> Join(r.kind, r.name)
    [] r.signal = "nestedScope" -> Join(r.scope, r.name)
    [] r.signal = "leakedTx" -> r.scope

ASSUME ChainTyped ==
  /\ Final \subseteq Signals /\ "violation" \in Final /\ {Signals, Final} \subseteq Wrapped
  /\ \A r \in Reports : r.signal \in Signals /\ throttleKey(r) \in Keys

VARIABLES
  throttleFirst, \* the configuration: the ThrottlingReporter is outermost
  held,          \* held[g]: {the report g is handing on} or {}
  layer,         \* layer[g]: the reporter it is handed to next
  usedEntries,   \* the baseline entries marked used
  collected,     \* CollectingReporter's slices: how often each report is in them
  cleared,       \* history: how often Reset has removed it
  tolerated,     \* history: how often the baseline swallowed it
  sent           \* history: how often the detector sent it

handVars == <<held, layer>>
tallyVars == <<collected, cleared, tolerated, sent>>
chainVars == <<throttleFirst, vars, handVars, usedEntries, tallyVars>>
Kept == UNCHANGED <<throttleFirst, vars>>

None == [r \in Reports |-> 0]

\* A BaselineReporter implements every signal too.
ChainInit ==
  /\ Init
  /\ throttleFirst \in BOOLEAN
  /\ implemented = IF throttleFirst THEN Signals ELSE Final
  /\ held = [g \in Goroutines |-> {}]
  /\ layer = [g \in Goroutines |-> "throttle"]
  /\ usedEntries = {}
  /\ collected = None /\ cleared = None /\ tolerated = None /\ sent = None

Holds(g, r, l) == r \in held[g] /\ layer[g] = l
Return(g) == held' = [held EXCEPT ![g] = {}] /\ UNCHANGED layer
HandTo(g, l) == layer' = [layer EXCEPT ![g] = l] /\ UNCHANGED held
AfterThrottle == IF throttleFirst THEN "baseline" ELSE "collect"
AfterBaseline == IF throttleFirst THEN "collect" ELSE "throttle"

SameKey(r) == {q \in Reports : q.signal = r.signal /\ throttleKey(q) = throttleKey(r)}

\* A count is a number of occurrences: the first, the second ... of a report.
Occurrences(count, S) == UNION {{r} \X (1..count[r]) : r \in S}
Total(count, S) == Cardinality(Occurrences(count, S))

\* What the Suppressed* snapshots say of the key of a report.
Suppressed(r) == suppressed[r.signal][throttleKey(r)]

\* The detector calls the outermost reporter, MaxReports times at most.
Send(g, r) ==
  /\ held[g] = {} /\ Total(sent, Reports) < MaxReports
  /\ held' = [held EXCEPT ![g] = {r}]
  /\ layer' = [layer EXCEPT ![g] = IF throttleFirst THEN "throttle" ELSE "baseline"]
  /\ sent' = [sent EXCEPT ![r] = @ + 1]
  /\ Kept /\ UNCHANGED <<usedEntries, collected, cleared, tolerated>>

\* The Report methods of ThrottlingReporter up to the call of the wrapped one.
Throttled(g, r) ==
  /\ Holds(g, r, "throttle")
  /\ Receive(g, r.signal, throttleKey(r))
  /\ IF inFlight'[g] = {} THEN Return(g) ELSE HandTo(g, "forward")
  /\ UNCHANGED <<throttleFirst, usedEntries, tallyVars>>

HandOn(g) ==
  /\ layer[g] = "forward" /\ Forward(g)
  /\ HandTo(g, AfterThrottle)
  /\ UNCHANGED <<throttleFirst, usedEntries, tallyVars>>

identity(r) == [scope |-> r.scope, kind |-> r.kind, name |-> r.name]

\* Mistake: every report of a baselined identity is swallowed.
coversAny(r) == identity(r) \in Baselined

\* Only violations are baselined, by the identity itself.
covers(r) == r.signal = "violation" /\ identity(r) \in Baselined

\* The type assertion on the wrapped reporter, before each of the optional
\* signals.  A ThrottlingReporter takes them all, and drops by its own assertion.
NextTakes(r) == throttleFirst => r.signal \in Final

\* The Report methods of BaselineReporter.
Filtered(g, r) ==
  /\ Holds(g, r, "baseline")
  /\ IF covers(r)
     THEN /\ usedEntries' = usedEntries \cup {identity(r)}
          /\ tolerated' = [tolerated EXCEPT ![r] = @ + 1]
          /\ Return(g)
     ELSE /\ IF NextTakes(r) THEN HandTo(g, AfterBaseline) ELSE Return(g)
          /\ UNCHANGED <<usedEntries, tolerated>>
  /\ Kept /\ UNCHANGED <<collected, cleared, sent>>

\* CollectingReporter appends under its lock.
Collected(g, r) ==
  /\ Holds(g, r, "collect")
  /\ collected' = [collected EXCEPT ![r] = @ + 1]
  /\ Return(g)
  /\ Kept /\ UNCHANGED <<usedEntries, cleared, tolerated, sent>>

\* CollectingReporter.Reset.
Reset ==
  /\ collected # None
  /\ collected' = None
  /\ cleared' = [r \in Reports |-> cleared[r] + collected[r]]
  /\ Kept /\ UNCHANGED <<handVars, usedEntries, tolerated, sent>>

Time == Tick /\ UNCHANGED <<throttleFirst, handVars, usedEntries, tallyVars>>

ChainNext ==
  \/ \E g \in Goroutines :
       \/ \E r \in Reports : Send(g, r) \/ Throttled(g, r) \/ Filtered(g, r) \/ Collected(g, r)
       \/ HandOn(g)
  \/ Reset \/ Time

ChainSpec == ChainInit /\ [][ChainNext]_chainVars

-----------------------------------------------------------------------------
(* Properties. *)

Heard(r) == collected[r] + cleared[r] > 0
OnItsWay(r) == \E g \in Goroutines : held[g] = {r}

\* The first report of every finding is forwarded: once a report has been sent
\* and is no longer on its way, the last reporter has received one like it,
\* whatever else was reported in the same interval, unless the baseline
\* tolerates it or the last reporter does not implement it ("the first
\* Violation is forwarded to the wrapped reporter immediately", throttle.go).
FirstHeard ==
  \A r \in Reports :
    sent[r] > 0 /\ ~OnItsWay(r) /\ ~covers(r) /\ r.signal \in Final
      => Heard(r)

\* The counts add up through the whole chain, in both orders and for every
\* key: what the detector sent is on its way, suppressed, tolerated, collected
\* or cleared by Reset ("wrapping neither swallows nor fabricates").
AllAccounted ==
  \A r \in Reports : r.signal \in Final =>
    LET like == SameKey(r) IN
    Total(sent, like) =
      Suppressed(r) + Total(tolerated, like)
        + Total(collected, like) + Total(cleared, like)
        + Cardinality({g \in Goroutines : held[g] \cap like # {}})

\* Only the optional signals that the last reporter implements and the
\* identities that are not baselined reach it; an entry is used exactly when a
\* violation of its own was swallowed, behind a throttle as well.
OnlyUntolerated ==
  /\ \A r \in Reports : Heard(r) => r.signal \in Final /\ ~covers(r)
  /\ usedEntries = {identity(r) : r \in {q \in Reports : tolerated[q] > 0}}
  /\ \A r \in Reports : tolerated[r] > 0 => r.signal = "violation"
=============================================================================
