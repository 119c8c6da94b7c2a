------------------------------ MODULE Throttle ------------------------------
(***************************************************************************)
(* ThrottlingReporter (throttle.go): every report is keyed, admit decides  *)
(* under the reporter's lock whether it goes on to the wrapped reporter,   *)
(* and the wrapped reporter is called after the lock is released, so       *)
(* admitted reports of several goroutines are in flight at once while the  *)
(* clock goes on.  Each signal has a map and windows of its own; one       *)
(* action stands for the six Report methods, which differ in the key.      *)
(***************************************************************************)
EXTENDS Integers, FiniteSets

CONSTANTS
  Signals,      \* the report types, "violation" and the optional ones
  Keys,         \* what the key functions return
  Capped,       \* the signals with a bounded map: {"unscopedTx"}
  maxKeys,      \* maxUnscopedTxKeys
  Wrapped,      \* what wrapped reporters there are: sets of signals
  Intervals,    \* the intervals a reporter is created with
  Goroutines,
  MaxTime,      \* bound: the clock stops here
  MaxReports    \* bound: reports of one signal and key

ASSUME SignalsKnown == Wrapped \subseteq SUBSET Signals /\ Capped \subseteq Signals
ASSUME NumbersTyped ==
  /\ maxKeys \in Nat \ {0} /\ Intervals \subseteq Int
  /\ MaxTime \in Nat /\ MaxReports \in Nat
ASSUME GoroutinesFinite == IsFiniteSet(Goroutines)

VARIABLES
  interval,       \* the configuration: not positive, no throttling
  implemented,    \* the configuration: the signals the wrapped reporter has
  clock,          \* time.Now
  tracked,        \* tracked[m]: the keys of map m
  lastForwarded,  \* throttleState.lastForwarded of each entry
  suppressed,     \* throttleState.suppressed of each entry
  inFlight,       \* inFlight[g]: {the report g is handing on} or {}
  received,       \* history: the reports that came in, per signal and key
  forwarded,      \* history: those the wrapped reporter was called with
  admitted,       \* history: those let through by admit
  firstAt,        \* history: when the first of them was
  lastAt          \* history: and the last

config == <<interval, implemented>>
mapVars == <<tracked, lastForwarded, suppressed>>
histVars == <<received, admitted, firstAt, lastAt>>
vars == <<config, clock, mapVars, inFlight, forwarded, histVars>>

PerKey(S) == [Signals -> [Keys -> S]]
AllKeys(v) == [m \in Signals |-> [k \in Keys |-> v]]
Times == 0..MaxTime
Counts == 0..MaxReports

\* The capped maps never outgrow maxUnscopedTxKeys, and nothing is kept of a
\* signal the wrapped reporter does not implement or while nothing is throttled.
TypeOK ==
  /\ interval \in Intervals /\ implemented \in Wrapped
  /\ clock \in Times
  /\ tracked \in [Signals -> SUBSET Keys]
  /\ lastForwarded \in PerKey(Times) /\ suppressed \in PerKey(Counts)
  /\ inFlight \in [Goroutines -> SUBSET (implemented \X Keys)]
  /\ received \in PerKey(Counts) /\ forwarded \in PerKey(Counts)
  /\ admitted \in PerKey(Counts) /\ firstAt \in PerKey(Times) /\ lastAt \in PerKey(Times)
  /\ \A m \in Capped : Cardinality(tracked[m]) <= maxKeys
  /\ \A m \in Signals : m \notin implemented \/ interval <= 0 => tracked[m] = {}

Init ==
  /\ interval \in Intervals /\ implemented \in Wrapped
  /\ clock = 0
  /\ tracked = [m \in Signals |-> {}]
  /\ lastForwarded = AllKeys(0) /\ suppressed = AllKeys(0)
  /\ inFlight = [g \in Goroutines |-> {}]
  /\ received = AllKeys(0) /\ forwarded = AllKeys(0)
  /\ admitted = AllKeys(0) /\ firstAt = AllKeys(0) /\ lastAt = AllKeys(0)

-----------------------------------------------------------------------------
\* Mistake: one key too many fits in a capped map.
FullOffByOne(m) == m \in Capped /\ Cardinality(tracked[m]) > maxKeys

Full(m) == m \in Capped /\ Cardinality(tracked[m]) >= maxKeys

\* Mistake: the window that is over is not replaced by a new one.
ForwardAgainSameWindow(m, k) == UNCHANGED mapVars

\* Mistake: the count starts again with the window.
ForwardAgainResets(m, k) ==
  /\ lastForwarded' = [lastForwarded EXCEPT ![m][k] = clock]
  /\ suppressed' = [suppressed EXCEPT ![m][k] = 0]
  /\ UNCHANGED tracked

\* The window is over: the report is forwarded and a new window starts.
ForwardAgain(m, k) ==
  /\ lastForwarded' = [lastForwarded EXCEPT ![m][k] = clock]
  /\ UNCHANGED <<tracked, suppressed>>

\* Mistake: a suppressed report extends the window.
SuppressSliding(m, k) ==
  /\ suppressed' = [suppressed EXCEPT ![m][k] = @ + 1]
  /\ lastForwarded' = [lastForwarded EXCEPT ![m][k] = clock]
  /\ UNCHANGED tracked

Suppress(m, k) ==
  /\ suppressed' = [suppressed EXCEPT ![m][k] = @ + 1]
  /\ UNCHANGED <<tracked, lastForwarded>>

Track(m, k) ==
  /\ tracked' = [tracked EXCEPT ![m] = @ \cup {k}]
  /\ lastForwarded' = [lastForwarded EXCEPT ![m][k] = clock]
  /\ UNCHANGED suppressed

\* A report that goes on to the wrapped reporter.
Admit(g, m, k) ==
  /\ inFlight' = [inFlight EXCEPT ![g] = {<<m, k>>}]
  /\ admitted' = [admitted EXCEPT ![m][k] = @ + 1]
  /\ firstAt' = IF admitted[m][k] = 0 THEN [firstAt EXCEPT ![m][k] = clock] ELSE firstAt
  /\ lastAt' = [lastAt EXCEPT ![m][k] = clock]

Held == UNCHANGED <<inFlight, admitted, firstAt, lastAt>>

\* ThrottlingReporter.admit, one critical section; a full map forwards what it
\* does not track.
admit(g, m, k) ==
  \/ /\ k \notin tracked[m] /\ Full(m)
     /\ Admit(g, m, k) /\ UNCHANGED mapVars
  \/ /\ k \notin tracked[m] /\ ~Full(m)
     /\ Admit(g, m, k) /\ Track(m, k)
  \/ /\ k \in tracked[m] /\ clock - lastForwarded[m][k] >= interval
     /\ Admit(g, m, k) /\ ForwardAgain(m, k)
  \/ /\ k \in tracked[m] /\ clock - lastForwarded[m][k] < interval
     /\ Held /\ Suppress(m, k)

Disabled == interval <= 0

\* Mistake: a signal that the wrapped reporter does not implement is forwarded.
ReceiveUnasserted(g, m, k) ==
  /\ inFlight[g] = {} /\ received[m][k] < MaxReports
  /\ received' = [received EXCEPT ![m][k] = @ + 1]
  /\ IF Disabled THEN Admit(g, m, k) /\ UNCHANGED mapVars ELSE admit(g, m, k)
  /\ UNCHANGED <<config, clock, forwarded>>

\* A report of signal m with key k comes in.
Receive(g, m, k) ==
  /\ inFlight[g] = {} /\ received[m][k] < MaxReports
  /\ received' = [received EXCEPT ![m][k] = @ + 1]
  /\ \/ m \notin implemented /\ Held /\ UNCHANGED mapVars
     \/ m \in implemented /\ Disabled /\ Admit(g, m, k) /\ UNCHANGED mapVars
     \/ m \in implemented /\ ~Disabled /\ admit(g, m, k)
  /\ UNCHANGED <<config, clock, forwarded>>

\* Mistake: a report is dropped while another goroutine is handing one on.
ForwardWhenAlone(g) ==
  /\ inFlight[g] # {}
  /\ inFlight' = [inFlight EXCEPT ![g] = {}]
  /\ IF \A h \in Goroutines \ {g} : inFlight[h] = {}
     THEN forwarded' = [m \in Signals |-> [k \in Keys |->
            forwarded[m][k] + (IF <<m, k>> \in inFlight[g] THEN 1 ELSE 0)]]
     ELSE UNCHANGED forwarded
  /\ UNCHANGED <<config, clock, mapVars, histVars>>

\* The wrapped reporter is called, outside the lock.
Forward(g) ==
  /\ inFlight[g] # {}
  /\ inFlight' = [inFlight EXCEPT ![g] = {}]
  /\ forwarded' = [m \in Signals |-> [k \in Keys |->
       forwarded[m][k] + (IF <<m, k>> \in inFlight[g] THEN 1 ELSE 0)]]
  /\ UNCHANGED <<config, clock, mapVars, histVars>>

Tick ==
  /\ clock < MaxTime
  /\ clock' = clock + 1
  /\ UNCHANGED <<config, mapVars, inFlight, forwarded, histVars>>

Next ==
  \/ \E g \in Goroutines :
       \/ \E m \in Signals, k \in Keys : Receive(g, m, k)
       \/ Forward(g)
  \/ Tick

\* An admitted report is handed on: the call is the next thing its goroutine does.
Spec == Init /\ [][Next]_vars /\ \A g \in Goroutines : WF_vars(Forward(g))

-----------------------------------------------------------------------------
(* Properties. *)

\* "Suppressed reports are not silently lost": of every signal the wrapped
\* reporter implements, what came in is what was forwarded, is being forwarded
\* or is in the cumulative suppression counts, whatever the interleaving.
NothingLost ==
  \A m \in implemented, k \in Keys :
    received[m][k] = forwarded[m][k] + suppressed[m][k]
                       + Cardinality({g \in Goroutines : <<m, k>> \in inFlight[g]})

\* At most one report per key and interval: a key that is tracked has been
\* admitted no more than once for each interval begun since its first report.
OncePerInterval ==
  \A m \in Signals : \A k \in tracked[m] :
    admitted[m][k] <= 1 + (lastAt[m][k] - firstAt[m][k]) \div interval

\* Only a report that follows another one closely is held back: whenever a
\* report is suppressed, one of the same signal and key was let through less
\* than an interval ago, so a hot key is heard again every interval.
SuppressedAfterRecent ==
  [][\A m \in Signals, k \in Keys :
       suppressed'[m][k] > suppressed[m][k] =>
         admitted[m][k] > 0 /\ clock - lastAt[m][k] < interval]_vars

\* Wrapping neither swallows nor fabricates: every admitted report reaches the
\* wrapped reporter, none it does not implement does.
EventuallyForwarded ==
  \A m \in Signals, k \in Keys : \A i \in 1..MaxReports :
    admitted[m][k] >= i ~> forwarded[m][k] >= i
=============================================================================
