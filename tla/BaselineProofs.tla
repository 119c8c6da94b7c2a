--------------------------- MODULE BaselineProofs ---------------------------
(***************************************************************************)
(* Theorems about Baseline, for any sets of identities and goroutines: the *)
(* file, the flags and the racing saves implement Ratchet.                 *)
(***************************************************************************)
EXTENDS Baseline, TLAPS

tolerance == IF installed THEN entries ELSE {}
heard == collected \cup InFlight

\* A process that is not alive has left nothing behind in memory; entries made
\* without a baseline come from what was collected; what a save is going to
\* write was tolerated or heard in this run.
RunInv ==
  /\ ~up => /\ entries = {} /\ collected = {} /\ reported = {} /\ swallowed = {}
  /\ ~installed => entries \subseteq collected
  /\ \A g \in Goroutines : pc[g] \in {"truncate", "write"} => arg[g] \subseteq tolerance \cup heard

IInv == TypeOK /\ RunInv /\ NothingDropped /\ UsedMeansSwallowed

\* The step of the abstract ratchet that a step implements.
AbstractStep == [Abstract!Next]_(Abstract!ratchetVars)

-----------------------------------------------------------------------------
(* What is in flight. *)

\* A goroutine that starts handing on an identity adds it, one that leaves
\* other places adds and removes nothing.
LEMMA GotoInFlight ==
  ASSUME TypeOK, NEW g \in Goroutines, NEW l \in {"idle", "forward", "truncate", "write"},
         NEW S \in SUBSET Keys, Goto(g, l, S), pc[g] # "forward"
  PROVE  /\ InFlight' = InFlight \cup (IF l = "forward" THEN S ELSE {})
         /\ pc' \in [Goroutines -> {"idle", "forward", "truncate", "write"}]
         /\ arg' \in [Goroutines -> SUBSET Keys]
<1>1. /\ pc' = [pc EXCEPT ![g] = l] /\ arg' = [arg EXCEPT ![g] = S]
      /\ pc \in [Goroutines -> {"idle", "forward", "truncate", "write"}]
      /\ arg \in [Goroutines -> SUBSET Keys]
  BY DEF Goto, TypeOK
<1>2. \A k : k \in InFlight' <=> \E h \in Goroutines : pc'[h] = "forward" /\ k \in arg'[h]
  BY DEF InFlight
<1>3. \A k : k \in InFlight <=> \E h \in Goroutines : pc[h] = "forward" /\ k \in arg[h]
  BY DEF InFlight
<1>4. \A k : k \in InFlight' <=> k \in InFlight \/ (l = "forward" /\ k \in S)
  BY <1>1, <1>2, <1>3
<1>5. QED
  BY <1>1, <1>4

\* What is handed on moves from in flight to the collector.
LEMMA ForwardInFlight ==
  ASSUME TypeOK, NEW g \in Goroutines, Forward(g)
  PROVE  /\ heard' = heard
         /\ pc' \in [Goroutines -> {"idle", "forward", "truncate", "write"}]
         /\ arg' \in [Goroutines -> SUBSET Keys] /\ collected' \in SUBSET Keys
<1>1. /\ pc' = [pc EXCEPT ![g] = "idle"] /\ arg' = [arg EXCEPT ![g] = {}]
      /\ pc[g] = "forward" /\ collected' = collected \cup arg[g]
      /\ pc \in [Goroutines -> {"idle", "forward", "truncate", "write"}]
      /\ arg \in [Goroutines -> SUBSET Keys] /\ collected \in SUBSET Keys
  BY DEF Forward, Goto, TypeOK
<1>2. \A k : k \in InFlight' <=> \E h \in Goroutines : pc'[h] = "forward" /\ k \in arg'[h]
  BY DEF InFlight
<1>3. \A k : k \in InFlight <=> \E h \in Goroutines : pc[h] = "forward" /\ k \in arg[h]
  BY DEF InFlight
<1>4. \A k : k \in heard' <=> k \in heard
  BY <1>1, <1>2, <1>3 DEF heard
<1>5. QED
  BY <1>1, <1>4

\* Without calls nothing is in flight.
LEMMA IdleInFlight ==
  ASSUME \A g \in Goroutines : pc[g] = "idle"
  PROVE  InFlight = {}
BY DEF InFlight

-----------------------------------------------------------------------------
(* Steps. *)

LEMMA ReportStep ==
  ASSUME IInv, NEW g \in Goroutines, NEW k \in Keys, Report(g, k)
  PROVE  IInv' /\ AbstractStep
<1> USE DEF IInv, TypeOK, RunInv, NothingDropped, UsedMeansSwallowed, tolerance, heard
<1>1. /\ up /\ pc[g] = "idle" /\ reported' = reported \cup {k}
      /\ UNCHANGED <<fileVars, up, installed, entries, collected, listed>>
  BY DEF Report
<1>2. CASE covers(k)
  <2>1. /\ swallowed' = swallowed \cup {k} /\ UNCHANGED <<pc, arg>>
        /\ used' = used \cup {k} /\ installed /\ k \in entries
    BY <1>2 DEF Report, callVars, markUsed, covers
  <2>2. InFlight' = InFlight
    BY <2>1 DEF InFlight
  <2>3. IInv'
    BY <1>1, <2>1, <2>2 DEF fileVars
  <2>4. Abstract!Tolerate(k)
    BY <1>1, <2>1, <2>2 DEF Abstract!Tolerate, fileVars
  <2>5. QED
    BY <2>3, <2>4 DEF AbstractStep, Abstract!Next
<1>3. CASE ~covers(k)
  <2>1. /\ Goto(g, "forward", {k}) /\ UNCHANGED <<used, swallowed>> /\ {k} \in SUBSET Keys
        /\ ~(installed /\ k \in entries)
    BY <1>3 DEF Report, markUsed, covers
  <2>2. /\ InFlight' = InFlight \cup {k}
        /\ pc' \in [Goroutines -> {"idle", "forward", "truncate", "write"}]
        /\ arg' \in [Goroutines -> SUBSET Keys]
    BY <1>1, <2>1, GotoInFlight
  <2>3. \A h \in Goroutines : pc'[h] \in {"truncate", "write"} => pc[h] = pc'[h] /\ arg[h] = arg'[h]
    BY <2>1 DEF Goto
  <2>4. IInv'
    BY <1>1, <2>1, <2>2, <2>3 DEF fileVars
  <2>5. Abstract!Hear(k)
    BY <1>1, <2>1, <2>2 DEF Abstract!Hear, fileVars
  <2>6. QED
    BY <2>4, <2>5 DEF AbstractStep, Abstract!Next
<1>4. QED
  BY <1>2, <1>3

LEMMA ForwardStep ==
  ASSUME IInv, NEW g \in Goroutines, Forward(g)
  PROVE  IInv' /\ AbstractStep
<1> USE DEF IInv, TypeOK, RunInv, NothingDropped, UsedMeansSwallowed, tolerance
<1>1. /\ heard' = heard
      /\ pc' \in [Goroutines -> {"idle", "forward", "truncate", "write"}]
      /\ arg' \in [Goroutines -> SUBSET Keys] /\ collected' \in SUBSET Keys
  BY ForwardInFlight
<1>2. /\ UNCHANGED <<fileState, fileKeys, up, installed, entries, used, listed, reported, swallowed>>
      /\ pc[g] = "forward" /\ collected \subseteq collected'
  BY DEF Forward, fileVars, memVars, histVars
<1>3. \A h \in Goroutines : pc'[h] \in {"truncate", "write"} => pc[h] = pc'[h] /\ arg[h] = arg'[h]
  BY DEF Forward, Goto
<1>4. IInv'
  BY <1>1, <1>2, <1>3 DEF heard
<1>5. UNCHANGED Abstract!ratchetVars
  BY <1>1, <1>2 DEF Abstract!ratchetVars, Abstract!runVars, heard
<1>6. QED
  BY <1>4, <1>5 DEF AbstractStep

\* A goroutine inside Save goes on, and the file changes or not.
LEMMA SaveStep ==
  ASSUME IInv, NEW g \in Goroutines,
         SaveEntries(g) \/ Truncate(g) \/ Write(g) \/ SaveFails(g)
  PROVE  IInv' /\ AbstractStep
<1> USE DEF IInv, TypeOK, RunInv, NothingDropped, UsedMeansSwallowed, tolerance, heard
<1>1. /\ pc[g] # "forward" /\ UNCHANGED <<up, memVars, collected, listed, histVars>> /\ up
      /\ pc[g] \in {"truncate", "write"} => arg[g] \subseteq tolerance \cup heard
  BY DEF SaveEntries, Truncate, Write, SaveFails
<1>2. PICK l \in {"idle", "truncate", "write"}, S \in SUBSET Keys :
         Goto(g, l, S) /\ (l # "idle" => S \subseteq tolerance \cup heard)
  BY <1>1 DEF SaveEntries, Truncate, Write, SaveFails
<1>3. /\ InFlight' = InFlight
      /\ pc' \in [Goroutines -> {"idle", "forward", "truncate", "write"}]
      /\ arg' \in [Goroutines -> SUBSET Keys]
  BY <1>1, <1>2, GotoInFlight
<1>4. \A h \in Goroutines : pc'[h] \in {"truncate", "write"} =>
        (pc[h] = pc'[h] /\ arg[h] = arg'[h]) \/ (l # "idle" /\ arg'[h] = S)
  BY <1>2 DEF Goto
<1>5. \/ UNCHANGED fileVars
      \/ fileState' \in {"empty", "garbled"} /\ fileKeys' = {}
      \/ pc[g] = "write" /\ FileIs(arg[g])
  BY DEF SaveEntries, Truncate, Write, SaveFails, FileGarbled
<1>6. IInv'
  <2>1. TypeOK'
    BY <1>1, <1>3, <1>5 DEF memVars, histVars, fileVars, FileIs
  <2>2. RunInv' /\ NothingDropped' /\ UsedMeansSwallowed'
    BY <1>1, <1>2, <1>3, <1>4 DEF memVars, histVars
  <2>3. QED
    BY <2>1, <2>2
<1>7. UNCHANGED <<installed, entries, collected, swallowed>>
  BY <1>1 DEF memVars, histVars
<1>8. CASE UNCHANGED fileVars
  BY <1>3, <1>6, <1>7, <1>8 DEF AbstractStep, Abstract!ratchetVars, Abstract!runVars, fileVars
<1>9. CASE fileState' \in {"empty", "garbled"} /\ fileKeys' = {}
  <2>1. Abstract!Lose
    BY <1>3, <1>7, <1>9 DEF Abstract!Lose, Abstract!runVars
  <2>2. QED
    BY <1>6, <2>1 DEF AbstractStep, Abstract!Next
<1>10. CASE pc[g] = "write" /\ FileIs(arg[g])
  <2>1. Abstract!Accept(arg[g])
    BY <1>1, <1>3, <1>7, <1>10 DEF Abstract!Accept, Abstract!runVars, FileIs
  <2>2. QED
    BY <1>6, <2>1 DEF AbstractStep, Abstract!Next
<1>11. QED
  BY <1>5, <1>8, <1>9, <1>10

\* The calls that are one critical section of the Baseline.
LEMMA MethodStep ==
  ASSUME IInv, UnusedEntries \/ BaselineFromViolations \/ \E k \in Keys : Add(k)
  PROVE  IInv' /\ AbstractStep
<1> USE DEF IInv, TypeOK, RunInv, NothingDropped, UsedMeansSwallowed, tolerance, heard
<1>1. UNCHANGED <<fileState, fileKeys, up, installed, used, collected, pc, arg, reported, swallowed>>
  BY DEF UnusedEntries, BaselineFromViolations, Add, fileVars, memVars, callVars, histVars
<1>2. InFlight' = InFlight
  BY <1>1 DEF InFlight
<1>3. CASE UnusedEntries
  <2>1. IInv'
    BY <1>1, <1>2, <1>3 DEF UnusedEntries, memVars
  <2>2. UNCHANGED Abstract!ratchetVars
    BY <1>1, <1>2, <1>3 DEF Abstract!ratchetVars, Abstract!runVars, UnusedEntries, memVars
  <2>3. QED
    BY <2>1, <2>2 DEF AbstractStep
<1>4. CASE BaselineFromViolations
  <2>1. IInv'
    BY <1>1, <1>2, <1>4 DEF BaselineFromViolations
  <2>2. UNCHANGED Abstract!ratchetVars
    BY <1>1, <1>2, <1>4 DEF Abstract!ratchetVars, Abstract!runVars, BaselineFromViolations
  <2>3. QED
    BY <2>1, <2>2 DEF AbstractStep
<1>5. ASSUME NEW k \in Keys, Add(k)
      PROVE  IInv' /\ AbstractStep
  <2>1. installed /\ up /\ entries' = entries \cup {k} /\ UNCHANGED listed
    BY <1>5 DEF Add
  <2>2. IInv'
    BY <1>1, <1>2, <2>1
  <2>3. Abstract!Extend(k)
    BY <1>1, <1>2, <2>1 DEF Abstract!Extend
  <2>4. QED
    BY <2>2, <2>3 DEF AbstractStep, Abstract!Next
<1>6. QED
  BY <1>3, <1>4, <1>5

\* A run begins or ends, or the file is pruned between runs.
LEMMA RunStep ==
  ASSUME IInv, StartWithBaseline \/ StartWithout \/ Crash \/ Prune
  PROVE  IInv' /\ AbstractStep
<1> USE DEF IInv, TypeOK, RunInv, NothingDropped, UsedMeansSwallowed, tolerance, heard
<1>1. CASE StartWithBaseline
  <2>1. /\ ~up /\ fileState = "saved" /\ up' /\ installed' /\ up' \in BOOLEAN /\ installed' \in BOOLEAN
        /\ entries' = fileKeys /\ used' = {}
        /\ UNCHANGED <<fileState, fileKeys, collected, pc, arg, listed, reported, swallowed>>
    BY <1>1 DEF StartWithBaseline, Readable, fileVars, callVars, histVars
  <2>2. InFlight = {} /\ InFlight' = {}
    BY <2>1 DEF InFlight
  <2>3. IInv'
    BY <2>1, <2>2
  <2>4. installed' = TRUE
    BY <1>1 DEF StartWithBaseline
  <2>5. Abstract!BeginRun
    BY <2>1, <2>2, <2>4 DEF Abstract!BeginRun
  <2>6. QED
    BY <2>3, <2>5 DEF AbstractStep, Abstract!Next
<1>2. CASE StartWithout
  <2>1. /\ ~up /\ up' /\ up' \in BOOLEAN
        /\ UNCHANGED <<fileState, fileKeys, installed, entries, used, collected, pc, arg, listed,
                       reported, swallowed>>
    BY <1>2 DEF StartWithout, fileVars, memVars, callVars, histVars
  <2>2. InFlight' = InFlight
    BY <2>1 DEF InFlight
  <2>3. IInv'
    BY <2>1, <2>2
  <2>4. UNCHANGED Abstract!ratchetVars
    BY <2>1, <2>2 DEF Abstract!ratchetVars, Abstract!runVars
  <2>5. QED
    BY <2>3, <2>4 DEF AbstractStep
<1>3. CASE Crash
  <2>1. /\ up' = FALSE /\ installed' = FALSE /\ entries' = {} /\ used' = {} /\ collected' = {}
        /\ pc' = [g \in Goroutines |-> "idle"] /\ arg' = [g \in Goroutines |-> {}]
        /\ reported' = {} /\ swallowed' = {} /\ UNCHANGED listed
    BY <1>3 DEF Crash, End
  <2>2. \/ UNCHANGED <<fileState, fileKeys>>
        \/ fileState' = "garbled" /\ fileKeys' = {}
    BY <1>3 DEF Crash, fileVars, FileGarbled
  <2>3. InFlight' = {}
    BY <2>1 DEF InFlight
  <2>4. IInv'
    BY <2>1, <2>2, <2>3
  <2>5. Abstract!EndRun \/ Abstract!Lose
    BY <2>1, <2>2, <2>3 DEF Abstract!EndRun, Abstract!Lose
  <2>6. QED
    BY <2>4, <2>5 DEF AbstractStep, Abstract!Next
<1>4. CASE Prune
  <2>1. /\ ~up /\ fileState = "saved" /\ fileKeys' = fileKeys \ listed
        /\ UNCHANGED <<fileState, up, installed, entries, used, collected, pc, arg, listed,
                       reported, swallowed>>
    BY <1>4 DEF Prune, memVars, callVars, histVars
  <2>2. InFlight' = InFlight
    BY <2>1 DEF InFlight
  <2>3. IInv'
    BY <2>1, <2>2
  <2>4. Abstract!Shrink(listed)
    BY <2>1, <2>2 DEF Abstract!Shrink, Abstract!runVars
  <2>5. QED
    BY <2>3, <2>4 DEF AbstractStep, Abstract!Next
<1>5. QED
  BY <1>1, <1>2, <1>3, <1>4

LEMMA StutterStep ==
  ASSUME IInv, UNCHANGED vars
  PROVE  IInv' /\ AbstractStep
<1>1. InFlight' = InFlight
  BY DEF vars, callVars, InFlight
<1>2. IInv'
  BY <1>1 DEF vars, fileVars, memVars, callVars, histVars, IInv, TypeOK, RunInv, NothingDropped,
     UsedMeansSwallowed, tolerance, heard
<1>3. UNCHANGED Abstract!ratchetVars
  BY <1>1 DEF vars, fileVars, memVars, histVars, Abstract!ratchetVars, Abstract!runVars
<1>4. QED
  BY <1>2, <1>3 DEF AbstractStep

LEMMA StepsRefine ==
  ASSUME IInv, [Next]_vars
  PROVE  IInv' /\ AbstractStep
BY ReportStep, ForwardStep, SaveStep, MethodStep, RunStep, StutterStep DEF Next

-----------------------------------------------------------------------------
(* The invariant and what it says. *)

LEMMA InitIInv == Init => IInv /\ Abstract!Init
<1> SUFFICES ASSUME Init PROVE IInv /\ Abstract!Init
  OBVIOUS
<1>1. InFlight = {}
  BY DEF Init, InFlight
<1>2. QED
  BY <1>1 DEF Init, IInv, TypeOK, RunInv, NothingDropped, UsedMeansSwallowed, Abstract!Init

LEMMA Inductive == Spec => []IInv
<1>1. IInv /\ [Next]_vars => IInv'
  BY StepsRefine
<1>2. QED
  BY <1>1, InitIInv, PTL DEF Spec

\* Every reachable state is well typed, through crashes and restarts.
THEOREM TypeCorrect == Spec => []TypeOK
<1>1. IInv => TypeOK
  BY DEF IInv
<1>2. QED
  BY <1>1, Inductive, PTL

\* No violation is dropped between the baseline and the collector.
THEOREM NothingIsDropped == Spec => []NothingDropped
<1>1. IInv => NothingDropped
  BY DEF IInv
<1>2. QED
  BY <1>1, Inductive, PTL

\* The used flags are exactly the entries that swallowed something.
THEOREM UsedFlagsExact == Spec => []UsedMeansSwallowed
<1>1. IInv => UsedMeansSwallowed
  BY DEF IInv
<1>2. QED
  BY <1>1, Inductive, PTL

\* The file, the flags and the racing saves implement the abstract ratchet.
THEOREM BaselineImplementsRatchet == Spec => ImplementsRatchet
<1>1. IInv /\ [Next]_vars => [Abstract!Next]_(Abstract!ratchetVars)
  BY StepsRefine DEF AbstractStep
<1>2. QED
  BY <1>1, InitIInv, Inductive, PTL DEF Spec, ImplementsRatchet, Abstract!Spec
=============================================================================
