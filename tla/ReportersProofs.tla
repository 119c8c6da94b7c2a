--------------------------- MODULE ReportersProofs ---------------------------
(***************************************************************************)
(* Theorems about the throttle, alone (Spec) and inside a chain of         *)
(* reporters (ChainSpec), for any signals and keys, any interval and cap,  *)
(* any reports, baseline and last reporter, either order of throttle and   *)
(* baseline, and any finite set of goroutines; the bounds on time and      *)
(* reports may be any numbers.                                             *)
(***************************************************************************)
EXTENDS Reporters, FiniteSetTheorems, SequenceTheorems, TLAPS

-----------------------------------------------------------------------------
(* The throttle alone. *)

Types ==
  /\ interval \in Intervals /\ interval \in Int /\ implemented \in Wrapped /\ implemented \subseteq Signals
  /\ clock \in Times
  /\ tracked \in [Signals -> SUBSET Keys]
  /\ lastForwarded \in PerKey(Times) /\ firstAt \in PerKey(Times) /\ lastAt \in PerKey(Times)
  /\ inFlight \in [Goroutines -> SUBSET (implemented \X Keys)]
  /\ suppressed \in PerKey(Nat) /\ received \in PerKey(Counts)
  /\ forwarded \in PerKey(Nat) /\ admitted \in PerKey(Nat)

\* A goroutine hands on one report at a time.
OneInFlight == \A g \in Goroutines : \A x, y \in inFlight[g] : x = y

\* The goroutines that are handing on a report of this signal and key.
Handing(m, k) == {g \in Goroutines : <<m, k>> \in inFlight[g]}

\* admit lets a report through or counts it, and what it let through has been
\* handed on or is in flight.
Balance ==
  \A m \in Signals, k \in Keys :
    /\ m \in implemented => received[m][k] = admitted[m][k] + suppressed[m][k]
    /\ m \notin implemented => admitted[m][k] = 0 /\ suppressed[m][k] = 0
    /\ admitted[m][k] = forwarded[m][k] + Cardinality(Handing(m, k))

\* The maps: a capped one is finite and within its cap; one nobody listens to,
\* and every one while nothing is throttled, is empty.
Maps ==
  /\ \A m \in Capped : IsFiniteSet(tracked[m]) /\ Cardinality(tracked[m]) <= maxKeys
  /\ \A m \in Signals : m \notin implemented \/ interval <= 0 => tracked[m] = {}

\* A window is that of the last report let through, and a report that is let
\* through untracked came to a full map, which stays full.
Windows ==
  /\ \A m \in Signals, k \in Keys : firstAt[m][k] <= lastAt[m][k] /\ lastAt[m][k] <= clock
  /\ \A m \in Signals : \A k \in tracked[m] :
       admitted[m][k] > 0 /\ lastAt[m][k] = lastForwarded[m][k]
  /\ \A m \in Signals, k \in Keys :
       interval > 0 /\ k \notin tracked[m] /\ admitted[m][k] > 0 => Full(m)

\* Every report after the first one of a tracked key came an interval later.
Spaced ==
  \A m \in Signals : \A k \in tracked[m] :
    (admitted[m][k] - 1) * interval <= lastAt[m][k] - firstAt[m][k]

IInv == Types /\ OneInFlight /\ Balance /\ Maps /\ Windows /\ Spaced

-----------------------------------------------------------------------------
(* The cases of a report. *)

Ignored(m, k) == m \notin implemented /\ Held /\ UNCHANGED mapVars
Passed(g, m, k) ==
  /\ m \in implemented /\ Admit(g, m, k) /\ UNCHANGED mapVars
  /\ Disabled \/ (k \notin tracked[m] /\ Full(m))
Opened(g, m, k) ==
  /\ m \in implemented /\ ~Disabled /\ k \notin tracked[m] /\ ~Full(m)
  /\ Admit(g, m, k) /\ Track(m, k)
Renewed(g, m, k) ==
  /\ m \in implemented /\ ~Disabled /\ k \in tracked[m] /\ clock - lastForwarded[m][k] >= interval
  /\ Admit(g, m, k) /\ ForwardAgain(m, k)
Counted(m, k) ==
  /\ m \in implemented /\ ~Disabled /\ k \in tracked[m] /\ clock - lastForwarded[m][k] < interval
  /\ Held /\ Suppress(m, k)

LEMMA ReceiveCases ==
  ASSUME NEW g \in Goroutines, NEW m \in Signals, NEW k \in Keys, Receive(g, m, k)
  PROVE  /\ inFlight[g] = {} /\ received[m][k] < MaxReports
         /\ received' = [received EXCEPT ![m][k] = @ + 1]
         /\ UNCHANGED <<config, clock, forwarded>>
         /\ \/ Ignored(m, k) \/ Passed(g, m, k) \/ Opened(g, m, k)
            \/ Renewed(g, m, k) \/ Counted(m, k)
BY DEF Receive, admit, Ignored, Passed, Opened, Renewed, Counted

\* Handing on and taking up a report change one set of goroutines by one.
LEMMA HandingCount ==
  ASSUME NEW m, NEW k
  PROVE  IsFiniteSet(Handing(m, k)) /\ Cardinality(Handing(m, k)) \in Nat
BY GoroutinesFinite, FS_Subset, FS_CardinalityType DEF Handing

LEMMA AdmitHanding ==
  ASSUME Types, NEW g \in Goroutines, NEW m \in Signals, NEW k \in Keys,
         inFlight[g] = {}, Admit(g, m, k)
  PROVE  \A s \in Signals, l \in Keys :
           Cardinality(Handing(s, l)') =
             Cardinality(Handing(s, l)) + (IF s = m /\ l = k THEN 1 ELSE 0)
<1> SUFFICES ASSUME NEW s \in Signals, NEW l \in Keys
             PROVE  Cardinality(Handing(s, l)') =
                      Cardinality(Handing(s, l)) + (IF s = m /\ l = k THEN 1 ELSE 0)
  OBVIOUS
<1>1. inFlight' = [inFlight EXCEPT ![g] = {<<m, k>>}] /\ inFlight \in [Goroutines -> SUBSET (implemented \X Keys)]
  BY DEF Admit, Types
<1>2. CASE s = m /\ l = k
  <2>1. Handing(s, l)' = Handing(s, l) \cup {g} /\ g \notin Handing(s, l)
    BY <1>1, <1>2 DEF Handing
  <2>2. IsFiniteSet(Handing(s, l))
    BY HandingCount
  <2>3. Cardinality(Handing(s, l)') = Cardinality(Handing(s, l)) + 1
    BY <2>1, <2>2, FS_AddElement
  <2>4. QED
    BY <1>2, <2>3
<1>3. CASE ~(s = m /\ l = k)
  <2>1. Handing(s, l)' = Handing(s, l)
    BY <1>1, <1>3 DEF Handing
  <2>2. QED
    BY <1>3, <2>1, HandingCount
<1>4. QED
  BY <1>2, <1>3

LEMMA ForwardHanding ==
  ASSUME Types, OneInFlight, NEW g \in Goroutines, Forward(g)
  PROVE  \A s \in Signals, l \in Keys :
           /\ forwarded'[s][l] + Cardinality(Handing(s, l)') =
                forwarded[s][l] + Cardinality(Handing(s, l))
           /\ forwarded'[s][l] \in Nat
<1> SUFFICES ASSUME NEW s \in Signals, NEW l \in Keys
             PROVE  /\ forwarded'[s][l] + Cardinality(Handing(s, l)') =
                         forwarded[s][l] + Cardinality(Handing(s, l))
                    /\ forwarded'[s][l] \in Nat
  OBVIOUS
<1>1. /\ inFlight' = [inFlight EXCEPT ![g] = {}]
      /\ forwarded'[s][l] = forwarded[s][l] + (IF <<s, l>> \in inFlight[g] THEN 1 ELSE 0)
      /\ inFlight \in [Goroutines -> SUBSET (implemented \X Keys)]
      /\ forwarded[s][l] \in Nat
  BY DEF Forward, Types, PerKey
<1>2. CASE <<s, l>> \in inFlight[g]
  <2>1. Handing(s, l)' = Handing(s, l) \ {g} /\ g \in Handing(s, l)
    BY <1>1, <1>2 DEF Handing
  <2>2. Cardinality(Handing(s, l)') = Cardinality(Handing(s, l)) - 1
    <3>1. IsFiniteSet(Handing(s, l))
      BY HandingCount
    <3>2. QED
      BY <2>1, <3>1, FS_RemoveElement
  <2>3. QED
    BY <1>1, <1>2, <2>2, HandingCount
<1>3. CASE <<s, l>> \notin inFlight[g]
  <2>1. Handing(s, l)' = Handing(s, l)
    BY <1>1, <1>3 DEF Handing
  <2>2. QED
    BY <1>1, <1>3, <2>1, HandingCount
<1>4. QED
  BY <1>2, <1>3

-----------------------------------------------------------------------------
(* A report comes in. *)

\* What a report does to the counts, in every case.
LEMMA ReceiveCounts ==
  ASSUME Types, NEW g \in Goroutines, NEW m \in Signals, NEW k \in Keys, Receive(g, m, k)
  PROVE  /\ Types'
         /\ \A s \in Signals, l \in Keys : s # m \/ l # k =>
              /\ received'[s][l] = received[s][l] /\ suppressed'[s][l] = suppressed[s][l]
              /\ admitted'[s][l] = admitted[s][l]
         /\ received'[m][k] = received[m][k] + 1
<1> USE DEF Types, PerKey, config
<1>1. /\ received[m][k] < MaxReports
      /\ received' = [received EXCEPT ![m][k] = @ + 1]
      /\ UNCHANGED <<config, clock, forwarded>>
  BY ReceiveCases
<1>2. /\ received' \in PerKey(Counts) /\ received'[m][k] = received[m][k] + 1
      /\ \A s \in Signals, l \in Keys : s # m \/ l # k => received'[s][l] = received[s][l]
  BY <1>1, NumbersTyped DEF Counts
<1>3. CASE Ignored(m, k)
  BY <1>1, <1>2, <1>3 DEF Ignored, Held, mapVars
<1>4. CASE Counted(m, k)
  BY <1>1, <1>2, <1>4 DEF Counted, Held, Suppress
<1>5. CASE Passed(g, m, k) \/ Opened(g, m, k) \/ Renewed(g, m, k)
  <2>1. Admit(g, m, k) /\ m \in implemented
    BY <1>5 DEF Passed, Opened, Renewed
  <2>2. /\ inFlight' \in [Goroutines -> SUBSET (implemented \X Keys)]
        /\ admitted' \in PerKey(Nat) /\ firstAt' \in PerKey(Times) /\ lastAt' \in PerKey(Times)
        /\ \A s \in Signals, l \in Keys : s # m \/ l # k => admitted'[s][l] = admitted[s][l]
    <3>1. inFlight' \in [Goroutines -> SUBSET (implemented \X Keys)]
      BY <2>1 DEF Admit
    <3>2. admitted' \in PerKey(Nat)
      BY <2>1 DEF Admit
    <3>3. lastAt' \in PerKey(Times) /\ [firstAt EXCEPT ![m][k] = clock] \in PerKey(Times)
      BY <2>1 DEF Admit
    <3>4. firstAt' \in PerKey(Times)
      BY <2>1, <3>3 DEF Admit
    <3>5. \A s \in Signals, l \in Keys : s # m \/ l # k => admitted'[s][l] = admitted[s][l]
      BY <2>1 DEF Admit
    <3>6. QED
      BY <3>1, <3>2, <3>3, <3>4, <3>5
  <2>3. /\ tracked' \in [Signals -> SUBSET Keys] /\ lastForwarded' \in PerKey(Times)
        /\ UNCHANGED suppressed
    <3>1. CASE Passed(g, m, k)
      BY <3>1 DEF Passed, mapVars
    <3>2. CASE Opened(g, m, k)
      <4>1. /\ tracked' = [tracked EXCEPT ![m] = tracked[m] \cup {k}] /\ UNCHANGED suppressed
            /\ lastForwarded' = [lastForwarded EXCEPT ![m][k] = clock]
        BY <3>2 DEF Opened, Track
      <4>2. tracked[m] \cup {k} \in SUBSET Keys
        OBVIOUS
      <4>3. tracked' \in [Signals -> SUBSET Keys]
        BY <4>1, <4>2
      <4>4. QED
        BY <4>1, <4>3
    <3>3. CASE Renewed(g, m, k)
      BY <3>3 DEF Renewed, ForwardAgain
    <3>4. QED
      BY <1>5, <3>1, <3>2, <3>3
  <2>4. QED
    BY <1>1, <1>2, <2>2, <2>3
<1>6. QED
  BY <1>3, <1>4, <1>5, ReceiveCases

LEMMA ReceiveBalance ==
  ASSUME Types, OneInFlight, Balance, NEW g \in Goroutines, NEW m \in Signals, NEW k \in Keys,
         Receive(g, m, k)
  PROVE  OneInFlight' /\ Balance'
<1>1. /\ \A s \in Signals, l \in Keys : s # m \/ l # k =>
           /\ received'[s][l] = received[s][l] /\ suppressed'[s][l] = suppressed[s][l]
           /\ admitted'[s][l] = admitted[s][l]
      /\ received'[m][k] = received[m][k] + 1
  BY ReceiveCounts
<1>2. inFlight[g] = {} /\ UNCHANGED <<forwarded, interval, implemented>>
  BY ReceiveCases DEF config
<1>3. /\ \A s \in Signals, l \in Keys : Cardinality(Handing(s, l)) \in Nat
      /\ \A s \in Signals, l \in Keys :
           /\ received[s][l] \in Nat /\ suppressed[s][l] \in Nat
           /\ admitted[s][l] \in Nat /\ forwarded[s][l] \in Nat
  BY HandingCount, NumbersTyped DEF Types, PerKey, Counts
<1>4. CASE Ignored(m, k) \/ Counted(m, k)
  <2>1. UNCHANGED <<inFlight, admitted>>
    BY <1>4 DEF Ignored, Counted, Held
  <2>2. \A s \in Signals, l \in Keys : Handing(s, l)' = Handing(s, l)
    BY <2>1 DEF Handing
  <2>3. /\ m \in implemented => suppressed'[m][k] = suppressed[m][k] + 1
        /\ m \notin implemented => suppressed'[m][k] = suppressed[m][k]
    BY <1>4 DEF Ignored, Counted, Suppress, mapVars, Types, PerKey
  <2>4. Balance'
    <3>1. SUFFICES ASSUME NEW s \in Signals, NEW l \in Keys
                   PROVE  /\ s \in implemented => received'[s][l] = admitted'[s][l] + suppressed'[s][l]
                          /\ s \notin implemented => admitted'[s][l] = 0 /\ suppressed'[s][l] = 0
                          /\ admitted'[s][l] = forwarded'[s][l] + Cardinality(Handing(s, l)')
      BY <1>2 DEF Balance
    <3>2. /\ s \in implemented => received[s][l] = admitted[s][l] + suppressed[s][l]
          /\ s \notin implemented => admitted[s][l] = 0 /\ suppressed[s][l] = 0
          /\ admitted[s][l] = forwarded[s][l] + Cardinality(Handing(s, l))
      BY DEF Balance
    <3>3. CASE s = m /\ l = k
      BY <1>1, <1>2, <1>3, <2>1, <2>2, <2>3, <3>2, <3>3
    <3>4. CASE s # m \/ l # k
      BY <1>1, <1>2, <1>3, <2>1, <2>2, <2>3, <3>2, <3>4
    <3>5. QED
      BY <3>3, <3>4
  <2>5. QED
    BY <2>1, <2>4 DEF OneInFlight
<1>5. CASE Passed(g, m, k) \/ Opened(g, m, k) \/ Renewed(g, m, k)
  <2>1. Admit(g, m, k) /\ m \in implemented /\ UNCHANGED suppressed
    BY <1>5 DEF Passed, Opened, Renewed, mapVars, Track, ForwardAgain
  <2>2. admitted'[m][k] = admitted[m][k] + 1
    BY <2>1 DEF Admit, Types, PerKey
  <2>3. \A s \in Signals, l \in Keys :
           Cardinality(Handing(s, l)') =
             Cardinality(Handing(s, l)) + (IF s = m /\ l = k THEN 1 ELSE 0)
    BY <1>2, <2>1, AdmitHanding
  <2>4. Balance'
    <3>1. SUFFICES ASSUME NEW s \in Signals, NEW l \in Keys
                   PROVE  /\ s \in implemented => received'[s][l] = admitted'[s][l] + suppressed'[s][l]
                          /\ s \notin implemented => admitted'[s][l] = 0 /\ suppressed'[s][l] = 0
                          /\ admitted'[s][l] = forwarded'[s][l] + Cardinality(Handing(s, l)')
      BY <1>2 DEF Balance
    <3>2. /\ s \in implemented => received[s][l] = admitted[s][l] + suppressed[s][l]
          /\ s \notin implemented => admitted[s][l] = 0 /\ suppressed[s][l] = 0
          /\ admitted[s][l] = forwarded[s][l] + Cardinality(Handing(s, l))
      BY DEF Balance
    <3>3. CASE s = m /\ l = k
      BY <1>1, <1>2, <1>3, <2>1, <2>2, <2>3, <3>2, <3>3
    <3>4. CASE s # m \/ l # k
      BY <1>1, <1>2, <1>3, <2>1, <2>2, <2>3, <3>2, <3>4
    <3>5. QED
      BY <3>3, <3>4
  <2>5. OneInFlight'
    BY <2>1 DEF Admit, OneInFlight, Types
  <2>6. QED
    BY <2>4, <2>5
<1>6. QED
  BY <1>4, <1>5, ReceiveCases

LEMMA ReceiveMaps ==
  ASSUME Types, Maps, NEW g \in Goroutines, NEW m \in Signals, NEW k \in Keys, Receive(g, m, k)
  PROVE  Maps'
<1>0. UNCHANGED <<interval, implemented>> /\ interval \in Int
  BY ReceiveCases DEF config, Types
<1>1. CASE Opened(g, m, k)
  <2>1. tracked' = [tracked EXCEPT ![m] = @ \cup {k}] /\ k \notin tracked[m] /\ interval > 0
    BY <1>0, <1>1 DEF Opened, Track, Disabled
  <2>2. ASSUME NEW s \in Capped
        PROVE  IsFiniteSet(tracked'[s]) /\ Cardinality(tracked'[s]) <= maxKeys
    <3>1. CASE s = m
      <4>1. IsFiniteSet(tracked[s]) /\ Cardinality(tracked[s]) \in Nat /\ s \in Signals
        BY <2>2, FS_CardinalityType, SignalsKnown DEF Maps
      <4>2. tracked'[s] = tracked[s] \cup {k}
        BY <2>1, <3>1, <4>1 DEF Types
      <4>3. Cardinality(tracked'[s]) = Cardinality(tracked[s]) + 1 /\ IsFiniteSet(tracked'[s])
        BY <2>1, <3>1, <4>1, <4>2, FS_AddElement
      <4>4. Cardinality(tracked[s]) < maxKeys
        BY <1>1, <2>2, <3>1, <4>1, NumbersTyped DEF Opened, Full
      <4>5. QED
        BY <4>1, <4>3, <4>4, NumbersTyped
    <3>2. CASE s # m
      BY <2>1, <2>2, <3>2, SignalsKnown DEF Maps, Types
    <3>3. QED
      BY <3>1, <3>2
  <2>3. ASSUME NEW s \in Signals, s \notin implemented \/ interval <= 0
        PROVE  tracked'[s] = {}
    <3>1. s # m
      BY <1>0, <1>1, <2>1, <2>3 DEF Opened
    <3>2. QED
      BY <2>1, <2>3, <3>1 DEF Maps, Types
  <2>4. QED
    BY <1>0, <2>2, <2>3 DEF Maps
<1>2. CASE ~Opened(g, m, k)
  <2>1. UNCHANGED tracked
    BY <1>2, ReceiveCases DEF Ignored, Passed, Renewed, Counted, mapVars, ForwardAgain, Suppress
  <2>2. QED
    BY <1>0, <2>1 DEF Maps
<1>3. QED
  BY <1>1, <1>2

\* A report opens a window, renews it, passes a full map by, or changes none.
LEMMA ReceiveWindows ==
  ASSUME Types, Maps, Windows, Spaced, NEW g \in Goroutines, NEW m \in Signals, NEW k \in Keys,
         Receive(g, m, k)
  PROVE  Windows' /\ Spaced'
<1>0. /\ UNCHANGED <<clock, interval, implemented>> /\ clock \in Nat /\ interval \in Int
      /\ \A s \in Signals, l \in Keys : /\ admitted[s][l] \in Nat /\ firstAt[s][l] \in Nat
                                        /\ lastAt[s][l] \in Nat /\ lastForwarded[s][l] \in Nat
      /\ \A s \in Signals : tracked[s] \subseteq Keys
  BY ReceiveCases, NumbersTyped DEF Types, PerKey, Times, config
<1>1. CASE Ignored(m, k) \/ Counted(m, k)
  <2>1. UNCHANGED <<tracked, lastForwarded, admitted, firstAt, lastAt>>
    BY <1>1 DEF Ignored, Counted, Held, Suppress, mapVars
  <2>2. QED
    BY <1>0, <2>1 DEF Windows, Spaced, Full
<1>2. CASE Passed(g, m, k) \/ Opened(g, m, k) \/ Renewed(g, m, k)
  <2>1. Admit(g, m, k)
    BY <1>2 DEF Passed, Opened, Renewed
  <2>2. /\ admitted'[m][k] = admitted[m][k] + 1 /\ lastAt'[m][k] = clock
        /\ firstAt'[m][k] = IF admitted[m][k] = 0 THEN clock ELSE firstAt[m][k]
        /\ \A s \in Signals, l \in Keys : s # m \/ l # k =>
             /\ admitted'[s][l] = admitted[s][l] /\ lastAt'[s][l] = lastAt[s][l]
             /\ firstAt'[s][l] = firstAt[s][l]
    BY <2>1 DEF Admit, Types, PerKey
  <2>3. /\ \A s \in Signals, l \in Keys : s # m \/ l # k =>
             lastForwarded'[s][l] = lastForwarded[s][l] /\ (l \in tracked'[s] <=> l \in tracked[s])
        /\ Passed(g, m, k) => UNCHANGED <<tracked, lastForwarded>>
        /\ Opened(g, m, k) => k \in tracked'[m] /\ lastForwarded'[m][k] = clock
        /\ Renewed(g, m, k) => UNCHANGED tracked /\ lastForwarded'[m][k] = clock
    BY <1>2 DEF Passed, Opened, Renewed, Track, ForwardAgain, mapVars, Types, PerKey
  <2>4. \A s \in Signals, l \in Keys : firstAt'[s][l] <= lastAt'[s][l] /\ lastAt'[s][l] <= clock'
    BY <1>0, <2>2 DEF Windows
  <2>5. ASSUME NEW s \in Signals, NEW l \in tracked'[s]
        PROVE  admitted'[s][l] > 0 /\ lastAt'[s][l] = lastForwarded'[s][l]
    <3>1. l \in Keys
      BY <2>5, ReceiveCounts DEF Types
    <3>2. CASE s # m \/ l # k
      BY <1>0, <2>2, <2>3, <2>5, <3>1, <3>2 DEF Windows
    <3>3. CASE s = m /\ l = k
      <4>1. ~Passed(g, m, k)
        BY <2>3, <2>5, <3>3, NumbersTyped DEF Passed, Maps, Disabled
      <4>2. QED
        BY <1>0, <1>2, <2>2, <2>3, <3>3, <4>1
    <3>4. QED
      BY <3>2, <3>3
  <2>6. ASSUME NEW s \in Signals, NEW l \in Keys,
               interval > 0, l \notin tracked'[s], admitted'[s][l] > 0
        PROVE  Full(s)'
    <3>1. Full(s) => Full(s)'
      <4>1. CASE Opened(g, m, k)
        <5>1. s # m \/ ~Full(s)
          BY <4>1 DEF Opened
        <5>2. s # m => tracked'[s] = tracked[s]
          BY <4>1 DEF Opened, Track, Types
        <5>3. QED
          BY <5>1, <5>2 DEF Full
      <4>2. CASE ~Opened(g, m, k)
        BY <1>2, <2>3, <4>2 DEF Full
      <4>3. QED
        BY <4>1, <4>2
    <3>2. CASE s # m \/ l # k
      BY <1>0, <2>2, <2>3, <2>6, <3>1, <3>2 DEF Windows
    <3>3. CASE s = m /\ l = k
      <4>1. Passed(g, m, k)
        BY <1>2, <2>3, <2>6, <3>3 DEF Renewed
      <4>2. QED
        BY <1>0, <2>6, <3>1, <3>3, <4>1 DEF Passed, Disabled
    <3>4. QED
      BY <3>2, <3>3
  <2>7. ASSUME NEW s \in Signals, NEW l \in tracked'[s]
        PROVE  (admitted'[s][l] - 1) * interval <= lastAt'[s][l] - firstAt'[s][l]
    <3>1. l \in Keys
      BY <2>7, ReceiveCounts DEF Types
    <3>2. CASE s # m \/ l # k
      BY <1>0, <2>2, <2>3, <2>7, <3>1, <3>2 DEF Spaced
    <3>3. CASE s = m /\ l = k /\ Renewed(g, m, k)
      <4>1. /\ (admitted[m][k] - 1) * interval <= lastAt[m][k] - firstAt[m][k]
            /\ clock - lastAt[m][k] >= interval /\ admitted[m][k] > 0
        BY <3>3 DEF Renewed, Spaced, Windows
      <4>2. ASSUME NEW n \in Nat, NEW d \in Int, NEW x \in Int, NEW y \in Int,
                   (n - 1) * d <= x, y >= x + d
            PROVE  (n + 1 - 1) * d <= y
        <5>1. n * d = (n - 1) * d + d /\ (n - 1) * d \in Int
          OBVIOUS
        <5>2. n + 1 - 1 = n
          OBVIOUS
        <5>3. QED
          BY <4>2, <5>1, <5>2
      <4>3. /\ clock - firstAt[m][k] \in Int /\ lastAt[m][k] - firstAt[m][k] \in Int
            /\ clock - firstAt[m][k] >= (lastAt[m][k] - firstAt[m][k]) + interval
        BY <1>0, <4>1
      <4>4. (admitted[m][k] + 1 - 1) * interval <= clock - firstAt[m][k]
        BY <1>0, <4>1, <4>2, <4>3
      <4>5. QED
        BY <1>0, <2>2, <3>3, <4>1, <4>4
    <3>4. CASE s = m /\ l = k /\ Opened(g, m, k)
      <4>1. admitted[m][k] = 0
        BY <1>0, <3>4 DEF Opened, Windows, Disabled
      <4>2. admitted'[m][k] - 1 = 0 /\ lastAt'[m][k] - firstAt'[m][k] = 0
        BY <1>0, <2>2, <4>1
      <4>3. 0 * interval = 0
        BY <1>0
      <4>4. QED
        BY <3>4, <4>2, <4>3
    <3>5. ~(s = m /\ l = k /\ Passed(g, m, k))
      BY <2>3, <2>7, NumbersTyped DEF Passed, Maps, Disabled
    <3>6. QED
      BY <1>2, <3>2, <3>3, <3>4, <3>5
  <2>8. QED
    BY <1>0, <2>4, <2>5, <2>6, <2>7 DEF Windows, Spaced
<1>3. QED
  BY <1>1, <1>2, ReceiveCases

-----------------------------------------------------------------------------
(* The invariant and what it says. *)

LEMMA InitIInv == Init => IInv
<1> SUFFICES ASSUME Init PROVE IInv
  OBVIOUS
<1> USE DEF Init, AllKeys
<1>1. Types
  BY NumbersTyped, SignalsKnown DEF Types, PerKey, Times, Counts
<1>2. \A m \in Signals, k \in Keys : Handing(m, k) = {}
  BY DEF Handing
<1>3. Balance
  <2>1. ASSUME NEW m \in Signals, NEW k \in Keys
        PROVE  /\ received[m][k] = 0 /\ admitted[m][k] = 0 /\ suppressed[m][k] = 0
               /\ forwarded[m][k] = 0 /\ Cardinality(Handing(m, k)) = 0
    BY <1>2, FS_EmptySet
  <2>2. QED
    BY <2>1 DEF Balance
<1>4. Maps
  BY SignalsKnown, NumbersTyped, FS_EmptySet DEF Maps
<1>5. OneInFlight /\ Windows /\ Spaced
  BY DEF OneInFlight, Windows, Spaced
<1>6. QED
  BY <1>1, <1>3, <1>4, <1>5 DEF IInv

LEMMA StepKeepsIInv ==
  ASSUME IInv, [Next]_vars
  PROVE  IInv'
<1>1. ASSUME NEW g \in Goroutines, NEW m \in Signals, NEW k \in Keys, Receive(g, m, k)
      PROVE  IInv'
  BY <1>1, ReceiveCounts, ReceiveBalance, ReceiveMaps, ReceiveWindows DEF IInv
<1>2. ASSUME NEW g \in Goroutines, Forward(g)
      PROVE  IInv'
  <2>1. \A s \in Signals, l \in Keys :
           /\ forwarded'[s][l] + Cardinality(Handing(s, l)') =
                forwarded[s][l] + Cardinality(Handing(s, l))
           /\ forwarded'[s][l] \in Nat
    BY <1>2, ForwardHanding DEF IInv
  <2>2. /\ UNCHANGED <<clock, tracked, lastForwarded, suppressed, received, admitted, firstAt, lastAt>>
        /\ UNCHANGED <<interval, implemented>> /\ inFlight' = [inFlight EXCEPT ![g] = {}]
        /\ forwarded' = [m \in Signals |-> [k \in Keys |-> forwarded'[m][k]]]
    BY <1>2 DEF Forward, mapVars, histVars, config
  <2>3. Types' /\ OneInFlight'
    BY <2>1, <2>2 DEF IInv, Types, PerKey, OneInFlight
  <2>4. Balance'
    BY <2>1, <2>2 DEF IInv, Balance
  <2>5. Maps' /\ Windows' /\ Spaced'
    BY <2>2 DEF IInv, Maps, Windows, Spaced, Full
  <2>6. QED
    BY <2>3, <2>4, <2>5 DEF IInv
<1>3. CASE Tick
  <2>1. /\ clock' = clock + 1 /\ clock < MaxTime
        /\ UNCHANGED <<interval, implemented, tracked, lastForwarded, suppressed, inFlight,
                       forwarded, received, admitted, firstAt, lastAt>>
    BY <1>3 DEF Tick, mapVars, histVars, config
  <2>2. clock' \in Times
    BY <2>1, NumbersTyped DEF IInv, Types, Times
  <2>3. Types'
    BY <2>1, <2>2 DEF IInv, Types
  <2>4. OneInFlight' /\ Maps' /\ Spaced'
    BY <2>1 DEF IInv, OneInFlight, Maps, Spaced
  <2>5. Balance'
    BY <2>1 DEF IInv, Balance, Handing
  <2>6. Windows'
    BY <2>1 DEF IInv, Types, Windows, Full, PerKey, Times
  <2>7. QED
    BY <2>3, <2>4, <2>5, <2>6 DEF IInv
<1>4. CASE UNCHANGED vars
  BY <1>4 DEF vars, config, mapVars, histVars, IInv, Types, OneInFlight, Balance, Handing, Maps,
     Windows, Spaced, Full
<1>5. QED
  BY <1>1, <1>2, <1>3, <1>4 DEF Next

LEMMA Inductive == Spec => []IInv
<1>1. IInv /\ [Next]_vars => IInv'
  BY StepKeepsIInv
<1>2. QED
  BY <1>1, InitIInv, PTL DEF Spec

\* What NothingLost says follows from the balance.
LEMMA Accounted ==
  ASSUME IInv
  PROVE  /\ NothingLost
         /\ \A m \in Signals, k \in Keys : /\ suppressed[m][k] \in Counts
                                           /\ forwarded[m][k] \in Counts
                                           /\ admitted[m][k] \in Counts
<1>1. \A m \in Signals, k \in Keys :
        /\ received[m][k] \in Counts /\ suppressed[m][k] \in Nat
        /\ admitted[m][k] \in Nat /\ forwarded[m][k] \in Nat
        /\ Cardinality(Handing(m, k)) \in Nat
  BY HandingCount DEF IInv, Types, PerKey
<1>2. NothingLost
  <2> SUFFICES ASSUME NEW m \in implemented, NEW k \in Keys
               PROVE  received[m][k] = forwarded[m][k] + suppressed[m][k]
                                         + Cardinality(Handing(m, k))
    BY DEF NothingLost, Handing
  <2>1. m \in Signals
    BY DEF IInv, Types
  <2>2. QED
    BY <1>1, <2>1 DEF IInv, Balance, Counts
<1>3. QED
  BY <1>1, <1>2, NumbersTyped DEF IInv, Balance, Counts

\* Every reachable state is well typed: the capped maps never outgrow
\* maxUnscopedTxKeys and a throttle that has nothing to throttle keeps nothing.
THEOREM TypeCorrect == Spec => []TypeOK
<1>1. IInv => TypeOK
  <2> SUFFICES ASSUME IInv PROVE TypeOK
    OBVIOUS
  <2>1. suppressed \in PerKey(Counts) /\ forwarded \in PerKey(Counts) /\ admitted \in PerKey(Counts)
    <3>1. suppressed \in PerKey(Nat) /\ forwarded \in PerKey(Nat) /\ admitted \in PerKey(Nat)
      BY DEF IInv, Types
    <3>2. ASSUME NEW f \in PerKey(Nat), \A m \in Signals, k \in Keys : f[m][k] \in Counts
          PROVE  f \in PerKey(Counts)
      BY <3>2 DEF PerKey
    <3>3. QED
      BY <3>1, <3>2, Accounted
  <2>2. QED
    BY <2>1 DEF IInv, Types, Maps, TypeOK
<1>2. QED
  BY <1>1, Inductive, PTL

\* Whatever the interleaving, every report is handed on or counted.
THEOREM NothingIsLost == Spec => []NothingLost
<1>1. IInv => NothingLost
  BY Accounted
<1>2. QED
  BY <1>1, Inductive, PTL

\* What OncePerInterval says follows from the spacing.
LEMMA SpacedOut ==
  ASSUME IInv
  PROVE  OncePerInterval
<1> SUFFICES ASSUME NEW m \in Signals, NEW k \in tracked[m]
             PROVE  admitted[m][k] <= 1 + (lastAt[m][k] - firstAt[m][k]) \div interval
  BY DEF OncePerInterval
<1>1. interval \in Int /\ interval > 0 /\ k \in Keys
  BY NumbersTyped DEF IInv, Maps, Types
<1>2. /\ admitted[m][k] \in Nat /\ lastAt[m][k] - firstAt[m][k] \in Nat
      /\ (admitted[m][k] - 1) * interval <= lastAt[m][k] - firstAt[m][k]
  BY <1>1 DEF IInv, Spaced, Windows, Types, PerKey, Times
<1>3. ASSUME NEW d \in Int, d > 0, NEW x \in Nat, NEW q \in Int, q * d <= x
      PROVE  q <= x \div d
  BY <1>3, Z3
<1>4. QED
  BY <1>1, <1>2, <1>3

\* A tracked key is forwarded at most once per interval.
THEOREM ThrottledOncePerInterval == Spec => []OncePerInterval
<1>1. IInv => OncePerInterval
  BY SpacedOut
<1>2. QED
  BY <1>1, Inductive, PTL

\* A step suppresses a report only if one like it was admitted in the interval.
LEMMA RecentStep ==
  IInv /\ [Next]_vars =>
    [\A m \in Signals, k \in Keys :
       suppressed'[m][k] > suppressed[m][k] =>
         admitted[m][k] > 0 /\ clock - lastAt[m][k] < interval]_vars
<1> SUFFICES ASSUME IInv, [Next]_vars, NEW m \in Signals, NEW k \in Keys,
                    suppressed'[m][k] > suppressed[m][k]
             PROVE  admitted[m][k] > 0 /\ clock - lastAt[m][k] < interval
  OBVIOUS
<1>1. suppressed[m][k] \in Nat
  BY DEF IInv, Types, PerKey
<1>2. suppressed' # suppressed
  BY <1>1
<1>3. PICK g \in Goroutines, s \in Signals, l \in Keys : Receive(g, s, l)
  BY <1>2 DEF Next, Forward, Tick, vars, mapVars
<1>4. Counted(s, l)
  BY <1>2, <1>3, ReceiveCases DEF Ignored, Passed, Opened, Renewed, mapVars, Track, ForwardAgain
<1>5. s = m /\ l = k
  BY <1>1, <1>3, ReceiveCounts DEF IInv
<1>6. QED
  BY <1>4, <1>5 DEF Counted, IInv, Windows

\* Only a report that follows another one within the interval is held back.
THEOREM OnlyRecentSuppressed == Spec => SuppressedAfterRecent
BY RecentStep, Inductive, PTL DEF Spec, SuppressedAfterRecent

-----------------------------------------------------------------------------
(* The throttle inside the chain. *)

LEMMA ReportFields ==
  ASSUME NEW r \in Reports
  PROVE  r.signal \in Signals /\ throttleKey(r) \in Keys
BY ChainTyped

\* A step of the chain, with the goroutine and the report it is about.
LEMMA ChainSteps ==
  ASSUME [ChainNext]_chainVars
  PROVE  \/ UNCHANGED chainVars
         \/ \E g \in Goroutines, r \in Reports :
              Send(g, r) \/ Throttled(g, r) \/ Filtered(g, r) \/ Collected(g, r)
         \/ \E g \in Goroutines : HandOn(g)
         \/ Reset \/ Time
BY DEF ChainNext

LEMMA StepsAreThrottleSteps ==
  ASSUME [ChainNext]_chainVars
  PROVE  [Next]_vars
<1>1. CASE UNCHANGED chainVars
  BY <1>1 DEF chainVars
<1>2. ASSUME NEW g \in Goroutines, NEW r \in Reports,
             Send(g, r) \/ Filtered(g, r) \/ Collected(g, r)
      PROVE  UNCHANGED vars
  BY <1>2 DEF Send, Filtered, Collected, Kept
<1>3. ASSUME NEW g \in Goroutines, NEW r \in Reports, Throttled(g, r)
      PROVE  Next
  BY <1>3, ReportFields DEF Throttled, Next
<1>4. ASSUME NEW g \in Goroutines, HandOn(g)
      PROVE  Next
  BY <1>4 DEF HandOn, Next
<1>5. CASE Reset \/ Time
  BY <1>5 DEF Reset, Time, Kept, Next
<1>6. QED
  BY <1>1, <1>2, <1>3, <1>4, <1>5, ChainSteps

LEMMA ThrottleInv == ChainSpec => []IInv
<1>1. ChainInit => IInv
  BY InitIInv DEF ChainInit
<1>2. IInv /\ [ChainNext]_chainVars => IInv'
  BY StepsAreThrottleSteps, StepKeepsIInv
<1>3. QED
  BY <1>1, <1>2, PTL DEF ChainSpec

\* A chain step is a step of the throttle or none to it: the baseline around it
\* or behind it and the origin of its keys add nothing to what it does
\* (throttle.go).
THEOREM ChainRunsThrottle == ChainSpec => Init /\ [][Next]_vars
<1>1. ChainInit => Init
  BY DEF ChainInit
<1>2. QED
  BY <1>1, StepsAreThrottleSteps, PTL DEF ChainSpec

\* What is proved of the throttle alone therefore holds inside a chain.
THEOREM ThrottleHoldsInside ==
  ChainSpec => [](NothingLost /\ OncePerInterval) /\ SuppressedAfterRecent
<1>1. IInv => NothingLost /\ OncePerInterval
  BY Accounted, SpacedOut
<1>2. ChainSpec => [](NothingLost /\ OncePerInterval)
  BY <1>1, ThrottleInv, PTL
<1>3. ChainSpec => SuppressedAfterRecent
  BY RecentStep, ThrottleInv, ChainRunsThrottle, PTL DEF SuppressedAfterRecent
<1>4. QED
  BY <1>2, <1>3

-----------------------------------------------------------------------------
(* What the goroutines hold. *)

\* The report of r's kind that the filters let through.
Passes(r) == r.signal \in Final /\ ~covers(r)

\* What is known of a report at a layer: the baseline was asked before all that
\* is behind it, and the one who hands on to the last reporter asserted its
\* signal, the throttle when it is the inner one and the baseline otherwise.
Past(l, r) ==
  /\ l = "collect" \/ (~throttleFirst /\ l # "baseline") => ~covers(r)
  /\ l = "collect" \/ (~throttleFirst /\ l = "forward") => r.signal \in Final

HandInv ==
  /\ throttleFirst \in BOOLEAN /\ Final \subseteq implemented
  /\ ~throttleFirst => implemented = Final
  /\ held \in [Goroutines -> SUBSET Reports]
  /\ layer \in [Goroutines -> {"throttle", "forward", "baseline", "collect"}]
  /\ \A g \in Goroutines : \A q, r \in held[g] : q = r
  /\ \A g \in Goroutines : \A r \in held[g] : Past(layer[g], r)

TallyTypes ==
  /\ collected \in [Reports -> Nat] /\ cleared \in [Reports -> Nat]
  /\ tolerated \in [Reports -> Nat] /\ sent \in [Reports -> Nat]

LEMMA ConfigKept ==
  ASSUME [ChainNext]_chainVars
  PROVE  UNCHANGED <<throttleFirst, implemented>>
<1>1. CASE UNCHANGED chainVars
  BY <1>1 DEF chainVars, vars, config
<1>2. ASSUME NEW g \in Goroutines, NEW r \in Reports,
             Send(g, r) \/ Throttled(g, r) \/ Filtered(g, r) \/ Collected(g, r)
      PROVE  UNCHANGED <<throttleFirst, implemented>>
  BY <1>2 DEF Send, Throttled, Filtered, Collected, Kept, Receive, vars, config
<1>3. CASE (\E g \in Goroutines : HandOn(g)) \/ Reset \/ Time
  BY <1>3 DEF HandOn, Forward, Reset, Time, Tick, Kept, vars, config
<1>4. QED
  BY <1>1, <1>2, <1>3, ChainSteps

\* A goroutine lets go of its report, takes one up, or hands it to a layer whose
\* reports have passed what this one has.
LEMMA HandMoves ==
  ASSUME HandInv, UNCHANGED <<throttleFirst, implemented>>, NEW g \in Goroutines,
         NEW S \in SUBSET Reports, \A q, r \in S : q = r,
         held' = [held EXCEPT ![g] = S],
         NEW l \in {"throttle", "forward", "baseline", "collect"},
         layer' = [layer EXCEPT ![g] = l],
         \A r \in S : Past(l, r)
  PROVE  HandInv'
<1>1. S \subseteq Reports /\ \A q, r \in S : q = r
  OBVIOUS
<1>2. \A h \in Goroutines : held'[h] = IF h = g THEN S ELSE held[h]
  BY DEF HandInv
<1>3. \A h \in Goroutines : layer'[h] = IF h = g THEN l ELSE layer[h]
  BY DEF HandInv
<1>4. held' \in [Goroutines -> SUBSET Reports]
      /\ layer' \in [Goroutines -> {"throttle", "forward", "baseline", "collect"}]
  BY <1>1 DEF HandInv
<1>5. \A r, m : (m = layer'[g] => (Past(m, r)' <=> Past(l, r))) /\ (Past(m, r)' <=> Past(m, r))
  BY <1>3 DEF Past, covers, identity
<1>7. QED
  BY <1>1, <1>2, <1>3, <1>4, <1>5 DEF HandInv

LEMMA StepKeepsHands ==
  ASSUME HandInv, [ChainNext]_chainVars
  PROVE  HandInv'
<1>0. UNCHANGED <<throttleFirst, implemented>>
  BY ConfigKept
<1>1. CASE UNCHANGED <<held, layer>>
  BY <1>0, <1>1 DEF HandInv, Past, covers, identity
<1>2. ASSUME NEW g \in Goroutines
      PROVE  /\ layer = [layer EXCEPT ![g] = layer[g]]
             /\ held = [held EXCEPT ![g] = held[g]]
             /\ layer[g] \in {"throttle", "forward", "baseline", "collect"}
  BY DEF HandInv
<1>3. ASSUME NEW g \in Goroutines, Return(g)
      PROVE  HandInv'
  <2>1. PICK S \in SUBSET Reports : S = {} /\ held' = [held EXCEPT ![g] = S]
    BY <1>3 DEF Return
  <2>2. PICK l \in {"throttle", "forward", "baseline", "collect"} :
          layer' = [layer EXCEPT ![g] = l]
    BY <1>2, <1>3 DEF Return
  <2>3. QED
    BY <1>0, <2>1, <2>2, HandMoves
<1>4. ASSUME NEW g \in Goroutines, NEW l \in {"throttle", "forward", "baseline", "collect"},
             HandTo(g, l), \A r \in held[g] : Past(l, r)
      PROVE  HandInv'
  <2>1. PICK S \in SUBSET Reports : S = held[g] /\ held' = [held EXCEPT ![g] = S]
    BY <1>2, <1>4 DEF HandTo, HandInv
  <2>2. layer' = [layer EXCEPT ![g] = l]
    BY <1>4 DEF HandTo
  <2>3. \A q, r \in S : q = r
    BY <2>1 DEF HandInv
  <2>4. QED
    BY <1>0, <1>4, <2>1, <2>2, <2>3, HandMoves
<1>5. ASSUME NEW g \in Goroutines, NEW r \in Reports, Send(g, r)
      PROVE  HandInv'
  <2>1. PICK l \in {"throttle", "forward", "baseline", "collect"} :
          Past(l, r) /\ held' = [held EXCEPT ![g] = {r}] /\ layer' = [layer EXCEPT ![g] = l]
    BY <1>5 DEF Send, Past
  <2>2. PICK S \in SUBSET Reports : S = {r} /\ held' = [held EXCEPT ![g] = S]
    BY <2>1
  <2>3. (\A p, q \in S : p = q) /\ \A q \in S : Past(l, q)
    BY <2>1, <2>2
  <2>4. held' = [held EXCEPT ![g] = S] /\ layer' = [layer EXCEPT ![g] = l]
    BY <2>1, <2>2
  <2>5. QED
    BY <1>0, <2>3, <2>4, HandMoves
<1>6. ASSUME NEW g \in Goroutines, NEW r \in Reports, Throttled(g, r)
      PROVE  HandInv'
  <2>1. CASE inFlight'[g] = {}
    BY <1>3, <1>6, <2>1 DEF Throttled
  <2>2. CASE inFlight'[g] # {}
    <3>1. layer[g] = "throttle" /\ r \in held[g] /\ HandTo(g, "forward")
      BY <1>6, <2>2 DEF Throttled, Holds
    <3>2. r.signal \in implemented
      BY <1>6, <2>2 DEF Throttled, Receive, Held
    <3>3. \A q \in held[g] : q = r /\ Past("throttle", q)
      BY <3>1 DEF HandInv
    <3>4. \A q \in held[g] : Past("forward", q)
      BY <3>2, <3>3 DEF HandInv, Past
    <3>5. QED
      BY <1>4, <3>1, <3>4
  <2>3. QED
    BY <2>1, <2>2
<1>7. ASSUME NEW g \in Goroutines, HandOn(g)
      PROVE  HandInv'
  <2>1. layer[g] = "forward" /\ HandTo(g, AfterThrottle)
    BY <1>7 DEF HandOn
  <2>2. /\ AfterThrottle \in {"throttle", "forward", "baseline", "collect"}
        /\ \A q \in held[g] : Past(AfterThrottle, q)
    BY <2>1 DEF HandInv, Past, AfterThrottle
  <2>3. QED
    BY <1>4, <2>1, <2>2
<1>8. ASSUME NEW g \in Goroutines, NEW r \in Reports, Filtered(g, r)
      PROVE  HandInv'
  <2>1. CASE Return(g)
    BY <1>3, <2>1
  <2>2. CASE ~covers(r) /\ NextTakes(r) /\ HandTo(g, AfterBaseline)
    <3>1. \A q \in held[g] : Past(AfterBaseline, q)
      <4>1. \A q \in held[g] : q = r
        BY <1>8 DEF Filtered, Holds, HandInv
      <4>2. Past(AfterBaseline, r)
        BY <2>2 DEF Past, NextTakes, AfterBaseline
      <4>3. QED
        BY <4>1, <4>2
    <3>2. AfterBaseline \in {"throttle", "forward", "baseline", "collect"}
      BY DEF AfterBaseline
    <3>3. QED
      BY <1>4, <2>2, <3>1, <3>2
  <2>3. QED
    BY <1>8, <2>1, <2>2 DEF Filtered
<1>9. ASSUME NEW g \in Goroutines, NEW r \in Reports, Collected(g, r)
      PROVE  HandInv'
  BY <1>3, <1>9 DEF Collected
<1>10. CASE Reset \/ Time \/ UNCHANGED chainVars
  BY <1>1, <1>10 DEF Reset, Time, chainVars, handVars
<1>11. QED
  BY <1>5, <1>6, <1>7, <1>8, <1>9, <1>10, ChainSteps

LEMMA StepKeepsTallies ==
  ASSUME TallyTypes, [ChainNext]_chainVars
  PROVE  TallyTypes'
<1>1. ASSUME NEW g \in Goroutines, NEW r \in Reports,
             Send(g, r) \/ Throttled(g, r) \/ Filtered(g, r) \/ Collected(g, r)
      PROVE  TallyTypes'
  BY <1>1 DEF Send, Throttled, Filtered, Collected, TallyTypes, tallyVars
<1>2. CASE Reset
  BY <1>2 DEF Reset, TallyTypes, None
<1>3. CASE (\E g \in Goroutines : HandOn(g)) \/ Time \/ UNCHANGED chainVars
  BY <1>3 DEF HandOn, Time, chainVars, TallyTypes, tallyVars
<1>4. QED
  BY <1>1, <1>2, <1>3, ChainSteps

LEMMA InitHands == ChainInit => HandInv /\ TallyTypes
<1> SUFFICES ASSUME ChainInit PROVE HandInv /\ TallyTypes
  OBVIOUS
<1>1. Final \subseteq implemented
  BY ChainTyped, SignalsKnown DEF ChainInit
<1>2. HandInv
  BY <1>1 DEF ChainInit, HandInv
<1>3. TallyTypes
  BY DEF ChainInit, TallyTypes, None
<1>4. QED
  BY <1>2, <1>3

-----------------------------------------------------------------------------
(* What reaches the last reporter. *)

\* Only what the filters let through is heard, only what is baselined is
\* tolerated, and that alone uses an entry.
FilterInv ==
  /\ \A r \in Reports : Heard(r) => Passes(r)
  /\ \A r \in Reports : tolerated[r] > 0 => covers(r)
  /\ usedEntries = {identity(r) : r \in {q \in Reports : tolerated[q] > 0}}

LEMMA StepKeepsFilter ==
  ASSUME HandInv, TallyTypes, FilterInv, [ChainNext]_chainVars
  PROVE  FilterInv'
<1>0. UNCHANGED throttleFirst /\ \A r : (Passes(r)' <=> Passes(r)) /\ (covers(r)' <=> covers(r))
  BY ConfigKept DEF Passes
<1>1. CASE UNCHANGED <<usedEntries, collected, cleared, tolerated>>
  BY <1>0, <1>1 DEF FilterInv, Heard
<1>2. ASSUME NEW g \in Goroutines, NEW r \in Reports, Filtered(g, r), covers(r)
      PROVE  FilterInv'
  <2>1. /\ usedEntries' = usedEntries \cup {identity(r)} /\ UNCHANGED <<collected, cleared>>
        /\ tolerated' = [tolerated EXCEPT ![r] = tolerated[r] + 1]
    BY <1>2 DEF Filtered
  <2>2. \A q \in Reports : tolerated'[q] > 0 <=> tolerated[q] > 0 \/ q = r
    BY <2>1 DEF TallyTypes
  <2>3. \A q \in Reports : Heard(q)' <=> Heard(q)
    BY <2>1 DEF Heard
  <2>4. usedEntries' = {identity(q) : q \in {p \in Reports : tolerated'[p] > 0}}
    BY <2>1, <2>2 DEF FilterInv
  <2>5. QED
    BY <1>0, <1>2, <2>2, <2>3, <2>4 DEF FilterInv
<1>3. ASSUME NEW g \in Goroutines, NEW r \in Reports, Collected(g, r)
      PROVE  FilterInv'
  <2>1. /\ collected' = [collected EXCEPT ![r] = collected[r] + 1]
        /\ UNCHANGED <<usedEntries, cleared, tolerated>>
    BY <1>3 DEF Collected
  <2>2. Passes(r)
    BY <1>3 DEF Collected, Holds, HandInv, Past, Passes
  <2>3. \A q \in Reports : q # r => (Heard(q)' <=> Heard(q))
    BY <2>1 DEF Heard, TallyTypes
  <2>4. QED
    BY <1>0, <2>1, <2>2, <2>3 DEF FilterInv
<1>4. CASE Reset
  <2>1. /\ collected' = None /\ cleared' = [r \in Reports |-> cleared[r] + collected[r]]
        /\ UNCHANGED <<usedEntries, tolerated>>
    BY <1>4 DEF Reset
  <2>2. \A q \in Reports : Heard(q)' <=> Heard(q)
    BY <2>1 DEF Heard, TallyTypes, None
  <2>3. QED
    BY <1>0, <2>1, <2>2 DEF FilterInv
<1>5. ASSUME NEW g \in Goroutines, NEW r \in Reports,
             Send(g, r) \/ Throttled(g, r) \/ (Filtered(g, r) /\ ~covers(r))
      PROVE  FilterInv'
  BY <1>1, <1>5 DEF Send, Throttled, Filtered, tallyVars
<1>6. CASE (\E g \in Goroutines : HandOn(g)) \/ Time \/ UNCHANGED chainVars
  BY <1>1, <1>6 DEF HandOn, Time, chainVars, tallyVars
<1>7. QED
  BY <1>2, <1>3, <1>4, <1>5, <1>6, ChainSteps

LEMMA FiltersInvariant == ChainSpec => [](HandInv /\ TallyTypes /\ FilterInv)
<1>1. ChainInit => FilterInv
  BY DEF ChainInit, FilterInv, Heard, None
<1>2. HandInv /\ TallyTypes /\ FilterInv /\ [ChainNext]_chainVars
        => (HandInv /\ TallyTypes /\ FilterInv)'
  BY StepKeepsHands, StepKeepsTallies, StepKeepsFilter
<1>3. QED
  BY <1>1, <1>2, InitHands, PTL DEF ChainSpec

\* A baselined violation never reaches the last reporter and nothing else is
\* swallowed by the baseline, an entry is used by a violation of its own, and
\* a signal the last reporter does not implement is not forced on it, whichever
\* of throttle and baseline comes first (baseline.go, throttle.go).
THEOREM OnlyUntoleratedHeard == ChainSpec => []OnlyUntolerated
<1>1. FilterInv => OnlyUntolerated
  BY DEF FilterInv, OnlyUntolerated, Passes, covers
<1>2. QED
  BY <1>1, FiltersInvariant, PTL

-----------------------------------------------------------------------------
(* The first report of every key. *)

\* The layers a report is handed to once the throttle has let it through.
Behind == IF throttleFirst THEN {"forward", "baseline", "collect"} ELSE {"forward", "collect"}

\* A report of this kind got past the throttle: it is on its way to the last
\* reporter, has reached it, or was tolerated on the way.
Served(r) ==
  \/ Heard(r) \/ tolerated[r] > 0
  \/ \E g \in Goroutines : r \in held[g] /\ layer[g] \in Behind

\* Where a report that was sent has gone.
Gone(r) == Heard(r) \/ tolerated[r] > 0 \/ Suppressed(r) > 0

\* A key that let something through served one of its reports, only such a key
\* suppresses, and a report that was sent is held or has gone somewhere.
FirstInv ==
  /\ \A m \in Signals, k \in Keys : suppressed[m][k] > 0 => admitted[m][k] > 0
  /\ \A r \in Reports : r.signal \in Final /\ admitted[r.signal][throttleKey(r)] > 0
       => \E q \in SameKey(r) : Served(q)
  /\ \A r \in Reports : r.signal \in Final /\ sent[r] > 0
       => (\E g \in Goroutines : r \in held[g]) \/ Gone(r)

\* What the throttle does to a report: it ignores one of a signal that nobody
\* listens to, counts one, or lets it through.
LEMMA ThrottledCases ==
  ASSUME IInv, HandInv, NEW g \in Goroutines, NEW r \in Reports, Throttled(g, r)
  PROVE  /\ \A m \in Signals, k \in Keys : m # r.signal \/ k # throttleKey(r) =>
              admitted'[m][k] = admitted[m][k] /\ suppressed'[m][k] = suppressed[m][k]
         /\ UNCHANGED <<collected, cleared, tolerated, sent>>
         /\ \/ /\ r.signal \notin Final /\ Return(g) /\ UNCHANGED <<admitted, suppressed>>
            \/ /\ Return(g) /\ UNCHANGED admitted /\ admitted[r.signal][throttleKey(r)] > 0
               /\ suppressed'[r.signal][throttleKey(r)] = suppressed[r.signal][throttleKey(r)] + 1
            \/ /\ HandTo(g, "forward") /\ UNCHANGED suppressed
               /\ admitted'[r.signal][throttleKey(r)] = admitted[r.signal][throttleKey(r)] + 1
<1> DEFINE m == r.signal
           k == throttleKey(r)
<1> HIDE DEF m, k
<1>1. /\ m \in Signals /\ k \in Keys /\ Receive(g, m, k)
      /\ UNCHANGED <<collected, cleared, tolerated, sent>>
      /\ inFlight'[g] = {} => Return(g)
      /\ inFlight'[g] # {} => HandTo(g, "forward")
  BY ReportFields DEF Throttled, tallyVars, m, k
<1>2. \A s \in Signals, l \in Keys : s # m \/ l # k =>
        admitted'[s][l] = admitted[s][l] /\ suppressed'[s][l] = suppressed[s][l]
  BY <1>1, ReceiveCounts DEF IInv
<1>3. inFlight[g] = {}
  BY <1>1, ReceiveCases
<1>4. CASE Ignored(m, k)
  BY <1>1, <1>2, <1>3, <1>4 DEF Ignored, Held, mapVars, HandInv, m, k
<1>5. CASE Counted(m, k)
  <2>1. /\ UNCHANGED <<admitted, inFlight>> /\ admitted[m][k] > 0
        /\ suppressed'[m][k] = suppressed[m][k] + 1
    BY <1>1, <1>5 DEF Counted, Held, Suppress, IInv, Windows, Types, PerKey
  <2>2. QED
    BY <1>1, <1>2, <1>3, <2>1 DEF m, k
<1>6. CASE Passed(g, m, k) \/ Opened(g, m, k) \/ Renewed(g, m, k)
  <2>1. Admit(g, m, k) /\ UNCHANGED suppressed
    BY <1>6 DEF Passed, Opened, Renewed, mapVars, Track, ForwardAgain
  <2>2. admitted'[m][k] = admitted[m][k] + 1 /\ inFlight'[g] # {}
    BY <1>1, <2>1 DEF Admit, IInv, Types, PerKey
  <2>3. QED
    BY <1>1, <1>2, <2>1, <2>2 DEF m, k
<1>7. QED
  BY <1>1, <1>4, <1>5, <1>6, ReceiveCases

\* Apart from Throttled, no step touches what the throttle has counted.
LEMMA OthersKeepCounts ==
  ASSUME [ChainNext]_chainVars,
         \A g \in Goroutines, r \in Reports : ~Throttled(g, r)
  PROVE  UNCHANGED <<admitted, suppressed>>
<1>1. CASE UNCHANGED chainVars
  BY <1>1 DEF chainVars, vars, mapVars, histVars
<1>2. ASSUME NEW g \in Goroutines, NEW r \in Reports,
             Send(g, r) \/ Filtered(g, r) \/ Collected(g, r)
      PROVE  UNCHANGED <<admitted, suppressed>>
  BY <1>2 DEF Send, Filtered, Collected, Kept, vars, mapVars, histVars
<1>3. CASE (\E g \in Goroutines : HandOn(g)) \/ Reset \/ Time
  BY <1>3 DEF HandOn, Forward, Reset, Time, Tick, Kept, vars, mapVars, histVars
<1>4. QED
  BY <1>1, <1>2, <1>3, ChainSteps

\* Nothing is unheard, and nothing that was tolerated is taken back.
LEMMA TalliesGrow ==
  ASSUME TallyTypes, [ChainNext]_chainVars, NEW q \in Reports
  PROVE  (Heard(q) => Heard(q)') /\ (tolerated[q] > 0 => tolerated'[q] > 0)
<1>1. ASSUME NEW g \in Goroutines, NEW r \in Reports,
             Send(g, r) \/ Throttled(g, r) \/ Filtered(g, r) \/ Collected(g, r)
      PROVE  (Heard(q) => Heard(q)') /\ (tolerated[q] > 0 => tolerated'[q] > 0)
  BY <1>1 DEF Send, Throttled, Filtered, Collected, TallyTypes, tallyVars, Heard
<1>2. CASE Reset
  BY <1>2 DEF Reset, TallyTypes, None, Heard
<1>3. CASE (\E g \in Goroutines : HandOn(g)) \/ Time \/ UNCHANGED chainVars
  BY <1>3 DEF HandOn, Time, chainVars, TallyTypes, tallyVars, Heard
<1>4. QED
  BY <1>1, <1>2, <1>3, ChainSteps

\* A report past the throttle is carried to its end, whoever else moves.
LEMMA ServedStays ==
  ASSUME HandInv, TallyTypes, [ChainNext]_chainVars, NEW q \in Reports,
         q.signal \in Final, Served(q)
  PROVE  Served(q)'
<1>0. UNCHANGED Behind
  BY ConfigKept DEF Behind
<1>1. CASE Heard(q) \/ tolerated[q] > 0
  BY <1>1, TalliesGrow DEF Served
<1>2. ASSUME NEW h \in Goroutines, q \in held[h], layer[h] \in Behind
      PROVE  Served(q)'
  <2>0. held \in [Goroutines -> SUBSET Reports] /\ DOMAIN layer = Goroutines
        /\ \A r \in held[h] : r = q
    BY <1>2 DEF HandInv
  <2>1. CASE q \in held'[h] /\ layer'[h] \in Behind
    BY <1>0, <2>1 DEF Served
  <2>2. CASE UNCHANGED <<held, layer>>
    BY <1>2, <2>1, <2>2
  <2>3. ASSUME NEW g \in Goroutines, NEW r \in Reports,
               Send(g, r) \/ Throttled(g, r)
        PROVE  Served(q)'
    <3>1. g # h
      BY <1>2, <2>3 DEF Send, Throttled, Holds, Behind
    <3>2. held'[h] = held[h] /\ layer'[h] = layer[h]
      BY <2>0, <2>3, <3>1 DEF Send, Throttled, Return, HandTo
    <3>3. QED
      BY <1>2, <2>1, <3>2
  <2>4. ASSUME NEW g \in Goroutines, HandOn(g)
        PROVE  Served(q)'
    <3>1. layer' = [layer EXCEPT ![g] = AfterThrottle] /\ held' = held
      BY <2>4 DEF HandOn, HandTo
    <3>2. AfterThrottle \in Behind
      BY DEF AfterThrottle, Behind
    <3>3. QED
      BY <1>2, <2>0, <2>1, <3>1, <3>2
  <2>5. ASSUME NEW g \in Goroutines, NEW r \in Reports, Filtered(g, r)
        PROVE  Served(q)'
    <3>1. CASE g # h
      <4>1. held'[h] = held[h] /\ layer'[h] = layer[h]
        BY <2>0, <2>5, <3>1 DEF Filtered, Return, HandTo
      <4>2. QED
        BY <1>2, <2>1, <4>1
    <3>2. CASE g = h
      <4>1. r = q /\ layer[h] = "baseline" /\ throttleFirst
        BY <1>2, <2>0, <2>5, <3>2 DEF Filtered, Holds, Behind
      <4>2. CASE covers(r)
        <5>1. tolerated'[q] = tolerated[q] + 1
          BY <2>5, <4>1, <4>2 DEF Filtered, TallyTypes
        <5>2. QED
          BY <5>1 DEF Served, TallyTypes
      <4>3. CASE ~covers(r)
        <5>1. HandTo(g, "collect")
          BY <2>5, <4>1, <4>3 DEF Filtered, NextTakes, AfterBaseline
        <5>2. held' = held /\ layer'[h] = "collect"
          BY <2>0, <3>2, <5>1 DEF HandTo
        <5>3. "collect" \in Behind
          BY DEF Behind
        <5>4. QED
          BY <1>2, <2>1, <5>2, <5>3
      <4>4. QED
        BY <4>2, <4>3
    <3>3. QED
      BY <3>1, <3>2
  <2>6. ASSUME NEW g \in Goroutines, NEW r \in Reports, Collected(g, r)
        PROVE  Served(q)'
    <3>1. CASE g # h
      <4>1. held'[h] = held[h] /\ layer'[h] = layer[h]
        BY <2>0, <2>6, <3>1 DEF Collected, Return
      <4>2. QED
        BY <1>2, <2>1, <4>1
    <3>2. CASE g = h
      <4>1. r = q
        BY <2>0, <2>6, <3>2 DEF Collected, Holds
      <4>2. collected'[q] = collected[q] + 1 /\ cleared' = cleared
        BY <2>6, <4>1 DEF Collected, TallyTypes
      <4>3. QED
        BY <4>2 DEF Served, Heard, TallyTypes
    <3>3. QED
      BY <3>1, <3>2
  <2>7. CASE Reset \/ Time \/ UNCHANGED chainVars
    BY <2>2, <2>7 DEF Reset, Time, chainVars, handVars
  <2>8. QED
    BY <2>3, <2>4, <2>5, <2>6, <2>7, ChainSteps
<1>3. QED
  BY <1>1, <1>2 DEF Served

\* A report that is held is held after the step, or has gone somewhere.
LEMMA HeldGoes ==
  ASSUME IInv, HandInv, TallyTypes, [ChainNext]_chainVars, NEW q \in Reports,
         q.signal \in Final, NEW h \in Goroutines, q \in held[h]
  PROVE  q \in held'[h] \/ Gone(q)'
<1>0. held \in [Goroutines -> SUBSET Reports] /\ \A r \in held[h] : r = q
  BY DEF HandInv
<1>1. ASSUME NEW g \in Goroutines, NEW r \in Reports, Send(g, r)
      PROVE  q \in held'[h]
  BY <1>0, <1>1 DEF Send
<1>2. ASSUME NEW g \in Goroutines, NEW r \in Reports, Throttled(g, r)
      PROVE  q \in held'[h] \/ Gone(q)'
  <2>1. CASE g # h \/ HandTo(g, "forward")
    BY <1>0, <1>2, <2>1 DEF Throttled, Return, HandTo
  <2>2. CASE g = h /\ suppressed'[r.signal][throttleKey(r)] = suppressed[r.signal][throttleKey(r)] + 1
    <3>1. r = q
      BY <1>0, <1>2, <2>2 DEF Throttled, Holds
    <3>2. suppressed[q.signal][throttleKey(q)] \in Nat
      BY ReportFields DEF IInv, Types, PerKey
    <3>3. Suppressed(q)' > 0
      BY <2>2, <3>1, <3>2 DEF Suppressed
    <3>4. QED
      BY <3>3 DEF Gone
  <2>3. CASE g = h /\ r.signal \notin Final
    BY <1>0, <1>2, <2>3 DEF Throttled, Holds
  <2>4. QED
    BY <1>2, <2>1, <2>2, <2>3, ThrottledCases
<1>3. ASSUME NEW g \in Goroutines, HandOn(g)
      PROVE  q \in held'[h]
  BY <1>3 DEF HandOn, HandTo
<1>4. ASSUME NEW g \in Goroutines, NEW r \in Reports, Filtered(g, r)
      PROVE  q \in held'[h] \/ Gone(q)'
  <2>1. CASE g # h
    BY <1>0, <1>4, <2>1 DEF Filtered, Return, HandTo
  <2>2. CASE g = h
    <3>1. r = q
      BY <1>0, <1>4, <2>2 DEF Filtered, Holds
    <3>2. covers(r) => tolerated'[q] = tolerated[q] + 1
      BY <1>4, <3>1 DEF Filtered, TallyTypes
    <3>3. ~covers(r) => held' = held
      BY <1>4, <3>1 DEF Filtered, NextTakes, HandTo
    <3>4. QED
      BY <3>2, <3>3 DEF Gone, TallyTypes
  <2>3. QED
    BY <2>1, <2>2
<1>5. ASSUME NEW g \in Goroutines, NEW r \in Reports, Collected(g, r)
      PROVE  q \in held'[h] \/ Gone(q)'
  <2>1. CASE g # h
    BY <1>0, <1>5, <2>1 DEF Collected, Return
  <2>2. CASE g = h
    <3>1. r = q
      BY <1>0, <1>5, <2>2 DEF Collected, Holds
    <3>2. collected'[q] = collected[q] + 1 /\ cleared' = cleared
      BY <1>5, <3>1 DEF Collected, TallyTypes
    <3>3. QED
      BY <3>2 DEF Gone, Heard, TallyTypes
  <2>3. QED
    BY <2>1, <2>2
<1>6. CASE Reset \/ Time \/ UNCHANGED chainVars
  BY <1>6 DEF Reset, Time, chainVars, handVars
<1>7. QED
  BY <1>1, <1>2, <1>3, <1>4, <1>5, <1>6, ChainSteps

\* The throttle's counts only grow.
LEMMA CountsGrow ==
  ASSUME IInv, HandInv, [ChainNext]_chainVars, NEW m \in Signals, NEW k \in Keys
  PROVE  /\ suppressed[m][k] \in Nat /\ admitted[m][k] \in Nat
         /\ suppressed[m][k] > 0 => suppressed'[m][k] > 0
         /\ admitted[m][k] > 0 => admitted'[m][k] > 0
<1>1. suppressed[m][k] \in Nat /\ admitted[m][k] \in Nat
  BY DEF IInv, Types, PerKey
<1>2. ASSUME NEW g \in Goroutines, NEW r \in Reports, Throttled(g, r)
      PROVE  /\ suppressed[m][k] > 0 => suppressed'[m][k] > 0
             /\ admitted[m][k] > 0 => admitted'[m][k] > 0
  <2>1. CASE m # r.signal \/ k # throttleKey(r)
    BY <1>2, <2>1, ThrottledCases
  <2>2. CASE m = r.signal /\ k = throttleKey(r)
    BY <1>1, <1>2, <2>2, ThrottledCases
  <2>3. QED
    BY <2>1, <2>2
<1>3. CASE \A g \in Goroutines, r \in Reports : ~Throttled(g, r)
  BY <1>1, <1>3, OthersKeepCounts
<1>4. QED
  BY <1>1, <1>2, <1>3

LEMMA StepKeepsFirst ==
  ASSUME IInv, HandInv, TallyTypes, FirstInv, [ChainNext]_chainVars
  PROVE  FirstInv'
<1>1. ASSUME NEW m \in Signals, NEW k \in Keys, suppressed'[m][k] > 0
      PROVE  admitted'[m][k] > 0
  <2>0. suppressed[m][k] > 0 => admitted'[m][k] > 0
    BY CountsGrow DEF FirstInv
  <2>1. ASSUME NEW g \in Goroutines, NEW r \in Reports, Throttled(g, r)
        PROVE  admitted'[m][k] > 0
    <3>1. CASE m # r.signal \/ k # throttleKey(r) \/ UNCHANGED suppressed
      BY <1>1, <2>0, <2>1, <3>1, ThrottledCases
    <3>2. CASE m = r.signal /\ k = throttleKey(r) /\ ~UNCHANGED suppressed
      BY <2>1, <3>2, ThrottledCases
    <3>3. QED
      BY <3>1, <3>2
  <2>2. CASE \A g \in Goroutines, r \in Reports : ~Throttled(g, r)
    BY <1>1, <2>0, <2>2, OthersKeepCounts
  <2>3. QED
    BY <2>1, <2>2
<1>2. ASSUME NEW r \in Reports, r.signal \in Final, admitted'[r.signal][throttleKey(r)] > 0
      PROVE  \E q \in SameKey(r) : Served(q)'
  <2>0. CASE admitted[r.signal][throttleKey(r)] > 0
    <3>1. PICK q \in SameKey(r) : Served(q)
      BY <1>2, <2>0 DEF FirstInv
    <3>2. q \in Reports /\ q.signal \in Final
      BY <1>2 DEF SameKey
    <3>3. QED
      BY <3>1, <3>2, ServedStays
  <2>1. ASSUME NEW g \in Goroutines, NEW q \in Reports, Throttled(g, q),
               ~(admitted[r.signal][throttleKey(r)] > 0)
        PROVE  \E p \in SameKey(r) : Served(p)'
    <3>1. /\ admitted'[r.signal][throttleKey(r)] # admitted[r.signal][throttleKey(r)]
          /\ r.signal \in Signals /\ throttleKey(r) \in Keys
      BY <1>2, <2>1, ReportFields
    <3>2. q \in SameKey(r)
      BY <2>1, <3>1, ThrottledCases DEF SameKey
    <3>3. HandTo(g, "forward")
      BY <2>1, <3>1, ThrottledCases
    <3>4. q \in held'[g] /\ layer'[g] = "forward"
      BY <2>1, <3>3 DEF Throttled, Holds, HandTo, HandInv
    <3>5. Served(q)'
      BY <3>4 DEF Served, Behind
    <3>6. QED
      BY <3>2, <3>5
  <2>2. CASE \A g \in Goroutines, q \in Reports : ~Throttled(g, q)
    BY <1>2, <2>0, <2>2, OthersKeepCounts
  <2>3. QED
    BY <2>0, <2>1, <2>2
<1>3. ASSUME NEW r \in Reports, r.signal \in Final, sent'[r] > 0
      PROVE  (\E g \in Goroutines : r \in held'[g]) \/ Gone(r)'
  <2>1. CASE sent[r] > 0
    <3>1. CASE \E g \in Goroutines : r \in held[g]
      BY <1>3, <3>1, HeldGoes
    <3>2. CASE Gone(r)
      <4>1. Suppressed(r) > 0 => Suppressed(r)' > 0
        BY CountsGrow, ReportFields DEF Suppressed
      <4>2. QED
        BY <3>2, <4>1, TalliesGrow DEF Gone
    <3>3. QED
      BY <1>3, <2>1, <3>1, <3>2 DEF FirstInv
  <2>2. CASE ~(sent[r] > 0)
    <3>1. sent' # sent
      BY <1>3, <2>2
    <3>2. PICK g \in Goroutines, q \in Reports : Send(g, q)
      BY <3>1, ChainSteps
         DEF Throttled, Filtered, Collected, HandOn, Reset, Time, chainVars, tallyVars
    <3>3. r = q
      BY <1>3, <2>2, <3>2 DEF Send, TallyTypes
    <3>4. r \in held'[g]
      BY <3>2, <3>3 DEF Send, HandInv
    <3>5. QED
      BY <3>4
  <2>3. QED
    BY <2>1, <2>2
<1>4. \A r : SameKey(r)' = SameKey(r)
  BY DEF SameKey
<1>5. QED
  BY <1>1, <1>2, <1>3, <1>4 DEF FirstInv

LEMMA ChainInvariant == ChainSpec => [](IInv /\ HandInv /\ TallyTypes /\ FilterInv /\ FirstInv)
<1>1. ChainInit => FirstInv
  BY ReportFields DEF ChainInit, Init, AllKeys, FirstInv, None
<1>2. IInv /\ HandInv /\ TallyTypes /\ FirstInv /\ [ChainNext]_chainVars => FirstInv'
  BY StepKeepsFirst
<1>3. QED
  BY <1>1, <1>2, ThrottleInv, FiltersInvariant, PTL DEF ChainSpec

\* What the invariant says of a report that is no longer on its way: one like
\* it got past the throttle.
LEMMA SomeoneServed ==
  ASSUME HandInv, TallyTypes, FirstInv, IInv, NEW r \in Reports,
         r.signal \in Final, sent[r] > 0, ~OnItsWay(r)
  PROVE  Heard(r) \/ tolerated[r] > 0 \/ \E q \in SameKey(r) : Served(q)
<1>1. \A g \in Goroutines : r \notin held[g]
  BY DEF OnItsWay, HandInv
<1>2. CASE Suppressed(r) > 0
  BY <1>2, ReportFields DEF FirstInv, Suppressed
<1>3. QED
  BY <1>1, <1>2 DEF FirstInv, Gone

\* Of every signal and key, some report is heard: once a report has been sent
\* and none like it is on its way any more, the last reporter has received one
\* of that signal and key, unless the baseline tolerates one of them -- however
\* many share the key, whatever is reported around them and with either of
\* throttle and baseline outermost (the Report methods, throttle.go).
FirstOfKeyHeard ==
  \A r \in Reports :
    /\ r.signal \in Final /\ sent[r] > 0
    /\ \A q \in SameKey(r) : ~OnItsWay(q) /\ ~covers(q)
    => \E q \in SameKey(r) : Heard(q)

THEOREM SomeoneOfEveryKeyHeard == ChainSpec => []FirstOfKeyHeard
<1>1. IInv /\ HandInv /\ TallyTypes /\ FilterInv /\ FirstInv => FirstOfKeyHeard
  <2> SUFFICES ASSUME IInv, HandInv, TallyTypes, FilterInv, FirstInv,
                      NEW r \in Reports, r.signal \in Final, sent[r] > 0,
                      \A q \in SameKey(r) : ~OnItsWay(q) /\ ~covers(q)
               PROVE  \E q \in SameKey(r) : Heard(q)
    BY DEF FirstOfKeyHeard
  <2>1. r \in SameKey(r) /\ SameKey(r) \subseteq Reports
    BY DEF SameKey
  <2>2. \A q \in SameKey(r), g \in Goroutines : q \notin held[g]
    BY <2>1 DEF OnItsWay, HandInv
  <2>3. \A q \in SameKey(r) : ~(tolerated[q] > 0)
    BY <2>1 DEF FilterInv
  <2>4. QED
    BY <2>1, <2>2, <2>3, SomeoneServed DEF Served
<1>2. QED
  BY <1>1, ChainInvariant, PTL

\* No two different reports of a signal the last reporter implements have the
\* same key.
KeysDistinct ==
  \A q, r \in Reports :
    q.signal \in Final /\ q.signal = r.signal /\ throttleKey(q) = throttleKey(r) => q = r

\* The first report of every finding is forwarded, provided that findings are
\* told apart by their keys.  The keys of identities and begin sites that talk
\* to a Session are distinct; those of begin sites behind database/sql are not,
\* which is what FirstHeard fails by there (unscopedTxKey, throttle.go).
THEOREM FirstOfEveryFindingHeard ==
  ASSUME KeysDistinct
  PROVE  ChainSpec => []FirstHeard
<1>1. IInv /\ HandInv /\ TallyTypes /\ FilterInv /\ FirstInv => FirstHeard
  <2> SUFFICES ASSUME IInv, HandInv, TallyTypes, FilterInv, FirstInv,
                      NEW r \in Reports, r.signal \in Final, sent[r] > 0, ~OnItsWay(r), ~covers(r)
               PROVE  Heard(r)
    BY DEF FirstHeard
  <2>1. \A q \in SameKey(r) : q = r
    BY DEF KeysDistinct, SameKey
  <2>2. \A g \in Goroutines : r \notin held[g]
    BY DEF OnItsWay, HandInv
  <2>3. ~(tolerated[r] > 0)
    BY DEF FilterInv
  <2>4. QED
    BY <2>1, <2>2, <2>3, SomeoneServed DEF Served
<1>2. QED
  BY <1>1, ChainInvariant, PTL

-----------------------------------------------------------------------------
(* Counting occurrences. *)

LEMMA OccurrencesOf ==
  ASSUME NEW c, NEW S
  PROVE  /\ \A r, n : <<r, n>> \in Occurrences(c, S) <=> r \in S /\ n \in 1..c[r]
         /\ Occurrences(c, S) \subseteq S \X Int
<1>1. \A r, n : <<r, n>> \in Occurrences(c, S) <=> r \in S /\ n \in 1..c[r]
  BY DEF Occurrences
<1>2. Occurrences(c, S) \subseteq S \X Int
  BY DEF Occurrences
<1>3. QED
  BY <1>1, <1>2

\* A set of pairs is in another when its pairs are.
LEMMA SamePairsSubset ==
  ASSUME NEW S, NEW A, NEW B, A \in SUBSET (S \X Int),
         \A r \in S : \A n \in Int : <<r, n>> \in A => <<r, n>> \in B
  PROVE  A \subseteq B
<1> SUFFICES ASSUME NEW x \in A PROVE x \in B
  OBVIOUS
<1>1. x[1] \in S /\ x[2] \in Int /\ x = <<x[1], x[2]>>
  OBVIOUS
<1>2. QED
  BY <1>1

LEMMA OneMoreOccurrence ==
  ASSUME NEW S, NEW c, NEW d, NEW r \in S, c[r] \in Nat, d[r] = c[r] + 1,
         \A q \in S \ {r} : d[q] = c[q]
  PROVE  /\ <<r, d[r]>> \notin Occurrences(c, S)
         /\ Occurrences(d, S) = Occurrences(c, S) \cup {<<r, d[r]>>}
<1> DEFINE P == Occurrences(c, S) \cup {<<r, d[r]>>}
<1>1. <<r, d[r]>> \notin Occurrences(c, S)
  BY OccurrencesOf
<1>2. P \in SUBSET (S \X Int) /\ Occurrences(d, S) \in SUBSET (S \X Int)
  BY OccurrencesOf
<1>3. ASSUME NEW q \in S, NEW n \in Int
      PROVE  <<q, n>> \in Occurrences(d, S) <=> <<q, n>> \in P
  <2>1. <<q, n>> = <<r, d[r]>> <=> q = r /\ n = c[r] + 1
    OBVIOUS
  <2>2. n \in 1..d[q] <=> n \in 1..c[q] \/ (q = r /\ n = c[r] + 1)
    OBVIOUS
  <2>3. /\ <<q, n>> \in Occurrences(d, S) <=> n \in 1..d[q]
        /\ <<q, n>> \in Occurrences(c, S) <=> n \in 1..c[q]
    BY OccurrencesOf
  <2>4. QED
    BY <2>1, <2>2, <2>3
<1> HIDE DEF P
<1>4. Occurrences(d, S) \subseteq P
  BY <1>2, <1>3, SamePairsSubset
<1>5. P \subseteq Occurrences(d, S)
  BY <1>2, <1>3, SamePairsSubset
<1>6. QED
  BY <1>1, <1>4, <1>5 DEF P

\* One more report is one more occurrence, if it is among those counted.
LEMMA TotalUp ==
  ASSUME NEW S \in SUBSET Reports, NEW c \in [Reports -> Nat], NEW d, NEW r \in Reports,
         \A q \in Reports : d[q] = IF q = r THEN c[r] + 1 ELSE c[q],
         IsFiniteSet(Occurrences(c, S))
  PROVE  /\ IsFiniteSet(Occurrences(d, S)) /\ Total(d, S) \in Nat /\ Total(c, S) \in Nat
         /\ Total(d, S) = Total(c, S) + (IF r \in S THEN 1 ELSE 0)
<1>1. /\ c[r] \in Nat /\ d[r] = c[r] + 1
      /\ \A q \in S \ {r} : d[q] = c[q]
  OBVIOUS
<1>2. Cardinality(Occurrences(c, S)) \in Nat
  BY FS_CardinalityType
<1>3. CASE r \in S
  <2>1. /\ <<r, d[r]>> \notin Occurrences(c, S)
        /\ Occurrences(d, S) = Occurrences(c, S) \cup {<<r, d[r]>>}
    BY <1>1, <1>3, OneMoreOccurrence
  <2>2. /\ IsFiniteSet(Occurrences(d, S))
        /\ Cardinality(Occurrences(d, S)) = Cardinality(Occurrences(c, S)) + 1
    <3>1. ASSUME NEW O, NEW x, IsFiniteSet(O), x \notin O
          PROVE  IsFiniteSet(O \cup {x}) /\ Cardinality(O \cup {x}) = Cardinality(O) + 1
      BY <3>1, FS_AddElement
    <3>2. QED
      BY <2>1, <3>1
  <2>3. QED
    BY <1>2, <1>3, <2>2 DEF Total
<1>4. CASE r \notin S
  <2>1. Occurrences(d, S) = Occurrences(c, S)
    BY <1>1, <1>4 DEF Occurrences
  <2>2. QED
    BY <1>2, <1>4, <2>1 DEF Total
<1>5. QED
  BY <1>3, <1>4

\* The occurrences of a sum are those of its parts, one part after the other.
LEMMA TotalSum ==
  ASSUME NEW S \in SUBSET Reports, NEW c \in [Reports -> Nat], NEW e \in [Reports -> Nat], NEW d,
         d = [r \in Reports |-> c[r] + e[r]],
         IsFiniteSet(Occurrences(c, S)), IsFiniteSet(Occurrences(e, S))
  PROVE  /\ IsFiniteSet(Occurrences(d, S)) /\ Total(c, S) \in Nat /\ Total(e, S) \in Nat
         /\ Total(d, S) = Total(c, S) + Total(e, S)
<1> DEFINE C == Occurrences(c, S)
           E == Occurrences(e, S)
           Shift == [x \in E |-> <<x[1], c[x[1]] + x[2]>>]
           Shifted == {Shift[x] : x \in E}
<1>1. \A x \in E :
        /\ x[1] \in S /\ x[1] \in Reports /\ x[2] \in Int /\ x = <<x[1], x[2]>>
        /\ c[x[1]] \in Nat /\ x[2] \in 1..e[x[1]]
        /\ Shift[x] = <<x[1], c[x[1]] + x[2]>>
  <2>1. \A x \in E : x[1] \in S /\ x[2] \in Int /\ x = <<x[1], x[2]>>
    BY OccurrencesOf
  <2>2. QED
    BY <2>1, OccurrencesOf
<1>2. Shift \in Bijection(E, Shifted)
  <2>1. ASSUME NEW x \in E, NEW y \in E, Shift[x] = Shift[y]
        PROVE  x = y
    <3>1. <<x[1], c[x[1]] + x[2]>> = <<y[1], c[y[1]] + y[2]>>
      BY <1>1, <2>1
    <3>2. x[1] = y[1] /\ c[x[1]] + x[2] = c[y[1]] + y[2]
      BY <3>1
    <3>3. x[2] = y[2]
      <4>1. c[x[1]] \in Nat /\ x[2] \in Int /\ y[2] \in Int
        BY <1>1
      <4>2. QED
        BY <3>2, <4>1
    <3>4. QED
      BY <1>1, <3>2, <3>3
  <2>2. Shift \in [E -> Shifted] /\ \A t \in Shifted : \E x \in E : Shift[x] = t
    OBVIOUS
  <2> HIDE DEF Shift, Shifted
  <2>3. QED
    BY <2>1, <2>2 DEF Bijection, Injection, Surjection, IsInjective
<1>3. ASSUME NEW r \in S, NEW n \in Int
      PROVE  <<r, n>> \in Shifted <=> n - c[r] \in 1..e[r]
  <2>1. c[r] \in Nat /\ e[r] \in Nat
    OBVIOUS
  <2>2. ASSUME <<r, n>> \in Shifted
        PROVE  n - c[r] \in 1..e[r]
    <3>1. PICK x \in E : <<r, n>> = <<x[1], c[x[1]] + x[2]>>
      BY <1>1, <2>2
    <3>2. r = x[1] /\ n = c[r] + x[2]
      BY <3>1
    <3>3. x[2] \in 1..e[r]
      BY <1>1, <3>2
    <3>4. QED
      BY <2>1, <3>2, <3>3
  <2>3. ASSUME n - c[r] \in 1..e[r]
        PROVE  <<r, n>> \in Shifted
    <3>1. <<r, n - c[r]>> \in E
      BY <2>3, OccurrencesOf
    <3>2. Shift[<<r, n - c[r]>>] = <<r, c[r] + (n - c[r])>>
      BY <3>1
    <3>3. c[r] + (n - c[r]) = n
      BY <2>1
    <3>4. QED
      BY <3>1, <3>2, <3>3
  <2>4. QED
    BY <2>2, <2>3
<1>4. Shifted \subseteq S \X Int
  <2>1. \A x \in E : <<x[1], c[x[1]] + x[2]>> \in S \X Int
    BY <1>1
  <2>2. QED
    BY <1>1, <2>1
<1>5. C \subseteq S \X Int /\ Occurrences(d, S) \subseteq S \X Int
  BY OccurrencesOf
<1> HIDE DEF Shift, Shifted
<1>6. Occurrences(d, S) = C \cup Shifted /\ C \cap Shifted = {}
  <2>1. ASSUME NEW r \in S, NEW n \in Int
        PROVE  /\ <<r, n>> \in Occurrences(d, S) <=> <<r, n>> \in C \cup Shifted
               /\ ~(<<r, n>> \in C /\ <<r, n>> \in Shifted)
    <3>1. d[r] = c[r] + e[r] /\ c[r] \in Nat /\ e[r] \in Nat
      OBVIOUS
    <3>2. <<r, n>> \in C <=> n \in 1..c[r]
      BY OccurrencesOf
    <3>3. <<r, n>> \in Occurrences(d, S) <=> n \in 1..(c[r] + e[r])
      BY <3>1, OccurrencesOf
    <3>4. QED
      BY <1>3, <3>1, <3>2, <3>3
  <2>2. Occurrences(d, S) = C \cup Shifted
    <3>1. C \cup Shifted \subseteq S \X Int
      BY <1>4, <1>5
    <3>2. QED
      BY <1>5, <2>1, <3>1, SamePairsSubset
  <2>3. C \cap Shifted = {}
    <3> SUFFICES ASSUME NEW x \in C, x \in Shifted PROVE FALSE
      OBVIOUS
    <3>1. x[1] \in S /\ x[2] \in Int /\ x = <<x[1], x[2]>>
      BY <1>5
    <3>2. QED
      BY <2>1, <3>1
  <2>4. QED
    BY <2>2, <2>3
<1>7. IsFiniteSet(C) /\ IsFiniteSet(E)
  OBVIOUS
<1>12. /\ Total(c, S) = Cardinality(C) /\ Total(e, S) = Cardinality(E)
       /\ Total(d, S) = Cardinality(Occurrences(d, S))
  BY DEF Total
<1> HIDE DEF C, E
<1>8. IsFiniteSet(Shifted) /\ Cardinality(Shifted) = Cardinality(E)
  BY <1>2, <1>7, FS_Bijection DEF ExistsBijection
<1>9. Cardinality(C) \in Nat /\ Cardinality(E) \in Nat /\ Cardinality(C \cap Shifted) = 0
  BY <1>6, <1>7, FS_CardinalityType, FS_EmptySet
<1>10. /\ IsFiniteSet(C \cup Shifted)
       /\ Cardinality(C \cup Shifted) = Cardinality(C) + Cardinality(Shifted) - Cardinality(C \cap Shifted)
  BY <1>7, <1>8, FS_Union
<1>11. IsFiniteSet(Occurrences(d, S)) /\ Cardinality(Occurrences(d, S)) = Cardinality(C) + Cardinality(E)
  <2> DEFINE U == C \cup Shifted
             I == C \cap Shifted
  <2>1. Occurrences(d, S) = U /\ IsFiniteSet(U) /\ Cardinality(I) = 0
        /\ Cardinality(U) = Cardinality(C) + Cardinality(Shifted) - Cardinality(I)
    BY <1>6, <1>9, <1>10
  <2> HIDE DEF U, I
  <2>2. QED
    BY <1>8, <1>9, <2>1
<1>13. QED
  BY <1>9, <1>11, <1>12

LEMMA TotalNone ==
  ASSUME NEW S \in SUBSET Reports
  PROVE  IsFiniteSet(Occurrences(None, S)) /\ Total(None, S) = 0
<1>1. Occurrences(None, S) = {}
  BY DEF Occurrences, None
<1>2. QED
  BY <1>1, FS_EmptySet DEF Total

LEMMA TotalOfSome ==
  ASSUME NEW c, NEW S, NEW T \in SUBSET S, IsFiniteSet(Occurrences(c, S))
  PROVE  IsFiniteSet(Occurrences(c, T)) /\ Total(c, T) \in Nat
<1>1. Occurrences(c, T) \subseteq Occurrences(c, S)
  BY DEF Occurrences
<1>2. IsFiniteSet(Occurrences(c, T))
  BY <1>1, FS_Subset
<1>3. QED
  BY <1>2, FS_CardinalityType DEF Total

-----------------------------------------------------------------------------
(* The accounts. *)

\* The goroutines that hold one of these reports.
Holding(S) == {g \in Goroutines : held[g] \cap S # {}}

Finite ==
  /\ IsFiniteSet(Occurrences(sent, Reports)) /\ IsFiniteSet(Occurrences(tolerated, Reports))
  /\ IsFiniteSet(Occurrences(collected, Reports)) /\ IsFiniteSet(Occurrences(cleared, Reports))

AccountInv == Finite /\ AllAccounted

LEMMA HoldingCount ==
  ASSUME NEW S
  PROVE  /\ IsFiniteSet(Holding(S)) /\ Cardinality(Holding(S)) \in Nat
         /\ Cardinality(Holding(S)') \in Nat
<1>1. \A G \in SUBSET Goroutines : IsFiniteSet(G) /\ Cardinality(G) \in Nat
  BY GoroutinesFinite, FS_Subset, FS_CardinalityType
<1>2. Holding(S) \in SUBSET Goroutines /\ Holding(S)' \in SUBSET Goroutines
  BY DEF Holding
<1>3. QED
  BY <1>1, <1>2

\* Taking up a report and letting go of it change one set of goroutines by one.
LEMMA HoldingChanges ==
  ASSUME HandInv, NEW g \in Goroutines, NEW r \in Reports, NEW S
  PROVE  /\ held[g] = {} /\ held' = [held EXCEPT ![g] = {r}] =>
              Cardinality(Holding(S)') = Cardinality(Holding(S)) + (IF r \in S THEN 1 ELSE 0)
         /\ r \in held[g] /\ held' = [held EXCEPT ![g] = {}] =>
              Cardinality(Holding(S)) = Cardinality(Holding(S)') + (IF r \in S THEN 1 ELSE 0)
<1>1. held \in [Goroutines -> SUBSET Reports] /\ \A q \in held[g] : r \in held[g] => q = r
  BY DEF HandInv
<1>2. ASSUME held[g] = {}, held' = [held EXCEPT ![g] = {r}]
      PROVE  Cardinality(Holding(S)') = Cardinality(Holding(S)) + (IF r \in S THEN 1 ELSE 0)
  <2>1. CASE r \in S
    <3>1. Holding(S)' = Holding(S) \cup {g} /\ g \notin Holding(S)
      BY <1>1, <1>2, <2>1 DEF Holding
    <3>2. QED
      BY <2>1, <3>1, HoldingCount, FS_AddElement
  <2>2. CASE r \notin S
    <3>1. Holding(S)' = Holding(S)
      BY <1>1, <1>2, <2>2 DEF Holding
    <3>2. QED
      BY <2>2, <3>1, HoldingCount
  <2>3. QED
    BY <2>1, <2>2
<1>3. ASSUME r \in held[g], held' = [held EXCEPT ![g] = {}]
      PROVE  Cardinality(Holding(S)) = Cardinality(Holding(S)') + (IF r \in S THEN 1 ELSE 0)
  <2>1. CASE r \in S
    <3>1. Holding(S)' = Holding(S) \ {g} /\ g \in Holding(S)
      BY <1>1, <1>3, <2>1 DEF Holding
    <3>2. Cardinality(Holding(S) \ {g}) = Cardinality(Holding(S)) - 1
      BY <3>1, HoldingCount, FS_RemoveElement
    <3>3. QED
      BY <2>1, <3>1, <3>2, HoldingCount
  <2>2. CASE r \notin S
    <3>1. Holding(S)' = Holding(S)
      BY <1>1, <1>3, <2>2 DEF Holding
    <3>2. QED
      BY <2>2, <3>1, HoldingCount
  <2>3. QED
    BY <2>1, <2>2
<1>4. QED
  BY <1>2, <1>3

\* The account of a report: all the numbers AllAccounted is about.
Account(r) ==
  [sent |-> Total(sent, SameKey(r)), tolerated |-> Total(tolerated, SameKey(r)),
   collected |-> Total(collected, SameKey(r)), cleared |-> Total(cleared, SameKey(r)),
   suppressed |-> Suppressed(r), held |-> Cardinality(Holding(SameKey(r)))]

Balanced(a) ==
  a.sent = a.suppressed + a.tolerated + a.collected + a.cleared + a.held

LEMMA AccountBalanced ==
  AllAccounted <=> \A r \in Reports : r.signal \in Final => Balanced(Account(r))
BY DEF AllAccounted, Balanced, Account, Holding

LEMMA AccountTyped ==
  ASSUME IInv, Finite, NEW r \in Reports
  PROVE  /\ SameKey(r) \in SUBSET Reports
         /\ Account(r).sent \in Nat /\ Account(r).tolerated \in Nat
         /\ Account(r).collected \in Nat /\ Account(r).cleared \in Nat
         /\ Account(r).suppressed \in Nat /\ Account(r).held \in Nat
<1>1. SameKey(r) \in SUBSET Reports
  BY DEF SameKey
<1>2. Suppressed(r) \in Nat
  BY ReportFields DEF Suppressed, IInv, Types, PerKey
<1>3. /\ Total(sent, SameKey(r)) \in Nat /\ Total(tolerated, SameKey(r)) \in Nat
      /\ Total(collected, SameKey(r)) \in Nat /\ Total(cleared, SameKey(r)) \in Nat
  BY <1>1, TotalOfSome DEF Finite
<1>4. QED
  BY <1>1, <1>2, <1>3, HoldingCount DEF Account

\* What one more occurrence of a report does to a tally.
LEMMA TallyUp ==
  ASSUME NEW c \in [Reports -> Nat], NEW d, NEW r \in Reports,
         \A q \in Reports : d[q] = IF q = r THEN c[r] + 1 ELSE c[q],
         IsFiniteSet(Occurrences(c, Reports))
  PROVE  /\ IsFiniteSet(Occurrences(d, Reports))
         /\ \A S \in SUBSET Reports : Total(d, S) = Total(c, S) + (IF r \in S THEN 1 ELSE 0)
<1>2. IsFiniteSet(Occurrences(d, Reports))
  BY TotalUp
<1>3. ASSUME NEW S \in SUBSET Reports
      PROVE  Total(d, S) = Total(c, S) + (IF r \in S THEN 1 ELSE 0)
  <2>1. IsFiniteSet(Occurrences(c, S))
    BY TotalOfSome
  <2>2. QED
    BY <2>1, TotalUp
<1>4. QED
  BY <1>2, <1>3

LEMMA AccountAfter ==
  ASSUME NEW r
  PROVE  Account(r)' =
           [sent |-> Total(sent', SameKey(r)), tolerated |-> Total(tolerated', SameKey(r)),
            collected |-> Total(collected', SameKey(r)), cleared |-> Total(cleared', SameKey(r)),
            suppressed |-> Suppressed(r)', held |-> Cardinality(Holding(SameKey(r))')]
BY DEF Account, Total, Occurrences, SameKey, Holding

\* A step that leaves the throttle's counts alone keeps the balance if it moves
\* a report from one place to another.
LEMMA StaysBalanced ==
  ASSUME IInv, AccountInv, NEW q \in Reports, q.signal \in Final, UNCHANGED suppressed,
         NEW n \in {0, 1}, NEW u \in {0, 1}, NEW v \in {0, 1},
         Total(sent', SameKey(q)) = Total(sent, SameKey(q)) + n,
         Total(tolerated', SameKey(q)) = Total(tolerated, SameKey(q)) + u,
         Total(collected', SameKey(q)) = Total(collected, SameKey(q)) + v,
         UNCHANGED cleared,
         Cardinality(Holding(SameKey(q))') + u + v = Cardinality(Holding(SameKey(q))) + n
  PROVE  Balanced(Account(q))'
<1>1. Balanced(Account(q))
  BY AccountBalanced DEF AccountInv
<1>2. Suppressed(q)' = Suppressed(q)
  BY DEF Suppressed
<1>3. Cardinality(Holding(SameKey(q))') \in Nat
  BY HoldingCount
<1>4. /\ Account(q).sent = Total(sent, SameKey(q)) /\ Account(q).sent \in Nat
      /\ Account(q).tolerated = Total(tolerated, SameKey(q)) /\ Account(q).tolerated \in Nat
      /\ Account(q).collected = Total(collected, SameKey(q)) /\ Account(q).collected \in Nat
      /\ Account(q).cleared = Total(cleared, SameKey(q)) /\ Account(q).cleared \in Nat
      /\ Account(q).suppressed = Suppressed(q) /\ Account(q).suppressed \in Nat
      /\ Account(q).held = Cardinality(Holding(SameKey(q))) /\ Account(q).held \in Nat
  BY AccountTyped DEF AccountInv, Account
<1>5. /\ Account(q)'.sent = Total(sent', SameKey(q))
      /\ Account(q)'.tolerated = Total(tolerated', SameKey(q))
      /\ Account(q)'.collected = Total(collected', SameKey(q))
      /\ Account(q)'.cleared = Total(cleared, SameKey(q))
      /\ Account(q)'.suppressed = Suppressed(q)
      /\ Account(q)'.held = Cardinality(Holding(SameKey(q))')
  BY <1>2, AccountAfter
<1>6. Account(q)'.sent = Account(q)'.suppressed + Account(q)'.tolerated
          + Account(q)'.collected + Account(q)'.cleared + Account(q)'.held
  BY <1>1, <1>3, <1>4, <1>5 DEF Balanced
<1>7. QED
  BY <1>6 DEF Balanced

\* The tallies and the hands, action by action.
LEMMA StepKeepsAccounts ==
  ASSUME IInv, HandInv, TallyTypes, AccountInv, [ChainNext]_chainVars
  PROVE  AccountInv'
<1> SUFFICES Finite' /\ \A q \in Reports : q.signal \in Final => Balanced(Account(q))'
  BY AccountBalanced DEF AccountInv, AllAccounted, Balanced, Account, Holding
<1>0. /\ \A q \in Reports : SameKey(q) \in SUBSET Reports /\ Cardinality(Holding(SameKey(q))) \in Nat
      /\ \A q \in Reports : /\ Total(sent, SameKey(q)) \in Nat /\ Total(tolerated, SameKey(q)) \in Nat
                            /\ Total(collected, SameKey(q)) \in Nat
  BY HoldingCount, TotalOfSome DEF SameKey, AccountInv, Finite
<1>1. ASSUME UNCHANGED <<held, suppressed, collected, cleared, tolerated, sent>>
      PROVE  Finite' /\ \A q \in Reports : q.signal \in Final => Balanced(Account(q))'
  <2>1. Finite'
    BY <1>1 DEF AccountInv, Finite
  <2>2. \A q \in Reports : UNCHANGED Account(q)
    BY <1>1 DEF Account, Total, Occurrences, SameKey, Holding, Suppressed
  <2>3. QED
    BY <2>1, <2>2, AccountBalanced DEF AccountInv, Balanced
<1>2. ASSUME NEW g \in Goroutines, NEW r \in Reports, Send(g, r)
      PROVE  Finite' /\ \A q \in Reports : q.signal \in Final => Balanced(Account(q))'
  <2>1. /\ held[g] = {} /\ held' = [held EXCEPT ![g] = {r}]
        /\ UNCHANGED <<suppressed, collected, cleared, tolerated>>
    BY <1>2 DEF Send, Kept, vars, mapVars
  <2>2. \A q \in Reports : sent'[q] = IF q = r THEN sent[r] + 1 ELSE sent[q]
    BY <1>2 DEF Send, TallyTypes
  <2>3. /\ IsFiniteSet(Occurrences(sent', Reports))
        /\ \A S \in SUBSET Reports : Total(sent', S) = Total(sent, S) + (IF r \in S THEN 1 ELSE 0)
    BY <2>2, TallyUp DEF TallyTypes, AccountInv, Finite
  <2>4. Finite'
    BY <2>1, <2>3 DEF AccountInv, Finite
  <2>5. ASSUME NEW q \in Reports, q.signal \in Final
        PROVE  Balanced(Account(q))'
    <3>1. Cardinality(Holding(SameKey(q))') =
            Cardinality(Holding(SameKey(q))) + (IF r \in SameKey(q) THEN 1 ELSE 0)
      BY <2>1, HoldingChanges
    <3>2. PICK n \in {0, 1} : n = IF r \in SameKey(q) THEN 1 ELSE 0
      OBVIOUS
    <3>3. /\ Total(sent', SameKey(q)) = Total(sent, SameKey(q)) + n
          /\ Cardinality(Holding(SameKey(q))') + 0 + 0 = Cardinality(Holding(SameKey(q))) + n
          /\ Total(tolerated', SameKey(q)) = Total(tolerated, SameKey(q)) + 0
          /\ Total(collected', SameKey(q)) = Total(collected, SameKey(q)) + 0
      BY <1>0, <2>1, <2>3, <3>1, <3>2
    <3>4. QED
      BY <2>1, <2>5, <3>3, StaysBalanced
  <2>6. QED
    BY <2>4, <2>5
<1>3. ASSUME NEW g \in Goroutines, NEW r \in Reports, Filtered(g, r), covers(r)
      PROVE  Finite' /\ \A q \in Reports : q.signal \in Final => Balanced(Account(q))'
  <2>1. /\ r \in held[g] /\ held' = [held EXCEPT ![g] = {}]
        /\ UNCHANGED <<suppressed, collected, cleared, sent>>
    BY <1>3 DEF Filtered, Holds, Return, Kept, vars, mapVars
  <2>2. \A q \in Reports : tolerated'[q] = IF q = r THEN tolerated[r] + 1 ELSE tolerated[q]
    BY <1>3 DEF Filtered, TallyTypes
  <2>3. /\ IsFiniteSet(Occurrences(tolerated', Reports))
        /\ \A S \in SUBSET Reports :
             Total(tolerated', S) = Total(tolerated, S) + (IF r \in S THEN 1 ELSE 0)
    BY <2>2, TallyUp DEF TallyTypes, AccountInv, Finite
  <2>4. Finite'
    BY <2>1, <2>3 DEF AccountInv, Finite
  <2>5. ASSUME NEW q \in Reports, q.signal \in Final
        PROVE  Balanced(Account(q))'
    <3>1. /\ Cardinality(Holding(SameKey(q))) =
               Cardinality(Holding(SameKey(q))') + (IF r \in SameKey(q) THEN 1 ELSE 0)
          /\ Cardinality(Holding(SameKey(q))') \in Nat
      BY <2>1, HoldingChanges, HoldingCount
    <3>2. PICK n \in {0, 1} : n = IF r \in SameKey(q) THEN 1 ELSE 0
      OBVIOUS
    <3>3. /\ Total(sent', SameKey(q)) = Total(sent, SameKey(q)) + 0
          /\ Cardinality(Holding(SameKey(q))') + n + 0 = Cardinality(Holding(SameKey(q))) + 0
          /\ Total(tolerated', SameKey(q)) = Total(tolerated, SameKey(q)) + n
          /\ Total(collected', SameKey(q)) = Total(collected, SameKey(q)) + 0
      BY <1>0, <2>1, <2>3, <3>1, <3>2
    <3>4. QED
      BY <2>1, <2>5, <3>3, StaysBalanced
  <2>6. QED
    BY <2>4, <2>5
<1>4. ASSUME NEW g \in Goroutines, NEW r \in Reports, Collected(g, r)
      PROVE  Finite' /\ \A q \in Reports : q.signal \in Final => Balanced(Account(q))'
  <2>1. /\ r \in held[g] /\ held' = [held EXCEPT ![g] = {}]
        /\ UNCHANGED <<suppressed, tolerated, cleared, sent>>
    BY <1>4 DEF Collected, Holds, Return, Kept, vars, mapVars
  <2>2. \A q \in Reports : collected'[q] = IF q = r THEN collected[r] + 1 ELSE collected[q]
    BY <1>4 DEF Collected, TallyTypes
  <2>3. /\ IsFiniteSet(Occurrences(collected', Reports))
        /\ \A S \in SUBSET Reports :
             Total(collected', S) = Total(collected, S) + (IF r \in S THEN 1 ELSE 0)
    BY <2>2, TallyUp DEF TallyTypes, AccountInv, Finite
  <2>4. Finite'
    BY <2>1, <2>3 DEF AccountInv, Finite
  <2>5. ASSUME NEW q \in Reports, q.signal \in Final
        PROVE  Balanced(Account(q))'
    <3>1. /\ Cardinality(Holding(SameKey(q))) =
               Cardinality(Holding(SameKey(q))') + (IF r \in SameKey(q) THEN 1 ELSE 0)
          /\ Cardinality(Holding(SameKey(q))') \in Nat
      BY <2>1, HoldingChanges, HoldingCount
    <3>2. PICK n \in {0, 1} : n = IF r \in SameKey(q) THEN 1 ELSE 0
      OBVIOUS
    <3>3. /\ Total(sent', SameKey(q)) = Total(sent, SameKey(q)) + 0
          /\ Cardinality(Holding(SameKey(q))') + 0 + n = Cardinality(Holding(SameKey(q))) + 0
          /\ Total(tolerated', SameKey(q)) = Total(tolerated, SameKey(q)) + 0
          /\ Total(collected', SameKey(q)) = Total(collected, SameKey(q)) + n
      BY <1>0, <2>1, <2>3, <3>1, <3>2
    <3>4. QED
      BY <2>1, <2>5, <3>3, StaysBalanced
  <2>6. QED
    BY <2>4, <2>5
\* A report of a signal that the last reporter does not implement is dropped.
<1>5. ASSUME NEW g \in Goroutines, NEW r \in held[g], r.signal \notin Final,
             held' = [held EXCEPT ![g] = {}],
             UNCHANGED <<suppressed, collected, cleared, tolerated, sent>>
      PROVE  Finite' /\ \A q \in Reports : q.signal \in Final => Balanced(Account(q))'
  <2>1. Finite'
    BY <1>5 DEF AccountInv, Finite
  <2>2. ASSUME NEW q \in Reports, q.signal \in Final
        PROVE  Balanced(Account(q))'
    <3>1. r \in Reports /\ r \notin SameKey(q)
      BY <1>5, <2>2 DEF SameKey, HandInv
    <3>2. /\ Cardinality(Holding(SameKey(q))) = Cardinality(Holding(SameKey(q))') + 0
          /\ Cardinality(Holding(SameKey(q))') \in Nat
      BY <1>5, <3>1, HoldingChanges, HoldingCount
    <3>3. /\ Total(sent', SameKey(q)) = Total(sent, SameKey(q)) + 0
          /\ Cardinality(Holding(SameKey(q))') + 0 + 0 = Cardinality(Holding(SameKey(q))) + 0
          /\ Total(tolerated', SameKey(q)) = Total(tolerated, SameKey(q)) + 0
          /\ Total(collected', SameKey(q)) = Total(collected, SameKey(q)) + 0
      BY <1>0, <1>5, <3>2
    <3>4. QED
      BY <1>5, <2>2, <3>3, StaysBalanced
  <2>3. QED
    BY <2>1, <2>2
<1>6. ASSUME NEW g \in Goroutines, NEW r \in Reports, Filtered(g, r), ~covers(r)
      PROVE  Finite' /\ \A q \in Reports : q.signal \in Final => Balanced(Account(q))'
  <2>1. /\ UNCHANGED <<suppressed, collected, cleared, tolerated, sent>> /\ r \in held[g]
        /\ \/ held' = held
           \/ r.signal \notin Final /\ held' = [held EXCEPT ![g] = {}]
    BY <1>6 DEF Filtered, NextTakes, Holds, Return, HandTo, Kept, vars, mapVars
  <2>2. QED
    BY <1>1, <1>5, <2>1
<1>7. ASSUME NEW g \in Goroutines, NEW r \in Reports, Throttled(g, r)
      PROVE  Finite' /\ \A q \in Reports : q.signal \in Final => Balanced(Account(q))'
  <2>1. /\ r \in held[g] /\ UNCHANGED <<collected, cleared, tolerated, sent>>
        /\ Return(g) => held' = [held EXCEPT ![g] = {}]
        /\ HandTo(g, "forward") => held' = held
    BY <1>7, ThrottledCases DEF Throttled, Holds, Return, HandTo
  <2>2. CASE r.signal \notin Final /\ Return(g) /\ UNCHANGED suppressed
    BY <1>5, <2>1, <2>2
  <2>3. CASE HandTo(g, "forward") /\ UNCHANGED suppressed
    BY <1>1, <2>1, <2>3
  <2>4. CASE /\ Return(g)
             /\ suppressed'[r.signal][throttleKey(r)] = suppressed[r.signal][throttleKey(r)] + 1
    <3>1. Finite'
      BY <2>1 DEF AccountInv, Finite
    <3>2. ASSUME NEW q \in Reports, q.signal \in Final
          PROVE  Balanced(Account(q))'
      <4>1. /\ Account(q).sent = Total(sent, SameKey(q)) /\ Account(q).sent \in Nat
            /\ Account(q).tolerated = Total(tolerated, SameKey(q)) /\ Account(q).tolerated \in Nat
            /\ Account(q).collected = Total(collected, SameKey(q)) /\ Account(q).collected \in Nat
            /\ Account(q).cleared = Total(cleared, SameKey(q)) /\ Account(q).cleared \in Nat
            /\ Account(q).suppressed = Suppressed(q) /\ Account(q).suppressed \in Nat
            /\ Account(q).held = Cardinality(Holding(SameKey(q))) /\ Account(q).held \in Nat
        BY AccountTyped DEF AccountInv, Account
      <4>2. /\ Account(q)'.sent = Total(sent, SameKey(q))
            /\ Account(q)'.tolerated = Total(tolerated, SameKey(q))
            /\ Account(q)'.collected = Total(collected, SameKey(q))
            /\ Account(q)'.cleared = Total(cleared, SameKey(q))
            /\ Account(q)'.suppressed = Suppressed(q)'
            /\ Account(q)'.held = Cardinality(Holding(SameKey(q))')
        BY <2>1, AccountAfter
      <4>3. Suppressed(q)' = Suppressed(q) + (IF r \in SameKey(q) THEN 1 ELSE 0)
        <5>1. CASE r \in SameKey(q)
          BY <2>4, <5>1 DEF SameKey, Suppressed
        <5>2. CASE r \notin SameKey(q)
          <6>1. Suppressed(q)' = Suppressed(q)
            BY <1>7, <5>2, ReportFields, ThrottledCases DEF SameKey, Suppressed
          <6>2. QED
            BY <4>1, <5>2, <6>1
        <5>3. QED
          BY <5>1, <5>2
      <4>4. /\ Cardinality(Holding(SameKey(q))) =
                 Cardinality(Holding(SameKey(q))') + (IF r \in SameKey(q) THEN 1 ELSE 0)
            /\ Cardinality(Holding(SameKey(q))') \in Nat
        BY <2>1, <2>4, HoldingChanges, HoldingCount
      <4>5. Balanced(Account(q))
        BY <3>2, AccountBalanced DEF AccountInv
      <4>6. Account(q)'.sent = Account(q)'.suppressed + Account(q)'.tolerated
              + Account(q)'.collected + Account(q)'.cleared + Account(q)'.held
        BY <4>1, <4>2, <4>3, <4>4, <4>5 DEF Balanced
      <4>7. QED
        BY <4>6 DEF Balanced
    <3>3. QED
      BY <3>1, <3>2
  <2>5. QED
    BY <1>7, <2>2, <2>3, <2>4, ThrottledCases
<1>9. CASE Reset
  <2>1. /\ collected' = None /\ cleared' = [r \in Reports |-> cleared[r] + collected[r]]
        /\ UNCHANGED <<held, suppressed, tolerated, sent>>
    BY <1>9 DEF Reset, Kept, vars, mapVars, handVars
  <2>2. ASSUME NEW S \in SUBSET Reports
        PROVE  /\ IsFiniteSet(Occurrences(collected', S)) /\ Total(collected', S) = 0
               /\ IsFiniteSet(Occurrences(cleared', S)) /\ Total(cleared', S) \in Nat
               /\ Total(collected, S) \in Nat /\ Total(cleared, S) \in Nat
               /\ Total(cleared', S) = Total(cleared, S) + Total(collected, S)
    <3>1. IsFiniteSet(Occurrences(collected, S)) /\ IsFiniteSet(Occurrences(cleared, S))
      BY TotalOfSome DEF AccountInv, Finite
    <3>2. IsFiniteSet(Occurrences(None, S)) /\ Total(None, S) = 0
      BY TotalNone
    <3>3. collected \in [Reports -> Nat] /\ cleared \in [Reports -> Nat]
      BY DEF TallyTypes
    <3>4. /\ IsFiniteSet(Occurrences(cleared', S))
          /\ Total(collected, S) \in Nat /\ Total(cleared, S) \in Nat
          /\ Total(cleared', S) = Total(cleared, S) + Total(collected, S)
      BY <2>1, <3>1, <3>3, TotalSum
    <3>5. QED
      BY <2>1, <3>2, <3>4
  <2>3. Finite'
    BY <2>1, <2>2 DEF AccountInv, Finite
  <2>4. ASSUME NEW q \in Reports, q.signal \in Final
        PROVE  Balanced(Account(q))'
    <3>1. /\ Account(q).sent = Total(sent, SameKey(q)) /\ Account(q).sent \in Nat
          /\ Account(q).tolerated = Total(tolerated, SameKey(q)) /\ Account(q).tolerated \in Nat
          /\ Account(q).collected = Total(collected, SameKey(q)) /\ Account(q).collected \in Nat
          /\ Account(q).cleared = Total(cleared, SameKey(q)) /\ Account(q).cleared \in Nat
          /\ Account(q).suppressed = Suppressed(q) /\ Account(q).suppressed \in Nat
          /\ Account(q).held = Cardinality(Holding(SameKey(q))) /\ Account(q).held \in Nat
      BY AccountTyped DEF AccountInv, Account
    <3>2. Suppressed(q)' = Suppressed(q) /\ Holding(SameKey(q))' = Holding(SameKey(q))
      BY <2>1 DEF Suppressed, Holding, SameKey
    <3>3. /\ Account(q)'.sent = Total(sent, SameKey(q))
          /\ Account(q)'.tolerated = Total(tolerated, SameKey(q))
          /\ Account(q)'.collected = Total(collected', SameKey(q))
          /\ Account(q)'.cleared = Total(cleared', SameKey(q))
          /\ Account(q)'.suppressed = Suppressed(q)
          /\ Account(q)'.held = Cardinality(Holding(SameKey(q)))
      BY <2>1, <3>2, AccountAfter
    <3>4. /\ Total(collected', SameKey(q)) = 0
          /\ Total(cleared', SameKey(q)) = Total(cleared, SameKey(q)) + Total(collected, SameKey(q))
      BY <1>0, <2>2, <2>4
    <3>5. Balanced(Account(q))
      BY <2>4, AccountBalanced DEF AccountInv
    <3>6. Account(q)'.sent = Account(q)'.suppressed + Account(q)'.tolerated
            + Account(q)'.collected + Account(q)'.cleared + Account(q)'.held
      BY <3>1, <3>3, <3>4, <3>5 DEF Balanced
    <3>7. QED
      BY <3>6 DEF Balanced
  <2>5. QED
    BY <2>3, <2>4
<1>8. CASE (\E g \in Goroutines : HandOn(g)) \/ Time \/ UNCHANGED chainVars
  BY <1>1, <1>8 DEF HandOn, HandTo, Forward, Time, Tick, chainVars, handVars, tallyVars, vars, mapVars
<1>10. QED
  BY <1>2, <1>3, <1>4, <1>6, <1>7, <1>8, <1>9, ChainSteps

\* Nothing that the detector sends is lost or made up between the layers: of
\* every signal the last reporter implements and every key, what was sent is on
\* its way, counted as suppressed, tolerated, collected or cleared, with any
\* number of goroutines in the chain and either order of its filters
\* (throttle.go, baseline.go, reporter.go).
THEOREM EveryReportAccounted == ChainSpec => []AllAccounted
<1>1. ChainInit => AccountInv
  <2> SUFFICES ASSUME ChainInit PROVE AccountInv
    OBVIOUS
  <2>1. Finite
    BY TotalNone DEF ChainInit, Finite
  <2>2. ASSUME NEW q \in Reports
        PROVE  Balanced(Account(q))
    <3>1. SameKey(q) \in SUBSET Reports
      BY DEF SameKey
    <3>2. /\ Account(q).sent = 0 /\ Account(q).tolerated = 0
          /\ Account(q).collected = 0 /\ Account(q).cleared = 0
      BY <3>1, TotalNone DEF ChainInit, Account
    <3>3. Account(q).suppressed = 0
      BY ReportFields DEF ChainInit, Init, AllKeys, Account, Suppressed
    <3>4. Account(q).held = 0
      <4>1. Holding(SameKey(q)) = {}
        BY DEF ChainInit, Holding
      <4>2. QED
        BY <4>1, FS_EmptySet DEF Account
    <3>5. QED
      BY <3>2, <3>3, <3>4 DEF Balanced
  <2>3. QED
    BY <2>1, <2>2, AccountBalanced DEF AccountInv
<1>2. IInv /\ HandInv /\ TallyTypes /\ AccountInv /\ [ChainNext]_chainVars => AccountInv'
  BY StepKeepsAccounts
<1>3. AccountInv => AllAccounted
  BY DEF AccountInv
<1>4. QED
  BY <1>1, <1>2, <1>3, ChainInvariant, PTL DEF ChainSpec

-----------------------------------------------------------------------------
(* Captured stacks. *)

\* The application frame a report was made from: the first outside the library,
\* k frames up, if the buffer reaches it.
CalledFrom(s, k) ==
  /\ k \in 1..Len(s) /\ k <= depth + Room
  /\ ~isInternalFrame(s[k]) /\ \A i \in 1..(k - 1) : isInternalFrame(s[i])

LEMMA LeastOf ==
  ASSUME NEW S \in SUBSET Int, NEW k \in S, \A i \in S : k <= i
  PROVE  Min(S) = k
<1>1. Min(S) \in S /\ Min(S) <= k
  BY DEF Min
<1>2. k <= Min(S) /\ Min(S) \in Int /\ k \in Int
  BY <1>1
<1>3. QED
  BY <1>1, <1>2

LEMMA LesserOf ==
  ASSUME NEW m \in Int, NEW n \in Int
  PROVE  Min({m, n}) = IF m <= n THEN m ELSE n
<1>1. CASE m <= n
  BY <1>1, LeastOf
<1>2. CASE ~(m <= n)
  <2>1. n \in {m, n} /\ \A i \in {m, n} : n <= i
    BY <1>2
  <2>2. QED
    BY <1>2, <2>1, LeastOf
<1>3. QED
  BY <1>1, <1>2

\* What runtime.Callers is asked for is the innermost depth + Room frames.
LEMMA FetchedFrames ==
  ASSUME NEW F, NEW s \in Seq(F)
  PROVE  /\ Fetched(s) \in Seq(F) /\ Len(Fetched(s)) \in Nat
         /\ Len(Fetched(s)) = IF Len(s) <= depth + Room THEN Len(s) ELSE depth + Room
         /\ DOMAIN Fetched(s) = 1..Len(Fetched(s))
         /\ \A i \in 1..Len(Fetched(s)) : Fetched(s)[i] = s[i]
<1> DEFINE n == Min({Len(s), depth + Room})
<1>1. Len(s) \in Nat /\ depth + Room \in Nat /\ depth + Room \in Int /\ Len(s) \in Int
  BY DepthTyped
<1>2. n = IF Len(s) <= depth + Room THEN Len(s) ELSE depth + Room
  BY <1>1, LesserOf
<1>3. n \in Nat /\ n <= Len(s)
  BY <1>1, <1>2
<1> HIDE DEF n
<1>4. \A i \in 1..n : s[i] \in F
  BY <1>1, <1>3, ElementOfSeq
<1>5. /\ SubSeq(s, 1, n) \in Seq(F) /\ Len(SubSeq(s, 1, n)) = n
      /\ \A i \in 1..n : SubSeq(s, 1, n)[i] = s[i]
  <2>1. /\ SubSeq(s, 1, n) \in Seq(F)
        /\ Len(SubSeq(s, 1, n)) = IF 1 <= n THEN n - 1 + 1 ELSE 0
        /\ \A i \in 1..(n - 1 + 1) : SubSeq(s, 1, n)[i] = s[1 + i - 1]
    BY <1>3, <1>4, SubSeqProperties
  <2> DEFINE u == SubSeq(s, 1, n)
  <2> HIDE DEF u
  <2>2. n - 1 + 1 = n /\ (~(1 <= n) => n = 0) /\ \A i \in 1..n : 1 + i - 1 = i
    BY <1>3
  <2>3. QED
    BY <2>1, <2>2 DEF u
<1>6. Fetched(s) = SubSeq(s, 1, n)
  BY DEF Fetched, n
<1>7. QED
  BY <1>2, <1>3, <1>5, <1>6

\* A captured stack begins with the application's frame and goes on outwards
\* from there, library frames included, up to the depth (captureStack,
\* stack.go); the frame it begins with is the key of an unscoped transaction
\* (unscopedTxKey, throttle.go).
THEOREM CapturedFromCaller ==
  ASSUME NEW F, NEW s \in Seq(F), NEW k, CalledFrom(s, k), depth > 0
  PROVE  LET c == captureStack(s)
         IN /\ Len(c) \in 1..depth
            /\ \A i \in 1..Len(c) : c[i] = s[k + i - 1]
            /\ Len(c) < depth => Len(c) = Len(s) - k + 1 \/ Len(c) = depth + Room - k + 1
            /\ unscopedTxKey(c) = <<s[k].site>>
<1> DEFINE f == Fetched(s)
           l == Len(f)
           outside == {i \in DOMAIN f : ~isInternalFrame(f[i])}
           c == captureStack(s)
           e == Min({l, k + depth - 1})
<1>1. /\ f \in Seq(F) /\ l \in Nat /\ l = (IF Len(s) <= depth + Room THEN Len(s) ELSE depth + Room)
      /\ DOMAIN f = 1..l /\ \A i \in 1..l : f[i] = s[i]
  BY FetchedFrames
<1>2. depth \in Nat /\ Room \in Nat /\ depth > 0
  BY DepthTyped
<1> HIDE DEF f, l
<1>3. k \in 1..l /\ k \in Nat /\ k >= 1 /\ k <= l
  BY <1>1, <1>2 DEF CalledFrom
<1>4. k \in outside /\ outside \in SUBSET Int /\ \A i \in outside : k <= i
  <2>1. k \in outside
    BY <1>1, <1>3 DEF CalledFrom
  <2>2. outside \in SUBSET Int
    BY <1>1
  <2>3. ASSUME NEW i \in outside PROVE k <= i
    <3>1. i \in 1..l /\ ~isInternalFrame(s[i])
      BY <1>1, <2>3
    <3>2. i \notin 1..(k - 1)
      BY <3>1 DEF CalledFrom
    <3>3. QED
      BY <1>3, <3>1, <3>2
  <2>4. QED
    BY <2>1, <2>2, <2>3
<1>5. Min(outside) = k
  <2> HIDE DEF outside
  <2>1. QED
    BY <1>4, LeastOf
<1>6. e = IF l <= k + depth - 1 THEN l ELSE k + depth - 1
  BY <1>1, <1>2, <1>3, LesserOf
<1>7. e \in Nat /\ k <= e /\ e <= l /\ e - k + 1 \in 1..depth
  BY <1>1, <1>2, <1>3, <1>6
<1>8. c = SubSeq(f, k, e)
  <2>1. depth # 0 /\ outside # {}
    BY <1>2, <1>4
  <2> HIDE DEF outside
  <2>2. captureStack(s) = IF depth = 0 \/ outside = {} THEN <<>>
                          ELSE SubSeq(f, Min(outside), Min({l, Min(outside) + depth - 1}))
    BY DEF captureStack, outside, f, l
  <2>3. QED
    BY <1>5, <2>1, <2>2
<1> HIDE DEF e, c, outside
<1>9. /\ SubSeq(f, k, e) \in Seq(F) /\ Len(SubSeq(f, k, e)) = e - k + 1
      /\ \A i \in 1..(e - k + 1) : SubSeq(f, k, e)[i] = f[k + i - 1]
  <2>1. \A i \in k..e : f[i] \in F
    BY <1>1, <1>3, <1>7, ElementOfSeq
  <2>2. QED
    BY <1>3, <1>7, <2>1, SubSeqProperties
<1>10. /\ c \in Seq(F) /\ Len(c) = e - k + 1
       /\ \A i \in 1..Len(c) : c[i] = s[k + i - 1]
  <2>1. \A i \in 1..(e - k + 1) : k + i - 1 \in 1..l
    <3>1. l \in Nat /\ e \in Nat /\ k \in Nat /\ k >= 1 /\ e <= l
      BY <1>1, <1>3, <1>7
    <3>2. QED
      BY <3>1
  <2>2. c \in Seq(F) /\ Len(c) = e - k + 1 /\ \A i \in 1..(e - k + 1) : c[i] = f[k + i - 1]
    BY <1>8, <1>9
  <2>3. QED
    BY <1>1, <2>1, <2>2
<1>11. Len(c) \in 1..depth
  BY <1>7, <1>10
<1>12. Len(c) < depth => Len(c) = Len(s) - k + 1 \/ Len(c) = depth + Room - k + 1
  <2>1. l = Len(s) \/ l = depth + Room
    BY <1>1
  <2>2. Len(c) < depth => e = l
    <3>1. CASE e = k + depth - 1
      <4>1. e - k + 1 = depth
        BY <1>2, <1>3, <3>1
      <4>2. QED
        BY <1>2, <1>10, <4>1
    <3>2. QED
      BY <1>6, <3>1
  <2>3. Len(c) = e - k + 1
    BY <1>10
  <2>4. /\ l \in Nat /\ e \in Nat /\ k \in Nat /\ depth \in Nat /\ Room \in Nat
        /\ Len(c) \in Nat /\ Len(s) \in Nat
    BY <1>1, <1>2, <1>3, <1>7, <1>11
  <2>5. QED
    BY <2>1, <2>2, <2>3, <2>4
<1>13. unscopedTxKey(c) = <<s[k].site>>
  <2>1. 1 \in 1..Len(c) /\ k + 1 - 1 = k
    BY <1>3, <1>11
  <2>2. c[1] = s[k]
    BY <1>10, <2>1
  <2>3. c # <<>>
    BY <1>11
  <2>4. Head(c) = c[1]
    OBVIOUS
  <2>5. QED
    BY <2>2, <2>3, <2>4 DEF unscopedTxKey
<1>14. QED
  BY <1>10, <1>11, <1>12, <1>13 DEF c

\* Transactions begun behind the same caller of the library share one key, from
\* however many places in the application that caller was reached (throttle.go).
THEOREM OneCallerOneKey ==
  ASSUME NEW F, NEW s \in Seq(F), NEW j, CalledFrom(s, j),
         NEW t \in Seq(F), NEW k, CalledFrom(t, k), s[j].site = t[k].site, depth > 0
  PROVE  unscopedTxKey(captureStack(s)) = unscopedTxKey(captureStack(t))
<1>1. unscopedTxKey(captureStack(s)) = <<s[j].site>>
  BY CapturedFromCaller
<1>2. unscopedTxKey(captureStack(t)) = <<t[k].site>>
  BY CapturedFromCaller
<1>3. QED
  BY <1>1, <1>2

\* Nothing is captured, and the key is empty, when the buffer holds frames of
\* the library only, or when the depth is 0 (captureStack, stack.go).
THEOREM NothingCaptured ==
  ASSUME NEW F, NEW s \in Seq(F),
         depth = 0 \/ \A i \in 1..Len(s) : i <= depth + Room => isInternalFrame(s[i])
  PROVE  captureStack(s) = <<>> /\ unscopedTxKey(captureStack(s)) = <<>>
<1> DEFINE f == Fetched(s)
           outside == {i \in DOMAIN f : ~isInternalFrame(f[i])}
<1>1. /\ Len(f) \in Nat /\ Len(f) = (IF Len(s) <= depth + Room THEN Len(s) ELSE depth + Room)
      /\ DOMAIN f = 1..Len(f) /\ \A i \in 1..Len(f) : f[i] = s[i]
  BY FetchedFrames
<1>2. depth \in Nat /\ Room \in Nat /\ Len(s) \in Nat
  BY DepthTyped
<1> HIDE DEF f
<1>3. depth = 0 \/ outside = {}
  <2>1. ASSUME NEW i \in outside, depth # 0 PROVE FALSE
    <3>1. i \in 1..Len(f) /\ ~isInternalFrame(s[i])
      BY <1>1, <2>1
    <3>2. i \in 1..Len(s) /\ i <= depth + Room
      BY <1>1, <1>2, <3>1
    <3>3. QED
      BY <2>1, <3>1, <3>2
  <2>2. QED
    BY <2>1
<1>4. captureStack(s) = <<>>
  BY <1>3 DEF captureStack, f
<1>5. QED
  BY <1>4 DEF unscopedTxKey

-----------------------------------------------------------------------------
(* The keys. *)

LEMMA JoinParts ==
  ASSUME NEW Chars, NEW s \in Seq(Chars), NEW t \in Seq(Chars \cup {Nul})
  PROVE  /\ Join(s, t) \in Seq(Chars \cup {Nul})
         /\ Len(Join(s, t)) = Len(s) + 1 + Len(t)
         /\ Join(s, t)[Len(s) + 1] = Nul
         /\ \A i : i \in 1..Len(s) => Join(s, t)[i] = s[i]
         /\ \A i : i \in 1..Len(t) => Join(s, t)[Len(s) + 1 + i] = t[i]
BY DEF Join

\* The separator ends the first text, which does not contain it.
LEMMA JoinFirst ==
  ASSUME NEW Chars, Nul \notin Chars, NEW s \in Seq(Chars), NEW u \in Seq(Chars),
         NEW t \in Seq(Chars \cup {Nul}), NEW v \in Seq(Chars \cup {Nul})
  PROVE  Join(s, t) = Join(u, v) => Len(u) <= Len(s)
<1>1. Join(s, t)[Len(s) + 1] = Nul
  BY DEF Join
<1>2. \A i : i \in 1..Len(u) => Join(u, v)[i] = u[i]
  BY DEF Join
<1>3. \A i \in 1..Len(u) : u[i] \in Chars
  OBVIOUS
<1>4. SUFFICES ASSUME Len(s) < Len(u), Join(s, t) = Join(u, v) PROVE FALSE
  OBVIOUS
<1>5. Len(s) + 1 \in 1..Len(u)
  BY <1>4
<1>6. QED
  BY <1>1, <1>2, <1>3, <1>4, <1>5

LEMMA JoinInjective ==
  ASSUME NEW Chars, Nul \notin Chars, NEW s \in Seq(Chars), NEW u \in Seq(Chars),
         NEW t \in Seq(Chars \cup {Nul}), NEW v \in Seq(Chars \cup {Nul})
  PROVE  Join(s, t) = Join(u, v) => s = u /\ t = v
<1>1. /\ Len(Join(s, t)) = Len(s) + 1 + Len(t)
      /\ \A i : i \in 1..Len(s) => Join(s, t)[i] = s[i]
      /\ \A i : i \in 1..Len(t) => Join(s, t)[Len(s) + 1 + i] = t[i]
  BY SMTT(20) DEF Join
<1>2. /\ Len(Join(u, v)) = Len(u) + 1 + Len(v)
      /\ \A i : i \in 1..Len(u) => Join(u, v)[i] = u[i]
      /\ \A i : i \in 1..Len(v) => Join(u, v)[Len(u) + 1 + i] = v[i]
  BY SMTT(20) DEF Join
<1>3. SUFFICES ASSUME Join(s, t) = Join(u, v) PROVE s = u /\ t = v
  OBVIOUS
<1>4. Len(s) = Len(u)
  <2>1. Len(u) <= Len(s)
    BY <1>3, JoinFirst
  <2>2. Len(s) <= Len(u)
    BY <1>3, JoinFirst
  <2>3. QED
    BY <2>1, <2>2
<1>5. Len(t) = Len(v)
  BY <1>1, <1>2, <1>3, <1>4
<1>6. s = u
  <2>1. \A i \in 1..Len(s) : s[i] = u[i]
    BY <1>1, <1>2, <1>3, <1>4
  <2>2. QED
    BY <1>4, <2>1, SeqEqual
<1>7. t = v
  <2>1. \A i \in 1..Len(t) : t[i] = v[i]
    BY <1>1, <1>2, <1>3, <1>4, <1>5
  <2>2. QED
    BY <1>5, <2>1, SeqEqual
<1>8. QED
  BY <1>6, <1>7

\* A violation and a stale allow are throttled by their identity and nothing
\* else: two of them have the same key only if scope, kind and name are equal,
\* as long as scope and kind do not contain the separator (identityKey,
\* throttle.go).
THEOREM IdentitiesToldApart ==
  ASSUME NEW Chars, Nul \notin Chars, NEW q \in Reports, NEW r \in Reports,
         q.scope \in Seq(Chars), q.kind \in Seq(Chars), q.name \in Seq(Chars \cup {Nul}),
         r.scope \in Seq(Chars), r.kind \in Seq(Chars), r.name \in Seq(Chars \cup {Nul}),
         identityKey(q) = identityKey(r)
  PROVE  identity(q) = identity(r)
<1>1. /\ Join(q.kind, q.name) \in Seq(Chars \cup {Nul})
      /\ Join(r.kind, r.name) \in Seq(Chars \cup {Nul})
  BY JoinParts
<1>2. q.scope = r.scope /\ Join(q.kind, q.name) = Join(r.kind, r.name)
  <2> DEFINE t == Join(q.kind, q.name)
             v == Join(r.kind, r.name)
  <2>1. Join(q.scope, t) = Join(r.scope, v)
    BY DEF identityKey
  <2> HIDE DEF t, v
  <2>2. t \in Seq(Chars \cup {Nul}) /\ v \in Seq(Chars \cup {Nul})
    BY <1>1 DEF t, v
  <2>3. Join(q.scope, t) = Join(r.scope, v) => q.scope = r.scope /\ t = v
    BY <2>2, JoinInjective
  <2>4. QED
    BY <2>1, <2>3 DEF t, v
<1>3. q.kind = r.kind /\ q.name = r.name
  <2>1. Join(q.kind, q.name) = Join(r.kind, r.name) => q.kind = r.kind /\ q.name = r.name
    BY JoinInjective, ZenonT(30)
  <2>2. QED
    BY <1>2, <2>1
<1>4. QED
  BY <1>2, <1>3 DEF identity
=============================================================================
