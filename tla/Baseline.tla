------------------------------ MODULE Baseline ------------------------------
(***************************************************************************)
(* The baseline ratchet (baseline.go) over several runs of a test suite:   *)
(* a Baseline in memory, the BaselineReporter that filters violations      *)
(* through it into a CollectingReporter, and the file that carries it from *)
(* one run to the next.  Every method of Baseline is one critical section; *)
(* Save is not: it takes the entries, and os.WriteFile then truncates the  *)
(* file and writes it anew, each at a moment of its own.  A run may be     *)
(* killed anywhere.                                                        *)
(***************************************************************************)
EXTENDS FiniteSets

CONSTANTS
  Keys,        \* violation identities (scope, kind, name)
  Goroutines

VARIABLES
  fileState,   \* "missing", "empty", "saved", or "garbled": no JSON document
  fileKeys,    \* the entries of a saved file
  up,          \* the process of the run is alive
  installed,   \* its reporter is a BaselineReporter with a baseline
  entries,     \* the keys of Baseline.entries
  used,        \* those whose value is true
  collected,   \* the identities in CollectingReporter.violations
  pc,          \* where each goroutine is inside Report or Save
  arg,         \* the identity it reports, or the entries it saves
  listed,      \* the UnusedEntries a finished run printed
  reported,    \* history: the identities reported in this run
  swallowed    \* history: those the BaselineReporter kept

fileVars == <<fileState, fileKeys>>
memVars == <<installed, entries, used>>
callVars == <<pc, arg>>
histVars == <<reported, swallowed>>
vars == <<fileVars, up, memVars, collected, callVars, listed, histVars>>

\* A run without a baseline swallows nothing, and a process that is not alive
\* has no calls under way.
TypeOK ==
  /\ fileState \in {"missing", "empty", "saved", "garbled"}
  /\ fileKeys \in SUBSET Keys /\ (fileState # "saved" => fileKeys = {})
  /\ up \in BOOLEAN /\ installed \in BOOLEAN
  /\ entries \in SUBSET Keys /\ used \in SUBSET entries
  /\ collected \in SUBSET Keys /\ listed \in SUBSET Keys
  /\ reported \in SUBSET Keys /\ swallowed \in SUBSET reported
  /\ pc \in [Goroutines -> {"idle", "forward", "truncate", "write"}]
  /\ arg \in [Goroutines -> SUBSET Keys]
  /\ ~installed => used = {} /\ swallowed = {}
  /\ ~up => ~installed /\ \A g \in Goroutines : pc[g] = "idle"

Init ==
  /\ fileState = "missing" /\ fileKeys = {}
  /\ up = FALSE /\ installed = FALSE
  /\ entries = {} /\ used = {} /\ collected = {} /\ listed = {}
  /\ pc = [g \in Goroutines |-> "idle"]
  /\ arg = [g \in Goroutines |-> {}]
  /\ reported = {} /\ swallowed = {}

Goto(g, l, S) ==
  /\ pc' = [pc EXCEPT ![g] = l]
  /\ arg' = [arg EXCEPT ![g] = S]

-----------------------------------------------------------------------------
(* A run begins. *)

\* Mistake: a file that cannot be read is taken for an empty baseline.
ReadableOrEmpty == fileState # "missing"

\* LoadBaseline returns an error unless it reads a whole document: a missing,
\* empty or cut-off file never becomes a baseline.
Readable == fileState = "saved"

\* LoadBaseline and NewBaselineReporter; every entry starts unused.
StartWithBaseline ==
  /\ ~up /\ Readable
  /\ up' = TRUE /\ installed' = TRUE
  /\ entries' = fileKeys /\ used' = {}
  /\ UNCHANGED <<fileVars, collected, callVars, listed, histVars>>

\* The adoption run, and any run before it: a nil baseline suppresses nothing.
StartWithout ==
  /\ ~up
  /\ up' = TRUE
  /\ UNCHANGED <<fileVars, memVars, collected, callVars, listed, histVars>>

\* The process ends or is killed, and its memory is gone.
End ==
  /\ up' = FALSE /\ installed' = FALSE
  /\ entries' = {} /\ used' = {} /\ collected' = {}
  /\ pc' = [g \in Goroutines |-> "idle"]
  /\ arg' = [g \in Goroutines |-> {}]
  /\ reported' = {} /\ swallowed' = {}
  /\ UNCHANGED listed

-----------------------------------------------------------------------------
(* BaselineReporter.Report and the Baseline's own methods. *)

\* r.baseline != nil and Baseline.covers.
covers(k) == installed /\ k \in entries

\* Mistake: the mark is set before the entry is looked up.
markUsedBeforeLookup(k) == used' = IF installed THEN used \cup {k} ELSE used

\* covers marks the entry it finds.
markUsed(k) == used' = IF covers(k) THEN used \cup {k} ELSE used

Report(g, k) ==
  /\ up /\ pc[g] = "idle"
  /\ markUsed(k)
  /\ reported' = reported \cup {k}
  /\ IF covers(k)
     THEN swallowed' = swallowed \cup {k} /\ UNCHANGED callVars
     ELSE Goto(g, "forward", {k}) /\ UNCHANGED swallowed
  /\ UNCHANGED <<fileVars, up, installed, entries, collected, listed>>

\* Mistake: the collector's append is not under its lock.
ForwardOverwrites(g) ==
  /\ pc[g] = "forward"
  /\ collected' = arg[g]
  /\ Goto(g, "idle", {})
  /\ UNCHANGED <<fileVars, up, memVars, listed, histVars>>

\* Mistake: a report waits until no other goroutine is inside the reporter.
ForwardWhenAlone(g) ==
  /\ pc[g] = "forward" /\ \A h \in Goroutines \ {g} : pc[h] = "idle"
  /\ collected' = collected \cup arg[g]
  /\ Goto(g, "idle", {})
  /\ UNCHANGED <<fileVars, up, memVars, listed, histVars>>

\* r.next.Report, here CollectingReporter.Report, after the lock is released.
Forward(g) ==
  /\ pc[g] = "forward"
  /\ collected' = collected \cup arg[g]
  /\ Goto(g, "idle", {})
  /\ UNCHANGED <<fileVars, up, memVars, listed, histVars>>

\* Mistake: an entry that is added again starts unused, as Allowlist.Add does.
AddFresh(k) ==
  /\ up /\ installed
  /\ entries' = entries \cup {k}
  /\ used' = used \ {k}
  /\ UNCHANGED <<fileVars, up, installed, collected, callVars, listed, histVars>>

\* Add keeps the flag of an entry that is already there.
Add(k) ==
  /\ up /\ installed
  /\ entries' = entries \cup {k}
  /\ UNCHANGED <<fileVars, up, installed, used, collected, callVars, listed, histVars>>

\* CI prints UnusedEntries.
UnusedEntries ==
  /\ up /\ installed
  /\ listed' = entries \ used
  /\ UNCHANGED <<fileVars, up, memVars, collected, callVars, histVars>>

\* BaselineFromViolations over what was collected without a baseline; the
\* result is not installed, it is there to be saved.
BaselineFromViolations ==
  /\ up /\ ~installed
  /\ entries' = collected
  /\ UNCHANGED <<fileVars, up, installed, used, collected, callVars, listed, histVars>>

-----------------------------------------------------------------------------
(* Save. *)

\* Save starts with a snapshot of the entries.
SaveEntries(g) ==
  /\ up /\ pc[g] = "idle"
  /\ Goto(g, "truncate", entries)
  /\ UNCHANGED <<fileVars, up, memVars, collected, listed, histVars>>

\* os.WriteFile opens the file with O_TRUNC.
Truncate(g) ==
  /\ pc[g] = "truncate"
  /\ fileState' = "empty" /\ fileKeys' = {}
  /\ Goto(g, "write", arg[g])
  /\ UNCHANGED <<up, memVars, collected, listed, histVars>>

\* The file holds entries S, or no document.
FileIs(S) == fileState' = "saved" /\ fileKeys' = S
FileGarbled == fileState' = "garbled" /\ fileKeys' = {}

\* It then writes from offset 0.  Where another Save has written in the
\* meantime, a shorter text leaves the end of the longer one behind it.
Write(g) ==
  /\ pc[g] = "write"
  /\ \/ /\ fileState = "saved" => ~(arg[g] \subseteq fileKeys /\ arg[g] # fileKeys)
        /\ FileIs(arg[g])
     \/ /\ fileState = "garbled" \/ (fileState = "saved" /\ ~(fileKeys \subseteq arg[g]))
        /\ FileGarbled
  /\ Goto(g, "idle", {})
  /\ UNCHANGED <<up, memVars, collected, listed, histVars>>

\* os.WriteFile fails, at the open or while writing; Save returns the error.
SaveFails(g) ==
  /\ \/ pc[g] = "truncate" /\ UNCHANGED fileVars
     \/ pc[g] = "write" /\ (UNCHANGED fileVars \/ FileGarbled)
  /\ Goto(g, "idle", {})
  /\ UNCHANGED <<up, memVars, collected, listed, histVars>>

\* The process ends or is killed, inside a write perhaps.
Crash ==
  /\ up /\ End
  /\ \/ UNCHANGED fileVars
     \/ (\E g \in Goroutines : pc[g] = "write") /\ FileGarbled

\* The team deletes the listed entries from the file by hand (external).
Prune ==
  /\ ~up /\ fileState = "saved"
  /\ fileKeys' = fileKeys \ listed
  /\ UNCHANGED <<fileState, up, memVars, collected, callVars, listed, histVars>>

Next ==
  \/ StartWithBaseline \/ StartWithout \/ Crash \/ Prune
  \/ UnusedEntries \/ BaselineFromViolations
  \/ \E k \in Keys : Add(k)
  \/ \E g \in Goroutines :
       \/ \E k \in Keys : Report(g, k)
       \/ Forward(g) \/ SaveEntries(g) \/ Truncate(g) \/ Write(g) \/ SaveFails(g)

\* A reporter that has decided to pass a violation on does so next.
Spec == Init /\ [][Next]_vars /\ \A g \in Goroutines : WF_vars(Forward(g))

-----------------------------------------------------------------------------
(* Properties. *)

InFlight == UNION {arg[g] : g \in {h \in Goroutines : pc[h] = "forward"}}

\* Every violation of a run is swallowed, collected or on its way, whichever
\* goroutines report at the same time and whatever is added meanwhile.
NothingDropped == reported = swallowed \cup collected \cup InFlight

\* UnusedEntries lists exactly the entries that have suppressed nothing in
\* this run: fixed call sites are named, a live one never is, not even one
\* that Add registers again ("the ratchet only goes down").
UsedMeansSwallowed == used = swallowed

\* A violation that is not tolerated reaches the wrapped reporter, unless the
\* process ends first.
EventuallyCollected ==
  \A k \in Keys : k \in InFlight ~> k \in collected \/ ~up

\* The file, the flags and the racing saves implement Ratchet: the accepted
\* set changes only by a save that came through whole, by removing entries, or
\* is lost for everybody to see; it never holds what was neither tolerated nor
\* seen; a run enforces exactly what was accepted when it began and swallows
\* nothing else.
Abstract == INSTANCE Ratchet WITH
  known <- fileState = "saved",
  accepted <- fileKeys,
  enforcing <- installed,
  tolerance <- IF installed THEN entries ELSE {},
  heard <- collected \cup InFlight,
  tolerated <- swallowed

ImplementsRatchet == Abstract!Spec
=============================================================================
