# go-txnpure in TLA+

go-txnpure watches a Go program and reports side effects that run while a
database transaction is open. This directory models its state machines in
TLA+, checks them with TLC on small instances, and proves the central ones with
TLAPS. Paths such as `session.go` are relative to the repository's root.

## The system

| component | state | operations | talks to |
|---|---|---|---|
| Session (`session.go`) | per connection: `inTx`, `txScope` | Observe, BeginTx, EndTx | adds to the scope counter; hands events to the allow tiers |
| Scopes (`detector.go`) | per scope: atomic `openTxs`, `finished`, call accounting | StartScope, InScope, finish | carried by contexts; reports leaks and stale allows |
| Checkpoints (`check.go`, `roundtripper.go`, `grpc/`) | none | Check, Do, RoundTrip, statement checkers | load the counter, hand events to the allow tiers |
| Allow tiers (`allow.go`, `allowlist.go`, `check.go`) | per execution: calls and declared counts by identity; per region: `n`; per entry: `used` | decideAndReport, AllowInTransactionHere, the finish report | the reporters |
| database/sql middleware (`driver.go`) | a Session and one `wtx` per connection | BeginTx, Commit, Rollback, Exec, Query, Prepare, Close | driver below, database/sql above |
| Throttling (`throttle.go`) | per signal and key: last forward, suppressed count | six Report methods, six snapshots | a wrapped reporter |
| Baseline (`baseline.go`) | entries and used flags, a file | covers, Add, Save, Load | a wrapped reporter |
| Classifier (`classify.go`) | none | statement text to kind and write target | Session |
| Reporters (`reporter.go`) | collected reports | Report and optional signals, snapshots, Reset, Require… | the user |
| Stack capture (`stack.go`) | none | captureStack | gives reports their call site |
| Null driver, attrs, benchgate | none | | |

A scope holder travels on the context. The transaction side (a Session, fed by
the driver middleware or by a native integration) increments and decrements the
holder's counter; the side-effect side (checkpoints, writes on other
connections, statement checkers) loads it. Nobody holds a lock around both, so
what is hard is the order of these accesses: a verdict uses a value that may be
old, `BeginTx` closes and opens in two steps, finishes race events, and
database/sql runs the same statement more than once. Where each of these bites,
line by line, is the `hazards` list of `PROJECT.json`.

What makes each component correct:

- Session: every counter equals the number of connections in a transaction of
  that scope; an open transaction never changes scope.
- Checkpoints: a verdict is the truth of the instant of its load.
- Scopes: a leak is reported once.
- Allow tiers: growth beyond a pinned count surfaces as Violations, shrinkage as
  a StaleAllow, each once; `used` means suppressed.
- Middleware: every statement that ran is observed once, and nothing else but
  one whose arguments the wrapper refused; Session and server agree; a driver-level transaction is counted only while its `sql.Tx` is open.
- Throttling: nothing is lost, one report per interval and key, bounded memory.
- Baseline: only accepted violations are tolerated, the used flag tells the
  truth, and the tolerated set never grows by accident, over all runs of a
  suite.
- Classifier: transaction control and writes are recognised exactly, whatever
  surrounds them; one table has one name.
- Reporters: the first report of every finding arrives, and the counts add up
  through any nesting of filters.

## Modules

**TxAttribution** is the shared base: `inTx`, `txScope`, `openTxs` and the two
operations on them, `openTx` and `closeTx`. `CounterExact` is the promise
everything else depends on.

**Session** extends it with everybody who calls those operations or loads the
counter. A connection's calls are serial (the contract of `Session`), so each
connection is a process, and so is each goroutine that starts and finishes
scopes or runs checkpoints. `pc`, `ctx` and `seen` are the call frame: where the
process is, the context of the call and the loaded counter. One step is one
access to shared state: `ObserveWrite` ends at the load and `ReportIfCrossConn`
goes on from it; `BeginTxClose` and `BeginTxOpen` are the halves of `BeginTx`;
`RoundTrip` is the gate's load and `RoundTripCheck` the load of `Check`.
`reports` is what the last step handed on; `witness` and `leaks` are history
variables that only properties read. The text of a statement is the choice of
action (`ObserveBegin`, `ObserveEnd`, `ObserveWrite`, `ObserveOther`); that a
statement checker matches it is a choice too.

**OpenTransactions** is the abstract specification: a set of open transactions,
each owned by one scope for life, and observers that take a snapshot at one
instant and state its exact size. No counters, no contexts, no call frames.
`Session!ImplementsAttribution` is the refinement; the mapping takes an owner
from `inTx`/`txScope` and an observer's snapshot from `witness`. A snapshot may
leave out the observer's own transaction because a write inside the transaction
of its own connection is safe.

**AllowTiers** starts where Session ends: an event has been detected. Each tier
is a step (`DecideAndReport` counts the identity, then `ConsultCallSite`,
`ConsultRegion`, `ConsultAllowlist`, `NoteAllowlist`), because each is a critical
section or atomic of its own. `FinishCalls` and `FinishMark` are the finish
report; while it runs it holds `callMu`, which `Unlocked` expresses, but region
counters are atomics it does not protect. A declared slice of counts is a set.
The Allowlist changes meanwhile: `Add` replaces the entry of an identity, and a
call that resolved the old entry goes on with it (`consulted`). Entries carry the
number of the `Add` that made them because the code compares pointers. `log` and
`clean` are history: what was decided, and whether anything ran beside the
finish.

**Detection** composes the two: it extends Session and instantiates AllowTiers,
with scopes for executions and Session's processes for goroutines. A verdict
that is an event is joined with `DecideAndReport` under the site of the call
(`Decide`), the tiers run inside that call, and the finishing goroutine reports
the shortfalls before the leaks (`ReportCallShortfalls`, `Finished`). `aim` is the
site a loaded value is for; the history `inside` counts, by identity and by
region, the loads that found a transaction really open. It is what a pin
promises to speak about, and no variable of the code holds it.

**Driver** extends TxAttribution too. A step is one call of database/sql into a
`wrappedConn`, `wrappedStmt` or `wrappedTx`: what the underlying connection
answers (`ok`, `fail`, `skip`, `bad`) and what the middleware tells its Session
for that answer. An execution may also end in the wrapper, without reaching the
driver: one without the context interfaces takes no named arguments, and
`namedValuesToValues` refuses them (`args`, counted in `refused` instead of
`ran`). database/sql (`Call`, `Pick`, `Proceed`, `Release`) and the
server (`ServerAnswers`) are external, modelled by what `driver.go` relies on:
ErrSkip leads to the prepared path, ErrBadConn outside a transaction to another
connection, a `sql.Tx` keeps its connection until Commit or Rollback. Session's
own two steps of `BeginTx` are one here, as nobody loads the counter.

**Throttle** has `admit` as one critical section per report and the call of the
wrapped reporter as a later step, outside the lock. One action stands for the
six Report methods, which differ only in their key and interface. The interval
and the signals of the wrapped reporter are chosen in the initial state and
never change, so one instance covers throttling on and off.

**Baseline** is `baseline.go` over the life of a suite: a run starts with the
committed file or without one, goroutines report (`Report` consults `covers`,
`Forward` calls the wrapped CollectingReporter), entries are added, a save
truncates and writes the file (`SaveEntries`, `Truncate`, `Write`), fails
(`SaveFails`) or is cut off (`Crash`), and the team prunes entries listed as
unused between runs. The file is a set of entries, empty, or garbled, and a
garbled one stops the next run. os.WriteFile, the process and the team are
external.

**Ratchet** is what Baseline promises, without files, locks or flags that can
be wrong: a tolerated set and the reports it swallowed.
`Baseline!ImplementsRatchet` is the refinement.

**Classify** is `classify.go` as operators over a text, a sequence of symbols: a
word stands for a whole run of identifier characters, everything else is one
character. **SqlText** is the reference they are compared with: a scanner that
reads the text one symbol at a time, as a server does, and `Kind` and
`TargetAt`, which say what the tokens mean. TLC grows every text symbol by
symbol, so a run covers every text up to its bound; the theorems are about
texts of any length.

**Stacks** is `captureStack` and the key of an unscoped transaction as operators
over a call stack.

**Reporters** extends Throttle and Stacks: reports with their keys go through a
throttle and a baseline, nested either way around, to a collector that may lack
an interface. Every layer hands on outside its own lock, so `held` and `layer`
say where each goroutine's report is. Throttle's `Receive` and `Forward` are
used as they are. Throttle and baseline implement every optional signal, so the
outer one hands all of them on and the inner one drops what the collector does
not implement: the throttle by its check in `Receive` when the baseline is
outermost (`NextTakes`), the baseline otherwise.

**MCSession**, **MCAllow**, **MCDetection**, **MCDriver**, **MCThrottle**, **MCBaseline**,
**MCSqlText** and **MCReporters** hold the constants of the runs.
**TxAttributionProofs**, **SessionProofs**, **AllowTiersProofs**,
**DetectionProofs**, **DriverProofs**, **BaselineProofs**, **ReportersProofs** (which
proves about Throttle, Stacks and Reporters) and **SqlTextProofs** (about Classify
and SqlText) hold the proofs.

Definitions whose comment begins with "Mistake:" are variations of the
definition that follows them, each a bug the code could plausibly have; a
property is worth its run because one of them breaks it.

## Runs

| run | instance | question |
|---|---|---|
| `session_scopes` | 2 connections, 2 scopes, 1 goroutine | counters exact, attribution sticky, verdicts justified across scopes, a sound gate, the refinement |
| `allow_tiers` | 1 execution, 2 goroutines, up to 4 events of each of 3 identities: a call site pinned to {1, 3}, a region pinned to 2 and one that is not, an exact and a wildcard entry, 1 Add | growth surfaces, drift is reported once, regions pin their total, `used` means suppressed, the exact entry pins its calls |
| `allow_excess` | a call site pinned to 1 outside any region, an Allowlist entry of its identity without a count | violation: excess over a pinned count can pass silently |
| `detection` | 2 connections, 1 scope, 1 goroutine; writes and matched statements in a region pinned to 2, a checkpoint pinned to 2, 3 events each | what is counted and told at the end is what happened inside transactions |
| `detection_calls` | 1 connection, 1 scope, 2 goroutines, every tier, 1 Add, 2 events each | one leak report, every call that has begun returns |
| `driver` | 2 users, 2 connections, 2 attempts | one observation per statement that ran or was refused, agreement with the server, driver-level transactions end |
| `driver_drop` | 1 user, 1 connection | violation: a dropped connection keeps its textual transaction counted |
| `throttle` | 2 goroutines, 2 call sites, a cap of 1, interval 0 or 2, time 0..5, the signal implemented or not | nothing lost, one per interval, only recent reports suppress, delivery; no state while nothing is throttled |
| `baseline` | 2 goroutines, 2 violations, several runs of the suite | nothing dropped, used means swallowed, delivery, the refinement |
| `classify` | all texts of up to 6 symbols over 5 alphabets | kind and target are those of the reference |
| `reporters` | both nestings, interval 0 or 1, 5 reports of 4 keys, 2 goroutines, 4 sends | the first is heard, the counts add up, only what is not tolerated arrives |
| `reporters_begin_sites` | 2 begin sites behind database/sql | violation: they share one throttle window |

Why the bounds are enough. The counter relation is between one connection, the
others and a scope: two connections give own and foreign transactions, two
scopes give the case where the connection's transaction is of another scope
than the context. A race needs two actors: one goroutine beside two connections
for verdicts, two for finishes (`detection_calls`) and for the tiers. What one
scope execution counts never depends on another's, and the theorems are for any
number of them; TLC needs one. In `detection` up to three
effects meet pins of two, so totals below, on and above occur in one finish. The
counts `{1, 3}` with up to four
events have a total below, on, between and above the declared ones. Two
connections, two attempts and two users give a retry on a new connection and on
a pooled one that another user left inside a transaction. Six instants and an
interval of two give two whole windows and an unfinished one. In `baseline`,
two entries and two goroutines give a save that overwrites the other's longer
text, and the runs of the suite are unbounded. Six symbols hold a comment of
either kind before, between or inside the keywords that matter, and
`INSERT INTO` with a quoted name. Four sends let two reports of one key and two
of another meet in one window and one of them return in the next. Every bound is
a CONSTANT: `MaxEvents`, `MaxAdds`, `Attempts`, `MaxTime`, `MaxReports`,
`MaxLen`, and the sets.

Symmetry is used in `session_scopes`, in `detection`, in `driver` and in the
reporters runs, where the connections, the scopes and the goroutines are
interchangeable and no liveness is checked.
Deadlock is not checked where the instance really stops: executions finish,
events and connections run out, the clock ends.

Fairness is assumed inside calls only. In Throttle and in Baseline a goroutine
that has decided to hand a report on calls the wrapped reporter next, in the same
function, so `Forward` is weakly fair (a wrapped reporter that never returns is
out of scope). In Detection every step of a call that has begun is weakly fair
(`Busy(p) /\ ProcStep(p)`): it is straight-line code, the only lock it waits for is
`callMu`, and the one holder of that lock is itself inside such a call. Users of
the library and of the database may stop between calls at any point, so nothing
is assumed of the beginning of a call and nothing is claimed to begin.

`MaxEvents` bounds Detection where a call begins (`Room`), never inside one: a
call that has begun finds room for its events, or the bound itself would be what
makes it wait.

### What the three violations show

- **`driver_drop`**: `wrappedConn.Close` does not end the Session's transaction.
  After `BEGIN` as text on a pooled connection and its closing, the counter of
  the scope stays at 1 although no transaction is open. The docs ask every
  integration to call `EndTx` at teardown. Driver-level transactions are not
  affected (`ApiTxEndsWithSqlTx` holds): database/sql ends them first.
- **`allow_excess`**: the finish report skips totals above the declared maximum
  because they "already surfaced as Violations"; a declined call that a later
  tier covers did not. In the trace a call site pinned to 1 calls twice, the
  Allowlist covers the second call with an entry that has no count, and the
  finish reports neither a Violation nor a StaleAllow. (A region that declares
  two effects would cover the call as well, but be stale itself.) The fall-through itself is intended
  (`TestAllowExactCallsFallThroughToAllowlist`); the comment's reason is what
  does not hold.
- **`reporters_begin_sites`**: the throttle key of an unscoped transaction is its
  first captured frame, documented as the begin call site. Only the library's own
  frames are skipped, so for a transaction begun through database/sql it is
  database/sql's call of the driver, the same for the whole program, and all
  begin sites share one window. A Session driven by the application itself is
  keyed as documented (`reporters`).

What the models leave room for, and the properties state as their limits:

- A region's total misses the events that their own call sites cover, because
  they return before its counter is incremented (`check.go:133`); with such sites
  a region that performs its declared number of effects is reported stale.
- A statement whose named arguments the wrapper refuses (`driver.go:180`, 206,
  313, 342) is observed although nothing ran: a `BEGIN` refused so is counted as
  a transaction. `ObservedOnce` counts such statements (`refused`), and
  `SessionFollowsServer` excepts the connection from then on (`unsure`), as after
  a transaction control that failed on the server.
- A WITH is a write as soon as a data-modifying keyword stands alone behind it,
  in a comment or in a quoted or qualified name as well (`classify.go:301`;
  documented at `classify.go:60` as "token-based"). `KindAgrees` excepts a WITH that has
  such a mention (`MentionedBehind`), and no other.
- A block comment that begins `/*/` is closed by its own beginning
  (`classify.go:218`), so what follows is classified although it is commented
  out. `KindAgrees` and `TargetAgrees` except such texts (`slashed`).
- Behind a quoted schema the rest of a qualified name is not read
  (`classify.go:266`): all tables of the schema have one identity.
  `TargetAgrees` states that the first token is what is read.
- A keyword is a run of identifier characters, and a dot ends the run
  (`classify.go:231`): `to.x` behind ROLLBACK is taken for its TO, and `table.x`
  behind TRUNCATE for its TABLE, although each is a qualified name.
  `KindAgrees` and `TargetAgrees` except a second token of that form
  (`QualifiedBy`), and `KindAgrees` a statement that begins with a qualified
  name (`BeginsQualified`).
- `ROLLBACK WORK TO` a savepoint is taken for the end of the transaction
  (`classify.go:144`), and an UPSERT inside a WITH for no write
  (`classify.go:284`). The reference has the documented forms only.
- A NUL byte inside a scope or a kind can make two identities share a throttle
  key (`throttle.go:127`). The texts of MCReporters have none.

## Proofs

The safety properties the passing runs check are proved for every value of the
constants, from the assumptions named in the modules: connections are finite and
distinct from goroutines, `NoScope` is no scope and `NoConn` no connection, the
detection options are known ones, at least one attempt is made, goroutines are
finite, declared counts are finite sets of integers, identities and regions have
different names, and runs of identifier characters are not punctuation
(`RunsArePlain`). Nothing is assumed about how many connections, goroutines,
identities, regions, entries or reports there are, nor about the length of
texts, nor about the bounds beyond their type. Of the theorems about
behaviours one has a hypothesis of its own, `FirstOfEveryFindingHeard`; it is
discussed below.

| module | theorems |
|---|---|
| `TxAttributionProofs` | `openTx` outside a transaction and `closeTx` anywhere preserve typing and `CounterExact` |
| `SessionProofs` | types, exact counters, one leak report, sticky attribution, justified verdicts, a sound gate, the refinement of OpenTransactions |
| `AllowTiersProofs` | types, growth surfaces, drift reported once, regions pin their total, a region that nothing else covers reports its drift, nothing is in flight after an undisturbed finish, `used` means suppressed, an exact entry pins its calls |
| `DetectionProofs` | the composition implements Session and AllowTiers; the call counts are those of the effects inside transactions; pinned identities and regions tell the truth |
| `DriverProofs` | types, exact counters, one observation per statement that ran or was refused, agreement with the server, driver-level transactions end |
| `BaselineProofs` | types, nothing dropped, `used` means swallowed, the refinement of Ratchet |
| `ReportersProofs` | the throttle alone: types and the cap, nothing lost, one report per interval, only recent reports suppress; a chain runs a throttle and has its guarantees; only what is not tolerated arrives, the first of every key is heard, every report is accounted for; identities are told apart by their keys; what a captured stack begins with, and that one caller of the library gives one key |
| `SqlTextProofs` | the loop of stripLeading ends for every text; the classifier finds the tokens of the scanner one after the other; kinds and targets agree with them |

None of these properties is inductive as it stands. What has to be added, and
why:

- **TxAttribution**: cardinalities. The two operations add or remove exactly one
  connection from `OpenOn(s)`, for exactly the scope whose counter they change.
- **Session** (`IInv`): `openTx` would count a connection twice if it were
  inside a transaction, and nothing in `CounterExact` says that `BeginTxOpen` is
  not. `IInv` adds that a connection in the middle of `BeginTx` is outside a
  transaction and that one outside has no scope. A verdict needs more: the
  loaded value of each process is the number of transactions it witnessed, and a
  connection's own transaction is among them exactly when its private state says
  so, which stays true because only the connection itself changes it. One leak
  per scope needs that the goroutine past the compare-and-swap is alone and has
  not reported yet. The refinement maps each step to one of OpenTransactions or
  to its quiet step.
- **AllowTiers**: every index up to an identity's count is decided or on its way
  (`CoveredInv`), which is what makes racing increments lose and share nothing;
  the decided events of a pinned identity are cut at its largest count, and the
  undecided ones wait where only an index beyond it can get (`PinnedInv`,
  `EntryInv`). Both together give the reported indices exactly (`CutSurfaces`).
  For drift, an undisturbed finish has nothing in flight and its verdict on
  every identity and every region read is that of the present totals
  (`FinishInv`), and a decided event of a pinned identity has left its
  declaration behind. A region's decisions are bounded by its counter and by
  its largest count at once (`RegionInv`). That such a region also reports its
  drift needs both directions: a region that nothing else covers has declined an
  event, reported by now or on its way to the list, exactly when its counter is
  above its largest count (`ReportInv`), and after a finish that ran alone
  nothing is on its way. The used flag needs that no entry is
  younger than the last `Add` (`Aged`): a new entry has no past.
- **Detection** (`CountInv`): the number counted and the calls between load and
  decision (`OnTheWay`) together are the effects that happened. A load that finds
  something open puts its call on the way, the decision takes it off and counts
  it: that a verdict is an event exactly then is Session's `VerdictStep`, which
  holds here because every step is one of Session (`ImplementsSession`). That a
  call knows its one site (`OneSite`) makes both happen to one identity. What a
  team is promised joins this with AllowTiers, whose proofs are instantiated for
  the composition (`TierProofs`): a step of Detection is one of the tiers or
  none, so their invariants hold here, and with nothing on the way their counts
  are the effects that happened (`PinTellsTheTruth`). For a region the same is
  shown of the calls between the load and the region's counter (`InsideInv`); a
  call site with an allow of its own would take a call off in between, so the
  region must have none (`RegionTellsTheTruth`).
- **Driver** (`IInv`): a connection is held by at most one goroutine and exactly
  while its call needs it (`HolderInv`), so that two calls never tell one Session
  about different transactions; a call that has not returned has neither run nor
  refused nor observed its statement (`OnceInv`); what nobody opened has no transaction
  (`NewInv`).
- **Throttle** (`IInv`): the reports received of a key are those admitted and
  those suppressed, the admitted ones are forwarded or in flight (`Balance`); a
  key is tracked only when its signal is throttled (`Maps`); the k-th admission
  of a tracked key comes at least k - 1 intervals after its first (`Spaced`), and
  an untracked key that was admitted met a full map, which stays full
  (`Windows`).
- **Baseline** (`IInv`): a dead process has left nothing in memory, what is
  being saved was tolerated or heard in this run (`RunInv`).
- **Reporters**: a step of the chain is a step of the throttle or leaves it
  alone, so its invariant carries over. Added to it: a goroutine holds one report,
  one behind the baseline is not tolerated, and one behind the inner of the two
  filters is of a signal the collector implements (`HandInv`, `Past`); what is heard passed,
  what is tolerated is covered and used its entry (`FilterInv`); a key that let
  something through has a report heard, tolerated or held behind the throttle,
  a key suppresses only after it let something through, and what was sent is
  held or has gone somewhere (`FirstInv`). Sums are cardinalities: a count stands
  for its occurrences, a send or a collection adds one (`TotalUp`), and Reset
  appends the occurrences collected to those cleared (`TotalSum`, a bijection).
- **SqlText** (`ScanInv`): the classifier cuts a text from the left and searches,
  the scanner reads it from left to right and knows nothing of cuts. The fact
  that survives every symbol read is about the texts yet to come: behind the
  end of a token `strip` leads to the begin of the next one *whatever follows*
  (`Leads`), and behind the last token it stops at what has been read of a
  comment (`Rests`, `CommentText`). Each mode of the scanner adds what it knows:
  that a word is a longest run, that a quoted name has no quote of its kind
  inside, that a comment has not been closed, where a slash behind slash-star
  is the exception (`slashed`). With nothing to follow, the classifier finds
  every token of the scanner (`TokensFound`), and then both read the same words
  in the same order (`NextWord`, `NextName`). For a WITH the classifier's search
  goes through the symbols instead: where it finds a keyword and the tokens have
  none, the keyword stands alone in the text behind the WITH (`CteMentioned`).
  `strip` is a recursive function, and that a function satisfies its recursive
  definition needs a proof: there is one for the texts up to any length, two
  of them agree where both are defined, and together they are `strip`
  (`StripEquation`). The induction on the length is `SetInduction`, about a set of
  numbers instead of a predicate, which the pigeonhole theorem of finite sets
  gives: below a counterexample there would be an injection into a smaller set.

Proving `KindAgrees` and `TargetAgrees` for every alphabet found what the run's
alphabets had left out, names qualified by TO and TABLE; both properties now
name them, and the run has alphabets with them.

`FirstHeard` does not hold in general: `reporters_begin_sites` violates it. What
holds always is `FirstOfKeyHeard` (`SomeoneOfEveryKeyHeard`): of all reports
with one signal and key, one is heard. `FirstHeard` follows when reports
are told apart by their keys (`KeysDistinct`), which the reports of the run
`reporters` are and those of `reporters_begin_sites` are not. For violations and
stale allows the keys do tell identities apart, as long as scope and kind hold
no NUL byte (`IdentitiesToldApart`).

Only model-checked: the liveness properties (`EventuallyForwarded`,
`EventuallyCollected`, `EveryCallReturns`), which are out of this prover's reach,
as ENABLED is. Every other property of a passing run is stated by a theorem.
The theorems about captured stacks take the first frame outside the library as
given (`CalledFrom`); none states that a stack with such frames has a first one.

## Not modelled, and the plan

Not modelled: formatting and logging (SlogReporter, the texts of Require…) and
attributes, which are payload; the null driver, which is stateless and one of
the underlying connections Driver allows; the gRPC interceptors, one `Check`
each; benchgate, a CI tool apart from the library; the package documentation and
the examples. A statement checker that panics, and user callbacks in general,
are outside the models.

What would come next:

1. **Classify and Session**: the kinds of Classify as the input of Session, so
   that a misread statement is followed to the counter it poisons.
2. **An abstract reporter**: "every finding is heard once, what is tolerated
   never" as a specification that Reporters refines in both nestings.
3. **benchgate**: the comparison of benchmark runs as operators, with its
   thresholds and missing entries.
