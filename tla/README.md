# Claude Seat Pacer: a TLA+ verification project

This directory models `cpa-plugin-claude-seat-pacer`, a Go plugin for CLIProxyAPI
that spreads conversations over several Claude credentials ("seats"). The plugin
reads each seat's usage, ranks seats by how far they are behind an even pace,
binds each conversation to one seat so its prompt cache stays warm, and releases
host cooldowns that outlived the refusal that caused them.

The modules are model-checked by TLC on small instances, and the properties that
matter most are proved with TLAPS for every value of the constants. `PROJECT.json`
lists the components, the runs with their properties, the map from definitions to
source lines, the hazards and the theorems.

## 1. The system

| Part | Source | State | Operations | What is hard |
|---|---|---|---|---|
| Session store | `internal/session/store.go` | bindings by key, an access order, a tally per seat | Lookup, Bind, Restore, DropAuth, Sweep, CountByAuth, eviction | callers read the clock before the lock, so operations run with clocks out of order; a cap; a tally kept by hand |
| Session identity | `internal/session/identity.go`, `key.go`, `internal/httpx` | none | derive a key, a parent key and the subagent flag from headers and body | precedence of sources; a map range's order; a body that grows every turn |
| Intercept bridge | `internal/runtime/intercept.go` | three headers carried from the interceptor to the pick | interceptBefore, readBridge | a client's own headers must not survive |
| Pick | `internal/runtime/scheduler.go` | local to a pick | affinity, parent inheritance, cold pick, least-bound fallback, decline | not serialized; the table may be replaced between two operations |
| Pace | `internal/pace/pace.go` | none | ScoreAuth, Rank, better, Best | NaN, ties, stale readings, weights of either sign |
| Quota store | `internal/quota/store.go`, `window.go` | a snapshot and a history per seat, pending histories, login instants, a version | Put, MergeHeaders, RecordRefusals, MarkServed, Prune, Restore, import and export | polls and response headers race; late readings |
| History ring | `internal/quota/history.go` | cycles of samples, a pending fall, refusal spans | record, refuse, serve, end, push, mergeLock, trimLocks, compact, export, replay | records of long requests arrive late and out of order |
| History file | `internal/quota/historyfile.go`, `poller.go` | the file, historyLoaded, historySaved, historyRefused | loadHistory, saveHistory, WriteFile | crash between two saves; records before the load |
| Usage client | `internal/quota/client.go`, `errors.go`, `usage.go`, `headers.go` | none | Fetch with one retry, parsers | what is retried, what is trusted |
| Usage handler | `internal/runtime/usage.go` | cache statistics | usage: MergeHeaders, RecordRefusals or MarkServed | out-of-order delivery |
| Poller | `internal/runtime/poller.go`, `management.go` (SyncNow) | the poll loop, its timer, rearm, pollMu, poll times | startPoller, stopPoller, runPoller, pollLocked, refresh, SyncNow | stop racing a poll, a forced poll beside a scheduled one, panics |
| Cooldown release | `internal/runtime/cooldown.go` | holds, holdResets, resetUnsupported | findStaleHold, releaseHolds, resetHold | releasing a hold that is still deserved; retrying a release |
| Login tracking | `internal/runtime/login.go` | a track per seat | observeLogin, confirmedAt, login | a token refresh is not a login |
| Bindings file and lifecycle | `internal/runtime/bindingsfile.go`, `plugin.go` | the file, the table, handedOver | configure, applyConfig, saveBindings, restoreBindings, quiesce, shutdown | a build reloaded into the same memory; a rollback |
| Host bridge | `internal/runtime/host.go` | calls in flight | begin, end, idleC, invokeCtx, spawn, drain | a drain racing a new call |
| Decision log | `internal/runtime/decisions.go` | a ring of decisions | add, newestFirst, resize | resize keeping the newest |
| Config | `internal/runtime/config.go`, `internal/model/config.go` | none | expand dotted keys, decode, normalize | nested and dotted forms mixed in any order; hostile numbers |
| Status, management routes | `internal/runtime/status.go`, `management.go` | none of their own | read-only views; unbind, sweep, refresh | - |
| Web app, C ABI shim, wire types, webdev, packaging | `internal/web`, `main.go`, `internal/runtime/wire.go`, `cmd/webdev`, `.github` | - | presentation, marshalling, tooling | - |

The host calls the plugin from many goroutines. `request.intercept_before`
derives the identity and hands it on in headers; `scheduler.pick` chooses a seat
from the quota store's readings and the session store's bindings; `usage.handle`
feeds the response's headers, refusals and served requests back into the quota
store; the poller reads the usage endpoint through the host, sweeps bindings,
saves history and releases cooldowns. The lifecycle calls replace the config and
the binding table under picks in flight.

## 2. The modules

**SessionTable** holds the binding table as pure operators, one per method of
`session.Store` (`Looked`, `Bound`, `Restored`, `DropAuth`, `Swept`, `CountByAuth`
and what they share). A table is `[index, ahead, counts]`: the map, the access
order as a strict order on its keys, and the tally. Each method holds the store's
lock for its whole work, so each is a function from table to table with the
caller's clock as an argument.

**SessionStore** drives one table: `Lookup`, `Bind`, `Restore`, `Drop`, `Sweep`
with a `now` up to `MaxLag` behind the clock. This is the behaviour the comment on
`sweepSlack` describes: a pick reads its clock, waits for the lock, and runs after
a pick that read a later one.

**Pick** runs `pick` of `scheduler.go` in several workers on the tables of
SessionTable. Getting the live table (`bindingStore`) and each table operation are
separate steps; the decisions in between are functions of the pick's own copies.
`ApplyConfig` may replace the table between any two steps, and the pick then works
on an orphan. Readings are abstracted to the eight cases the pick tells apart.

**Identity** is what a pick knows of a request: `Extract` with every rule in its
order, the header index it reads, and the bridge headers the interceptor clears,
writes and the pick reads back. A header map is visited in an order and its
reverse, since a Go map range has none. Its clients are a root conversation, its
subagent, that one's subagent and an unrelated conversation, under each naming
style the code accepts.

**Config** expands and decodes a block of YAML entries (`decodeConfig`,
`expandDottedKeys`); **ConfigLimits** has the defaults and what corrects the settings
that were read (`Normalize`). **Pace** scores and ranks seats under a config
`Normalize` made: `Target`, `ScoreAuth`, `ScoreWithStaleness`, `better`, `Rank`,
`Best`, in fixed point. Nodes, sums and sorts are built by recursive functions, which
can be proved about.

**QuotaStore** is one credential in the quota store: `Put`, `MergeHeaders`,
`RecordRefusals`, `Restore`, `Prune`, the export and import of its entry and of its
pending one. A poll is several steps (list, restore, fetch, put, prune), a usage
record two (its response arrives, then it is merged, as late as it may), and a
reload loses the memory. A window is the instant it was observed at: that is what
every decision of the store compares.

**Samples** is the utilization history of one window: `add` with the fall held back
as a possible clearing, `compact`, the thinning of `export`, `addCycles` and
`replay`, and the import of a file into a ring that already holds live readings.

**RefusalSpans** is one life of a window's refusal spans: `refuse`, `serve`, `end`,
`push`, `trimLocks`, as usage records and readings arrive in any order. Admissions
keep full precision while spans hold whole seconds (`Truncate`), because the code
compares the first and stores the second.

**RefusalHistory** extends it with the history file: `Export`, `MergeLock`,
`Replay`, `Import`, saves, crashes and restarts, and records that reach the new
ring before the load. A live reading may end the newest stored span before the live
spans are merged, as `addCycles` does.

**Poller** is the poll schedule: the loop (`runPoller`, `pollAndSchedule`), the
management requests that poll beside it (`refresh`, `SyncNow`) and the lifecycle
calls that start and stop it, each as a process whose lock acquisitions are
separate steps. `pollMu` and `lifeMu` are modelled as held or free, the timer as a
countdown, `rearm` as its one-slot channel. What a poll reads is left out; how long
it asks to wait is any value `nextPollWait` and the listing failures give, and a
poll may panic.

**PollSweep** is what a poll does with the lock: `pollLocked` seat by seat with
`fetchOne`, the client's `Fetch` and its one retry, a context that may end at any
point, what is published, and what `refresh` answers from it.

**Login** is one seat's login as successive sweeps see it: `observeLogin`,
`confirmedAt`, `login`, `readLogin` and the login instant in the store and its file.
There are two clocks, because a machine that sleeps passes wall time and no
monotonic time, and the code uses both.

**Cooldown** is the release that ends a complete sweep: `findStaleHold`,
`releaseHolds`, `resetHold`, judging by a listing, a read and refusal spans of three
different instants while the provider refuses and reopens windows. Its spans are
those of RefusalSpans (`R == INSTANCE RefusalSpans`), one ring per window, each with
the instants of its newest cycle's readings (`cycle`). `reopenedAt` asks when a cycle
opened by its first sample, and that one moves: a reading within a minute or behind a
flat run replaces the last (`Joined`), old ones are thinned (`Coarsened`), and the
oldest go at the cap (`Capped`). A 429, a usage read and a served request's headers are
all readings. A reset ends a cooldown for the host
as well (`Gone`), and the request a release makes of the host takes a step of its own,
in which requests may be refused and served.

**HistoryFile** is when the history file is read and written. A save reads the
store's version, copies three sections under a lock it takes anew for each and
renames the finished file into place; records land, and the process may end,
between any two of these steps. Facts are abstract; how they merge is the subject of
RefusalHistory, QuotaStore and Samples.

**Lifecycle** is the binding table across builds: `configure`, `quiesce`,
`Shutdown`, `saveBindings` and `restoreBindings` of several images that share one
bindings file, with the host's replacements, roll backs, late shutdowns, a register
call that is lost, images loaded again over their old memory, failed saves, crashes
and restarts. What the host does is modelled from the comments of these functions.

**HostCalls** is the bridge to the host: `callTracker`, `invokeCtx`, `spawn`, `log`
and `drain`, with a host that may answer late, panic or never answer.

**DecisionLog** is the ring of routing decisions, **DecisionList** what it promises;
`ImplementsList` is the refinement, with `kept <- NewestFirst`.

**Times** holds what the modules share about instants. The `*Proofs` modules hold
the theorems: SessionStoreProofs, PickProofs (with DecisionLog), RefusalSpansProofs,
RefusalHistoryProofs, QuotaStoreProofs (with Samples), PollProofs (Poller, PollSweep,
Login and Cooldown), RequestProofs (Identity, Pace and Config) and StopProofs
(HistoryFile, Lifecycle and HostCalls). The `MC*` modules name values for TLC;
four of them (MCQuota, MCPoll, MCRequest, MCStop) also put parts of the system into one
run, and MCCooldown follows two courses of Cooldown (section 3). Definitions introduced by a comment
"A mutation:" are faulty variants of the definition after them, which show that the
properties notice such faults; nothing else uses them.

How the modules divide the work where components meet: the poll appears four times,
as its schedule (Poller), its sweep (PollSweep), its writes into the store
(QuotaStore) and its use of a file and of a cooldown (Login, Cooldown). Each keeps of
the others what it depends on: PollSweep which credentials have an entry, QuotaStore
the order of a poll's own steps, Cooldown the listing and the read. Poller shows that
sweeps exclude each other, which the other three take as given.

## 3. The runs

Every run checks only properties that a bug in the code could break; a type
invariant of a module with proofs is a theorem and is not checked again.

| Run | Instance | Shows |
|---|---|---|
| `pick` | one pick at a time, 9 requests, 8 pools, 5 configs, 2 tables, TTL 1, clock to 2 | `RefusedOnlyWhenAllAre`, `AnswerIsHome`, `ParentKeptAlive`, `PinnedLeavesHomes` |
| `pick_stale_refusal` | one pick, a refusal older than max-staleness | violation: the fallback prefers the refused seat |
| `refusal_history` | instants to 3, cap 2, saves, restarts, loads | `SpansDisjoint`, `OngoingNotOutlived`, `LoadKeepsLive`, `EndedForGoodAcross` |
| `refusal_history_late` | the same, with records of the instance before a reload | violation: `mergeLock` makes spans overlap |
| `poller` | a management request and a lifecycle caller beside the loop, fair | `LoopJoined`, `CallsReturn`, `PollsGoOn` |
| `poller_start` | a forced read across a start | violation: the new loop reads before its start delay |
| `quota` | store: 2 account windows and a cap, a poll, a usage record at a time, a reload; samples: 4 readings, 3 levels, 3 resets, 3 gaps, a cap of 5 | `LatestHeld`, `GoneStaysGone`, `HistoryKept`; `CyclesRise`, `StaleLowDropped`, `ReplayStable`, `ExportWithinMax` |
| `poll` | sessions: 3 keys, 2 seats, TTL 1, cap 2, lag 1, clock to 4, four bindings files; sweep: 2 seats, 4 kinds of file; login: 2 logins, wall clock to 5; cooldown: 1 account window with a clock to 6, 2 with a clock to 3, or 1 and a family cap with a clock to 2 | `TallyExact`, `SweepComplete`; `SeatsKept`, `OutcomesOutlast`, `ThrottleHeeded`, `RefreshTruthful`; `LoginDated`, `HealthyNotBlamed`; `DatedHoldKept`, `AskedOncePerCooldown` |
| `cooldown_span` | one course of Cooldown: a family cap stays full, two account windows, clock to 3 | violation: a span is asked for again after another's reset |
| `cooldown_served` | one course of Cooldown: one account window, a 429, a served request, a sweep | violation: the host is asked to lift a cooldown whose window still refuses |
| `request` | picks: two racing, 3 requests, 3 pools, 2 configs, a table of one binding; identity: 8 naming styles, 2 turns; config: blocks of 3 of 18 entries; pace: 2 seats, every reading of a small grid, 6 raw configs; log: 3 decisions, limits to 4 | `HomeMovesForCause` under races and table replacement; `BridgeOwned`, `OneKeyEach`, `ParentIsReal`; `DottedWins`; `NearerResetFirst`; `ImplementsList` |
| `stop` | history file: 4 facts, every initial file; builds: 2 builds, 2 conversations, 2 seats, 2 table shapes; host calls: 3 calls, 1 drain, fair | `SavedHeld`, `PastKept`; `HomesSurvive`; `DrainCovers`, `AnsweredCallsEnd` |

`quota`, `poll`, `request` and `stop` put parts side by side that answer one question
together: what the store holds, what a poll does, what picks race on and stand on, what
outlives a stop. The parts share no variable their properties mention, so a product of them would only
multiply states. Instead `part`, fixed at the start, names the one that moves, the
others stay at an initial state, and the run's states are the sum. Every property is
checked in every part; in the parts it is not about it holds without a step.
In `stop` the fairness of HostCalls binds nothing outside its part, since none of
its fair steps is enabled before a first call.

The violation runs are disagreements between code and documentation met on the way;
`PROJECT.json` quotes both sides of each. None loses a request: a stale seat may be
tried first, two spans may overlap on the status page, a first poll may come early, and
the host may be asked about one span again: `releaseHolds` remembers the last reset
only, while its comment promises one per span. What the code does promise is
`AskedOncePerCooldown`: a cooldown the host answered for is not asked about again
unless a request was refused anew. The last one is the same release asked for too
early: a window counts as reopened when its newest cycle starts no earlier than the
span's end. A request served within a minute of the 429 that opened the cycle replaces
the cycle's only sample and ends the span at the same instant, so a window that was
never given back counts as reopened, and a read that rounds below full lets the
release go ahead. What does hold is `DatedHoldKept`: it takes the loss of every sample
up to the window's last 429.
Section 6 lists smaller ones that have no run.

### Bounds

- A cap of 2 with 3 keys evicts, a TTL of 1 with a clock to 4 expires and rebinds, a
  lag of 1 puts two operations out of order. Two spans and a cap of 2 are what
  `mergeLock`, `refuse` and `trimLocks` look at; the instance counts whole seconds,
  and the theorems cover every finer precision.
- Two seats are enough to be bound, refused and have or not have an alternative; two
  picks are enough to race on one conversation and on a parent and its child.
- One request and one lifecycle caller, each used again and again, reach every overlap
  with the loop that liveness depends on; the safety of any number of both is proved.
- The store's two instants order any two readings both ways, and a third source would
  be compared with the newest only. One record in flight is merged before, between or
  after any step of a poll; two reads within one sweep differ in the windows they
  report, which is how a window goes. One reload meets a file of the build before it.
  A save that no later build would read is left out, as is one after the last reading
  of Samples: neither can be noticed.
- Four readings are a cycle, a fall held back, its confirmation or refutation, and one
  more, two of them in one second where a gap is 0; with a cap of 5 and an estimated prefix from the file, compaction and the
  thinned copies all have something to drop. The spans and steps (`FineSpan` 6,
  `FineStep` 2, `CoarseStep` 4, cycles of 8) keep the order the code's have.
- Two seats in a sweep are one read and one the sweep does not reach. The throttle's
  two answers are both tries of one fetch. Of a listing at most one seat is not to be
  read for its usage (disabled, without a token, not OAuth): such a seat only passes.
  The seats are symmetric, and the proofs cover every listing of any seats.
- A login, a renewal on each side of it, and a second login fit a wall clock of 5 with
  tokens of 3 and a lead of 1; the sleeps pass any part of that.
- Cooldown has one window that caps every request, within a clock of 6 in which its
  readings are replaced, coarsened (`FineSpan` 1, `FineStep` 2, `CoarseStep` 4) and
  capped (2 samples) and its cycles closed, rolled and cleared; two such windows, one of
  which reopens while the other refuses, within a clock of 3; or one beside a family
  cap, within a clock of 2, which is what the condition on later cap-only 429s is about.
  Served and refused requests never fall on the same instant, and records arrive in
  order. The proofs bound none but these last two.
- A block of three entries has a section, its dotted form and what overrides it. The
  18 entries hold a hostile, a null, a mistyped and a retired one, and a section nothing
  reads that a dotted key runs through; of settings that differ only in their bounds
  they set one of each kind. The proof is for any entries and blocks of any length.
- Three calls are one a drain saw, one that joins it and one that follows, or a log
  worker, its call and another. A limit up to 4 wraps, grows and shrinks past the fill.
- Two builds are one replaced and one replacing, and each may come back.

`stop` and `request` do not check deadlock: the calls of HostCalls, the turns of the
clients and the config's blocks are finite in number, and a behaviour ends when all
are made. Samples ends at its bound on readings, where `quota` lets it stutter; the other
runs never stop.

### Fairness

`Poller`: weak fairness on each process's next step once it may run, and strong
fairness where a process waits for a mutex or on a select with several ready cases:
Go's mutex hands over to a waiter that has waited a millisecond, and a select picks
among ready cases at random. A poll itself ends, because its context carries the poll
budget. `HostCalls`: weak fairness on goroutines that are runnable and on deadlines;
none on the host. The other modules claim safety only and assume no fairness.

## 4. The proofs

Each theorem holds for every value of the constants that the module's named
assumption admits, and none of the bounds of section 3 is used but where a constant of
the code is meant (a cap, a limit). TLC evaluates the assumptions on every run.

*SessionStoreProofs*, for every set of keys and seats, TTL, cap, slack, lag and saved
files: `TypeCorrect`, `TallyCorrect`, `CapHolds`, `SkewBounded`,
`SweepRemovesExpired`. The inductive invariant is the conjunction of `TypeOK`,
`TallyExact`, `WithinCap` and `OrderSkew`. They need each other: the tally only
stays exact if removal counts what the index holds, the cap argument needs the
order to be a strict total order on exactly the held keys, and the sweep bound needs
the skew bound. Assumptions: `TableAssumption`, `TimeAssumption` and `SavedAssumption`
(finite keys, natural TTL, cap, slack and lag, files that are sequences of bindings).

*PickProofs*, for any workers, keys, seats, requests, configs and readings:
`RefusedOnlyWhenAll`, `HomesMoveForCause`, `PinnedLeaveHomes`, `AnswersAreHomes`,
`ParentsKeptAlive`. A pick's reading of the
seats is stale by the time it binds, and the table may be another, so nothing about the
current state can justify the bind. The invariant `PicksSound` has each pick carry its
reasons instead: by the operation it is at, why it left the seat it had, that a pinned
one is not on its way to a bind, that the seat it settled on is refused only if all it
was offered are. A lemma for each operation of SessionTable says which homes it may
change; only `Bound` sets one, and only the key's own. `AnswersAreHomes` and
`ParentsKeptAlive` are about picks one at a time, as the properties are: with another
pick in between neither is so. Their invariant `LoneIInv` adds what a pick may rely on in
the live table: what it read there still holds, unless the table was replaced since, and
then the new one is empty because nobody else fills it.

*RefusalSpansProofs*, for every clock precision, bound and cap: `TypeCorrect`,
`DisjointAlways`, `NotOutlived`, `BoundedAlways`, `EndedStaysEnded`. The invariant
`RingOK` joins type, disjointness, the cap and the relation between the last served
and last refused admissions; one lemma per operation of the code (`PushOK`, `EndOK`,
`TrimOK`, `RefuseOK`, `ServeOK`, `ReadingOK`) shows that it keeps `RingOK` and what
ended. A second group (`Past`, `Begun`) says that no operation records anything later
than the instant it is given, which the proofs of Cooldown take from here.

*RefusalHistoryProofs*, for the same constants: `DisjointAcross`, `NotOutlivedAcross`,
`LiveIsKept`, `EndedStaysEndedAcross`, on a ring that is saved, lost with its process and
loaded again. A load merges spans one at a time, so what it yields is an induction along
`MergeAll`, which the proof makes by least counterexample (`MergeAllSteps`): stored spans
come back as they were (`ReplayStored`), and of this run's only the first can meet a
stored one, the rest are appended (`FirstMerge`, `MergeLive`). `HistoryIInv` supplies why
that first one meets at most a span that goes on: what the file holds had begun when this
run began, and had ended by then if it ended, while the run's own spans began no earlier.
The ends of spans are whole seconds, which is what makes an end that `export` reads as
passed one that lies before the next run's first second. Assumption: `OnTime`, that a run
is delivered the records of its own requests (`ReloadLate` FALSE); without it the first
theorem is false, which is the violation of `refusal_history_late`.

*QuotaStoreProofs*, for any windows, responses and instants: `LatestIsHeld`,
`GoneStays`, `HistoryIsKept`. `Dated` relates the four things an entry keeps of a window
(what it shows, when the store last saw it, where in the order it stands, when a poll
last omitted it) to what was delivered, and it holds of the live entry and of the
pending one, since `restore` and `adopt` turn one into the other. It is not inductive
alone: between a usage read's stamp and its `Put` a response may be merged
(`FetchedOK`), and the file read late was written by the build before (`FiledOK`).
Assumption: `StoreAssumption`.

On the samples of a window, for any readings, spans, steps and caps:
`CyclesAlwaysRise`, `StaleLowAlwaysDropped`, `ExportAlwaysWithinMax`. `RingOK` is what
each operation keeps (`add`, `compact`, `replay`, `import`): cycles that climb and
follow one another, a fall held back only from the newest sample. Dropping a stale low
reading needs more, that `compact` has nothing left to do (`Compacted`): the reading
that refutes it compacts again, and must find what the first found. That the samples of
the file may go in front of the live ones is `Spans`: readings come in order, so what a
restart reads back is older than what was read since. The folds of `compact`, `replay`
and the thinning are recursive functions, each with the invariant its steps keep.
Assumptions: `SamplesAssumption` and `EstimatesAssumption` (the file this build starts
from was written by one that keeps the same, before this one starts).

*PollProofs*, on the schedule, for any number of requests and lifecycle calls and any
intervals: `TypeCorrect`, `ReadersExclude`, `LoopAlwaysJoined`, `ReadsSpaced`. The
invariant relates who holds `pollMu` and `lifeMu` to where each process is, and the
timer to the time since the last completed poll.

On the sweep, for any set of seats: `ThrottleIsHeeded`,
`RefreshIsTruthful`, `SeatsAreKept`, `OutcomesOutlastSweeps`. `SweepIInv` says from where
the sweep is how often in a row it was refused (`Refusals`), that a seat listed with a
token is still to be visited, being read or kept (`Covered`), and that what a refresh
reads after the lock was left by its own sweep unless another ended since (`RequestOK`).

On the login, for any times and number of logins: `LoginIsDated`, `HealthyIsNotBlamed`.
`LoginIInv` says that every date kept in memory or on disk is the first its login was
given, and that with a host that renews in time all readings of one overdue token fall
within one sleep: the monotonic clock stands between them. That is what `confirmedAt`
relies on without saying so, and why it may compare monotonic instants.

On the release of a cooldown, for any windows, times, reset lengths and spacing of
samples: `DatedHoldIsKept`, `CooldownAskedOnce`. The code never sees what the provider
refuses, so `ShutStands` ties the provider's truth to the record: a window still shut has
a newest span that runs to its reset, or ran to it until a request was served after the
window's last 429, and the cycle the store shows carries that reset; no window that caps
every request has a span begun since. So a cycle with a sample no later than that 429
starts before the span's end, and the window holds the release back. Nothing says the
cycle keeps such a sample, which is the violation of `cooldown_served`. The spans' own
invariants are used by instance of RefusalSpansProofs. `SettledOK` says that the reset
that settled a cooldown is the last the host answered, with no span begun since it was
asked; it is false without "answered", which is the violation of `cooldown_span`.
Assumption: `CooldownAssumption`.

*RequestProofs*, on the identity of a request, for any naming styles of the clients and
any number of turns: `BridgeIsOwned`, `OneKeyForEach`, `ParentsAreReal`. Whatever order
a map's headers are visited in, the index reads a name as the value of the spelling of
it that sorts first (`GetLowest`, `OrderCovers`). An identity `Extract` derived is well
formed, which is why its parts survive the trip through the bridge headers (`BInv`).
What `Extract` says of a client's request is a closed form, `IdOf`, in which neither the
turn nor the order occurs (`ClientExtract`, by the rule that applies); two conversations
differ in it (`KeysApart`) and a parent is a key an ancestor goes by (`ParentsHold`).
Assumptions: `IdentityAssumption`, and `BlankApart`: the blank value is no tuple of a
session and the agents under it, as the empty string is no hash.

On the ranking, for any seats, readings and settings: `NearerResetAlwaysFirst`.
`better` is a strict order, total on scores of different seats, so the insertion sort
yields the one sequence in that order, whatever order the scores came in (`RankSorts`,
`OneOrder`), and the single pass of `Best` its head (`BestLeads`, `OneLeads`). A seat
that dominates another costs no more: the windows of the two match one to one, each term
is at most its match, because `Normalize` leaves no negative weight and every curve rises
(`NormalizeSane`, `TargetRises`), and a sum does not depend on the order it is taken in
(`TotalAdds`, `TotalAtMost`). Assumptions: `LimitsAssumption` and `PaceAssumption`
(finitely many seats, numeric settings, at most one window of a kind and scope in a
snapshot, which is how the store keys them).

On a block of the config file, for any entries, in any order and number:
`DottedAlwaysWins`. `PutSets` says what a dotted key changes: a walk of the new block
along its path meets its value, one that stops on the way a mapping, and one that leaves
the path goes on where it went before. By induction along the block (`BlockGrown`), what
stands at a setting is what was last said of it, or a mapping a dotted key opened, which
does not decode (`Says`), and whatever is neither null nor opened some entry put there
(`Sourced`). So a block that breaks has two entries that clash, and one that does not
decode an entry at fault. Assumption: `EntriesAssumption`, that a path is a nonempty
sequence of words.

*StopProofs*, on the history file, for any sets of facts: `FileTypeCorrect`,
`SavedIsHeld`, `PastIsKept`, `NewerIsLeftAlone`. The invariant says, for each place of a
save, which facts its copy already holds: those recorded up to the version it started
from, of the sections copied so far. A loaded run also holds everything its file does,
which is why writing it loses nothing.

On the builds, for any number of builds, conversations and seats: `BuildsTypeCorrect`,
`OnlyLiveSaves`, `HomesAreKept`. The invariant adds to `OneSaver` that while a build
is quiesced no other is live and, if its save succeeded, the file holds its table.
That makes a roll back, which keeps the table in memory, agree with a register, which
reads the file; `OneSaver` keeps late shutdowns from breaking it in between.

On the host calls, for any sets of calls and drains: `TrackerIsExact`, `DrainsCover`. The
count is the number of goroutines that have begun and not ended, and the newest channel
is closed exactly while there are none; so a channel closed after a drain took it saw the
end of everything the drain saw, and what has ended never runs again.

On the log of decisions (PickProofs too), for any decisions and limits:
`ListIsImplemented`, the refinement of DecisionList. Every step of the ring maps to a step or a stutter of the list because
slot `(next - i) % Size` holds the i-th newest decision before and after it.

`PROJECT.json` lists the 52 theorems. Those that state a property of a run name it;
the others (types, caps, skew, who may read, write or save) are not run again.

Only model-checked:

- All liveness (`CallsReturn`, `PollsGoOn`, `AnsweredCallsEnd`): out of the prover's
  reach, as is `ENABLED`.
- `ReplayStable` (Samples), that a second replay of a history changes nothing. One
  replay keeps `RingOK` and `Compacted`, which is proved, but that its result is a
  fixed point also depends on how the coarse steps, the carried estimates and the
  tolerance of a clearing compare: a cycle compaction leaves with one sample close to a
  roll may be folded by the next replay. The run's steps keep the order the code's have;
  a theorem would need that order as an assumption, and an induction over pairs of
  replays.

## 5. Not modelled

Components:

- The web app, the C shim, the wire types and envelope, and the development tools
  (`cmd/webdev`, packaging): presentation, marshalling and pure functions of their
  input. Nothing in them decides where a request goes or what is kept.
- `ParseUsagePayload`: a function of bytes. What it yields, a set of windows, is the
  input of QuotaStore.
- The status views and the cache counters: they only read or only add.
- Log lines, among them `reportLogins` and the warnings that `kept` and `refused` feed.

Details left out of modules:

- QuotaStore: severity, `Active`, `Err` and labels of a window; `MarkServed`, which only
  touches spans (RefusalSpans). RefusalSpans and Samples share a ring in the code but no
  field, except that a clearing ends a span: an `end` of RefusalSpans at any instant.
- Cooldown: levels of samples, so a reading may lie in a flat run whenever the cycle has
  two; a reading dropped near a roll as carried over; resets that differ within the
  tolerance; a clearing's two readings are one; a request served before any was refused.
- Lifecycle: a pick still in flight on a build the host has quiesced. Its bind is
  lost with the build's table, as in a crash. With persistence off an image that is
  loaded again resumes its own old table; `HomesSurvive` claims nothing then.
- HistoryFile: `Prune`, which forgets a departed seat on purpose (QuotaStore has it), and
  a newer build's file that appears under a build already running.
- Poller: how much of the poll budget a wait for `pollMu` uses up. PollSweep lets the
  context end at any point, the start included.
- Pace: a curve at points between quarters of a window, and the rounding of floating
  point. The sigmoid is its table. Pick uses the order of seats only.
- Identity: JSON as such. A body is the fields `Extract` looks at, with the wrong type
  among their values; a hash is injective.
- Config: the lists of providers and models in a block, which decode as any other
  setting does, and `foldKeys`, which makes provider and model names lower case and drops blanks.

## 6. Observations without a run

Met while modelling; none is contradicted strongly enough, or matters enough, for a run
of its own.

- `CountByAuth` says a binding idle past the TTL is not counted. One that expired
  within the lag of a clock and sits ahead of a live one is.
- `historySaved` is described as the store version the file last held. A fact recorded
  before the load is in that version and not in the file, and no save follows until
  something else changes; `SavedHeld` states what does hold. `Prune`'s deletion of a
  pending history (store.go:503-507) does not count as a change either.
- `callTracker` says a callback that starts while a drain waits does not hold it open.
  One that starts while an earlier call is outstanding shares its channel, so the
  drain waits for it too, up to the timeout; `DrainCovers` states what does hold.
- Two windows of an entry may be `Active` after a `Put` (store.go:292), where
  `MergeHeaders`' comment says at most one.
- A `Put` that omits a family cap forgets when it was seen, so an older response may add
  it again, and a read of caps only forgets that other windows were omitted;
  `GoneStaysGone` is stated for the account windows.
- "A credential with an entry already has a newer reading" (historyfile.go:113) is not
  so for a record of the instance before a reload.
- A reading of the instance before a reload whose window has rolled since can put
  cycles out of order at the load; `Start` keeps the instance of Samples clear of it.
- `refresh` reads `listErr` and `fetchErr` after releasing `pollMu` (poller.go:365-384),
  so another sweep may hide its own failure; `RefreshTruthful` says "when no other sweep
  has ended since".
- A conversation known by its content only changes its key if its first user messages
  carry no text (identity.go:345-350), and a bare id that contains `#` may equal a scoped
  one (identity.go:172-174); the clients of Identity do neither.
- A stale "revoked" listing counts against a fresh login at the first poll after a start.
  Without device ids, a renewal in the same second as the last overdue reading after a
  sleep is taken for a login; `LoginDated` is stated with them.
- A reset of a cooldown may lift a newer one the host set between its listing and the
  reset; `DatedHoldKept` speaks of the hold that was listed. A 429 of a family cap in a
  span that began before its cause ended is not seen by the condition on caps.

## 7. What the plan has left

1. `ReplayStable` of Samples as a theorem, from assumptions on the steps and spans.
2. A sweep of three seats, and Cooldown with two windows and a family cap.
3. A composition of QuotaStore and RefusalSpans, so that one response's merge and its
   refusals are two steps between which a poll may put.
