------------------------------- MODULE Poller -------------------------------
(***************************************************************************)
(* The poll schedule: the poll loop of internal/runtime/poller.go, the     *)
(* lifecycle calls that start and stop it, and the two management          *)
(* requests that read usage beside it, SyncNow and refresh.                *)
(*                                                                         *)
(* Two locks and one channel tie them together.  lifeMu is held by a       *)
(* lifecycle call from its start to its return, also while it waits for    *)
(* the loop to end.  pollMu is held by whoever reads usage or the history  *)
(* file.  rearm, a channel of one slot, tells the loop that nextPollAt     *)
(* moved.                                                                  *)
(*                                                                         *)
(* The code only ever subtracts instants, so the model keeps what is left  *)
(* until them: timer until the loop's timer fires, nextPoll until          *)
(* nextPollAt (0 when it has passed or is zero), gap until a forced read   *)
(* is allowed again.  Tick lets one unit of time pass, and no clock needs  *)
(* a bound.  What a poll reads, and what it does to the quota store, is    *)
(* left out: a poll ends with the wait it asks for, is cut short, or       *)
(* panics.                                                                 *)
(***************************************************************************)
EXTENDS Integers

CONSTANTS
  Requests,     \* management requests in flight
  Calls,        \* lifecycle calls in flight
  StartDelay,   \* the wait before a new loop's first poll
  PollInterval,
  ListRetryWait,
  ResetSettle,
  ResetWakeFloor,
  MinForcedPollGap,
  MaxReset      \* bound on how far ahead a window's reset lies

Free == "free"
Loop == "loop"

ASSUME PollerAssumption ==
  /\ StartDelay \in Nat /\ MaxReset \in Nat /\ MinForcedPollGap \in Nat
  /\ PollInterval \in Nat \ {0} /\ ListRetryWait \in Nat \ {0}
  /\ ResetSettle \in Nat /\ ResetWakeFloor \in Nat \ {0}
  /\ ListRetryWait <= PollInterval
  /\ Free \notin Requests \cup Calls /\ Loop \notin Requests \cup Calls
  /\ Requests \cap Calls = {}

VARIABLES
  lifeMu, pollMu,  \* the holder of each lock, Free when nobody
  poller,          \* Plugin.poller is set
  stop,            \* its stop channel is closed
  loop,            \* where the loop is, "none" when there is none
  wait,            \* the wait the loop is about to give its timer
  timer, nextPoll, gap,
  rearm,           \* a signal is in the channel
  requests,        \* where each management request is
  call,            \* where each lifecycle call is
  age,             \* history: time since a poll last completed
  up,              \* history: time since the loop was started
  first            \* history: the loop has not read yet

locks == <<lifeMu, pollMu>>
times == <<timer, nextPoll, gap>>
seen == <<age, up, first>>
vars == <<lifeMu, pollMu, poller, stop, loop, wait, timer, nextPoll, gap, rearm,
          requests, call, age, up, first>>

Lower(a, b) == IF a <= b THEN a ELSE b
Higher(a, b) == IF a >= b THEN a ELSE b

\* The shortest wait a completed poll asks for.
MinWait == Lower(ResetWakeFloor, ListRetryWait)

LongestWait == Higher(StartDelay, PollInterval)

\* nextPollWait: earliest is the time to the first reset ahead, 0 for none.
NextPollWait(earliest, interval) ==
  IF earliest = 0 THEN interval
  ELSE Lower(Higher(earliest + ResetSettle, ResetWakeFloor), interval)

\* The waits a completed poll may ask for: pollLocked returns the interval, or
\* listRetryWait when the listing failed or named no governed credential.
Waits == {NextPollWait(e, i) : e \in 0 .. MaxReset, i \in {PollInterval, ListRetryWait}}

\* untilNextPoll
UntilNextPoll == nextPoll

Init ==
  /\ lifeMu = Free /\ pollMu = Free
  /\ poller = FALSE /\ stop = FALSE /\ loop = "none" /\ wait = 0
  /\ timer = 0 /\ nextPoll = 0 /\ gap = 0 /\ rearm = FALSE
  /\ requests = [r \in Requests |-> "idle"]
  /\ call = [c \in Calls |-> "idle"]
  /\ age = MinWait /\ up = StartDelay /\ first = TRUE

Sooner(t) == IF t = 0 THEN 0 ELSE t - 1

Tick ==
  /\ timer' = Sooner(timer) /\ nextPoll' = Sooner(nextPoll) /\ gap' = Sooner(gap)
  /\ age' = Lower(age + 1, MinWait) /\ up' = Lower(up + 1, StartDelay)
  /\ UNCHANGED <<locks, poller, stop, loop, wait, rearm, requests, call, first>>

-----------------------------------------------------------------------------
(* Lifecycle calls *)

\* configure reaches startPoller; quiesce and shutdown reach stopPoller.
CallStart(c) ==
  /\ call[c] = "idle" /\ call' = [call EXCEPT ![c] = "start"]
  /\ UNCHANGED <<locks, poller, stop, loop, wait, times, rearm, requests, seen>>

CallStop(c) ==
  /\ call[c] = "idle" /\ call' = [call EXCEPT ![c] = "stop"]
  /\ UNCHANGED <<locks, poller, stop, loop, wait, times, rearm, requests, seen>>

\* A call that finds the poller as it wants it, set or not, returns at once.
ReturnAtOnce(c) ==
  /\ lifeMu = Free
  /\ call[c] = IF poller THEN "start" ELSE "stop"
  /\ call' = [call EXCEPT ![c] = "idle"]
  /\ UNCHANGED <<locks, poller, stop, loop, wait, times, rearm, requests, seen>>

\* startPoller up to its critical section on mu.
StartPoller(c) ==
  /\ call[c] = "start" /\ lifeMu = Free /\ ~poller
  /\ lifeMu' = c /\ poller' = TRUE /\ stop' = FALSE
  /\ nextPoll' = 0
  /\ call' = [call EXCEPT ![c] = "drain"]
  /\ UNCHANGED <<pollMu, loop, wait, timer, gap, rearm, requests, seen>>

\* The rest of startPoller: drain the signal, start the loop.
DrainRearm(c) ==
  /\ call[c] = "drain"
  /\ rearm' = FALSE
  /\ loop' = "load" /\ timer' = StartDelay
  /\ up' = 0 /\ first' = TRUE
  /\ lifeMu' = Free /\ call' = [call EXCEPT ![c] = "idle"]
  /\ UNCHANGED <<pollMu, poller, stop, wait, nextPoll, gap, requests, age>>

\* stopPoller closes the stop channel and waits for the loop.
StopPoller(c) ==
  /\ call[c] = "stop" /\ lifeMu = Free /\ poller
  /\ lifeMu' = c /\ stop' = TRUE
  /\ call' = [call EXCEPT ![c] = "join"]
  /\ UNCHANGED <<pollMu, poller, loop, wait, times, rearm, requests, seen>>

\* A mutation: the call does not wait for the loop.
JoinUnwaited(c) ==
  /\ call[c] = "join"
  /\ poller' = FALSE
  /\ loop' = IF loop = "done" THEN "none" ELSE loop
  /\ call' = [call EXCEPT ![c] = "save"]
  /\ UNCHANGED <<locks, stop, wait, times, rearm, requests, seen>>

Join(c) ==
  /\ call[c] = "join" /\ loop = "done"
  /\ poller' = FALSE /\ loop' = "none"
  /\ call' = [call EXCEPT ![c] = "save"]
  /\ UNCHANGED <<locks, stop, wait, times, rearm, requests, seen>>

\* The final save, under pollMu.
FinalSave(c) ==
  /\ call[c] = "save" /\ pollMu = Free
  /\ pollMu' = c /\ call' = [call EXCEPT ![c] = "saving"]
  /\ UNCHANGED <<lifeMu, poller, stop, loop, wait, times, rearm, requests, seen>>

FinalSaved(c) ==
  /\ call[c] = "saving"
  /\ pollMu' = Free /\ lifeMu' = Free /\ call' = [call EXCEPT ![c] = "idle"]
  /\ UNCHANGED <<poller, stop, loop, wait, times, rearm, requests, seen>>

-----------------------------------------------------------------------------
(* The loop: runPoller, guardedPoll and pollAndSchedule *)

\* The history is loaded under pollMu before the first poll.
LoadHistory ==
  /\ loop = "load" /\ pollMu = Free
  /\ pollMu' = Loop /\ loop' = "loading"
  /\ UNCHANGED <<lifeMu, poller, stop, wait, times, rearm, requests, call, seen>>

LoadedHistory ==
  /\ loop = "loading"
  /\ pollMu' = Free /\ loop' = "select"
  /\ UNCHANGED <<lifeMu, poller, stop, wait, times, rearm, requests, call, seen>>

\* The three branches of the select; the runtime picks any that is ready.
OnStop ==
  /\ loop = "select" /\ stop
  /\ loop' = "done"
  /\ UNCHANGED <<locks, poller, stop, wait, times, rearm, requests, call, seen>>

OnRearm ==
  /\ loop = "select" /\ rearm
  /\ rearm' = FALSE
  /\ loop' = "reset" /\ wait' = UntilNextPoll
  /\ UNCHANGED <<locks, poller, stop, times, requests, call, seen>>

OnTimer ==
  /\ loop = "select" /\ timer = 0
  /\ loop' = "lock"
  /\ UNCHANGED <<locks, poller, stop, wait, times, rearm, requests, call, seen>>

\* pollAndSchedule gets pollMu and reads, unless nextPollAt is still ahead.
Poll ==
  /\ loop = "lock" /\ pollMu = Free /\ UntilNextPoll = 0
  /\ pollMu' = Loop /\ loop' = "polling" /\ first' = FALSE
  /\ UNCHANGED <<lifeMu, poller, stop, wait, times, rearm, requests, call, age, up>>

Overtaken ==
  /\ loop = "lock" /\ pollMu = Free /\ UntilNextPoll > 0
  /\ loop' = "reset" /\ wait' = UntilNextPoll
  /\ UNCHANGED <<locks, poller, stop, times, rearm, requests, call, seen>>

\* The poll ends.  A sweep its context cut short is scheduled like any other.
Polled(w) ==
  /\ loop = "polling"
  /\ gap' = MinForcedPollGap /\ nextPoll' = w
  /\ pollMu' = Free /\ loop' = "reset" /\ wait' = w
  /\ age' = 0
  /\ UNCHANGED <<lifeMu, poller, stop, timer, rearm, requests, call, up, first>>

\* The poll panics: unwinding frees pollMu before guard recovers.
PollPanics ==
  /\ loop = "polling"
  /\ pollMu' = Free /\ loop' = "panicked"
  /\ UNCHANGED <<lifeMu, poller, stop, wait, times, rearm, requests, call, seen>>

\* A mutation: the panic ends the loop's work.
RecoverNot ==
  /\ loop = "panicked" /\ stop
  /\ loop' = "done"
  /\ UNCHANGED <<locks, poller, stop, wait, times, rearm, requests, call, seen>>

Recover ==
  /\ loop = "panicked"
  /\ nextPoll' = PollInterval
  /\ loop' = "reset" /\ wait' = PollInterval
  /\ UNCHANGED <<locks, poller, stop, timer, gap, rearm, requests, call, seen>>

ResetTimer ==
  /\ loop = "reset"
  /\ timer' = wait /\ loop' = "select" /\ wait' = 0
  /\ UNCHANGED <<locks, poller, stop, nextPoll, gap, rearm, requests, call, seen>>

-----------------------------------------------------------------------------
(* Management requests *)

\* SyncNow: one that finds pollMu held, or the gap open, returns at once.
SyncNow(r) ==
  /\ requests[r] = "idle" /\ pollMu = Free /\ gap = 0
  /\ pollMu' = r /\ gap' = MinForcedPollGap
  /\ requests' = [requests EXCEPT ![r] = "sync"]
  /\ UNCHANGED <<lifeMu, poller, stop, loop, wait, timer, nextPoll, rearm, call, seen>>

\* Its sweep was cut short, or it panicked: the schedule stands.
SyncCutShort(r) ==
  /\ requests[r] = "sync"
  /\ pollMu' = Free /\ requests' = [requests EXCEPT ![r] = "idle"]
  /\ UNCHANGED <<lifeMu, poller, stop, loop, wait, times, rearm, call, seen>>

\* Its sweep is complete and takes the place of the loop's next poll.
Synced(r, w) ==
  /\ requests[r] = "sync"
  /\ nextPoll' = w
  /\ requests' = [requests EXCEPT ![r] = "rearm"]
  /\ age' = 0
  /\ UNCHANGED <<locks, poller, stop, loop, wait, timer, gap, rearm, call, up, first>>

\* A mutation: rearmPoller takes the lifecycle lock.
RearmPollerLocking(r) ==
  /\ requests[r] = "rearm" /\ lifeMu = Free
  /\ rearm' = TRUE
  /\ pollMu' = Free /\ requests' = [requests EXCEPT ![r] = "idle"]
  /\ UNCHANGED <<lifeMu, poller, stop, loop, wait, times, call, seen>>

\* rearmPoller, then SyncNow returns and frees pollMu.
RearmPoller(r) ==
  /\ requests[r] = "rearm"
  /\ rearm' = TRUE
  /\ pollMu' = Free /\ requests' = [requests EXCEPT ![r] = "idle"]
  /\ UNCHANGED <<lifeMu, poller, stop, loop, wait, times, call, seen>>

\* refresh waits for pollMu and leaves the schedule alone.
Refresh(r) ==
  /\ requests[r] = "idle" /\ requests' = [requests EXCEPT ![r] = "refresh"]
  /\ UNCHANGED <<locks, poller, stop, loop, wait, times, rearm, call, seen>>

RefreshPoll(r) ==
  /\ requests[r] = "refresh" /\ pollMu = Free
  /\ pollMu' = r /\ requests' = [requests EXCEPT ![r] = "refreshing"]
  /\ UNCHANGED <<lifeMu, poller, stop, loop, wait, times, rearm, call, seen>>

Refreshed(r) ==
  /\ requests[r] = "refreshing"
  /\ pollMu' = Free /\ requests' = [requests EXCEPT ![r] = "idle"]
  /\ UNCHANGED <<lifeMu, poller, stop, loop, wait, times, rearm, call, seen>>

-----------------------------------------------------------------------------
LoopStep ==
  \/ LoadHistory \/ LoadedHistory \/ OnStop \/ OnRearm \/ OnTimer
  \/ Poll \/ Overtaken \/ PollPanics \/ Recover \/ ResetTimer
  \/ \E w \in Waits : Polled(w)

RequestStep(r) ==
  \/ SyncNow(r) \/ SyncCutShort(r) \/ RearmPoller(r)
  \/ Refresh(r) \/ RefreshPoll(r) \/ Refreshed(r)
  \/ \E w \in Waits : Synced(r, w)

CallStep(c) ==
  \/ CallStart(c) \/ CallStop(c) \/ ReturnAtOnce(c)
  \/ StartPoller(c) \/ DrainRearm(c)
  \/ StopPoller(c) \/ Join(c) \/ FinalSave(c) \/ FinalSaved(c)

Next ==
  \/ Tick
  \/ LoopStep
  \/ \E r \in Requests : RequestStep(r)
  \/ \E c \in Calls : CallStep(c)

(***************************************************************************)
(* Time passes; a step that can run does run.  A poll ends because its     *)
(* host calls are bounded by pollBudget or refreshTimeout.  A Go mutex     *)
(* hands itself to a goroutine that waits long enough, and a select takes  *)
(* a ready branch at random, hence the strong fairness.  Nothing obliges a *)
(* request or a call to be made, or a poll to panic or be cut short.       *)
(***************************************************************************)
Fairness ==
  /\ WF_vars(Tick)
  /\ WF_vars(LoadedHistory \/ Recover \/ ResetTimer \/ \E w \in Waits : Polled(w))
  /\ SF_vars(LoadHistory) /\ SF_vars(Poll \/ Overtaken)
  /\ SF_vars(OnStop) /\ WF_vars(OnRearm \/ OnTimer)
  /\ \A r \in Requests :
       /\ WF_vars(SyncCutShort(r) \/ (\E w \in Waits : Synced(r, w)) \/ RearmPoller(r) \/ Refreshed(r))
       /\ SF_vars(RefreshPoll(r))
  /\ \A c \in Calls :
       /\ SF_vars(ReturnAtOnce(c) \/ StartPoller(c) \/ StopPoller(c))
       /\ WF_vars(DrainRearm(c) \/ Join(c) \/ FinalSaved(c))
       /\ SF_vars(FinalSave(c))

Spec == Init /\ [][Next]_vars
FairSpec == Spec /\ Fairness

-----------------------------------------------------------------------------
(* Properties *)

LoopPlaces == {"none", "load", "loading", "select", "lock", "polling", "panicked", "reset", "done"}

\* Every variable stays within its domain; in particular no wait, and no
\* countdown the status page shows, exceeds the poll interval or start delay.
TypeOK ==
  /\ lifeMu \in Calls \cup {Free}
  /\ pollMu \in Requests \cup Calls \cup {Free, Loop}
  /\ poller \in BOOLEAN /\ stop \in BOOLEAN /\ rearm \in BOOLEAN /\ first \in BOOLEAN
  /\ loop \in LoopPlaces
  /\ wait \in 0 .. PollInterval
  /\ timer \in 0 .. LongestWait
  /\ nextPoll \in 0 .. PollInterval
  /\ gap \in 0 .. MinForcedPollGap
  /\ requests \in [Requests -> {"idle", "sync", "rearm", "refresh", "refreshing"}]
  /\ call \in [Calls -> {"idle", "start", "stop", "drain", "join", "save", "saving"}]
  /\ age \in 0 .. MinWait /\ up \in 0 .. StartDelay

\* Who is inside a section of the code that pollMu guards.
Reading ==
  {r \in Requests : requests[r] \in {"sync", "rearm", "refreshing"}}
    \cup {c \in Calls : call[c] = "saving"}
    \cup {l \in {Loop} : loop \in {"loading", "polling"}}

\* Polls are serialized so a manual refresh cannot overlap the loop (poll's
\* comment), and the final save of a stop overlaps neither: the one inside is
\* the holder of pollMu.
OneReader == Reading = {pollMu} \ {Free}

\* The stopped loop is joined: while no poller is set there is no loop, so a
\* detached plugin does not poll on and a new loop never runs beside an old one.
LoopJoined ==
  /\ ~poller => loop = "none"
  /\ \A c \in Calls : call[c] \in {"save", "saving"} => loop = "none"

\* A loop poll begins to read.
BeginsRead == loop = "lock" /\ loop' = "polling"

\* After its first, the loop reads no sooner than the shortest wait after the
\* last poll that completed, its own or a forced one: a forced read takes the
\* place of the loop's next poll, wherever the loop was when it ended.
LoopReadsSpaced == [][BeginsRead /\ ~first => age >= MinWait]_vars

\* "A new loop's first poll falls due at its start delay" (startPoller): the
\* first read of a loop comes no sooner than that.
FirstReadWaits == [][BeginsRead /\ first => up >= StartDelay]_vars

\* No lifecycle call waits for good: a stop that joins the loop returns although
\* the loop may be waiting for a forced read that is about to signal it.
CallsReturn == \A c \in Calls : call[c] # "idle" ~> call[c] = "idle"

\* While the loop is up, polls go on for good: one completes, forced or the
\* loop's own, or the loop's panics, and a loop whose poll panicked recovers.
PollsGoOn ==
  (<>[](poller /\ ~stop)) =>
    []<>(age = 0 \/ loop = "panicked") /\ []<>(loop # "panicked")
=============================================================================
