------------------------------ MODULE HostCalls -----------------------------
(***************************************************************************)
(* Calls into the host (internal/runtime/host.go).  A host callback takes  *)
(* no deadline, so invokeCtx runs it on a goroutine of its own and gives   *)
(* up on it when its context is done; callTracker counts the goroutines,   *)
(* and drain waits for them at a shutdown, up to a timeout.                *)
(*                                                                         *)
(* A call is used once.  Its goroutine is a "worker" here, whose caller is *)
(* invokeCtx's own; a line of the panic guard is logged on a worker that   *)
(* has no caller and makes a call itself.  Each critical section of the    *)
(* tracker's mutex is one step.                                            *)
(***************************************************************************)
EXTENDS Naturals, FiniteSets

CONSTANTS
  Calls,   \* the host calls of a run, log workers included
  Drains   \* the shutdowns of a run

NoOutcome == "none"

ASSUME HostCallsAssumption == NoOutcome \notin Calls /\ IsFiniteSet(Calls)

VARIABLES
  tracked, \* callTracker.live
  idle,    \* callTracker.idle, as the number of the channel made
  closed,  \* the channels closed
  worker,  \* where the goroutine of each call is
  caller,  \* where the invokeCtx of each call is
  done,    \* the buffered outcome of each call
  line,    \* the call a log worker makes
  drain    \* each drain: where it is, the channel and the calls it saw

tracker == <<tracked, idle, closed>>
hostVars == <<tracked, idle, closed, worker, caller, done, line, drain>>

HostInit ==
  /\ tracked = 0 /\ idle = 0 /\ closed = {0}
  /\ worker = [c \in Calls |-> "none"]
  /\ caller = [c \in Calls |-> "none"]
  /\ done = [c \in Calls |-> NoOutcome]
  /\ line = [c \in Calls |-> NoOutcome]
  /\ drain = [s \in Drains |-> [at |-> "none", on |-> 0, saw |-> {}]]

Running == {c \in Calls : worker[c] \notin {"none", "ended"}}

-----------------------------------------------------------------------------
(* callTracker *)

\* begin: an idle tracker gets a channel that is open.
Begin ==
  /\ idle' = IF tracked = 0 THEN idle + 1 ELSE idle
  /\ tracked' = tracked + 1 /\ closed' = closed

\* A mutation: the channel is closed at the end of every call.
EndEach ==
  /\ tracked' = tracked - 1
  /\ closed' = closed \cup {idle}
  /\ idle' = idle

\* end: the last call to return closes the channel.
End ==
  /\ tracked' = tracked - 1
  /\ closed' = IF tracked' = 0 THEN closed \cup {idle} ELSE closed
  /\ idle' = idle

-----------------------------------------------------------------------------
(* invokeCtx and spawn *)

\* Starts the call c, tracked before its goroutine runs.
InvokeCtx(c) ==
  /\ worker[c] = "none"
  /\ Begin
  /\ worker' = [worker EXCEPT ![c] = "calling"]
  /\ caller' = [caller EXCEPT ![c] = "waiting"]
  /\ UNCHANGED <<done, line, drain>>

\* The host answers, or its shim fails: the goroutine has an outcome to send.
HostReturns(c) ==
  /\ worker[c] = "calling"
  /\ worker' = [worker EXCEPT ![c] = "sending"]
  /\ UNCHANGED <<tracker, caller, done, line, drain>>

\* The call panics: invokeCtx's own recover makes it an outcome.
HostPanics(c) ==
  /\ worker[c] = "calling"
  /\ worker' = [worker EXCEPT ![c] = "ending"]
  /\ done' = [done EXCEPT ![c] = "error"]
  /\ UNCHANGED <<tracker, caller, line, drain>>

\* A mutation: the outcome waits for its reader.
SendUnbuffered(c) ==
  /\ worker[c] = "sending" /\ caller[c] = "waiting"
  /\ \E got \in {"result", "error"} : done' = [done EXCEPT ![c] = got]
  /\ worker' = [worker EXCEPT ![c] = "ending"]
  /\ UNCHANGED <<tracker, caller, line, drain>>

\* The channel has room for the one outcome, read or not.
Send(c) ==
  /\ worker[c] = "sending"
  /\ \E got \in {"result", "error"} : done' = [done EXCEPT ![c] = got]
  /\ worker' = [worker EXCEPT ![c] = "ending"]
  /\ UNCHANGED <<tracker, caller, line, drain>>

\* The deferred end of a tracked goroutine.
Ended(c) ==
  /\ worker[c] = "ending"
  /\ End
  /\ worker' = [worker EXCEPT ![c] = "ended"]
  /\ UNCHANGED <<caller, done, line, drain>>

\* The select of invokeCtx takes the outcome ...
Answered(c) ==
  /\ caller[c] = "waiting" /\ done[c] # NoOutcome
  /\ caller' = [caller EXCEPT ![c] = done[c]]
  /\ UNCHANGED <<tracker, worker, done, line, drain>>

\* ... or its context's end, leaving the goroutine to itself.
GiveUp(c) ==
  /\ caller[c] = "waiting"
  /\ caller' = [caller EXCEPT ![c] = "gave up"]
  /\ UNCHANGED <<tracker, worker, done, line, drain>>

-----------------------------------------------------------------------------
(* The panic guards of Call and guard, which log without holding their caller *)

SpawnLog(o) ==
  /\ worker[o] = "none"
  /\ Begin
  /\ worker' = [worker EXCEPT ![o] = "logging"]
  /\ UNCHANGED <<caller, done, line, drain>>

\* host.log, on that worker.
Log(o, c) ==
  /\ worker[o] = "logging" /\ worker[c] = "none"
  /\ Begin
  /\ worker' = [worker EXCEPT ![o] = "awaiting", ![c] = "calling"]
  /\ caller' = [caller EXCEPT ![c] = "waiting"]
  /\ line' = [line EXCEPT ![o] = c]
  /\ UNCHANGED <<done, drain>>

Logged(o) ==
  /\ worker[o] = "awaiting" /\ caller[line[o]] # "waiting"
  /\ worker' = [worker EXCEPT ![o] = "ending"]
  /\ UNCHANGED <<tracker, caller, done, line, drain>>

-----------------------------------------------------------------------------
(* drain *)

\* Reads the channel once, under the mutex.
DrainStart(s) ==
  /\ drain[s].at = "none"
  /\ drain' = [drain EXCEPT ![s] = [at |-> "waiting", on |-> idle, saw |-> Running]]
  /\ UNCHANGED <<tracker, worker, caller, done, line>>

DrainIdle(s) ==
  /\ drain[s].at = "waiting" /\ drain[s].on \in closed
  /\ drain' = [drain EXCEPT ![s].at = "idle"]
  /\ UNCHANGED <<tracker, worker, caller, done, line>>

DrainTimeout(s) ==
  /\ drain[s].at = "waiting"
  /\ drain' = [drain EXCEPT ![s].at = "timed out"]
  /\ UNCHANGED <<tracker, worker, caller, done, line>>

-----------------------------------------------------------------------------
HostNext ==
  \/ \E c \in Calls : InvokeCtx(c) \/ HostReturns(c) \/ HostPanics(c) \/ Send(c)
                      \/ Ended(c) \/ Answered(c) \/ GiveUp(c) \/ SpawnLog(c) \/ Logged(c)
  \/ \E o, c \in Calls : Log(o, c)
  \/ \E s \in Drains : DrainStart(s) \/ DrainIdle(s) \/ DrainTimeout(s)

HostSpec == HostInit /\ [][HostNext]_hostVars

\* Runnable goroutines run and deadlines pass; the host may never answer.
HostFairness ==
  /\ \A c \in Calls : WF_hostVars(Send(c)) /\ WF_hostVars(Ended(c)) /\ WF_hostVars(Answered(c) \/ GiveUp(c))
  /\ \A s \in Drains : WF_hostVars(DrainIdle(s) \/ DrainTimeout(s))

HostFairSpec == HostSpec /\ HostFairness

-----------------------------------------------------------------------------
(* Properties *)

\* A drain that ends before its timeout leaves none of the calls that ran when
\* it started (drain, idleC): the host may free what they use.
DrainCovers == \A s \in Drains : drain[s].at = "idle" => drain[s].saw \cap Running = {}

\* Once the host has answered, the goroutine ends, though its caller gave up.
AnsweredCallsEnd == \A c \in Calls : worker[c] = "sending" ~> worker[c] = "ended"
=============================================================================
