------------------------------- MODULE MCStop -------------------------------
(***************************************************************************)
(* A stop and what outlives it: the history file, the bindings file across *)
(* builds and processes, and the host calls a shutdown drains.  They share *)
(* no state their properties are about, so a behaviour runs one of them,   *)
(* chosen at the start, and the states of the run are the sum of theirs;   *)
(* no step of the host calls that fairness obliges can be taken before     *)
(* their first call.                                                       *)
(***************************************************************************)
EXTENDS HistoryFile, Lifecycle, HostCalls

VARIABLE part
stopVars == <<part, vars, lifecycleVars, hostVars>>

StopInit ==
  /\ part \in {"history file", "builds", "host calls"}
  /\ Init /\ LifecycleInit /\ HostInit
  /\ part # "history file" => file = Absent /\ persist

\* The host calls end with every call used.
StopNext ==
  /\ UNCHANGED part
  /\ \/ part = "history file" /\ Next /\ UNCHANGED <<lifecycleVars, hostVars>>
     \/ part = "builds" /\ LifecycleNext /\ UNCHANGED <<vars, hostVars>>
     \/ part = "host calls" /\ HostNext /\ UNCHANGED <<vars, lifecycleVars>>

StopSpec == StopInit /\ [][StopNext]_stopVars /\ HostFairness
=============================================================================
