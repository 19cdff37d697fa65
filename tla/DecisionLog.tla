----------------------------- MODULE DecisionLog ----------------------------
(***************************************************************************)
(* The ring of routing decisions (internal/runtime/decisions.go).  Every   *)
(* operation holds the log's mutex throughout, so each is one step.        *)
(***************************************************************************)
EXTENDS Integers, FiniteSets, Sequences

Seqs == INSTANCE SequencesExt

CONSTANTS
  Decisions,
  Unset,     \* the zero decision a new ring is filled with
  MaxLimit   \* bound: the largest history limit a config sets

ASSUME DecisionLogAssumption == MaxLimit \in Nat \ {0} /\ Unset \notin Decisions

VARIABLES
  entries,  \* the ring, a function on 0..size-1
  next,     \* where the next decision goes
  full      \* the ring has wrapped

logVars == <<entries, next, full>>

Size == Cardinality(DOMAIN entries)

\* A limit of zero or less keeps one decision.
Capacity(limit) == IF limit <= 0 THEN 1 ELSE limit

LogInit ==
  /\ \E limit \in 0..MaxLimit : entries = [i \in 0..(Capacity(limit) - 1) |-> Unset]
  /\ next = 0 /\ full = FALSE

Add(d) ==
  /\ entries' = [entries EXCEPT ![next] = d]
  /\ next' = (next + 1) % Size
  /\ full' = (full \/ next' = 0)

\* newestFirst, and newestFirstLocked which it wraps.
NewestFirst ==
  [i \in 1..(IF full THEN Size ELSE next) |-> entries[(next - i + Size) % Size]]

\* A mutation: the oldest decisions survive a smaller limit.
KeptOldest(n) ==
  IF Len(NewestFirst) > n
  THEN SubSeq(NewestFirst, Len(NewestFirst) - n + 1, Len(NewestFirst))
  ELSE NewestFirst

\* What a resize keeps.
Survivors(n) == IF Len(NewestFirst) > n THEN SubSeq(NewestFirst, 1, n) ELSE NewestFirst

\* A resize to the current capacity returns early; another refills a new ring,
\* oldest kept decision first.
Resize(limit) ==
  LET n == Capacity(limit)
      old == Seqs!Reverse(Survivors(n))
  IN  /\ n # Size
      /\ entries' = [i \in 0..(n - 1) |-> IF i < Len(old) THEN old[i + 1] ELSE Unset]
      /\ next' = Len(old) % n
      /\ full' = (Len(old) = n)

LogNext ==
  \/ \E d \in Decisions : Add(d)
  \/ \E limit \in 0..MaxLimit : Resize(limit)

LogSpec == LogInit /\ [][LogNext]_logVars

-----------------------------------------------------------------------------
(* Properties *)

List == INSTANCE DecisionList WITH kept <- NewestFirst, limit <- Size

\* The ring shows a reader the newest decisions its limit keeps, newest first,
\* through every wrap and every resize up or down.
ImplementsList == List!Spec
=============================================================================
