---------------------------- MODULE DecisionList ----------------------------
(***************************************************************************)
(* What the decision log promises its readers: the newest decisions, the   *)
(* newest first, as many as the configured limit keeps                     *)
(* (internal/runtime/decisions.go, the comments of add, newestFirst and    *)
(* resize).                                                                *)
(***************************************************************************)
EXTENDS Sequences, Integers

CONSTANTS Decisions, MaxLimit

VARIABLES kept, limit

\* The n newest of a list that is newest first.
Newest(s, n) == SubSeq(s, 1, IF Len(s) < n THEN Len(s) ELSE n)

Init == kept = <<>> /\ limit \in 1..MaxLimit

Add(d) == kept' = Newest(<<d>> \o kept, limit) /\ UNCHANGED limit

Resize(n) == limit' = n /\ kept' = Newest(kept, n)

Next == (\E d \in Decisions : Add(d)) \/ (\E n \in 1..MaxLimit : Resize(n))

Spec == Init /\ [][Next]_<<kept, limit>>
=============================================================================
