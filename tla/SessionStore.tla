---------------------------- MODULE SessionStore ----------------------------
(***************************************************************************)
(* The Store of internal/session/store.go as concurrent picks, the poller, *)
(* the status page and the management routes drive it.  A method is atomic *)
(* under Store.mu, but its caller read the clock before it took the lock:  *)
(* a method may run with a `now` up to MaxLag behind the clock, and after  *)
(* a method that ran with a later one.                                     *)
(***************************************************************************)
EXTENDS SessionTable

CONSTANTS
  MaxLag,      \* how long a caller may wait between its clock and the lock
  Birth,       \* the instant the table was created
  MaxClock,    \* bound on the clock
  SavedFiles   \* the bindings files an earlier run may have left

ASSUME TimeAssumption ==
  /\ MaxLag \in Nat
  /\ Birth \in Int
  /\ MaxClock \in Int

\* A binding as the file holds it.
SavedBindings == [key : Keys, auth : Auths, boundAt : Int, lastSeen : Int]

ASSUME SavedAssumption == \A f \in SavedFiles : f \in Seq(SavedBindings)

VARIABLES
  table,        \* the Store
  clock,        \* wall clock
  unrestored    \* the bindings file not yet restored, <<>> once it is

vars == <<table, clock, unrestored>>

\* The instants a caller whose method runs now may have read.
Nows == (clock - MaxLag) .. clock

Init ==
  /\ table = NewStore
  /\ clock = Birth
  /\ unrestored \in SavedFiles

Lookup(k, now) ==
  /\ table' = Looked(table, k, now)
  /\ UNCHANGED <<clock, unrestored>>

Bind(k, a, now) ==
  /\ table' = Bound(table, k, a, now)
  /\ UNCHANGED <<clock, unrestored>>

(***************************************************************************)
(* restoreBindings files the saved bindings into the table it has just     *)
(* created.  A pick may already have bound into that table; the bindings   *)
(* of an earlier run were then last seen before the table was created.  A  *)
(* file stamped ahead of this clock (the machine's clock stepped back) is  *)
(* considered only on the quiet start the code documents.                  *)
(***************************************************************************)
Restore(now) ==
  /\ now >= Birth
  /\ unrestored # <<>>
  /\ \/ Held(table) = {}
     \/ \A i \in DOMAIN unrestored : unrestored[i].lastSeen <= Birth
  /\ table' = Restored(table, unrestored, now)
  /\ unrestored' = <<>>
  /\ UNCHANGED clock

Drop(a) ==
  /\ table' = DropAuth(table, a)
  /\ UNCHANGED <<clock, unrestored>>

Sweep(now) ==
  /\ table' = Swept(table, now)
  /\ UNCHANGED <<clock, unrestored>>

Tick ==
  /\ clock < MaxClock
  /\ clock' = clock + 1
  /\ UNCHANGED <<table, unrestored>>

Next ==
  \/ \E now \in Nows : \/ \E k \in Keys : Lookup(k, now)
                       \/ \E k \in Keys, a \in Auths : Bind(k, a, now)
                       \/ Restore(now)
                       \/ Sweep(now)
  \/ \E a \in Auths : Drop(a)
  \/ Tick

Spec == Init /\ [][Next]_vars

-----------------------------------------------------------------------------
(***************************************************************************)
(* Properties.                                                             *)
(***************************************************************************)

\* The order is a strict total order on the keys held.
StrictOrder(t) ==
  /\ t.ahead \subseteq Held(t) \X Held(t)
  /\ \A x \in Held(t) : <<x, x>> \notin t.ahead
  /\ \A x, y \in Held(t) : x # y => (<<x, y>> \in t.ahead <=> <<y, x>> \notin t.ahead)
  /\ \A x, y, z \in Held(t) :
       <<x, y>> \in t.ahead /\ <<y, z>> \in t.ahead => <<x, z>> \in t.ahead

TableOK(t) ==
  /\ t = [index |-> t.index, ahead |-> t.ahead, counts |-> t.counts]
  /\ Held(t) \subseteq Keys
  /\ t.index = [k \in Held(t) |-> t.index[k]]
  /\ \A k \in Held(t) : t.index[k] \in Bindings
  /\ StrictOrder(t)
  /\ t.counts \in [Auths -> Nat]

\* Type invariant: the index is a partial function to bindings and the access
\* order is a list of exactly the keys the index holds.
TypeOK ==
  /\ TableOK(table)
  /\ clock \in Int
  /\ unrestored \in SavedFiles \cup {<<>>}

\* The tally each removal and each insertion adjusts ("the tally cannot drift",
\* remove) is the number of bindings every credential holds.
TallyExact ==
  \A a \in Auths : table.counts[a] = Cardinality(HeldBy(table, a))

\* The table never holds more bindings than its cap, whichever of Bind and
\* Restore filled it.
WithinCap ==
  MaxSessions > 0 => Cardinality(Held(table)) <= MaxSessions

\* The access order is monotonic in lastSeen only to within the gap between a
\* pick's clock and its lock (sweepSlack's comment): a binding nearer the back
\* was seen at most MaxLag after one nearer the front, and none in the future.
OrderSkew ==
  /\ \A k \in Held(table) : table.index[k].lastSeen <= clock
  /\ \A x, y \in Held(table) :
       <<x, y>> \in table.ahead
         => table.index[y].lastSeen <= table.index[x].lastSeen + MaxLag

\* In every state a Sweep leaves no binding idle past the TTL by more than the
\* order can be out of step beyond sweepSlack; with MaxLag at most SweepSlack it
\* removes every expired binding, although it stops at the first recent one.
SweepComplete ==
  \A now \in Nows : TTL > 0 =>
    \A k \in Held(Swept(table, now)) :
      now - table.index[k].lastSeen <= TTL + Floor(MaxLag - SweepSlack)

=============================================================================
