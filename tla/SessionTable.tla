---------------------------- MODULE SessionTable ----------------------------
(***************************************************************************)
(* The binding table of internal/session/store.go as a value, and what     *)
(* each method of Store makes of it.  A table is a record                  *)
(*   index  : the partial function from a table key to its binding;        *)
(*   ahead  : the access order, <<x, y>> when x is nearer the front (more  *)
(*            recently touched) than y: the doubly linked list Store.order;*)
(*   counts : Store.counts, 0 standing for an absent map entry.            *)
(*                                                                         *)
(* A table key stands for provider|model|session as indexKey composes it.  *)
(* An empty session key returns from Lookup and Bind before the lock is    *)
(* taken, so it never reaches a table.  Binding.Hits, which only the       *)
(* status page reads, is left out.                                         *)
(*                                                                         *)
(* Every method holds the lock for the whole of its work, so it is one     *)
(* function from table to table.  The instant `now` is its argument: the   *)
(* caller reads its clock before the lock is taken.                        *)
(***************************************************************************)
EXTENDS Integers, FiniteSets, Sequences

CONSTANTS
  Keys,         \* table keys
  Auths,        \* credential ids
  TTL,          \* Affinity.TTL, 0 disables expiry
  MaxSessions,  \* Affinity.MaxSessions, 0 disables the cap
  SweepSlack    \* the constant sweepSlack

ASSUME TableAssumption ==
  /\ IsFiniteSet(Keys)
  /\ TTL \in Nat
  /\ MaxSessions \in Nat
  /\ SweepSlack \in Nat

Bindings == [auth : Auths, boundAt : Int, lastSeen : Int]

NewStore ==
  [index |-> [k \in {} |-> k], ahead |-> {}, counts |-> [a \in Auths |-> 0]]

Held(t) == DOMAIN t.index

\* The keys of t bound to a credential.
HeldBy(t, a) == {k \in Held(t) : t.index[k].auth = a}

\* A key and everything nearer the back than it.
Behind(t, k) == {x \in Held(t) : x = k \/ <<k, x>> \in t.ahead}

Expired(b, now) == TTL > 0 /\ now - b.lastSeen > TTL

(***************************************************************************)
(* remove, for every key of a set: out of the order, the index and the     *)
(* tally, whose entry is deleted when it falls to zero.                    *)
(***************************************************************************)
Floor(n) == IF n > 0 THEN n ELSE 0

\* A mutation: the tally is left as it was.
RemoveUntallied(t, gone) ==
  [index  |-> [k \in Held(t) \ gone |-> t.index[k]],
   ahead  |-> {p \in t.ahead : p[1] \notin gone /\ p[2] \notin gone},
   counts |-> t.counts]

RemoveKeys(t, gone) ==
  [index  |-> [k \in Held(t) \ gone |-> t.index[k]],
   ahead  |-> {p \in t.ahead : p[1] \notin gone /\ p[2] \notin gone},
   counts |-> [a \in Auths |->
                 Floor(t.counts[a] - Cardinality(HeldBy(t, a) \cap gone))]]

\* MoveToFront of a held key whose binding becomes b.
Touch(t, k, b) ==
  [index  |-> [t.index EXCEPT ![k] = b],
   ahead  |-> {p \in t.ahead : p[2] # k} \cup {<<k, x>> : x \in Held(t) \ {k}},
   counts |-> t.counts]

\* PushFront of a key the table does not hold.
PushFront(t, k, b) ==
  [index  |-> [x \in Held(t) \cup {k} |-> IF x = k THEN b ELSE t.index[x]],
   ahead  |-> t.ahead \cup {<<k, x>> : x \in Held(t)},
   counts |-> [t.counts EXCEPT ![b.auth] = @ + 1]]

(***************************************************************************)
(* evict: the back of the order goes until the table is within the cap, so *)
(* what stays is every key with fewer than MaxSessions keys ahead of it.   *)
(***************************************************************************)
Overflow(t) ==
  {k \in Held(t) :
     Cardinality({x \in Held(t) : <<x, k>> \in t.ahead}) >= MaxSessions}

Evict(t) == IF MaxSessions > 0 THEN RemoveKeys(t, Overflow(t)) ELSE t

(***************************************************************************)
(* Lookup: Hit says whether a binding is returned, Looked is the table     *)
(* afterwards.  An expired binding is dropped; a live one is refreshed.    *)
(***************************************************************************)
Hit(t, k, now) == k \in Held(t) /\ ~Expired(t.index[k], now)

Looked(t, k, now) ==
  IF Hit(t, k, now)
    THEN Touch(t, k, [t.index[k] EXCEPT !.lastSeen = now])
    ELSE RemoveKeys(t, {k} \cap Held(t))

(***************************************************************************)
(* Bind: the same live credential is refreshed in place; anything else is  *)
(* removed and a new binding pushed to the front, then the cap applies.    *)
(***************************************************************************)
Bound(t, k, a, now) ==
  IF Hit(t, k, now) /\ t.index[k].auth = a
    THEN Touch(t, k, [t.index[k] EXCEPT !.lastSeen = now])
    ELSE Evict(PushFront(RemoveKeys(t, {k} \cap Held(t)), k,
                         [auth |-> a, boundAt |-> now, lastSeen |-> now]))

(***************************************************************************)
(* Restore: saved is the file's list, each element [key, auth, boundAt,    *)
(* lastSeen].  It is sorted by lastSeen, newest first and stable; the      *)
(* first admissible element for each key the table does not hold is pushed *)
(* to the back; then the cap applies.                                      *)
(***************************************************************************)
SortsBefore(saved, i, j) ==
  \/ saved[i].lastSeen > saved[j].lastSeen
  \/ saved[i].lastSeen = saved[j].lastSeen /\ i < j

Kept(t, saved, now) ==
  {i \in DOMAIN saved :
     /\ saved[i].lastSeen <= now
     /\ saved[i].key \notin Held(t)
     /\ ~Expired(saved[i], now)
     /\ \A j \in DOMAIN saved :
          saved[j].key = saved[i].key /\ saved[j].lastSeen <= now /\ j # i
            => SortsBefore(saved, i, j)}

PushBack(t, saved, kept) ==
  LET new == {saved[i].key : i \in kept}
      at(k) == CHOOSE i \in kept : saved[i].key = k
  IN  [index  |-> [k \in Held(t) \cup new |->
                     IF k \in new
                       THEN [auth |-> saved[at(k)].auth,
                             boundAt |-> saved[at(k)].boundAt,
                             lastSeen |-> saved[at(k)].lastSeen]
                       ELSE t.index[k]],
       ahead  |-> t.ahead \cup (Held(t) \X new)
                    \cup {p \in new \X new : SortsBefore(saved, at(p[1]), at(p[2]))},
       counts |-> [a \in Auths |->
                     t.counts[a] + Cardinality({i \in kept : saved[i].auth = a})]]

Restored(t, saved, now) == Evict(PushBack(t, saved, Kept(t, saved, now)))

DropAuth(t, a) == RemoveKeys(t, HeldBy(t, a))

(***************************************************************************)
(* Sweep: the walk from the back visits a key when nothing from it to the  *)
(* back stops the walk, and removes the expired ones it visits.            *)
(***************************************************************************)
\* A mutation: the walk stops at the first live binding, with no slack.
StopsSweepAtLive(b, now) == now - b.lastSeen <= TTL

StopsSweep(b, now) == now - b.lastSeen <= TTL - SweepSlack

Swept(t, now) ==
  IF TTL = 0 THEN t
  ELSE RemoveKeys(t, {k \in Held(t) :
                    /\ Expired(t.index[k], now)
                    /\ \A x \in Behind(t, k) : ~StopsSweep(t.index[x], now)})

(***************************************************************************)
(* CountByAuth: the tally less the run of expired bindings at the back.    *)
(***************************************************************************)
ExpiredTail(t, now) ==
  {k \in Held(t) : \A x \in Behind(t, k) : Expired(t.index[x], now)}

CountByAuth(t, now) ==
  [a \in Auths |->
     Floor(t.counts[a] - Cardinality(HeldBy(t, a) \cap ExpiredTail(t, now)))]
=============================================================================
