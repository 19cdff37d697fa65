------------------------- MODULE SessionStoreProofs -------------------------
(***************************************************************************)
(* What SessionStore promises, for every set of keys and credentials, TTL, *)
(* cap, slack and lag.  One lemma per operation of the table says what it  *)
(* preserves; the theorems combine them over the steps.                    *)
(***************************************************************************)
EXTENDS SessionStore, FiniteSetTheorems, TLAPS

\* The part of OrderSkew that is about one table.
Skew(t) ==
  \A x, y \in Held(t) :
    <<x, y>> \in t.ahead => t.index[y].lastSeen <= t.index[x].lastSeen + MaxLag

\* Every binding was seen at or before c.
SeenBy(t, c) == \A k \in Held(t) : t.index[k].lastSeen <= c

-----------------------------------------------------------------------------
(* The sets the table counts are finite. *)

LEMMA FiniteHeld ==
  ASSUME NEW t, TableOK(t), NEW S \in SUBSET Held(t)
  PROVE  IsFiniteSet(S) /\ Cardinality(S) \in Nat
<1>1. S \in SUBSET Keys
  BY DEF TableOK
<1>2. IsFiniteSet(Keys)
  BY TableAssumption
<1>3. IsFiniteSet(S)
  BY <1>1, <1>2, FS_Subset
<1> QED
  BY <1>3, FS_CardinalityType

LEMMA FloorNat ==
  ASSUME NEW n \in Int
  PROVE  Floor(n) \in Nat /\ (n \in Nat => Floor(n) = n)
BY DEF Floor

-----------------------------------------------------------------------------
(* RemoveKeys *)

LEMMA RemoveOK ==
  ASSUME NEW t, TableOK(t), NEW gone
  PROVE  /\ TableOK(RemoveKeys(t, gone))
         /\ Held(RemoveKeys(t, gone)) = Held(t) \ gone
         /\ \A k \in Held(t) \ gone : RemoveKeys(t, gone).index[k] = t.index[k]
         /\ RemoveKeys(t, gone).ahead = {p \in t.ahead : p[1] \notin gone /\ p[2] \notin gone}
<1> DEFINE r == RemoveKeys(t, gone)
<1>1. /\ r.index = [k \in Held(t) \ gone |-> t.index[k]]
      /\ r.ahead = {p \in t.ahead : p[1] \notin gone /\ p[2] \notin gone}
      /\ r.counts = [a \in Auths |->
                       Floor(t.counts[a] - Cardinality(HeldBy(t, a) \cap gone))]
      /\ r = [index |-> r.index, ahead |-> r.ahead, counts |-> r.counts]
  BY DEF RemoveKeys
<1>2. Held(r) = Held(t) \ gone
  BY <1>1 DEF Held
<1>3. \A k \in Held(t) \ gone : r.index[k] = t.index[k]
  BY <1>1
<1>4. r.counts \in [Auths -> Nat]
  <2>1. SUFFICES ASSUME NEW a \in Auths
                 PROVE  Floor(t.counts[a] - Cardinality(HeldBy(t, a) \cap gone)) \in Nat
    BY <1>1
  <2>2. HeldBy(t, a) \cap gone \in SUBSET Held(t)
    BY DEF HeldBy
  <2>3. Cardinality(HeldBy(t, a) \cap gone) \in Nat
    BY <2>2, FiniteHeld
  <2>4. t.counts[a] \in Nat
    BY DEF TableOK
  <2> QED
    BY <2>3, <2>4, FloorNat
<1>5. StrictOrder(r)
  <2>1. r.ahead \subseteq Held(r) \X Held(r)
    BY <1>1, <1>2 DEF TableOK, StrictOrder
  <2> QED
    BY <2>1, <1>1, <1>2 DEF TableOK, StrictOrder
<1>6. TableOK(r)
  BY <1>1, <1>2, <1>3, <1>4, <1>5 DEF TableOK
<1> QED
  BY <1>1, <1>2, <1>3, <1>6

LEMMA RemoveSkew ==
  ASSUME NEW t, TableOK(t), NEW gone, NEW c \in Int, Skew(t), SeenBy(t, c)
  PROVE  Skew(RemoveKeys(t, gone)) /\ SeenBy(RemoveKeys(t, gone), c)
BY RemoveOK DEF Skew, SeenBy

-----------------------------------------------------------------------------
(* Touch *)

LEMMA TouchOK ==
  ASSUME NEW t, TableOK(t), NEW k \in Held(t), NEW b \in Bindings
  PROVE  /\ TableOK(Touch(t, k, b))
         /\ Held(Touch(t, k, b)) = Held(t)
         /\ Touch(t, k, b).index[k] = b
         /\ \A x \in Held(t) \ {k} : Touch(t, k, b).index[x] = t.index[x]
         /\ Touch(t, k, b).ahead = {p \in t.ahead : p[2] # k}
                                     \cup {<<k, x>> : x \in Held(t) \ {k}}
         /\ Touch(t, k, b).counts = t.counts
<1> DEFINE r == Touch(t, k, b)
<1>1. /\ r.index = [t.index EXCEPT ![k] = b]
      /\ r.ahead = {p \in t.ahead : p[2] # k} \cup {<<k, x>> : x \in Held(t) \ {k}}
      /\ r.counts = t.counts
      /\ r = [index |-> r.index, ahead |-> r.ahead, counts |-> r.counts]
  BY DEF Touch
<1>2. /\ Held(r) = Held(t)
      /\ r.index = [x \in Held(r) |-> r.index[x]]
      /\ r.index[k] = b
      /\ \A x \in Held(t) \ {k} : r.index[x] = t.index[x]
  BY <1>1 DEF Held, TableOK
<1>3. StrictOrder(r)
  <2>1. r.ahead \subseteq Held(r) \X Held(r)
    BY <1>1, <1>2 DEF TableOK, StrictOrder
  <2>2. \A x, y \in Held(r) : <<x, y>> \in r.ahead
          <=> \/ x = k /\ y # k
              \/ y # k /\ <<x, y>> \in t.ahead
    BY <1>1, <1>2
  <2> QED
    BY <2>1, <2>2, <1>2 DEF TableOK, StrictOrder
<1>4. TableOK(r)
  BY <1>1, <1>2, <1>3 DEF TableOK
<1> QED
  BY <1>1, <1>2, <1>4

LEMMA TouchSkew ==
  ASSUME NEW t, TableOK(t), NEW k \in Held(t), NEW b \in Bindings,
         NEW c \in Int, Skew(t), SeenBy(t, c),
         b.lastSeen <= c, c <= b.lastSeen + MaxLag
  PROVE  Skew(Touch(t, k, b)) /\ SeenBy(Touch(t, k, b), c)
<1> DEFINE r == Touch(t, k, b)
<1>1. /\ Held(r) = Held(t)
      /\ r.index[k] = b
      /\ \A x \in Held(t) \ {k} : r.index[x] = t.index[x]
      /\ r.ahead = {p \in t.ahead : p[2] # k} \cup {<<k, x>> : x \in Held(t) \ {k}}
  BY TouchOK
<1> HIDE DEF r
<1>2. /\ \A x \in Held(t) : t.index[x].lastSeen \in Int
      /\ b.lastSeen \in Int
      /\ MaxLag \in Nat
  BY TimeAssumption DEF TableOK, Bindings
<1>3. SeenBy(r, c)
  BY <1>1, <1>2 DEF SeenBy
<1>4. ASSUME NEW x \in Held(r), NEW y \in Held(r), <<x, y>> \in r.ahead
      PROVE  r.index[y].lastSeen <= r.index[x].lastSeen + MaxLag
  <2>1. y # k /\ (x = k \/ <<x, y>> \in t.ahead)
    BY <1>1, <1>4
  <2>2. CASE x = k
    BY <2>1, <2>2, <1>1, <1>2 DEF SeenBy
  <2>3. CASE x # k
    BY <2>1, <2>3, <1>1, <1>2 DEF Skew
  <2> QED
    BY <2>2, <2>3
<1> QED
  BY <1>3, <1>4 DEF r, Skew

-----------------------------------------------------------------------------
(* PushFront *)

LEMMA PushFrontOK ==
  ASSUME NEW t, TableOK(t), NEW k \in Keys \ Held(t), NEW b \in Bindings
  PROVE  /\ TableOK(PushFront(t, k, b))
         /\ Held(PushFront(t, k, b)) = Held(t) \cup {k}
         /\ PushFront(t, k, b).index[k] = b
         /\ \A x \in Held(t) : PushFront(t, k, b).index[x] = t.index[x]
         /\ PushFront(t, k, b).ahead = t.ahead \cup {<<k, x>> : x \in Held(t)}
         /\ PushFront(t, k, b).counts = [t.counts EXCEPT ![b.auth] = @ + 1]
<1> DEFINE r == PushFront(t, k, b)
<1>1. /\ r.index = [x \in Held(t) \cup {k} |-> IF x = k THEN b ELSE t.index[x]]
      /\ r.ahead = t.ahead \cup {<<k, x>> : x \in Held(t)}
      /\ r.counts = [t.counts EXCEPT ![b.auth] = @ + 1]
      /\ r = [index |-> r.index, ahead |-> r.ahead, counts |-> r.counts]
  BY DEF PushFront
<1>2. /\ Held(r) = Held(t) \cup {k}
      /\ r.index = [x \in Held(r) |-> r.index[x]]
      /\ r.index[k] = b
      /\ \A x \in Held(t) : r.index[x] = t.index[x]
  BY <1>1 DEF Held
<1>3. StrictOrder(r)
  <2>1. r.ahead \subseteq Held(r) \X Held(r)
    BY <1>1, <1>2 DEF TableOK, StrictOrder
  <2>2. \A x, y \in Held(r) : <<x, y>> \in r.ahead
          <=> \/ x = k /\ y # k
              \/ <<x, y>> \in t.ahead
    BY <1>1, <1>2
  <2> QED
    BY <2>1, <2>2, <1>2 DEF TableOK, StrictOrder
<1>4. r.counts \in [Auths -> Nat]
  BY <1>1 DEF TableOK, Bindings
<1>5. TableOK(r)
  BY <1>1, <1>2, <1>3, <1>4 DEF TableOK
<1> QED
  BY <1>1, <1>2, <1>5

LEMMA PushFrontSkew ==
  ASSUME NEW t, TableOK(t), NEW k \in Keys \ Held(t), NEW b \in Bindings,
         NEW c \in Int, Skew(t), SeenBy(t, c),
         b.lastSeen <= c, c <= b.lastSeen + MaxLag
  PROVE  Skew(PushFront(t, k, b)) /\ SeenBy(PushFront(t, k, b), c)
<1> DEFINE r == PushFront(t, k, b)
<1>1. /\ Held(r) = Held(t) \cup {k}
      /\ r.index[k] = b
      /\ \A x \in Held(t) : r.index[x] = t.index[x]
  BY DEF PushFront, Held
<1>0. /\ r.ahead = t.ahead \cup {<<k, x>> : x \in Held(t)}
      /\ t.ahead \subseteq Held(t) \X Held(t)
  BY DEF PushFront, TableOK, StrictOrder
<1> HIDE DEF r
<1>2. /\ \A x \in Held(t) : t.index[x].lastSeen \in Int
      /\ b.lastSeen \in Int
      /\ MaxLag \in Nat
  BY TimeAssumption DEF TableOK, Bindings
<1>3. SeenBy(r, c)
  BY <1>1, <1>2 DEF SeenBy
<1>4. ASSUME NEW x \in Held(r), NEW y \in Held(r), <<x, y>> \in r.ahead
      PROVE  r.index[y].lastSeen <= r.index[x].lastSeen + MaxLag
  <2>1. y \in Held(t) /\ (x = k \/ (x \in Held(t) /\ <<x, y>> \in t.ahead))
    BY <1>0, <1>1, <1>4
  <2>2. CASE x = k
    BY <2>1, <2>2, <1>1, <1>2 DEF SeenBy
  <2>3. CASE x \in Held(t) /\ <<x, y>> \in t.ahead
    BY <2>1, <2>3, <1>1, <1>2 DEF Skew
  <2> QED
    BY <2>1, <2>2, <2>3
<1> QED
  BY <1>3, <1>4 DEF r, Skew

-----------------------------------------------------------------------------
(* The tally *)

Tally(t) == \A a \in Auths : t.counts[a] = Cardinality(HeldBy(t, a))

LEMMA RemoveTally ==
  ASSUME NEW t, TableOK(t), NEW gone, Tally(t)
  PROVE  Tally(RemoveKeys(t, gone))
<1> DEFINE r == RemoveKeys(t, gone)
<1>1. SUFFICES ASSUME NEW a \in Auths
               PROVE  r.counts[a] = Cardinality(HeldBy(r, a))
  BY DEF Tally
<1>2. r.counts[a] = Floor(t.counts[a] - Cardinality(HeldBy(t, a) \cap gone))
  BY DEF RemoveKeys
<1>3. HeldBy(r, a) = HeldBy(t, a) \ gone
  BY RemoveOK DEF HeldBy
<1>4. HeldBy(t, a) \in SUBSET Held(t)
  BY DEF HeldBy
<1>5. IsFiniteSet(HeldBy(t, a))
  BY <1>4, FiniteHeld
<1>6. Cardinality(HeldBy(t, a) \ gone)
        = Cardinality(HeldBy(t, a)) - Cardinality(HeldBy(t, a) \cap gone)
  BY <1>5, FS_Difference
<1>7. HeldBy(t, a) \ gone \in SUBSET Held(t)
  BY <1>4
<1>8. Cardinality(HeldBy(t, a) \ gone) \in Nat
  BY <1>7, FiniteHeld
<1> QED
  BY <1>2, <1>3, <1>6, <1>8, FloorNat DEF Tally

LEMMA TouchTally ==
  ASSUME NEW t, TableOK(t), NEW k \in Held(t), NEW b \in Bindings,
         b.auth = t.index[k].auth, Tally(t)
  PROVE  Tally(Touch(t, k, b))
<1> DEFINE r == Touch(t, k, b)
<1>1. /\ Held(r) = Held(t)
      /\ r.index[k] = b
      /\ \A x \in Held(t) \ {k} : r.index[x] = t.index[x]
      /\ r.counts = t.counts
  BY TouchOK
<1> HIDE DEF r
<1>2. \A a \in Auths : HeldBy(r, a) = HeldBy(t, a)
  BY <1>1 DEF HeldBy
<1> QED
  BY <1>1, <1>2 DEF Tally, r

LEMMA PushFrontTally ==
  ASSUME NEW t, TableOK(t), NEW k \in Keys \ Held(t), NEW b \in Bindings, Tally(t)
  PROVE  Tally(PushFront(t, k, b))
<1> DEFINE r == PushFront(t, k, b)
<1>1. /\ Held(r) = Held(t) \cup {k}
      /\ r.index[k] = b
      /\ \A x \in Held(t) : r.index[x] = t.index[x]
      /\ r.counts = [t.counts EXCEPT ![b.auth] = @ + 1]
  BY PushFrontOK
<1> HIDE DEF r
<1>2. SUFFICES ASSUME NEW a \in Auths
               PROVE  r.counts[a] = Cardinality(HeldBy(r, a))
  BY DEF Tally, r
<1>3. /\ t.counts \in [Auths -> Nat]
      /\ b.auth \in Auths
      /\ t.counts[a] = Cardinality(HeldBy(t, a))
  BY DEF TableOK, Bindings, Tally
<1>4. HeldBy(t, a) \in SUBSET Held(t)
  BY DEF HeldBy
<1>5. IsFiniteSet(HeldBy(t, a)) /\ k \notin HeldBy(t, a)
  BY <1>4, FiniteHeld
<1>6. CASE b.auth = a
  <2>1. HeldBy(r, a) = HeldBy(t, a) \cup {k}
    BY <1>1, <1>6 DEF HeldBy
  <2>2. Cardinality(HeldBy(t, a) \cup {k}) = Cardinality(HeldBy(t, a)) + 1
    BY <1>5, FS_AddElement
  <2> QED
    BY <2>1, <2>2, <1>1, <1>3, <1>6
<1>7. CASE b.auth # a
  <2>1. HeldBy(r, a) = HeldBy(t, a)
    BY <1>1, <1>7 DEF HeldBy
  <2> QED
    BY <2>1, <1>1, <1>3, <1>7
<1> QED
  BY <1>6, <1>7

-----------------------------------------------------------------------------
(* The cap.  The number of keys ahead of a key is an injection of the keys *)
(* that survive an eviction into 0 .. MaxSessions - 1.                     *)

Cap(t) == MaxSessions > 0 => Cardinality(Held(t)) <= MaxSessions

AheadOf(t, k) == {x \in Held(t) : <<x, k>> \in t.ahead}

LEMMA RankInjective ==
  ASSUME NEW t, TableOK(t), NEW x \in Held(t), NEW y \in Held(t), <<x, y>> \in t.ahead
  PROVE  Cardinality(AheadOf(t, x)) < Cardinality(AheadOf(t, y))
<1>1. AheadOf(t, y) \in SUBSET Held(t) /\ AheadOf(t, x) \in SUBSET Held(t)
  BY DEF AheadOf
<1>2. AheadOf(t, x) \in SUBSET AheadOf(t, y)
  BY DEF AheadOf, TableOK, StrictOrder
<1>3. x \in AheadOf(t, y) /\ x \notin AheadOf(t, x)
  BY DEF AheadOf, TableOK, StrictOrder
<1>4. /\ IsFiniteSet(AheadOf(t, y))
      /\ Cardinality(AheadOf(t, x)) \in Nat
      /\ Cardinality(AheadOf(t, y)) \in Nat
  BY <1>1, FiniteHeld
<1>5. /\ Cardinality(AheadOf(t, x)) <= Cardinality(AheadOf(t, y))
      /\ Cardinality(AheadOf(t, y)) = Cardinality(AheadOf(t, x))
           => AheadOf(t, y) = AheadOf(t, x)
  BY <1>2, <1>4, FS_Subset
<1> QED
  BY <1>3, <1>4, <1>5

LEMMA EvictCap ==
  ASSUME NEW t, TableOK(t)
  PROVE  Cap(Evict(t))
<1>1. SUFFICES ASSUME MaxSessions > 0
               PROVE  Cardinality(Held(RemoveKeys(t, Overflow(t)))) <= MaxSessions
  BY DEF Cap, Evict
<1> DEFINE S == Held(t) \ Overflow(t)
           T == 0 .. (MaxSessions - 1)
           f == [k \in S |-> Cardinality(AheadOf(t, k))]
<1>2. MaxSessions \in Nat
  BY TableAssumption
<1>3. \A k \in S : Cardinality(AheadOf(t, k)) \in T
  <2>1. SUFFICES ASSUME NEW k \in S
                 PROVE  Cardinality(AheadOf(t, k)) \in T
    OBVIOUS
  <2>2. AheadOf(t, k) \in SUBSET Held(t)
    BY DEF AheadOf
  <2>3. Cardinality(AheadOf(t, k)) \in Nat
    BY <2>2, FiniteHeld
  <2>4. ~(Cardinality(AheadOf(t, k)) >= MaxSessions)
    BY DEF Overflow, AheadOf
  <2> QED
    BY <2>3, <2>4, <1>2
<1>4. \A x, y \in S : x # y => f[x] # f[y]
  <2>1. SUFFICES ASSUME NEW x \in S, NEW y \in S, x # y
                 PROVE  Cardinality(AheadOf(t, x)) # Cardinality(AheadOf(t, y))
    OBVIOUS
  <2>2. <<x, y>> \in t.ahead \/ <<y, x>> \in t.ahead
    BY <2>1 DEF TableOK, StrictOrder
  <2>3. Cardinality(AheadOf(t, x)) \in Int /\ Cardinality(AheadOf(t, y)) \in Int
    BY <1>3
  <2>4. \/ Cardinality(AheadOf(t, x)) < Cardinality(AheadOf(t, y))
        \/ Cardinality(AheadOf(t, y)) < Cardinality(AheadOf(t, x))
    BY <2>2, RankInjective
  <2> QED
    BY <2>3, <2>4
<1>5. f \in Injection(S, T)
  BY <1>3, <1>4 DEF Injection, IsInjective
<1>6. IsFiniteSet(T) /\ Cardinality(T) = MaxSessions
  BY <1>1, <1>2, FS_Interval
<1>7. Cardinality(S) <= Cardinality(T)
  BY <1>5, <1>6, FS_Injection
<1>8. Held(RemoveKeys(t, Overflow(t))) = S
  BY RemoveOK
<1> QED
  BY <1>6, <1>7, <1>8

LEMMA RemoveCap ==
  ASSUME NEW t, TableOK(t), NEW gone, Cap(t)
  PROVE  Cap(RemoveKeys(t, gone))
<1>1. Held(RemoveKeys(t, gone)) \in SUBSET Held(t)
  BY RemoveOK
<1>2. Held(t) \in SUBSET Held(t)
  OBVIOUS
<1>3. IsFiniteSet(Held(t)) /\ Cardinality(Held(t)) \in Nat
  BY <1>2, FiniteHeld
<1>4. Cardinality(Held(RemoveKeys(t, gone))) <= Cardinality(Held(t))
  BY <1>1, <1>3, FS_Subset
<1>5. Cardinality(Held(RemoveKeys(t, gone))) \in Nat
  BY <1>1, FiniteHeld
<1> QED
  BY <1>3, <1>4, <1>5, TableAssumption DEF Cap

-----------------------------------------------------------------------------
(* PushBack of what Restore keeps of a file *)

LEMMA KeptDistinct ==
  ASSUME NEW t, NEW f \in Seq(SavedBindings), NEW now \in Int,
         NEW i \in Kept(t, f, now), NEW j \in Kept(t, f, now), f[i].key = f[j].key
  PROVE  i = j
<1>0. i \in DOMAIN f /\ j \in DOMAIN f
  BY DEF Kept
<1>a. DOMAIN f = 1 .. Len(f) /\ f[i] \in SavedBindings /\ f[j] \in SavedBindings
  BY <1>0
<1>1. /\ i \in DOMAIN f /\ j \in DOMAIN f
      /\ i \in Int /\ j \in Int
      /\ f[i].lastSeen \in Int /\ f[j].lastSeen \in Int
  BY <1>0, <1>a DEF SavedBindings
<1>2. SUFFICES ASSUME i # j
               PROVE  FALSE
  OBVIOUS
<1>3. SortsBefore(f, i, j) /\ SortsBefore(f, j, i)
  BY <1>1, <1>2 DEF Kept
<1> QED
  BY <1>1, <1>3 DEF SortsBefore

LEMMA PushBackOK ==
  ASSUME NEW t, TableOK(t), NEW f \in Seq(SavedBindings), NEW now \in Int,
         NEW c \in Int, now <= c, Skew(t), SeenBy(t, c), Tally(t),
         \A x \in Held(t), i \in DOMAIN f : f[i].lastSeen <= t.index[x].lastSeen + MaxLag
  PROVE  LET r == PushBack(t, f, Kept(t, f, now))
         IN  /\ TableOK(r) /\ Skew(r) /\ SeenBy(r, c) /\ Tally(r)
             /\ Held(t) \subseteq Held(r)
             /\ \A k \in Held(t) : r.index[k] = t.index[k]
             /\ \A x \in Held(r), k \in Held(t) : <<x, k>> \in r.ahead => x \in Held(t)
<1> DEFINE kept == Kept(t, f, now)
           r == PushBack(t, f, kept)
           new == {f[i].key : i \in kept}
           at(k) == CHOOSE i \in kept : f[i].key = k
<1>1. /\ r.index = [k \in Held(t) \cup new |->
                      IF k \in new
                        THEN [auth |-> f[at(k)].auth, boundAt |-> f[at(k)].boundAt,
                              lastSeen |-> f[at(k)].lastSeen]
                        ELSE t.index[k]]
      /\ r.ahead = t.ahead \cup (Held(t) \X new)
                     \cup {p \in new \X new : SortsBefore(f, at(p[1]), at(p[2]))}
      /\ r.counts = [a \in Auths |->
                       t.counts[a] + Cardinality({i \in kept : f[i].auth = a})]
      /\ r = [index |-> r.index, ahead |-> r.ahead, counts |-> r.counts]
  BY DEF PushBack
<1>2. \A k \in new : at(k) \in kept /\ f[at(k)].key = k
  OBVIOUS
<1>3. \A i \in kept : f[i].key \in new /\ at(f[i].key) = i
  BY <1>2, KeptDistinct
<1>4. \A i \in kept : /\ i \in DOMAIN f /\ i \in Int
                       /\ f[i] \in SavedBindings
                       /\ f[i].lastSeen <= now
                       /\ f[i].key \notin Held(t)
  BY DEF Kept
<1>5. \A k \in new : k \in Keys /\ k \notin Held(t)
  BY <1>4 DEF SavedBindings
<1> HIDE DEF r, kept, at, new
<1>6. /\ Held(r) = Held(t) \cup new
      /\ r.index = [k \in Held(r) |-> r.index[k]]
      /\ \A k \in Held(t) : r.index[k] = t.index[k]
  BY <1>1, <1>5 DEF Held
<1>7. \A k \in new : /\ r.index[k] \in Bindings
                      /\ r.index[k].auth = f[at(k)].auth
                      /\ r.index[k].lastSeen = f[at(k)].lastSeen
  BY <1>1, <1>2, <1>4 DEF Bindings, SavedBindings
<1>8. \A x, y \in Held(r) : <<x, y>> \in r.ahead
        <=> \/ x \in Held(t) /\ y \in Held(t) /\ <<x, y>> \in t.ahead
            \/ x \in Held(t) /\ y \in new
            \/ x \in new /\ y \in new /\ SortsBefore(f, at(x), at(y))
  BY <1>1, <1>5, <1>6 DEF TableOK, StrictOrder
<1>9. \A x \in new : at(x) \in Int /\ f[at(x)].lastSeen \in Int
  BY <1>2, <1>4 DEF SavedBindings
<1>10. \A x, y \in new : x # y => at(x) # at(y)
  BY <1>2
<1>11. StrictOrder(r)
  <2>1. r.ahead \subseteq Held(r) \X Held(r)
    BY <1>1, <1>6 DEF TableOK, StrictOrder
  <2>2. \A x \in new : ~SortsBefore(f, at(x), at(x))
    BY <1>9 DEF SortsBefore
  <2>3. \A x, y \in new : x # y => (SortsBefore(f, at(x), at(y)) <=> ~SortsBefore(f, at(y), at(x)))
    BY <1>9, <1>10 DEF SortsBefore
  <2>4. \A x, y, z \in new : SortsBefore(f, at(x), at(y)) /\ SortsBefore(f, at(y), at(z))
          => SortsBefore(f, at(x), at(z))
    BY <1>9 DEF SortsBefore
  <2>5. \A x \in Held(r) : <<x, x>> \notin r.ahead
    BY <2>2, <1>5, <1>6, <1>8 DEF TableOK, StrictOrder
  <2>6. \A x, y \in Held(r) : x # y => (<<x, y>> \in r.ahead <=> <<y, x>> \notin r.ahead)
    BY <2>3, <1>5, <1>6, <1>8 DEF TableOK, StrictOrder
  <2>7. \A x, y, z \in Held(r) :
          <<x, y>> \in r.ahead /\ <<y, z>> \in r.ahead => <<x, z>> \in r.ahead
    <3>1. SUFFICES ASSUME NEW x \in Held(r), NEW y \in Held(r), NEW z \in Held(r),
                          <<x, y>> \in r.ahead, <<y, z>> \in r.ahead
                   PROVE  <<x, z>> \in r.ahead
      OBVIOUS
    <3>2. CASE z \in Held(t)
      <4>1. y \in Held(t) /\ <<y, z>> \in t.ahead /\ x \in Held(t) /\ <<x, y>> \in t.ahead
        BY <3>1, <3>2, <1>5, <1>8
      <4> QED
        BY <4>1, <3>2, <1>8 DEF TableOK, StrictOrder
    <3>3. CASE z \in new
      BY <3>1, <3>3, <2>4, <1>5, <1>6, <1>8
    <3> QED
      BY <3>2, <3>3, <1>6
  <2> QED
    BY <2>1, <2>5, <2>6, <2>7 DEF StrictOrder
<1>12. ASSUME NEW a \in Auths
       PROVE  /\ Cardinality({i \in kept : f[i].auth = a}) \in Nat
              /\ Cardinality(HeldBy(r, a))
                   = Cardinality(HeldBy(t, a)) + Cardinality({i \in kept : f[i].auth = a})
  <2> DEFINE I == {i \in kept : f[i].auth = a}
             J == {k \in new : f[at(k)].auth = a}
             g == [i \in I |-> f[i].key]
  <2>1. IsFiniteSet(I) /\ Cardinality(I) \in Nat
    <3>1. DOMAIN f = 1 .. Len(f) /\ Len(f) \in Int
      OBVIOUS
    <3>2. IsFiniteSet(1 .. Len(f))
      BY <3>1, FS_Interval
    <3>3. I \in SUBSET (1 .. Len(f))
      BY <3>1, <1>4
    <3>4. IsFiniteSet(I)
      BY <3>2, <3>3, FS_Subset
    <3> QED
      BY <3>4, FS_CardinalityType
  <2>2. g \in Bijection(I, J)
    <3>1. g \in [I -> J]
      BY <1>3
    <3>2. \A i, j \in I : g[i] = g[j] => i = j
      BY <1>3
    <3>3. \A k \in J : \E i \in I : g[i] = k
      BY <1>2
    <3> QED
      BY <3>1, <3>2, <3>3 DEF Bijection, Injection, IsInjective, Surjection
  <2>3. IsFiniteSet(J) /\ Cardinality(J) = Cardinality(I)
    BY <2>1, <2>2, FS_Bijection DEF ExistsBijection
  <2>4. HeldBy(r, a) = HeldBy(t, a) \cup J /\ HeldBy(t, a) \cap J = {}
    BY <1>5, <1>6, <1>7 DEF HeldBy
  <2>5. HeldBy(t, a) \in SUBSET Held(t)
    BY DEF HeldBy
  <2>6. IsFiniteSet(HeldBy(t, a)) /\ Cardinality(HeldBy(t, a)) \in Nat
    BY <2>5, FiniteHeld
  <2>7. Cardinality({}) = 0
    BY FS_EmptySet
  <2>8. Cardinality(HeldBy(t, a) \cup J)
          = Cardinality(HeldBy(t, a)) + Cardinality(J) - Cardinality(HeldBy(t, a) \cap J)
    BY <2>3, <2>6, FS_Union
  <2> HIDE DEF I, J, g
  <2>9. Cardinality(HeldBy(r, a)) = Cardinality(HeldBy(t, a)) + Cardinality(I)
    <3>1. Cardinality(HeldBy(t, a) \cap J) = 0
      BY <2>4, <2>7
    <3>2. Cardinality(HeldBy(r, a)) = Cardinality(HeldBy(t, a) \cup J)
      BY <2>4
    <3> QED
      BY <3>1, <3>2, <2>1, <2>3, <2>6, <2>8
  <2> QED
    BY <2>1, <2>9 DEF I
<1>13. TableOK(r) /\ Tally(r)
  <2>0. /\ \A a \in Auths : t.counts[a] \in Nat
        /\ \A a \in Auths : Cardinality({i \in kept : f[i].auth = a}) \in Nat
    BY <1>12 DEF TableOK
  <2>1. r.counts \in [Auths -> Nat]
    BY <1>1, <2>0
  <2>2. \A k \in Held(r) : k \in Keys /\ r.index[k] \in Bindings
    BY <1>5, <1>6, <1>7 DEF TableOK
  <2>3. Tally(r)
    BY <1>1, <1>12 DEF Tally
  <2> QED
    BY <2>1, <2>2, <2>3, <1>1, <1>6, <1>11 DEF TableOK
<1>14. SeenBy(r, c)
  BY <1>2, <1>4, <1>6, <1>7, <1>9 DEF SeenBy
<1>15. ASSUME NEW x \in Held(r), NEW y \in Held(r), <<x, y>> \in r.ahead
       PROVE  r.index[y].lastSeen <= r.index[x].lastSeen + MaxLag
  <2>1. CASE y \in Held(t)
    BY <1>5, <1>6, <1>8, <1>15, <2>1 DEF Skew
  <2>2. CASE y \in new /\ x \in Held(t)
    <3>1. at(y) \in DOMAIN f /\ r.index[y].lastSeen = f[at(y)].lastSeen
      BY <1>2, <1>4, <1>7, <2>2
    <3>2. r.index[x].lastSeen = t.index[x].lastSeen
      BY <1>6, <2>2
    <3> QED
      BY <3>1, <3>2, <2>2
  <2>3. CASE y \in new /\ x \in new
    <3>1. SortsBefore(f, at(x), at(y))
      BY <1>5, <1>8, <1>15, <2>3
    <3>2. f[at(y)].lastSeen <= f[at(x)].lastSeen
      BY <3>1, <1>9, <2>3 DEF SortsBefore
    <3> QED
      BY <3>2, <1>7, <1>9, <2>3, TimeAssumption
  <2> QED
    BY <1>6, <2>1, <2>2, <2>3
<1>16. Skew(r)
  BY <1>15 DEF Skew
<1>17. \A x \in Held(r), k \in Held(t) : <<x, k>> \in r.ahead => x \in Held(t)
  BY <1>5, <1>6, <1>8
<1> QED
  BY <1>6, <1>13, <1>14, <1>16, <1>17 DEF r, kept

-----------------------------------------------------------------------------
(* What every method preserves *)

Good(t, c) == TableOK(t) /\ Skew(t) /\ SeenBy(t, c) /\ Tally(t)

\* No binding is older than the table by more than a caller's lag.
Born(t) == \A k \in Held(t) : Birth <= t.index[k].lastSeen + MaxLag

LEMMA RemoveGood ==
  ASSUME NEW t, NEW c \in Int, Good(t, c), NEW gone
  PROVE  /\ Good(RemoveKeys(t, gone), c)
         /\ Cap(t) => Cap(RemoveKeys(t, gone))
         /\ Born(t) => Born(RemoveKeys(t, gone))
<1>1. TableOK(t) /\ Skew(t) /\ SeenBy(t, c) /\ Tally(t)
  BY DEF Good
<1>2. Good(RemoveKeys(t, gone), c)
  BY <1>1, RemoveOK, RemoveSkew, RemoveTally DEF Good
<1>3. Cap(t) => Cap(RemoveKeys(t, gone))
  BY <1>1, RemoveCap
<1>4. Born(t) => Born(RemoveKeys(t, gone))
  BY <1>1, RemoveOK DEF Born
<1> QED
  BY <1>2, <1>3, <1>4

\* A refresh at now of a held key.
LEMMA RefreshGood ==
  ASSUME NEW t, NEW c \in Int, Good(t, c), NEW k \in Held(t),
         NEW now \in Int, now <= c, c <= now + MaxLag, Birth <= c
  PROVE  LET r == Touch(t, k, [t.index[k] EXCEPT !.lastSeen = now])
         IN  /\ Good(r, c)
             /\ Cap(t) => Cap(r)
             /\ Born(t) => Born(r)
<1> DEFINE b == [t.index[k] EXCEPT !.lastSeen = now]
           r == Touch(t, k, b)
<1>1. TableOK(t) /\ Skew(t) /\ SeenBy(t, c) /\ Tally(t)
  BY DEF Good
<1>2. t.index[k] \in Bindings
  BY <1>1 DEF TableOK
<1>3. b \in Bindings /\ b.auth = t.index[k].auth /\ b.lastSeen = now
  BY <1>2 DEF Bindings
<1> HIDE DEF b
<1>4. Good(r, c)
  BY <1>1, <1>3, TouchOK, TouchSkew, TouchTally DEF Good
<1>5. /\ Held(r) = Held(t)
      /\ r.index[k] = b
      /\ \A x \in Held(t) \ {k} : r.index[x] = t.index[x]
  BY <1>1, <1>3, TouchOK
<1> HIDE DEF r
<1>6. Cap(t) => Cap(r)
  BY <1>5 DEF Cap
<1>7. Born(t) => Born(r)
  BY <1>3, <1>5, TimeAssumption DEF Born
<1> QED
  BY <1>4, <1>6, <1>7 DEF r, b

LEMMA LookedGood ==
  ASSUME NEW t, NEW c \in Int, Good(t, c), Cap(t), NEW k \in Keys,
         NEW now \in Int, now <= c, c <= now + MaxLag, Birth <= c
  PROVE  LET r == Looked(t, k, now)
         IN  Good(r, c) /\ Cap(r) /\ (Born(t) => Born(r))
<1>1. CASE Hit(t, k, now)
  BY <1>1, RefreshGood DEF Looked, Hit
<1>2. CASE ~Hit(t, k, now)
  BY <1>2, RemoveGood DEF Looked
<1> QED
  BY <1>1, <1>2

LEMMA EvictGood ==
  ASSUME NEW t, NEW c \in Int, Good(t, c)
  PROVE  /\ Good(Evict(t), c)
         /\ Cap(Evict(t))
         /\ Born(t) => Born(Evict(t))
<1>1. Cap(Evict(t))
  BY EvictCap DEF Good
<1> QED
  BY <1>1, RemoveGood DEF Evict

\* The table Bind pushes a new binding into, before the cap applies.
Fresh(t, k, a, now) ==
  PushFront(RemoveKeys(t, {k} \cap Held(t)), k, [auth |-> a, boundAt |-> now, lastSeen |-> now])

LEMMA FreshGood ==
  ASSUME NEW t, NEW c \in Int, Good(t, c), NEW k \in Keys, NEW a \in Auths,
         NEW now \in Int, now <= c, c <= now + MaxLag, Birth <= c
  PROVE  /\ Good(Fresh(t, k, a, now), c)
         /\ Born(t) => Born(Fresh(t, k, a, now))
         /\ Held(Fresh(t, k, a, now)) = Held(t) \cup {k}
         /\ \A x \in Held(t) \ {k} : Fresh(t, k, a, now).index[x] = t.index[x]
<1> DEFINE s == RemoveKeys(t, {k} \cap Held(t))
           b == [auth |-> a, boundAt |-> now, lastSeen |-> now]
           r == PushFront(s, k, b)
<1>1. TableOK(t)
  BY DEF Good
<1>2. /\ Good(s, c)
      /\ Born(t) => Born(s)
      /\ Held(s) = Held(t) \ {k}
      /\ \A x \in Held(t) \ {k} : s.index[x] = t.index[x]
  BY <1>1, RemoveGood, RemoveOK
<1>3. b \in Bindings /\ b.lastSeen = now
  BY DEF Bindings
<1> HIDE DEF s, b
<1>4. TableOK(s) /\ Skew(s) /\ SeenBy(s, c) /\ Tally(s) /\ k \in Keys \ Held(s)
  BY <1>2 DEF Good
<1>5. Good(r, c)
  BY <1>3, <1>4, PushFrontOK, PushFrontSkew, PushFrontTally DEF Good
<1>6. /\ Held(r) = Held(s) \cup {k}
      /\ r.index[k] = b
      /\ \A x \in Held(s) : r.index[x] = s.index[x]
  BY <1>4 DEF PushFront, Held
<1> HIDE DEF r
<1>7. Born(s) => Born(r)
  BY <1>3, <1>6, TimeAssumption DEF Born
<1>8. Held(r) = Held(t) \cup {k} /\ \A x \in Held(t) \ {k} : r.index[x] = t.index[x]
  BY <1>2, <1>6
<1>9. r = Fresh(t, k, a, now)
  BY DEF Fresh, r, s, b
<1> QED
  BY <1>2, <1>5, <1>7, <1>8, <1>9

LEMMA BoundGood ==
  ASSUME NEW t, NEW c \in Int, Good(t, c), Cap(t), NEW k \in Keys, NEW a \in Auths,
         NEW now \in Int, now <= c, c <= now + MaxLag, Birth <= c
  PROVE  LET r == Bound(t, k, a, now)
         IN  Good(r, c) /\ Cap(r) /\ (Born(t) => Born(r))
<1>1. CASE Hit(t, k, now) /\ t.index[k].auth = a
  BY <1>1, RefreshGood DEF Bound, Hit
<1>2. CASE ~(Hit(t, k, now) /\ t.index[k].auth = a)
  <2>1. Bound(t, k, a, now) = Evict(Fresh(t, k, a, now))
    BY <1>2 DEF Bound, Fresh
  <2> QED
    BY <2>1, FreshGood, EvictGood
<1> QED
  BY <1>1, <1>2

LEMMA RestoredGood ==
  ASSUME NEW t, NEW c \in Int, Good(t, c), NEW f \in Seq(SavedBindings),
         NEW now \in Int, now <= c,
         \A x \in Held(t), i \in DOMAIN f : f[i].lastSeen <= t.index[x].lastSeen + MaxLag
  PROVE  Good(Restored(t, f, now), c) /\ Cap(Restored(t, f, now))
<1>1. Good(PushBack(t, f, Kept(t, f, now)), c)
  BY PushBackOK DEF Good
<1> QED
  BY <1>1, EvictGood DEF Restored

-----------------------------------------------------------------------------
(***************************************************************************)
(* The inductive invariant.  Beside what the properties say it needs that  *)
(* the clock never runs behind the table's creation and that, until the    *)
(* file is restored, nothing in the table is older than its creation by    *)
(* more than a lag: that is what lets Restore file behind it.              *)
(***************************************************************************)
IInv ==
  /\ TypeOK
  /\ Birth <= clock
  /\ Good(table, clock)
  /\ Cap(table)
  /\ unrestored # <<>> => Born(table)

LEMMA InitIInv == Init => IInv
<1> SUFFICES ASSUME Init PROVE IInv
  OBVIOUS
<1>1. /\ Held(table) = {}
      /\ table.ahead = {}
      /\ table.counts = [a \in Auths |-> 0]
      /\ table.index = [k \in Held(table) |-> table.index[k]]
      /\ table = [index |-> table.index, ahead |-> table.ahead, counts |-> table.counts]
  BY DEF Init, NewStore, Held
<1>2. TableOK(table)
  BY <1>1 DEF TableOK, StrictOrder
<1>3. Tally(table)
  <2>1. \A a \in Auths : HeldBy(table, a) = {}
    BY <1>1 DEF HeldBy
  <2> QED
    BY <1>1, <2>1, FS_EmptySet DEF Tally
<1>4. Skew(table) /\ SeenBy(table, clock) /\ Born(table)
  BY <1>1 DEF Skew, SeenBy, Born
<1>5. Cap(table)
  BY <1>1, FS_EmptySet, TableAssumption DEF Cap
<1>6. TypeOK /\ Birth <= clock
  BY <1>2, TimeAssumption DEF Init, TypeOK
<1> QED
  BY <1>2, <1>3, <1>4, <1>5, <1>6 DEF IInv, Good

LEMMA NextIInv == IInv /\ [Next]_vars => IInv'
<1> SUFFICES ASSUME IInv, [Next]_vars
             PROVE  IInv'
  OBVIOUS
<1>1. /\ TypeOK /\ Birth <= clock /\ Good(table, clock) /\ Cap(table)
      /\ unrestored # <<>> => Born(table)
      /\ clock \in Int /\ unrestored \in SavedFiles \cup {<<>>}
      /\ Birth \in Int /\ MaxLag \in Nat
  BY TimeAssumption DEF IInv, TypeOK
<1>2. \A now \in Nows : now \in Int /\ now <= clock /\ clock <= now + MaxLag
  BY <1>1 DEF Nows
<1>3. ASSUME Good(table', clock'), Cap(table'), clock' \in Int, Birth <= clock',
             unrestored' \in SavedFiles \cup {<<>>}, unrestored' # <<>> => Born(table')
      PROVE  IInv'
  BY <1>3 DEF IInv, TypeOK, Good, Cap, Born
<1>4. ASSUME NEW now \in Nows, NEW k \in Keys, Lookup(k, now)
      PROVE  IInv'
  <2>1. Good(table', clock) /\ Cap(table') /\ (Born(table) => Born(table'))
    BY <1>1, <1>2, <1>4, LookedGood DEF Lookup
  <2> QED
    BY <1>1, <1>3, <1>4, <2>1 DEF Lookup
<1>5. ASSUME NEW now \in Nows, NEW k \in Keys, NEW a \in Auths, Bind(k, a, now)
      PROVE  IInv'
  <2>1. Good(table', clock) /\ Cap(table') /\ (Born(table) => Born(table'))
    BY <1>1, <1>2, <1>5, BoundGood DEF Bind
  <2> QED
    BY <1>1, <1>3, <1>5, <2>1 DEF Bind
<1>6. ASSUME NEW now \in Nows, Restore(now)
      PROVE  IInv'
  <2>1. unrestored \in Seq(SavedBindings) /\ Born(table)
    BY <1>1, <1>6, SavedAssumption DEF Restore
  <2>2. \A x \in Held(table), i \in DOMAIN unrestored :
          unrestored[i].lastSeen <= table.index[x].lastSeen + MaxLag
    <3>1. SUFFICES ASSUME NEW x \in Held(table), NEW i \in DOMAIN unrestored
                   PROVE  unrestored[i].lastSeen <= table.index[x].lastSeen + MaxLag
      OBVIOUS
    <3>2. unrestored[i].lastSeen <= Birth
      BY <1>6, <3>1 DEF Restore
    <3>3. Birth <= table.index[x].lastSeen + MaxLag
      BY <2>1, <3>1 DEF Born
    <3>4. unrestored[i] \in SavedBindings /\ table.index[x] \in Bindings
      BY <1>1, <2>1, <3>1 DEF Good, TableOK
    <3> QED
      BY <3>2, <3>3, <3>4, <1>1 DEF SavedBindings, Bindings
  <2>3. Good(table', clock) /\ Cap(table')
    BY <1>1, <1>2, <1>6, <2>1, <2>2, RestoredGood DEF Restore
  <2> QED
    BY <1>1, <1>3, <1>6, <2>3 DEF Restore
<1>7. ASSUME NEW now \in Nows, Sweep(now)
      PROVE  IInv'
  <2>1. Good(table', clock) /\ Cap(table') /\ (Born(table) => Born(table'))
    BY <1>1, <1>7, RemoveGood DEF Sweep, Swept
  <2> QED
    BY <1>1, <1>3, <1>7, <2>1 DEF Sweep
<1>8. ASSUME NEW a \in Auths, Drop(a)
      PROVE  IInv'
  <2>1. Good(table', clock) /\ Cap(table') /\ (Born(table) => Born(table'))
    BY <1>1, <1>8, RemoveGood DEF Drop, DropAuth
  <2> QED
    BY <1>1, <1>3, <1>8, <2>1 DEF Drop
<1>9. CASE Tick
  <2>1. clock' = clock + 1 /\ table' = table /\ unrestored' = unrestored
    BY <1>9 DEF Tick
  <2>2. \A k \in Held(table) : table.index[k].lastSeen \in Int
    BY <1>1 DEF Good, TableOK, Bindings
  <2>3. Good(table, clock + 1)
    BY <1>1, <2>2 DEF Good, SeenBy
  <2> QED
    BY <1>1, <1>3, <2>1, <2>3
<1>10. CASE UNCHANGED vars
  BY <1>1, <1>3, <1>10 DEF vars
<1> QED
  BY <1>4, <1>5, <1>6, <1>7, <1>8, <1>9, <1>10 DEF Next

LEMMA Invariance == Spec => []IInv
BY InitIInv, NextIInv, PTL DEF Spec

\* The table stays well formed: the access order lists exactly the keys the
\* index holds, whatever order picks, sweeps and a restore run in.
THEOREM TypeCorrect == Spec => []TypeOK
<1>1. IInv => TypeOK
  BY DEF IInv
<1> QED
  BY <1>1, Invariance, PTL

\* The tally of Store.counts never drifts from the bindings it counts.
THEOREM TallyCorrect == Spec => []TallyExact
<1>1. IInv => TallyExact
  BY DEF IInv, Good, Tally, TallyExact
<1> QED
  BY <1>1, Invariance, PTL

\* evict keeps the table within its cap after every Bind and Restore.
THEOREM CapHolds == Spec => []WithinCap
<1>1. IInv => WithinCap
  BY DEF IInv, Cap, WithinCap
<1> QED
  BY <1>1, Invariance, PTL

\* The access order is out of step with LastSeen by at most a caller's lag.
THEOREM SkewBounded == Spec => []OrderSkew
<1>1. IInv => OrderSkew
  BY DEF IInv, Good, Skew, SeenBy, OrderSkew
<1> QED
  BY <1>1, Invariance, PTL

\* Sweep leaves nothing expired beyond what the lag exceeds sweepSlack by.
THEOREM SweepRemovesExpired == Spec => []SweepComplete
<1>1. ASSUME IInv, NEW now \in Nows, TTL > 0, NEW k \in Held(Swept(table, now))
      PROVE  now - table.index[k].lastSeen <= TTL + Floor(MaxLag - SweepSlack)
  <2> DEFINE gone == {x \in Held(table) :
                        /\ Expired(table.index[x], now)
                        /\ \A y \in Behind(table, x) : ~StopsSweep(table.index[y], now)}
  <2>1. /\ TableOK(table) /\ Skew(table) /\ clock \in Int
        /\ TTL \in Nat /\ SweepSlack \in Nat /\ MaxLag \in Nat
    BY <1>1, TableAssumption, TimeAssumption DEF IInv, Good, TypeOK
  <2>2. now \in Int
    BY <1>1, <2>1 DEF Nows
  <2>3. Swept(table, now) = RemoveKeys(table, gone)
    BY <1>1, <2>1 DEF Swept
  <2>4. k \in Held(table) /\ k \notin gone
    BY <1>1, <2>1, <2>3, RemoveOK
  <2>5. Floor(MaxLag - SweepSlack) \in Nat /\ Floor(MaxLag - SweepSlack) >= MaxLag - SweepSlack
    BY <2>1 DEF Floor
  <2>6. \A x \in Held(table) : table.index[x].lastSeen \in Int
    BY <2>1 DEF TableOK, Bindings
  <2>7. CASE ~Expired(table.index[k], now)
    BY <1>1, <2>1, <2>2, <2>4, <2>5, <2>6, <2>7 DEF Expired
  <2>8. CASE Expired(table.index[k], now)
    <3>1. PICK y \in Behind(table, k) : StopsSweep(table.index[y], now)
      BY <2>4, <2>8
    <3>2. y \in Held(table) /\ table.index[y].lastSeen <= table.index[k].lastSeen + MaxLag
      BY <2>1, <2>4, <2>6 DEF Behind, Skew
    <3> QED
      BY <3>1, <3>2, <2>1, <2>2, <2>4, <2>5, <2>6 DEF StopsSweep
  <2> QED
    BY <2>7, <2>8
<1>2. IInv => SweepComplete
  BY <1>1 DEF SweepComplete
<1> QED
  BY <1>2, Invariance, PTL
=============================================================================
