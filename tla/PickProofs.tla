----------------------------- MODULE PickProofs -----------------------------
(***************************************************************************)
(* Proofs about Pick, for any workers, keys, seats, requests, configs and  *)
(* readings.  A pick carries with it why it may do what it will do: a      *)
(* conversation leaves its seat only for a cause its own reading shows, a  *)
(* pinned or keyless pick reaches no bind, and the seat it is about to     *)
(* answer is refused only when every seat it was offered is.  Whatever the *)
(* others do to the tables in between, these stay true of its own copies,  *)
(* and a table changes a home only where a bind says so.  Of a pick with   *)
(* no other in flight, the last part proves what it leaves in the live     *)
(* table: what it read there still holds, or the table was replaced since  *)
(* and is empty.  At the end, the log the decisions are kept in.           *)
(***************************************************************************)
EXTENDS Pick, DecisionLog, FiniteSetTheorems, SequenceTheorems, WellFoundedInduction, TLAPS

TableSet ==
  [index : UNION {[held -> Bindings] : held \in SUBSET Keys},
   ahead : SUBSET (Keys \X Keys), counts : [Auths -> Nat]]

Entries == [shape : Nat, table : TableSet]

Operations == {"own", "refresh", "parent", "inherit", "count", "bind"}

Picks ==
  [pc : Operations \cup {"new", "done"}, req : AllRequests, cfg : AllConfigs, now : Nat,
   cands : SUBSET Auths, snaps : [Auths -> Readings], ref : Nat,
   bound : Auths \cup {NoAuth}, previous : Auths \cup {NoAuth},
   kind : {"", "declined", "affinity-hit", "failover", "cold-pick"}, chosen : Auths \cup {NoAuth}]

TypeOK ==
  /\ tables \in Seq(Entries)
  /\ live \in 0..Len(tables)
  /\ cfg \in AllConfigs /\ clock \in Nat
  /\ picks \in [Workers -> {Idle} \cup Picks]
  /\ \A w \in Workers : picks[w] # Idle => picks[w].ref <= Len(tables)

\* A conversation is placed away from a seat not offered, or refused with another open.
Leaves(p, auth) == auth \notin p.cands \/ (BlockedFor(p.snaps[auth]) /\ HasAlternativeHome(p, auth))

\* A seat to answer: offered, and refused only if every offered seat is.
Answers(p, auth) ==
  /\ auth \in p.cands
  /\ p.snaps[auth] = "refused" => \A a \in p.cands : Refused(p.snaps[a])

\* The pick's reasons, by the operation it is at.
Sound(p) ==
  /\ p.pc \in Operations => p.cands # {} /\ p.req.key # NoKey
  /\ p.pc \in {"own", "refresh", "parent", "inherit", "bind"} => p.cfg.affinity
  /\ p.pc \in {"refresh", "parent"} => p.req.parent # NoKey
  /\ p.pc \in {"inherit", "bind"} => ~p.req.pinned
  /\ p.previous # NoAuth => Leaves(p, p.previous)
  /\ p.pc \in {"inherit", "bind"} \/ (p.pc = "done" /\ p.kind # "declined") => Answers(p, p.chosen)

PicksSound == \A w \in Workers : picks[w] # Idle => Sound(picks[w])

IInv == TypeOK /\ PicksSound

-----------------------------------------------------------------------------
(* The seats a pick settles on *)

\* A set of naturals has a least one.
LEMMA LeastOf ==
  ASSUME NEW S \in SUBSET Nat, S # {}
  PROVE  \E m \in S : \A x \in S : m <= x
<1> DEFINE R == {r \in Nat \X Nat : r[1] < r[2]}
<1>1. IsWellFoundedOn(R, Nat)
  BY NatLessThanWellFounded, Zenon DEF OpToRel
<1>2. PICK m \in S : \A x \in S : ~ (<<x, m>> \in R)
  <2> HIDE DEF R
  <2> QED
    BY <1>1, WFMin
<1>3. ASSUME NEW x \in S PROVE m <= x
  <2>1. x \in Nat /\ m \in Nat
    OBVIOUS
  <2>2. ~ (x < m)
    BY <1>2, <2>1
  <2> QED
    BY <2>1, <2>2
<1> QED
  BY <1>3

\* PaceBest is an eligible seat.
LEMMA BestIsEligible ==
  ASSUME NEW cands \in SUBSET Auths, NEW snaps \in [Auths -> Readings],
         \E a \in cands : Eligible(snaps[a])
  PROVE  PaceBest(snaps, cands) \in cands /\ Eligible(snaps[PaceBest(snaps, cands)])
<1> DEFINE E == {a \in cands : Eligible(snaps[a])}
           F == {a \in E : snaps[a] = "first"}
           S == IF F # {} THEN F ELSE E
<1>1. S # {} /\ S \subseteq E /\ S \subseteq Nat
  BY PickAssumption
<1>2. PICK m \in S : \A x \in S : m <= x
  BY <1>1, LeastOf
<1>3. m \in cands /\ Eligible(snaps[m])
  BY <1>1
<1>4. ASSUME NEW b \in cands \ {m}, Eligible(snaps[b]) PROVE PaceBetter(snaps, m, b)
  <2>1. m \in Nat /\ b \in Nat
    BY <1>3, PickAssumption
  <2>2. CASE snaps[m] = "first"
    BY <1>2, <1>4, <2>1, <2>2 DEF PaceBetter
  <2>3. CASE snaps[m] # "first"
    <3>1. F = {} /\ b \in S
      BY <1>3, <1>4, <2>3
    <3>2. snaps[m] = "second" /\ snaps[b] = "second"
      BY <1>3, <1>4, <3>1 DEF Eligible
    <3> QED
      BY <1>2, <1>4, <2>1, <3>1, <3>2 DEF PaceBetter
  <2> QED
    BY <2>2, <2>3
<1> QED
  BY <1>3, <1>4 DEF PaceBest

\* leastBound settles on a seat that is refused only if every seat is.
LEMMA LeastBoundAnswers ==
  ASSUME NEW p \in Picks, p.cands # {}, NEW counts \in [Auths -> Nat]
  PROVE  Answers(p, LeastBound(p, counts))
<1> DEFINE N == {a \in p.cands : ~Refused(p.snaps[a])}
           G == IF N # {} THEN N ELSE p.cands
           C == {counts[a] : a \in G}
<1>1. p.cands \subseteq Auths /\ p.cands \subseteq Nat
  BY PickAssumption DEF Picks
<1>2. G # {} /\ G \subseteq p.cands
  OBVIOUS
<1>3. PICK c \in C : \A x \in C : c <= x
  <2>1. C # {} /\ C \subseteq Nat
    BY <1>1, <1>2
  <2> HIDE DEF C
  <2> QED
    BY <2>1, LeastOf
<1> DEFINE M == {a \in G : counts[a] = c}
<1>4. PICK m \in M : \A x \in M : m <= x
  <2>1. M # {} /\ M \subseteq Nat
    BY <1>1, <1>2, <1>3
  <2> HIDE DEF M
  <2> QED
    BY <2>1, LeastOf
<1> DEFINE Fits(a) == \A b \in p.cands \ {a} :
             \/ ~Refused(p.snaps[a]) /\ Refused(p.snaps[b])
             \/ /\ Refused(p.snaps[a]) = Refused(p.snaps[b])
                /\ counts[a] < counts[b] \/ (counts[a] = counts[b] /\ a < b)
<1>5. m \in p.cands /\ Fits(m)
  <2> SUFFICES ASSUME NEW b \in p.cands \ {m}
               PROVE  \/ ~Refused(p.snaps[m]) /\ Refused(p.snaps[b])
                      \/ /\ Refused(p.snaps[m]) = Refused(p.snaps[b])
                         /\ counts[m] < counts[b] \/ (counts[m] = counts[b] /\ m < b)
    OBVIOUS
  <2>1. m \in G /\ counts[m] = c /\ m \in Nat /\ b \in Nat /\ counts[m] \in Nat /\ counts[b] \in Nat
    BY <1>1
  <2>2. CASE b \in G
    <3>1. c <= counts[b]
      BY <1>3, <2>2
    <3>2. counts[b] = c => m <= b
      BY <1>4, <2>2
    <3>3. Refused(p.snaps[m]) = Refused(p.snaps[b])
      BY <2>1, <2>2 DEF Refused
    <3> QED
      BY <2>1, <3>1, <3>2, <3>3
  <2>3. CASE b \notin G
    BY <2>1, <2>3
  <2> QED
    BY <2>2, <2>3
<1> DEFINE l == LeastBound(p, counts)
<1>6. l \in p.cands /\ Fits(l)
  BY <1>5 DEF LeastBound
<1>7. ASSUME p.snaps[l] = "refused", NEW a \in p.cands PROVE Refused(p.snaps[a])
  BY <1>6, <1>7 DEF Refused
<1> QED
  BY <1>6, <1>7 DEF Answers

-----------------------------------------------------------------------------
(* What a pick does between two steps *)

\* A pick goes on from p: as sound as p, at a table it has yet to get or at p's.
GoesOn(p, q) == q \in Picks /\ Sound(q) /\ q.ref \in {0, p.ref}

LEMMA DecidedOK ==
  ASSUME NEW p \in Picks, Sound(p), NEW auth \in Auths \cup {NoAuth},
         NEW kind \in {"declined", "affinity-hit", "failover", "cold-pick"},
         kind # "declined" => Answers(p, auth)
  PROVE  GoesOn(p, Decided(p, kind, auth))
<1> DEFINE q == Decided(p, kind, auth)
<1>1. /\ q \in Picks /\ q.pc = "done" /\ q.kind = kind /\ q.chosen = auth /\ q.req = p.req /\ q.ref = 0
      /\ q.cfg = p.cfg /\ q.cands = p.cands /\ q.snaps = p.snaps /\ q.previous = p.previous
  BY DEF Decided, Picks
<1> QED
  BY <1>1 DEF GoesOn, Sound, Operations, Answers, Leaves, HasAlternativeHome

LEMMA PlacedOK ==
  ASSUME NEW p \in Picks, Sound(p), p.cands # {}, NEW auth \in Auths, Answers(p, auth)
  PROVE  GoesOn(p, Placed(p, auth))
<1> DEFINE q == [Wants(p, "bind") EXCEPT !.chosen = auth]
<1>1. CASE Binds(p)
  <2>1. /\ q \in Picks /\ q.pc = "bind" /\ q.chosen = auth /\ q.req = p.req /\ q.ref = 0
        /\ q.cfg = p.cfg /\ q.cands = p.cands /\ q.snaps = p.snaps /\ q.previous = p.previous
    BY DEF Wants, Picks, Operations
  <2>2. Sound(q)
    BY <1>1, <2>1 DEF Binds, Sound, Operations, Answers, Leaves, HasAlternativeHome
  <2> QED
    BY <1>1, <2>1, <2>2 DEF Placed, GoesOn
<1>2. CASE ~Binds(p)
  <2>1. Placed(p, auth) = Decided(p, ColdKind(p), auth)
    BY <1>2 DEF Placed
  <2>2. ColdKind(p) \in {"failover", "cold-pick"}
    BY DEF ColdKind
  <2> QED
    BY <2>1, <2>2, DecidedOK
<1> QED
  BY <1>1, <1>2

LEMMA ColdOK ==
  ASSUME NEW p \in Picks, Sound(p), p.cands # {}, NEW previous \in Auths \cup {NoAuth},
         previous # NoAuth => Leaves(p, previous)
  PROVE  GoesOn(p, Cold(p, previous))
<1> DEFINE q == [p EXCEPT !.previous = previous]
<1>1. /\ q \in Picks /\ q.pc = p.pc /\ q.kind = p.kind /\ q.chosen = p.chosen /\ q.req = p.req
      /\ q.cfg = p.cfg /\ q.cands = p.cands /\ q.snaps = p.snaps /\ q.previous = previous
      /\ q.ref = p.ref
  BY DEF Picks
<1>2. Sound(q)
  BY <1>1 DEF Sound, Answers, Leaves, HasAlternativeHome
<1> HIDE DEF q
<1>3. Cold(p, previous) = IF HasEligible(q) THEN Placed(q, PaceBest(q.snaps, q.cands))
                          ELSE IF q.req.key = NoKey THEN Decided(q, "declined", NoAuth)
                          ELSE Wants(q, "count")
  BY DEF Cold, q
<1>4. CASE HasEligible(q)
  <2>1. q.cands \in SUBSET Auths /\ q.snaps \in [Auths -> Readings]
    BY <1>1 DEF Picks
  <2>2. PaceBest(q.snaps, q.cands) \in q.cands /\ Eligible(q.snaps[PaceBest(q.snaps, q.cands)])
    BY <1>4, <2>1, BestIsEligible DEF HasEligible
  <2>3. Answers(q, PaceBest(q.snaps, q.cands)) /\ PaceBest(q.snaps, q.cands) \in Auths
    BY <2>1, <2>2 DEF Answers, Eligible
  <2>4. GoesOn(q, Placed(q, PaceBest(q.snaps, q.cands)))
    BY <1>1, <1>2, <2>3, PlacedOK
  <2> QED
    BY <1>1, <1>3, <1>4, <2>4 DEF GoesOn
<1>5. CASE ~HasEligible(q) /\ q.req.key = NoKey
  <2>1. GoesOn(q, Decided(q, "declined", NoAuth))
    BY <1>1, <1>2, DecidedOK
  <2> QED
    BY <1>1, <1>3, <1>5, <2>1 DEF GoesOn
<1>6. CASE ~HasEligible(q) /\ q.req.key # NoKey
  <2> DEFINE r == Wants(q, "count")
  <2>1. /\ r \in Picks /\ r.pc = "count" /\ r.kind = q.kind /\ r.chosen = q.chosen /\ r.req = q.req
        /\ r.cfg = q.cfg /\ r.cands = q.cands /\ r.snaps = q.snaps /\ r.previous = q.previous
        /\ r.ref = 0
    BY <1>1 DEF Wants, Picks, Operations
  <2>2. Sound(r)
    BY <1>1, <1>2, <1>6, <2>1 DEF Sound, Leaves, HasAlternativeHome
  <2> QED
    BY <1>3, <1>6, <2>1, <2>2 DEF GoesOn
<1> QED
  BY <1>4, <1>5, <1>6

LEMMA JudgedOK ==
  ASSUME NEW p \in Picks, Sound(p), p.cands # {}
  PROVE  GoesOn(p, Judged(p))
<1>1. p.bound \in Auths \cup {NoAuth} /\ p.cands \subseteq Auths
  BY DEF Picks
<1>2. CASE Leaves(p, p.bound)
  BY <1>1, <1>2, ColdOK DEF Leaves, Judged
<1>3. CASE ~Leaves(p, p.bound)
  <2>1. Judged(p) = Decided(p, "affinity-hit", p.bound)
    BY <1>3 DEF Judged, Leaves
  <2>2. ASSUME p.snaps[p.bound] = "refused", NEW a \in p.cands PROVE Refused(p.snaps[a])
    BY <1>3, <2>2 DEF Leaves, BlockedFor, HasAlternativeHome, Refused
  <2>3. Answers(p, p.bound)
    BY <1>3, <2>2 DEF Answers, Leaves
  <2> QED
    BY <1>1, <2>1, <2>3, DecidedOK
<1> QED
  BY <1>2, <1>3

-----------------------------------------------------------------------------
(* What the operations make of a table *)

\* The seat a table binds a key to.
HomeIn(t, k) == IF k \in Held(t) THEN t.index[k].auth ELSE NoAuth

\* A table that binds no key anew.
Loses(t, u) == u \in TableSet /\ \A k \in Keys : HomeIn(u, k) \in {HomeIn(t, k), NoAuth}

LEMMA TableFields ==
  ASSUME NEW t \in TableSet
  PROVE  /\ Held(t) \subseteq Keys /\ t.index \in [Held(t) -> Bindings]
         /\ t.ahead \subseteq Keys \X Keys /\ t.counts \in [Auths -> Nat]
         /\ \A a \in Auths : HeldBy(t, a) \subseteq Keys
BY DEF TableSet, Held, HeldBy

LEMMA AsTable ==
  ASSUME NEW held \in SUBSET Keys, NEW index \in [held -> Bindings],
         NEW ahead \in SUBSET (Keys \X Keys), NEW counts \in [Auths -> Nat]
  PROVE  [index |-> index, ahead |-> ahead, counts |-> counts] \in TableSet
BY DEF TableSet

LEMMA CountsOK ==
  ASSUME NEW n \in Nat, NEW S \in SUBSET Keys
  PROVE  Floor(n - Cardinality(S)) \in Nat
<1>1. IsFiniteSet(S)
  BY TableAssumption, FS_Subset
<1>2. Cardinality(S) \in Nat
  BY <1>1, FS_CardinalityType
<1> QED
  BY <1>2 DEF Floor

LEMMA RemoveLoses ==
  ASSUME NEW t \in TableSet, NEW gone
  PROVE  /\ Loses(t, RemoveKeys(t, gone)) /\ Held(RemoveKeys(t, gone)) = Held(t) \ gone
         /\ \A k \in Held(t) \ gone : RemoveKeys(t, gone).index[k] = t.index[k]
<1> DEFINE u == RemoveKeys(t, gone)
<1>1. u.index = [k \in Held(t) \ gone |-> t.index[k]]
  BY DEF RemoveKeys
<1>2. Held(u) = Held(t) \ gone /\ \A k \in Held(t) \ gone : u.index[k] = t.index[k]
  BY <1>1 DEF Held
<1>3. u \in TableSet
  <2>1. \A a \in Auths : Floor(t.counts[a] - Cardinality(HeldBy(t, a) \cap gone)) \in Nat
    <3> SUFFICES ASSUME NEW a \in Auths
                 PROVE  Floor(t.counts[a] - Cardinality(HeldBy(t, a) \cap gone)) \in Nat
      OBVIOUS
    <3>1. HeldBy(t, a) \cap gone \in SUBSET Keys /\ t.counts[a] \in Nat
      BY TableFields
    <3> QED
      BY <3>1, CountsOK
  <2>2. [a \in Auths |-> Floor(t.counts[a] - Cardinality(HeldBy(t, a) \cap gone))] \in [Auths -> Nat]
    BY <2>1
  <2>3. [k \in Held(t) \ gone |-> t.index[k]] \in [Held(t) \ gone -> Bindings]
        /\ Held(t) \ gone \in SUBSET Keys
    BY TableFields
  <2>4. {p \in t.ahead : p[1] \notin gone /\ p[2] \notin gone} \in SUBSET (Keys \X Keys)
    BY TableFields
  <2> QED
    BY <2>2, <2>3, <2>4, AsTable DEF RemoveKeys
<1> QED
  BY <1>2, <1>3 DEF Loses, HomeIn

LEMMA TouchLoses ==
  ASSUME NEW t \in TableSet, NEW k \in Held(t), NEW now \in Nat
  PROVE  Loses(t, Touch(t, k, [t.index[k] EXCEPT !.lastSeen = now]))
<1> DEFINE b == [t.index[k] EXCEPT !.lastSeen = now]
           u == Touch(t, k, b)
<1>1. t.index[k] \in Bindings /\ k \in Keys
  BY TableFields
<1>2. b \in Bindings /\ b.auth = t.index[k].auth
  BY <1>1 DEF Bindings
<1> HIDE DEF b
<1>3. /\ u.index = [t.index EXCEPT ![k] = b] /\ u.counts = t.counts
      /\ u.ahead = {p \in t.ahead : p[2] # k} \cup {<<k, x>> : x \in Held(t) \ {k}}
  BY DEF Touch
<1>4. u.index \in [Held(t) -> Bindings] /\ u.ahead \in SUBSET (Keys \X Keys)
  BY <1>1, <1>2, <1>3, TableFields
<1>5. u \in TableSet
  BY <1>3, <1>4, TableFields, AsTable DEF Touch
<1>6. Held(u) = Held(t) /\ \A x \in Held(t) : u.index[x].auth = t.index[x].auth
  BY <1>2, <1>3, <1>4, TableFields DEF Held
<1> QED
  BY <1>5, <1>6 DEF Loses, HomeIn, b

LEMMA LookedLoses ==
  ASSUME NEW t \in TableSet, NEW k \in Keys, NEW now \in Nat
  PROVE  Loses(t, Looked(t, k, now))
BY RemoveLoses, TouchLoses DEF Looked, Hit

\* A bind gives its key the seat it names, and no other key one.
LEMMA BoundHomes ==
  ASSUME NEW t \in TableSet, NEW k \in Keys, NEW a \in Auths, NEW now \in Nat
  PROVE  /\ Bound(t, k, a, now) \in TableSet
         /\ HomeIn(Bound(t, k, a, now), k) \in {a, NoAuth}
         /\ \A x \in Keys \ {k} : HomeIn(Bound(t, k, a, now), x) \in {HomeIn(t, x), NoAuth}
<1>1. CASE Hit(t, k, now) /\ t.index[k].auth = a
  <2>1. Bound(t, k, a, now) = Touch(t, k, [t.index[k] EXCEPT !.lastSeen = now]) /\ k \in Held(t)
    BY <1>1 DEF Bound, Hit
  <2>2. HomeIn(t, k) = a
    BY <1>1, <2>1 DEF HomeIn
  <2> QED
    BY <2>1, <2>2, TouchLoses DEF Loses
<1>2. CASE ~(Hit(t, k, now) /\ t.index[k].auth = a)
  <2> DEFINE r == RemoveKeys(t, {k} \cap Held(t))
             b == [auth |-> a, boundAt |-> now, lastSeen |-> now]
             u == PushFront(r, k, b)
  <2>1. Bound(t, k, a, now) = Evict(u)
    BY <1>2 DEF Bound
  <2>2. Loses(t, r) /\ r \in TableSet /\ k \notin Held(r)
    BY RemoveLoses DEF Loses
  <2> HIDE DEF r
  <2>3. b \in Bindings /\ b.auth = a
    BY DEF Bindings
  <2> HIDE DEF b
  <2>4. /\ u.index = [x \in Held(r) \cup {k} |-> IF x = k THEN b ELSE r.index[x]]
        /\ u.ahead = r.ahead \cup {<<k, x>> : x \in Held(r)}
        /\ u.counts = [r.counts EXCEPT ![b.auth] = @ + 1]
    BY DEF PushFront
  <2>5. /\ Held(r) \cup {k} \in SUBSET Keys
        /\ u.index \in [Held(r) \cup {k} -> Bindings] /\ u.ahead \in SUBSET (Keys \X Keys)
    BY <2>2, <2>3, <2>4, TableFields
  <2>6. u.counts \in [Auths -> Nat]
    BY <2>2, <2>3, <2>4, TableFields
  <2>7. u \in TableSet
    BY <2>5, <2>6, AsTable DEF PushFront
  <2>8. Held(u) = Held(r) \cup {k} /\ \A x \in Held(u) : u.index[x] = IF x = k THEN b ELSE r.index[x]
    BY <2>4 DEF Held
  <2>9. HomeIn(u, k) = a /\ \A x \in Keys \ {k} : HomeIn(u, x) \in {HomeIn(t, x), NoAuth}
    BY <2>2, <2>3, <2>8 DEF HomeIn, Loses
  <2> HIDE DEF u
  <2>10. Loses(u, Evict(u))
    BY <2>7, RemoveLoses DEF Evict, Loses
  <2> QED
    BY <2>1, <2>9, <2>10 DEF Loses
<1> QED
  BY <1>1, <1>2

LEMMA EmptyTable == NewStore \in TableSet /\ Held(NewStore) = {}
<1>1. {} \in SUBSET Keys /\ [k \in {} |-> k] \in [{} -> Bindings]
  OBVIOUS
<1>2. [a \in Auths |-> 0] \in [Auths -> Nat] /\ {} \in SUBSET (Keys \X Keys)
  OBVIOUS
<1> QED
  BY <1>1, <1>2, AsTable DEF NewStore, Held

LEMMA SweptLoses ==
  ASSUME NEW t \in TableSet, NEW now PROVE Loses(t, Swept(t, now))
BY RemoveLoses DEF Swept, Loses

LEMMA DropAuthLoses ==
  ASSUME NEW t \in TableSet, NEW a PROVE Loses(t, DropAuth(t, a))
BY RemoveLoses DEF DropAuth

LEMMA CountByAuthType ==
  ASSUME NEW t \in TableSet, NEW now
  PROVE  CountByAuth(t, now) \in [Auths -> Nat]
<1> SUFFICES ASSUME NEW a \in Auths
             PROVE  Floor(t.counts[a] - Cardinality(HeldBy(t, a) \cap ExpiredTail(t, now))) \in Nat
  BY DEF CountByAuth
<1>1. HeldBy(t, a) \cap ExpiredTail(t, now) \in SUBSET Keys /\ t.counts[a] \in Nat
  BY TableFields
<1> QED
  BY <1>1, CountsOK

-----------------------------------------------------------------------------
(* The steps *)

\* No key gets another home but those of the set moved.
Homes(moved) ==
  live' = live => \A k \in Keys \ moved : Home(k)' \in {Home(k), NoAuth}

LEMMA HomeOf == \A k : Home(k) = IF live # 0 THEN HomeIn(tables[live].table, k) ELSE NoAuth
BY DEF Home, HomeIn

LEMMA ReachableOK ==
  ASSUME NEW ts \in Seq(Entries), NEW l \in 0..Len(ts), NEW ps
  PROVE  /\ Reachable(ts, l, ps) \in Seq(Entries) /\ Len(Reachable(ts, l, ps)) = Len(ts)
         /\ l # 0 => Reachable(ts, l, ps)[l] = ts[l]
<1> DEFINE u == Reachable(ts, l, ps)
<1>1. \A g \in 1..Len(ts) : ts[g] \in Entries /\ [ts[g] EXCEPT !.table = NewStore] \in Entries
  <2> SUFFICES ASSUME NEW g \in 1..Len(ts)
               PROVE  ts[g] \in Entries /\ [ts[g] EXCEPT !.table = NewStore] \in Entries
    OBVIOUS
  <2>1. ts[g] \in Entries
    OBVIOUS
  <2> QED
    BY <2>1, EmptyTable DEF Entries
<1>2. \A g \in 1..Len(ts) : u[g] \in Entries /\ (g = l => u[g] = ts[g])
  BY <1>1 DEF Reachable
<1>3. DOMAIN u = 1..Len(ts) /\ Len(ts) \in Nat
  BY DEF Reachable
<1>4. u \in [1..Len(ts) -> Entries]
  <2>1. u = [g \in 1..Len(ts) |-> u[g]]
    BY <1>3 DEF Reachable
  <2> HIDE DEF u
  <2> QED
    BY <1>2, <2>1
<1> HIDE DEF u
<1>5. u \in Seq(Entries) /\ Len(u) = Len(ts)
  BY <1>3, <1>4
<1> QED
  BY <1>2, <1>5 DEF u

\* What an operation of a pick does to the live table.
LEMMA OperatesLive ==
  ASSUME IInv, NEW w \in Workers, picks[w] \in Picks, picks[w].ref # 0,
         NEW u \in TableSet, NEW q, Operates(w, u, q)
  PROVE  /\ tables' \in Seq(Entries) /\ Len(tables') = Len(tables) /\ picks[w].ref <= Len(tables)
         /\ picks' = [picks EXCEPT ![w] = q] /\ UNCHANGED <<live, cfg, clock>>
         /\ live # 0 => tables'[live].table =
                          IF live = picks[w].ref THEN u ELSE tables[live].table
<1> DEFINE r == picks[w].ref
           ts == [tables EXCEPT ![r].table = u]
<1>1. tables \in Seq(Entries) /\ live \in 0..Len(tables) /\ Len(tables) \in Nat
      /\ picks \in [Workers -> {Idle} \cup Picks]
  BY DEF IInv, TypeOK
<1>2. picks[w] # Idle
  <2>1. picks[w].pc \in Operations \cup {"new", "done"}
    BY DEF Picks
  <2>2. picks[w] = Idle => picks[w].pc = "idle"
    BY DEF Idle
  <2> QED
    BY <2>1, <2>2 DEF Operations
<1>3. r \in 1..Len(tables)
  <2>1. r \in Nat /\ r # 0 /\ r <= Len(tables)
    BY <1>2 DEF IInv, TypeOK, Picks
  <2> QED
    BY <1>1, <2>1
<1>4. ts \in Seq(Entries) /\ Len(ts) = Len(tables)
      /\ \A g \in 1..Len(tables) : ts[g].table = IF g = r THEN u ELSE tables[g].table
  <2>1. tables[r] \in Entries
    BY <1>1, <1>3
  <2>2. [tables[r] EXCEPT !.table = u] \in Entries /\ [tables[r] EXCEPT !.table = u].table = u
    BY <2>1 DEF Entries
  <2>3. ts = [tables EXCEPT ![r] = [tables[r] EXCEPT !.table = u]]
    BY <1>1, <1>3
  <2> HIDE DEF ts
  <2> QED
    BY <1>1, <1>3, <2>2, <2>3
<1>5. picks' = [picks EXCEPT ![w] = q] /\ UNCHANGED <<live, cfg, clock>>
      /\ tables' = Reachable(ts, live, picks')
  BY DEF Operates
<1> HIDE DEF ts
<1>6. tables' \in Seq(Entries) /\ Len(tables') = Len(tables) /\ (live # 0 => tables'[live] = ts[live])
  BY <1>1, <1>4, <1>5, ReachableOK
<1>7. live # 0 => tables'[live].table = IF live = r THEN u ELSE tables[live].table
  BY <1>1, <1>4, <1>6
<1> QED
  BY <1>1, <1>3, <1>5, <1>6, <1>7

\* An operation of a pick that leaves u in the table it works on and goes on as q.
LEMMA OperatesOK ==
  ASSUME IInv, NEW w \in Workers, picks[w] \in Picks, picks[w].ref # 0,
         NEW u \in TableSet, NEW q, GoesOn(picks[w], q), Operates(w, u, q),
         NEW moved, \A k \in Keys \ moved : HomeIn(u, k) \in {HomeIn(TableOf(w), k), NoAuth}
  PROVE  IInv' /\ Homes(moved)
<1>1. tables \in Seq(Entries) /\ live \in 0..Len(tables) /\ Len(tables) \in Nat
      /\ picks \in [Workers -> {Idle} \cup Picks]
  BY DEF IInv, TypeOK
<1>2. /\ tables' \in Seq(Entries) /\ Len(tables') = Len(tables) /\ picks[w].ref <= Len(tables)
      /\ picks' = [picks EXCEPT ![w] = q] /\ UNCHANGED <<live, cfg, clock>>
      /\ live # 0 => tables'[live].table = IF live = picks[w].ref THEN u ELSE tables[live].table
  BY OperatesLive
<1>3. q \in Picks /\ Sound(q) /\ q.ref <= Len(tables)
  BY <1>1, <1>2 DEF GoesOn
<1>4. TypeOK'
  BY <1>1, <1>2, <1>3 DEF IInv, TypeOK
<1>5. PicksSound'
  BY <1>1, <1>2, <1>3 DEF IInv, PicksSound
<1>6. ASSUME NEW k \in Keys \ moved PROVE Home(k)' \in {Home(k), NoAuth}
  <2>1. Home(k) = IF live # 0 THEN HomeIn(tables[live].table, k) ELSE NoAuth
    BY HomeOf
  <2>2. Home(k)' = IF live # 0 THEN HomeIn(tables'[live].table, k) ELSE NoAuth
    BY <1>2 DEF Home, HomeIn
  <2>3. live = picks[w].ref => TableOf(w) = tables[live].table
    BY DEF TableOf
  <2> QED
    BY <1>2, <2>1, <2>2, <2>3
<1> QED
  BY <1>4, <1>5, <1>6 DEF IInv, Homes

\* A pick with a table has a sound one.
LEMMA AtTable ==
  ASSUME IInv, NEW w \in Workers, NEW op \in Operations, At(w, op)
  PROVE  /\ picks[w] \in Picks /\ Sound(picks[w]) /\ TableOf(w) \in TableSet
         /\ picks[w].pc = op /\ picks[w].ref # 0 /\ picks[w].cands # {}
         /\ picks[w].req.key \in Keys /\ picks[w].now \in Nat
         /\ op \in {"refresh", "parent"} => picks[w].req.parent \in Keys
<1>1. picks[w] # Idle /\ picks[w] \in {Idle} \cup Picks
  BY DEF At, Idle, Operations, IInv, TypeOK
<1>2. picks[w] \in Picks /\ Sound(picks[w])
  BY <1>1 DEF IInv, PicksSound
<1>3. picks[w].pc = op /\ picks[w].ref # 0
  BY DEF At
<1>4. picks[w].req \in AllRequests /\ picks[w].now \in Nat /\ picks[w].ref \in Nat
  BY <1>2 DEF Picks
<1>5. picks[w].req.key \in Keys \cup {NoKey} /\ picks[w].req.parent \in Keys \cup {NoKey}
  BY <1>4 DEF AllRequests
<1>6. picks[w].ref \in 1..Len(tables) /\ tables \in Seq(Entries)
  <2>1. tables \in Seq(Entries) /\ Len(tables) \in Nat /\ picks[w].ref <= Len(tables)
    BY <1>1 DEF IInv, TypeOK
  <2> QED
    BY <1>3, <1>4, <2>1
<1>7. TableOf(w) \in TableSet
  <2>1. tables[picks[w].ref] \in Entries
    BY <1>6
  <2> QED
    BY <2>1 DEF TableOf, Entries
<1> QED
  BY <1>2, <1>3, <1>4, <1>5, <1>7 DEF Sound

LEMMA GetTableOK ==
  ASSUME IInv, NEW w \in Workers, GetTable(w)
  PROVE  IInv' /\ Homes({})
<1>1. tables \in Seq(Entries) /\ live \in 0..Len(tables) /\ Len(tables) \in Nat
      /\ picks \in [Workers -> {Idle} \cup Picks] /\ cfg \in AllConfigs
  BY DEF IInv, TypeOK
<1>2. picks[w] # Idle /\ picks[w] \in Picks /\ Sound(picks[w])
  BY <1>1 DEF GetTable, Idle, IInv, PicksSound
<1>3. /\ tables' \in Seq(Entries) /\ Len(tables') >= Len(tables) /\ Len(tables') \in Nat
      /\ live' \in 1..Len(tables')
      /\ live' = live => tables' = tables
  <2>1. CASE live = 0
    <3>1. [shape |-> cfg.shape, table |-> NewStore] \in Entries
      BY <1>1, EmptyTable DEF Entries, AllConfigs
    <3>2. tables' = Append(tables, [shape |-> cfg.shape, table |-> NewStore]) /\ live' = Len(tables) + 1
      BY <2>1 DEF GetTable, Built
    <3> QED
      BY <1>1, <2>1, <3>1, <3>2
  <2>2. CASE live # 0
    BY <1>1, <2>2 DEF GetTable
  <2> QED
    BY <2>1, <2>2
<1> DEFINE q == [picks[w] EXCEPT !.ref = live']
<1>4. live' \in Nat
  BY <1>3
<1>5. /\ q \in Picks /\ q.ref = live' /\ q.pc = picks[w].pc /\ q.kind = picks[w].kind
      /\ q.chosen = picks[w].chosen /\ q.req = picks[w].req /\ q.cfg = picks[w].cfg
      /\ q.cands = picks[w].cands /\ q.snaps = picks[w].snaps /\ q.previous = picks[w].previous
  BY <1>2, <1>4 DEF Picks
<1>6. Sound(q)
  BY <1>2, <1>5 DEF Sound, Answers, Leaves, HasAlternativeHome
<1>7. picks' = [picks EXCEPT ![w] = q] /\ UNCHANGED <<cfg, clock>>
  BY <1>1 DEF GetTable
<1> HIDE DEF q
<1>8. \A v \in Workers : picks'[v] # Idle => picks'[v].ref <= Len(tables')
  <2> SUFFICES ASSUME NEW v \in Workers, picks'[v] # Idle PROVE picks'[v].ref <= Len(tables')
    OBVIOUS
  <2>1. CASE v = w
    BY <1>1, <1>3, <1>5, <1>7, <2>1
  <2>2. CASE v # w
    <3>1. picks'[v] = picks[v]
      BY <1>1, <1>7, <2>2
    <3>2. picks[v] \in Picks /\ picks[v].ref <= Len(tables)
      BY <1>1, <3>1 DEF IInv, TypeOK
    <3>3. picks[v].ref \in Nat
      BY <3>2 DEF Picks
    <3> QED
      BY <1>1, <1>3, <3>1, <3>2, <3>3
  <2> QED
    BY <2>1, <2>2
<1>9. TypeOK'
  BY <1>1, <1>3, <1>5, <1>7, <1>8 DEF IInv, TypeOK
<1>10. PicksSound'
  BY <1>1, <1>6, <1>7 DEF IInv, PicksSound
<1>11. Homes({})
  BY <1>3 DEF Homes, Home
<1> QED
  BY <1>9, <1>10, <1>11 DEF IInv

LEMMA LookupOwnOK ==
  ASSUME IInv, NEW w \in Workers, LookupOwn(w)
  PROVE  IInv' /\ Homes({})
<1> DEFINE p == picks[w]
           t == TableOf(w)
           q == [p EXCEPT !.bound = t.index[p.req.key].auth]
           u == Looked(t, p.req.key, p.now)
           n == IF ~Hit(t, p.req.key, p.now)
                  THEN IF FollowsParent(p) THEN Wants(p, "parent") ELSE Cold(p, NoAuth)
                ELSE IF FollowsParent(p) THEN [q EXCEPT !.pc = "refresh"]
                ELSE Judged(q)
<1>1. At(w, "own") /\ Operates(w, u, n)
  BY DEF LookupOwn
<1>2. /\ p \in Picks /\ Sound(p) /\ t \in TableSet /\ p.pc = "own" /\ p.ref # 0 /\ p.cands # {}
      /\ p.req.key \in Keys /\ p.now \in Nat
  BY <1>1, AtTable DEF Operations
<1>3. Loses(t, u)
  BY <1>2, LookedLoses
<1>4. GoesOn(p, n)
  <2> HIDE DEF t
  <2>1. CASE ~Hit(t, p.req.key, p.now) /\ FollowsParent(p)
    <3> DEFINE r == Wants(p, "parent")
    <3>1. /\ r \in Picks /\ r.pc = "parent" /\ r.ref = 0 /\ r.req = p.req /\ r.cfg = p.cfg
          /\ r.cands = p.cands /\ r.snaps = p.snaps /\ r.previous = p.previous
      BY <1>2 DEF Wants, Picks, Operations
    <3>2. Sound(r)
      BY <1>2, <2>1, <3>1 DEF Sound, FollowsParent, Operations, Leaves, HasAlternativeHome
    <3> QED
      BY <2>1, <3>1, <3>2 DEF GoesOn
  <2>2. CASE ~Hit(t, p.req.key, p.now) /\ ~FollowsParent(p)
    <3>1. NoAuth \in Auths \cup {NoAuth}
      OBVIOUS
    <3> QED
      BY <1>2, <2>2, <3>1, ColdOK
  <2>3. ASSUME Hit(t, p.req.key, p.now)
        PROVE  /\ q \in Picks /\ Sound(q) /\ q.ref = p.ref /\ q.req = p.req /\ q.cfg = p.cfg
               /\ q.cands = p.cands /\ q.snaps = p.snaps /\ q.previous = p.previous /\ q.pc = "own"
    <3>1. t.index[p.req.key].auth \in Auths
      BY <1>2, <2>3, TableFields DEF Hit, Bindings
    <3>2. /\ q \in Picks /\ q.pc = p.pc /\ q.ref = p.ref /\ q.req = p.req /\ q.cfg = p.cfg
          /\ q.cands = p.cands /\ q.snaps = p.snaps /\ q.previous = p.previous
      BY <1>2, <3>1 DEF Picks
    <3>3. Sound(q)
      BY <1>2, <3>2 DEF Sound, Operations, Leaves, HasAlternativeHome
    <3> QED
      BY <1>2, <3>2, <3>3
  <2> HIDE DEF q
  <2>4. CASE Hit(t, p.req.key, p.now) /\ FollowsParent(p)
    <3> DEFINE r == [q EXCEPT !.pc = "refresh"]
    <3>1. /\ r \in Picks /\ r.pc = "refresh" /\ r.ref = p.ref /\ r.req = p.req /\ r.cfg = p.cfg
          /\ r.cands = p.cands /\ r.snaps = p.snaps /\ r.previous = p.previous
      BY <1>2, <2>3, <2>4 DEF Picks, Operations
    <3>2. Sound(r)
      BY <1>2, <2>4, <3>1 DEF Sound, FollowsParent, Operations, Leaves, HasAlternativeHome
    <3> QED
      BY <2>4, <3>1, <3>2 DEF GoesOn
  <2>5. CASE Hit(t, p.req.key, p.now) /\ ~FollowsParent(p)
    <3>1. GoesOn(q, Judged(q))
      BY <1>2, <2>3, <2>5, JudgedOK
    <3> QED
      BY <2>3, <2>5, <3>1 DEF GoesOn
  <2> QED
    BY <2>1, <2>2, <2>4, <2>5
<1> HIDE DEF n, u
<1>5. u \in TableSet /\ \A k \in Keys \ {} : HomeIn(u, k) \in {HomeIn(TableOf(w), k), NoAuth}
  BY <1>3 DEF Loses
<1> QED
  BY <1>1, <1>2, <1>4, <1>5, OperatesOK

LEMMA RefreshParentOK ==
  ASSUME IInv, NEW w \in Workers, RefreshParent(w)
  PROVE  IInv' /\ Homes({})
<1> DEFINE p == picks[w]
           u == Looked(TableOf(w), p.req.parent, p.now)
<1>1. At(w, "refresh") /\ Operates(w, u, Judged(p))
  BY DEF RefreshParent
<1>2. /\ p \in Picks /\ Sound(p) /\ TableOf(w) \in TableSet /\ p.ref # 0 /\ p.cands # {}
      /\ p.req.parent \in Keys /\ p.now \in Nat
  BY <1>1, AtTable DEF Operations
<1>3. u \in TableSet /\ \A k \in Keys \ {} : HomeIn(u, k) \in {HomeIn(TableOf(w), k), NoAuth}
  BY <1>2, LookedLoses DEF Loses
<1>4. GoesOn(p, Judged(p))
  BY <1>2, JudgedOK
<1> HIDE DEF u
<1> QED
  BY <1>1, <1>2, <1>3, <1>4, OperatesOK

LEMMA LookupParentOK ==
  ASSUME IInv, NEW w \in Workers, LookupParent(w)
  PROVE  IInv' /\ Homes({})
<1> DEFINE p == picks[w]
           t == TableOf(w)
           auth == t.index[p.req.parent].auth
           u == Looked(t, p.req.parent, p.now)
           n == IF ~Hit(t, p.req.parent, p.now) \/ auth \notin p.cands \/ BlockedFor(p.snaps[auth])
                  THEN Cold(p, NoAuth)
                ELSE IF p.req.pinned THEN Decided(p, "affinity-hit", auth)
                ELSE [p EXCEPT !.pc = "inherit", !.chosen = auth]
<1>1. At(w, "parent") /\ Operates(w, u, n)
  BY DEF LookupParent
<1>2. /\ p \in Picks /\ Sound(p) /\ t \in TableSet /\ p.pc = "parent" /\ p.ref # 0 /\ p.cands # {}
      /\ p.req.parent \in Keys /\ p.now \in Nat
  BY <1>1, AtTable DEF Operations
<1>3. u \in TableSet /\ \A k \in Keys \ {} : HomeIn(u, k) \in {HomeIn(TableOf(w), k), NoAuth}
  BY <1>2, LookedLoses DEF Loses
<1>4. GoesOn(p, n)
  <2> HIDE DEF t, auth
  <2>1. CASE ~Hit(t, p.req.parent, p.now) \/ auth \notin p.cands \/ BlockedFor(p.snaps[auth])
    <3>1. NoAuth \in Auths \cup {NoAuth}
      OBVIOUS
    <3> QED
      BY <1>2, <2>1, <3>1, ColdOK
  <2>2. CASE ~(~Hit(t, p.req.parent, p.now) \/ auth \notin p.cands \/ BlockedFor(p.snaps[auth]))
    <3>1. Answers(p, auth) /\ auth \in Auths
      BY <1>2, <2>2 DEF Answers, BlockedFor, Picks
    <3>2. CASE p.req.pinned
      BY <1>2, <2>2, <3>1, <3>2, DecidedOK
    <3>3. CASE ~p.req.pinned
      <4> DEFINE r == [p EXCEPT !.pc = "inherit", !.chosen = auth]
      <4>1. /\ r \in Picks /\ r.pc = "inherit" /\ r.ref = p.ref /\ r.req = p.req /\ r.cfg = p.cfg
            /\ r.cands = p.cands /\ r.snaps = p.snaps /\ r.previous = p.previous /\ r.chosen = auth
        BY <1>2, <3>1 DEF Picks, Operations
      <4>2. Sound(r)
        BY <1>2, <3>1, <3>3, <4>1 DEF Sound, Operations, Answers, Leaves, HasAlternativeHome
      <4> QED
        BY <2>2, <3>3, <4>1, <4>2 DEF GoesOn
    <3> QED
      BY <3>2, <3>3
  <2> QED
    BY <2>1, <2>2
<1> HIDE DEF u, n
<1> QED
  BY <1>1, <1>2, <1>3, <1>4, OperatesOK

\* The two binds: they move the home of their own key only.
LEMMA BindsOK ==
  ASSUME IInv, NEW w \in Workers, Inherit(w) \/ BindCold(w)
  PROVE  /\ IInv' /\ Homes({picks[w].req.key})
         /\ picks[w] \in Picks /\ Sound(picks[w]) /\ picks[w].pc \in {"inherit", "bind"}
         /\ picks[w] # picks'[w]
<1> DEFINE p == picks[w]
           u == Bound(TableOf(w), p.req.key, p.chosen, p.now)
<1>1. PICK kind \in {"affinity-hit", "failover", "cold-pick"}, op \in {"inherit", "bind"} :
        At(w, op) /\ Operates(w, u, Decided(p, kind, p.chosen))
  BY DEF Inherit, BindCold, ColdKind
<1>2. /\ p \in Picks /\ Sound(p) /\ TableOf(w) \in TableSet /\ p.ref # 0 /\ p.cands # {}
      /\ p.req.key \in Keys /\ p.now \in Nat /\ p.pc = op
  BY <1>1, AtTable DEF Operations
<1>3. Answers(p, p.chosen) /\ p.chosen \in Auths
  BY <1>2 DEF Sound, Answers, Picks
<1>4. u \in TableSet /\ \A k \in Keys \ {p.req.key} : HomeIn(u, k) \in {HomeIn(TableOf(w), k), NoAuth}
  BY <1>2, <1>3, BoundHomes
<1>5. GoesOn(p, Decided(p, kind, p.chosen))
  BY <1>2, <1>3, DecidedOK
<1> HIDE DEF u
<1>6. IInv' /\ Homes({p.req.key})
  BY <1>1, <1>2, <1>4, <1>5, OperatesOK
<1>7. picks'[w].pc = "done"
  <2>1. picks' = [picks EXCEPT ![w] = Decided(p, kind, p.chosen)]
    BY <1>1 DEF Operates
  <2>2. Decided(p, kind, p.chosen).pc = "done"
    BY <1>2 DEF Decided, Picks
  <2>3. picks \in [Workers -> {Idle} \cup Picks]
    BY DEF IInv, TypeOK
  <2> QED
    BY <2>1, <2>2, <2>3
<1> QED
  BY <1>2, <1>6, <1>7

LEMMA CountOK ==
  ASSUME IInv, NEW w \in Workers, Count(w)
  PROVE  IInv' /\ Homes({})
<1> DEFINE p == picks[w]
           c == CountByAuth(TableOf(w), p.now)
<1>1. At(w, "count") /\ Operates(w, TableOf(w), Placed(p, LeastBound(p, c)))
  BY DEF Count
<1>2. /\ p \in Picks /\ Sound(p) /\ TableOf(w) \in TableSet /\ p.ref # 0 /\ p.cands # {}
  BY <1>1, AtTable DEF Operations
<1>3. c \in [Auths -> Nat]
  BY <1>2, CountByAuthType
<1> HIDE DEF c
<1>4. Answers(p, LeastBound(p, c)) /\ LeastBound(p, c) \in Auths
  BY <1>2, <1>3, LeastBoundAnswers DEF Answers, Picks
<1>5. GoesOn(p, Placed(p, LeastBound(p, c)))
  BY <1>2, <1>4, PlacedOK
<1> QED
  BY <1>1, <1>2, <1>5, OperatesOK

LEMMA StartOK ==
  ASSUME IInv, NEW w \in Workers, NEW req \in Requests, NEW snaps \in PoolStates, Start(w, req, snaps)
  PROVE  IInv' /\ Homes({})
<1> DEFINE p == NewPick(req, snaps)
           n == IF Ungoverned(p) THEN Decided(p, "declined", NoAuth)
                ELSE IF req.key = NoKey /\ ~(\E a \in p.cands : Usable(p.snaps[a]))
                  THEN Decided(p, "declined", NoAuth)
                ELSE IF p.cfg.affinity /\ req.key # NoKey THEN Wants(p, "own")
                ELSE Cold(p, NoAuth)
<1>1. picks' = [picks EXCEPT ![w] = n] /\ UNCHANGED <<tables, live, cfg, clock>>
  BY DEF Start
<1>2. req \in AllRequests /\ snaps \in [Auths -> Readings] /\ cfg \in AllConfigs /\ clock \in Nat
  BY PickAssumption DEF IInv, TypeOK
<1>3. req.offered \in SUBSET Auths
  BY <1>2 DEF AllRequests
<1>4. /\ p \in Picks /\ p.pc = "new" /\ p.ref = 0 /\ p.req = req /\ p.cfg = cfg /\ p.previous = NoAuth
  BY <1>2, <1>3 DEF NewPick, Picks
<1> HIDE DEF p
<1>5. Sound(p)
  BY <1>4 DEF Sound, Operations
<1>6. NoAuth \in Auths \cup {NoAuth}
  OBVIOUS
<1>7. GoesOn(p, n)
  <2>1. CASE Ungoverned(p) \/ (req.key = NoKey /\ ~(\E a \in p.cands : Usable(p.snaps[a])))
    BY <1>4, <1>5, <1>6, <2>1, DecidedOK
  <2>2. CASE /\ ~Ungoverned(p) /\ p.cfg.affinity /\ req.key # NoKey
    <3> DEFINE r == Wants(p, "own")
    <3>1. /\ r \in Picks /\ r.pc = "own" /\ r.ref = 0 /\ r.req = p.req /\ r.cfg = p.cfg
          /\ r.cands = p.cands /\ r.snaps = p.snaps /\ r.previous = p.previous
      BY <1>4 DEF Wants, Picks, Operations
    <3>2. Sound(r)
      BY <1>4, <2>2, <3>1 DEF Sound, Ungoverned, Operations
    <3>3. n = r
      BY <2>2
    <3> QED
      BY <3>1, <3>2, <3>3 DEF GoesOn
  <2>3. CASE /\ ~Ungoverned(p) /\ ~(p.cfg.affinity /\ req.key # NoKey)
             /\ ~(req.key = NoKey /\ ~(\E a \in p.cands : Usable(p.snaps[a])))
    <3>1. GoesOn(p, Cold(p, NoAuth))
      BY <1>4, <1>5, <1>6, <2>3, ColdOK DEF Ungoverned
    <3> QED
      BY <2>3, <3>1
  <2> QED
    BY <2>1, <2>2, <2>3
<1> HIDE DEF n
<1>8. n \in Picks /\ Sound(n) /\ n.ref = 0
  BY <1>4, <1>7 DEF GoesOn
<1>9. TypeOK'
  <2>1. Len(tables) \in Nat
    BY DEF IInv, TypeOK
  <2> QED
    BY <1>1, <1>8, <2>1 DEF IInv, TypeOK
<1>10. PicksSound'
  BY <1>1, <1>8 DEF IInv, TypeOK, PicksSound
<1>11. Homes({})
  BY <1>1 DEF Homes, Home
<1> QED
  BY <1>9, <1>10, <1>11 DEF IInv

LEMMA ReturnOK ==
  ASSUME IInv, NEW w \in Workers, Return(w)
  PROVE  IInv' /\ Homes({})
<1>1. TypeOK' /\ PicksSound'
  BY DEF Return, IInv, TypeOK, PicksSound
<1> QED
  BY <1>1 DEF Return, IInv, Homes, Home

LEMMA ApplyConfigOK ==
  ASSUME IInv, NEW c \in Configs, ApplyConfig(c)
  PROVE  IInv' /\ Homes({})
<1>1. tables \in Seq(Entries) /\ live \in 0..Len(tables) /\ Len(tables) \in Nat /\ c \in AllConfigs
  BY PickAssumption DEF IInv, TypeOK
<1>2. /\ tables' \in Seq(Entries) /\ Len(tables') >= Len(tables) /\ Len(tables') \in Nat
      /\ live' \in 0..Len(tables')
      /\ live' = live => tables' = tables
  <2>1. CASE live = 0 \/ tables[live].shape # c.shape
    <3>1. [shape |-> c.shape, table |-> NewStore] \in Entries
      BY <1>1, EmptyTable DEF Entries, AllConfigs
    <3>2. Built(c) \in Seq(Entries) /\ Len(Built(c)) = Len(tables) + 1
      BY <1>1, <3>1 DEF Built
    <3>3. live' = Len(tables) + 1 /\ tables' = Reachable(Built(c), live', picks)
      BY <2>1 DEF ApplyConfig
    <3>4. live' \in 0..Len(Built(c))
      BY <1>1, <3>2, <3>3
    <3>5. tables' \in Seq(Entries) /\ Len(tables') = Len(Built(c))
      BY <3>2, <3>3, <3>4, ReachableOK
    <3> QED
      BY <1>1, <3>2, <3>3, <3>5
  <2>2. CASE ~(live = 0 \/ tables[live].shape # c.shape)
    <3>1. tables' = tables /\ live' = live
      BY <2>2 DEF ApplyConfig
    <3> QED
      BY <1>1, <3>1
  <2> QED
    BY <2>1, <2>2
<1>3. cfg' = c /\ UNCHANGED <<clock, picks>>
  BY DEF ApplyConfig
<1>4. \A w \in Workers : picks'[w] # Idle => picks'[w].ref <= Len(tables')
  <2> SUFFICES ASSUME NEW w \in Workers, picks[w] # Idle PROVE picks[w].ref <= Len(tables')
    BY <1>3
  <2>1. picks[w] \in Picks /\ picks[w].ref <= Len(tables)
    BY DEF IInv, TypeOK
  <2>2. picks[w].ref \in Nat
    BY <2>1 DEF Picks
  <2> QED
    BY <1>1, <1>2, <2>1, <2>2
<1>5. TypeOK'
  BY <1>1, <1>2, <1>3, <1>4 DEF IInv, TypeOK
<1>6. PicksSound' /\ Homes({})
  BY <1>2, <1>3 DEF IInv, PicksSound, Homes, Home
<1> QED
  BY <1>5, <1>6 DEF IInv

LEMMA OnLiveOK ==
  ASSUME IInv, NEW u, live # 0 => Loses(tables[live].table, u), OnLive(u)
  PROVE  IInv' /\ Homes({})
<1>1. tables \in Seq(Entries) /\ live \in 1..Len(tables) /\ Len(tables) \in Nat
  BY DEF OnLive, IInv, TypeOK
<1>2. live # 0 /\ UNCHANGED <<live, cfg, clock, picks>> /\ tables' = [tables EXCEPT ![live].table = u]
      /\ u \in TableSet
  BY DEF OnLive, Loses
<1>3. tables' \in Seq(Entries) /\ Len(tables') = Len(tables) /\ tables'[live].table = u
  <2>1. tables[live] \in Entries
    BY <1>1
  <2>2. [tables[live] EXCEPT !.table = u] \in Entries /\ [tables[live] EXCEPT !.table = u].table = u
    BY <1>2, <2>1 DEF Entries
  <2>3. tables' = [tables EXCEPT ![live] = [tables[live] EXCEPT !.table = u]]
    BY <1>1, <1>2
  <2> QED
    BY <1>1, <2>2, <2>3
<1>4. TypeOK' /\ PicksSound'
  BY <1>1, <1>2, <1>3 DEF IInv, TypeOK, PicksSound
<1>5. ASSUME NEW k \in Keys PROVE Home(k)' \in {Home(k), NoAuth}
  <2>1. Home(k) = HomeIn(tables[live].table, k)
    BY <1>2, HomeOf
  <2>2. Home(k)' = HomeIn(u, k)
    BY <1>2, <1>3 DEF Home, HomeIn
  <2> QED
    BY <1>2, <2>1, <2>2 DEF Loses
<1> QED
  BY <1>4, <1>5 DEF IInv, Homes

LEMMA LiveTable ==
  ASSUME IInv, live # 0 PROVE tables[live].table \in TableSet
<1>1. tables \in Seq(Entries) /\ live \in 1..Len(tables)
  BY DEF IInv, TypeOK
<1>2. tables[live] \in Entries
  BY <1>1
<1> QED
  BY <1>2 DEF Entries

LEMMA InitOK == Init => IInv
<1> SUFFICES ASSUME Init PROVE IInv
  OBVIOUS
<1>1. tables \in Seq(Entries) /\ Len(tables) = 0 /\ live \in 0..0
  BY DEF Init
<1>2. TypeOK
  BY <1>1, PickAssumption DEF Init, TypeOK
<1> QED
  BY <1>2 DEF Init, IInv, PicksSound

\* Every step keeps the invariant, and only a bind moves a home: that of its own key.
LEMMA StepOK ==
  ASSUME IInv, [Next]_vars
  PROVE  /\ IInv'
         /\ \/ Homes({})
            \/ \E w \in Workers : (Inherit(w) \/ BindCold(w)) /\ Homes({picks[w].req.key})
<1>1. ASSUME NEW w \in Workers, Step(w)
      PROVE  /\ IInv'
             /\ \/ Homes({})
                \/ (Inherit(w) \/ BindCold(w)) /\ Homes({picks[w].req.key})
  BY <1>1, GetTableOK, LookupOwnOK, RefreshParentOK, LookupParentOK, BindsOK, CountOK, ReturnOK DEF Step
<1>2. ASSUME NEW w \in Workers, NEW req \in Requests, NEW snaps \in PoolStates, Start(w, req, snaps)
      PROVE  IInv' /\ Homes({})
  BY <1>2, StartOK
<1>3. ASSUME NEW c \in Configs, ApplyConfig(c) PROVE IInv' /\ Homes({})
  BY <1>3, ApplyConfigOK
<1>4. CASE SweepLive
  <2>1. live # 0 => Loses(tables[live].table, Swept(tables[live].table, clock))
    BY LiveTable, SweptLoses
  <2> QED
    BY <1>4, <2>1, OnLiveOK DEF SweepLive
<1>5. ASSUME NEW a \in Auths, DropSeat(a) PROVE IInv' /\ Homes({})
  <2>1. live # 0 => Loses(tables[live].table, DropAuth(tables[live].table, a))
    BY LiveTable, DropAuthLoses
  <2> QED
    BY <1>5, <2>1, OnLiveOK DEF DropSeat
<1>6. CASE Tick
  BY <1>6 DEF Tick, IInv, TypeOK, PicksSound, Homes, Home
<1>7. CASE UNCHANGED vars
  BY <1>7 DEF vars, IInv, TypeOK, PicksSound, Homes, Home
<1> QED
  BY <1>1, <1>2, <1>3, <1>4, <1>5, <1>6, <1>7 DEF Next

LEMMA Invariance == Spec => []IInv
<1>1. IInv /\ [Next]_vars => IInv'
  BY StepOK
<1> QED
  BY <1>1, InitOK, PTL DEF Spec

-----------------------------------------------------------------------------
(* What it gives *)

\* However picks race and whatever replaces the table under them, none answers a seat its
\* own reading shows refused while another it was offered is not.
THEOREM RefusedOnlyWhenAll == Spec => []RefusedOnlyWhenAllAre
<1>1. IInv => RefusedOnlyWhenAllAre
  <2> SUFFICES ASSUME IInv, NEW w \in Answered, picks[w].snaps[picks[w].chosen] = "refused",
                      NEW a \in picks[w].cands
               PROVE  Refused(picks[w].snaps[a])
    BY DEF RefusedOnlyWhenAllAre
  <2>1. w \in Workers /\ picks[w] # Idle /\ picks[w].pc = "done" /\ picks[w].kind # "declined"
    BY DEF Answered, Idle
  <2> QED
    BY <2>1 DEF IInv, PicksSound, Sound, Answers
<1> QED
  BY <1>1, Invariance, PTL

\* A conversation's home moves only under an unpinned pick of its own that has a cause.
THEOREM HomesMoveForCause == Spec => HomeMovesForCause
<1> DEFINE Caused(k) ==
      \E w \in Workers :
        LET p == picks[w]
        IN  /\ p # picks'[w]
            /\ p.req.key = k /\ ~p.req.pinned /\ p.cfg.affinity
            /\ \/ Home(k) # p.previous
               \/ Home(k) \notin p.cands
               \/ BlockedFor(p.snaps[Home(k)]) /\ HasAlternativeHome(p, Home(k))
           Moves == \A k \in Keys :
             live' = live /\ Home(k) # NoAuth /\ Home(k)' \notin {NoAuth, Home(k)} => Caused(k)
<1>1. IInv /\ [Next]_vars => [Moves]_vars
  <2> SUFFICES ASSUME IInv, [Next]_vars, NEW k \in Keys,
                      live' = live, Home(k) # NoAuth, Home(k)' \notin {NoAuth, Home(k)}
               PROVE  Caused(k)
    OBVIOUS
  <2>1. PICK w \in Workers : (Inherit(w) \/ BindCold(w)) /\ Homes({picks[w].req.key})
    BY StepOK DEF Homes
  <2>2. k = picks[w].req.key
    BY <2>1 DEF Homes
  <2>3. /\ Sound(picks[w]) /\ picks[w].pc \in {"inherit", "bind"} /\ picks[w] # picks'[w]
    BY <2>1, BindsOK
  <2>4. ~picks[w].req.pinned /\ picks[w].cfg.affinity
    BY <2>3 DEF Sound
  <2>5. Home(k) = picks[w].previous => Leaves(picks[w], Home(k))
    BY <2>3 DEF Sound
  <2> QED
    BY <2>2, <2>3, <2>4, <2>5 DEF Leaves
<1> QED
  BY <1>1, Invariance, PTL DEF Spec, HomeMovesForCause

\* No step of a pinned pick gives a conversation another home.
THEOREM PinnedLeaveHomes == Spec => PinnedLeavesHomes
<1> DEFINE Left == \A w \in Workers : picks[w] # picks'[w] /\ picks[w] # Idle /\ picks[w].req.pinned =>
                     \A k \in Keys : live' = live => Home(k)' \in {Home(k), NoAuth}
<1>1. IInv /\ [Next]_vars => [Left]_vars
  <2> SUFFICES ASSUME IInv, [Next]_vars, NEW w \in Workers, picks[w] # picks'[w], picks[w].req.pinned
               PROVE  Homes({})
    BY DEF Homes
  <2>1. ASSUME NEW v \in Workers, Inherit(v) \/ BindCold(v) PROVE FALSE
    <3>1. Sound(picks[v]) /\ picks[v].pc \in {"inherit", "bind"}
      BY <2>1, BindsOK
    <3>2. \E q : picks' = [picks EXCEPT ![v] = q]
      BY <2>1 DEF Inherit, BindCold, Operates
    <3>3. v = w
      BY <3>2 DEF IInv, TypeOK
    <3> QED
      BY <3>1, <3>3 DEF Sound
  <2> QED
    BY <2>1, StepOK
<1> QED
  BY <1>1, Invariance, PTL DEF Spec, PinnedLeavesHomes

-----------------------------------------------------------------------------
(* Picks one at a time *)

\* A pick beside this one may rebind its conversation or its parent before it returns.
OneWorker == \A v, w \in Workers : v = w

LiveTab == tables[live].table

\* The binding of p's parent in the table t, if there is one, was seen since p began.
Alive(t, p) == p.req.parent \in Held(t) => t.index[p.req.parent].lastSeen >= p.now

Answering(p) == p.pc = "done" /\ p.kind # "declined"

\* p owes its parent a look, which it had by now.
HasSeenParent(p) ==
  /\ p.pc \in {"inherit", "count", "bind"} \/ Answering(p)
  /\ p.cfg.affinity /\ FollowsParent(p) /\ p.req.key # NoKey

\* What p relies on in the table t it worked on: nobody else has touched it.
Relies(t, p) ==
  /\ p.pc = "refresh" => HomeIn(t, p.req.key) \in {p.bound, NoAuth}
  /\ Answering(p) /\ Binds(p) => HomeIn(t, p.req.key) \in {p.chosen, NoAuth}
  /\ HasSeenParent(p) => Alive(t, p)

\* A pick whose table was replaced finds the new one empty, since nobody else fills it.
Alone(p) ==
  live # 0 =>
    /\ p.ref \notin {0, live} => Held(LiveTab) = {}
    /\ Relies(LiveTab, p)

LoneIInv == IInv /\ \A w \in Workers : picks[w] # Idle => Alone(picks[w])

LEMMA EmptyRelies == ASSUME NEW t, Held(t) = {}, NEW p PROVE Relies(t, p)
BY DEF Relies, HomeIn, Alive

-----------------------------------------------------------------------------
(* What a pick relies on when it goes on *)

\* The fields by which a pick's reasons are told.
SameRequest(p, q) == q.req = p.req /\ q.cfg = p.cfg /\ q.now = p.now

LEMMA DecidedFields ==
  ASSUME NEW p \in Picks, NEW kind \in {"declined", "affinity-hit", "failover", "cold-pick"},
         NEW auth \in Auths \cup {NoAuth}
  PROVE  LET q == Decided(p, kind, auth)
         IN  SameRequest(p, q) /\ q.pc = "done" /\ q.kind = kind /\ q.chosen = auth
BY DEF Decided, Picks, SameRequest

\* A cold pick that answers without a bind is one that binds nothing.
LEMMA PlacedAnswers ==
  ASSUME NEW p \in Picks, NEW auth \in Auths
  PROVE  LET q == Placed(p, auth)
         IN  SameRequest(p, q) /\ q.pc \in {"bind", "done"} /\ (Answering(q) => ~Binds(q))
<1>1. CASE Binds(p)
  BY <1>1 DEF Placed, Wants, Picks, SameRequest, Answering
<1>2. CASE ~Binds(p)
  <2>1. ColdKind(p) \in {"failover", "cold-pick"}
    BY DEF ColdKind
  <2> DEFINE q == Decided(p, ColdKind(p), auth)
  <2>2. SameRequest(p, q) /\ q.pc = "done"
    BY <2>1, DecidedFields
  <2>3. ~Binds(q)
    BY <1>2, <2>2 DEF Binds, SameRequest
  <2>4. Placed(p, auth) = q
    BY <1>2 DEF Placed
  <2> HIDE DEF q
  <2> QED
    BY <2>2, <2>3, <2>4
<1> QED
  BY <1>1, <1>2

LEMMA ColdAnswers ==
  ASSUME NEW p \in Picks, p.cands # {}, NEW previous \in Auths \cup {NoAuth}
  PROVE  LET q == Cold(p, previous)
         IN  SameRequest(p, q) /\ q.pc \in {"count", "bind", "done"} /\ (Answering(q) => ~Binds(q))
<1> DEFINE r == [p EXCEPT !.previous = previous]
<1>1. r \in Picks /\ SameRequest(p, r)
  BY DEF Picks, SameRequest
<1> HIDE DEF r
<1>2. Cold(p, previous) = IF HasEligible(r) THEN Placed(r, PaceBest(r.snaps, r.cands))
                          ELSE IF r.req.key = NoKey THEN Decided(r, "declined", NoAuth)
                          ELSE Wants(r, "count")
  BY DEF Cold, r
<1>3. CASE HasEligible(r)
  <2>1. r.cands \in SUBSET Auths /\ r.snaps \in [Auths -> Readings]
    BY <1>1 DEF Picks
  <2>2. PaceBest(r.snaps, r.cands) \in Auths
    BY <1>3, <2>1, BestIsEligible DEF HasEligible
  <2> QED
    BY <1>1, <1>2, <1>3, <2>2, PlacedAnswers DEF SameRequest
<1>4. CASE ~HasEligible(r) /\ r.req.key = NoKey
  <2>1. NoAuth \in Auths \cup {NoAuth}
    OBVIOUS
  <2> QED
    BY <1>1, <1>2, <1>4, <2>1, DecidedFields DEF SameRequest, Answering
<1>5. CASE ~HasEligible(r) /\ r.req.key # NoKey
  BY <1>1, <1>2, <1>5 DEF Wants, Picks, SameRequest, Answering
<1> QED
  BY <1>3, <1>4, <1>5

\* A pick that finds its binding good answers it.
LEMMA JudgedAnswers ==
  ASSUME NEW p \in Picks, p.cands # {}
  PROVE  LET q == Judged(p)
         IN  /\ SameRequest(p, q) /\ q.pc \in {"count", "bind", "done"}
             /\ Answering(q) /\ Binds(q) => q.chosen = p.bound
<1>1. p.bound \in Auths \cup {NoAuth}
  BY DEF Picks
<1>2. Judged(p) = Cold(p, p.bound) \/ Judged(p) = Decided(p, "affinity-hit", p.bound)
  BY DEF Judged
<1> QED
  BY <1>1, <1>2, ColdAnswers, DecidedFields

-----------------------------------------------------------------------------
(* What the operations keep of a parent's binding *)

\* A table whose bindings are those of another.
Trims(t, u) == Held(u) \subseteq Held(t) /\ \A k \in Held(u) : u.index[k] = t.index[k]

LEMMA RemoveTrims ==
  ASSUME NEW t \in TableSet, NEW gone PROVE Trims(t, RemoveKeys(t, gone))
BY RemoveLoses DEF Trims

LEMMA TrimsRely ==
  ASSUME NEW t, NEW u, Trims(t, u), NEW p, Relies(t, p) PROVE Relies(u, p)
BY DEF Trims, Relies, Alive, HomeIn

\* A looked-up binding is seen at the caller's clock, or gone.
LEMMA LookedAlive ==
  ASSUME NEW t \in TableSet, NEW p, p.now \in Nat
  PROVE  Alive(Looked(t, p.req.parent, p.now), p)
<1> DEFINE k == p.req.parent
<1>1. CASE Hit(t, k, p.now)
  <2> DEFINE b == [t.index[k] EXCEPT !.lastSeen = p.now]
  <2>1. k \in Held(t) /\ t.index \in [Held(t) -> Bindings] /\ t.index[k] \in Bindings
    BY <1>1, TableFields DEF Hit
  <2>2. b.lastSeen = p.now
    BY <2>1 DEF Bindings
  <2> HIDE DEF b
  <2>3. Touch(t, k, b).index[k] = b
    BY <2>1 DEF Touch
  <2>4. Looked(t, k, p.now) = Touch(t, k, b)
    BY <1>1 DEF Looked, b
  <2> QED
    BY <2>2, <2>3, <2>4 DEF Alive
<1>2. CASE ~Hit(t, k, p.now)
  <2>1. Looked(t, k, p.now) = RemoveKeys(t, {k} \cap Held(t))
    BY <1>2 DEF Looked
  <2>2. k \notin Held(Looked(t, k, p.now))
    BY <2>1, RemoveLoses
  <2> QED
    BY <2>2 DEF Alive
<1> QED
  BY <1>1, <1>2

\* A bind sees its own key at the caller's clock, and leaves the others as they were.
LEMMA BoundAlive ==
  ASSUME NEW t \in TableSet, NEW p, p.now \in Nat, NEW k \in Keys, NEW a \in Auths, Alive(t, p)
  PROVE  Alive(Bound(t, k, a, p.now), p)
<1>1. CASE Hit(t, k, p.now) /\ t.index[k].auth = a
  <2> DEFINE b == [t.index[k] EXCEPT !.lastSeen = p.now]
  <2>1. k \in Held(t) /\ t.index \in [Held(t) -> Bindings] /\ t.index[k] \in Bindings
    BY <1>1, TableFields DEF Hit
  <2>2. b.lastSeen = p.now
    BY <2>1 DEF Bindings
  <2>3. Bound(t, k, a, p.now) = Touch(t, k, b)
    BY <1>1 DEF Bound
  <2> HIDE DEF b
  <2>4. /\ Held(Touch(t, k, b)) = Held(t)
        /\ \A x \in Held(t) : Touch(t, k, b).index[x] = IF x = k THEN b ELSE t.index[x]
    BY <2>1 DEF Touch, Held
  <2> QED
    BY <2>2, <2>3, <2>4 DEF Alive
<1>2. CASE ~(Hit(t, k, p.now) /\ t.index[k].auth = a)
  <2> DEFINE r == RemoveKeys(t, {k} \cap Held(t))
             b == [auth |-> a, boundAt |-> p.now, lastSeen |-> p.now]
             u == PushFront(r, k, b)
  <2>1. Bound(t, k, a, p.now) = Evict(u)
    BY <1>2 DEF Bound
  <2>2. Trims(t, r) /\ r \in TableSet
    BY RemoveTrims, RemoveLoses DEF Loses
  <2>3. b \in Bindings /\ b.auth = a /\ b.lastSeen = p.now
    BY DEF Bindings
  <2> HIDE DEF r, b
  <2>4. /\ Held(u) = Held(r) \cup {k}
        /\ \A x \in Held(u) : u.index[x] = IF x = k THEN b ELSE r.index[x]
    BY DEF PushFront, Held
  <2>5. Alive(u, p)
    BY <2>2, <2>3, <2>4 DEF Alive, Trims
  <2>6. Trims(u, Evict(u))
    <3>1. Trims(u, u) /\ \A gone : Trims(u, RemoveKeys(u, gone))
      BY DEF Trims, RemoveKeys, Held
    <3> QED
      BY <3>1 DEF Evict
  <2> QED
    BY <2>1, <2>5, <2>6 DEF Alive, Trims
<1> QED
  BY <1>1, <1>2

-----------------------------------------------------------------------------
(* The steps *)

\* An operation of the only pick: in the live table it leaves what it relies on.
LEMMA LoneOperates ==
  ASSUME LoneIInv, OneWorker, NEW w \in Workers, picks[w] \in Picks, picks[w] # Idle,
         picks[w].ref # 0, NEW u \in TableSet, NEW q, q.ref \in {0, picks[w].ref},
         Operates(w, u, q),
         picks[w].ref = live => Relies(u, q)
  PROVE  \A v \in Workers : picks'[v] # Idle => Alone(picks[v])'
<1>1. /\ picks' = [picks EXCEPT ![w] = q] /\ live' = live
      /\ live # 0 => tables'[live].table = IF live = picks[w].ref THEN u ELSE LiveTab
  BY OperatesLive DEF LoneIInv, LiveTab
<1>2. picks'[w] = q
  BY <1>1 DEF LoneIInv, IInv, TypeOK
<1>3. live # 0 /\ picks[w].ref # live => Held(LiveTab) = {}
  BY DEF LoneIInv, Alone
<1>4. Alone(q)'
  <2>1. live # 0 /\ picks[w].ref # live => Held(LiveTab') = {} /\ Relies(LiveTab', q)
    BY <1>1, <1>3, EmptyRelies DEF LiveTab
  <2> QED
    BY <1>1, <2>1 DEF Alone, LiveTab, Relies, HomeIn, Alive, Held, HasSeenParent, Binds, Answering, FollowsParent
<1> QED
  BY <1>2, <1>4 DEF OneWorker

LEMMA LoneLookupOwn ==
  ASSUME LoneIInv, OneWorker, NEW w \in Workers, LookupOwn(w)
  PROVE  \A v \in Workers : picks'[v] # Idle => Alone(picks[v])'
<1> DEFINE p == picks[w]
           t == TableOf(w)
           q == [p EXCEPT !.bound = t.index[p.req.key].auth]
           u == Looked(t, p.req.key, p.now)
           n == IF ~Hit(t, p.req.key, p.now)
                  THEN IF FollowsParent(p) THEN Wants(p, "parent") ELSE Cold(p, NoAuth)
                ELSE IF FollowsParent(p) THEN [q EXCEPT !.pc = "refresh"]
                ELSE Judged(q)
<1>1. At(w, "own") /\ Operates(w, u, n) /\ IInv
  BY DEF LookupOwn, LoneIInv
<1>2. /\ p \in Picks /\ Sound(p) /\ t \in TableSet /\ p.pc = "own" /\ p.ref # 0 /\ p.cands # {}
      /\ p.req.key \in Keys /\ p.now \in Nat
  BY <1>1, AtTable DEF Operations
<1>3. Loses(t, u) /\ u \in TableSet
  BY <1>2, LookedLoses DEF Loses
<1> HIDE DEF u
<1>4. n.ref \in {0, p.ref} /\ Relies(u, n)
  <2> HIDE DEF t
  <2>1. CASE ~Hit(t, p.req.key, p.now) /\ FollowsParent(p)
    <3>1. n.pc = "parent" /\ n.ref = 0
      BY <1>2, <2>1 DEF Wants, Picks
    <3> QED
      BY <3>1 DEF Relies, Answering, HasSeenParent
  <2>2. CASE ~Hit(t, p.req.key, p.now) /\ ~FollowsParent(p)
    <3>1. NoAuth \in Auths \cup {NoAuth} /\ n = Cold(p, NoAuth)
      BY <2>2
    <3> HIDE DEF n
    <3>2. SameRequest(p, n) /\ n.pc \in {"count", "bind", "done"} /\ (Answering(n) => ~Binds(n))
      BY <1>2, <3>1, ColdAnswers
    <3>3. ~FollowsParent(n)
      BY <2>2, <3>2 DEF SameRequest, FollowsParent
    <3>4. n.ref \in {0, p.ref}
      BY <1>2, <3>1, ColdOK DEF GoesOn
    <3> QED
      BY <3>2, <3>3, <3>4 DEF Relies, HasSeenParent
  <2>3. ASSUME Hit(t, p.req.key, p.now)
        PROVE  /\ q \in Picks /\ Sound(q) /\ q.ref = p.ref /\ q.req = p.req /\ q.cfg = p.cfg
               /\ q.cands = p.cands /\ q.now = p.now /\ q.pc = "own"
               /\ q.bound = HomeIn(t, p.req.key)
    <3>1. t.index[p.req.key].auth \in Auths /\ p.req.key \in Held(t)
      BY <1>2, <2>3, TableFields DEF Hit, Bindings
    <3>2. /\ q \in Picks /\ q.pc = p.pc /\ q.ref = p.ref /\ q.req = p.req /\ q.cfg = p.cfg
          /\ q.cands = p.cands /\ q.snaps = p.snaps /\ q.previous = p.previous /\ q.now = p.now
          /\ q.bound = t.index[p.req.key].auth
      BY <1>2, <3>1 DEF Picks
    <3>3. Sound(q)
      BY <1>2, <3>2 DEF Sound, Operations, Leaves, HasAlternativeHome
    <3> QED
      BY <1>2, <3>1, <3>2, <3>3 DEF HomeIn
  <2>4. HomeIn(u, p.req.key) \in {HomeIn(t, p.req.key), NoAuth}
    BY <1>2, <1>3 DEF Loses
  <2> HIDE DEF q
  <2>5. CASE Hit(t, p.req.key, p.now) /\ FollowsParent(p)
    <3>1. n.pc = "refresh" /\ n.ref = p.ref /\ n.req = p.req /\ n.bound = q.bound
      BY <2>3, <2>5 DEF Picks
    <3> QED
      BY <2>3, <2>4, <2>5, <3>1 DEF Relies, Answering, HasSeenParent
  <2>6. CASE Hit(t, p.req.key, p.now) /\ ~FollowsParent(p)
    <3>1. n = Judged(q)
      BY <2>6
    <3> HIDE DEF n
    <3>2. /\ SameRequest(q, n) /\ n.pc \in {"count", "bind", "done"}
          /\ Answering(n) /\ Binds(n) => n.chosen = q.bound
      BY <1>2, <2>3, <2>6, <3>1, JudgedAnswers
    <3>3. ~FollowsParent(n) /\ n.req = p.req
      BY <2>3, <2>6, <3>2 DEF SameRequest, FollowsParent
    <3>4. n.ref \in {0, p.ref}
      BY <1>2, <2>3, <2>6, <3>1, JudgedOK DEF GoesOn
    <3> QED
      BY <2>3, <2>4, <2>6, <3>2, <3>3, <3>4 DEF Relies, HasSeenParent
  <2> QED
    BY <2>1, <2>2, <2>5, <2>6
<1> HIDE DEF n
<1>5. p # Idle
  BY <1>2 DEF Idle
<1> QED
  BY <1>1, <1>2, <1>3, <1>4, <1>5, LoneOperates

LEMMA LoneRefreshParent ==
  ASSUME LoneIInv, OneWorker, NEW w \in Workers, RefreshParent(w)
  PROVE  \A v \in Workers : picks'[v] # Idle => Alone(picks[v])'
<1> DEFINE p == picks[w]
           t == TableOf(w)
           u == Looked(t, p.req.parent, p.now)
           n == Judged(p)
<1>1. At(w, "refresh") /\ Operates(w, u, n) /\ IInv
  BY DEF RefreshParent, LoneIInv
<1>2. /\ p \in Picks /\ Sound(p) /\ t \in TableSet /\ p.pc = "refresh" /\ p.ref # 0 /\ p.cands # {}
      /\ p.req.key \in Keys /\ p.req.parent \in Keys /\ p.now \in Nat
  BY <1>1, AtTable DEF Operations
<1>3. p # Idle
  BY <1>2 DEF Idle
<1>4. Loses(t, u) /\ u \in TableSet
  BY <1>2, LookedLoses DEF Loses
<1>5. Alive(u, p)
  BY <1>2, LookedAlive
<1>6. p.ref = live => HomeIn(t, p.req.key) \in {p.bound, NoAuth}
  BY <1>2, <1>3 DEF LoneIInv, Alone, Relies, LiveTab, TableOf
<1> HIDE DEF t, u
<1>7. HomeIn(u, p.req.key) \in {HomeIn(t, p.req.key), NoAuth}
  BY <1>2, <1>4 DEF Loses
<1>8. /\ SameRequest(p, n) /\ n.pc \in {"count", "bind", "done"}
      /\ Answering(n) /\ Binds(n) => n.chosen = p.bound
  BY <1>2, JudgedAnswers
<1>9. n.ref \in {0, p.ref}
  BY <1>2, JudgedOK DEF GoesOn
<1> HIDE DEF n
<1>10. p.ref = live => Relies(u, n)
  BY <1>5, <1>6, <1>7, <1>8 DEF Relies, SameRequest, Alive
<1> QED
  BY <1>1, <1>2, <1>3, <1>4, <1>9, <1>10, LoneOperates

LEMMA LoneLookupParent ==
  ASSUME LoneIInv, OneWorker, NEW w \in Workers, LookupParent(w)
  PROVE  \A v \in Workers : picks'[v] # Idle => Alone(picks[v])'
<1> DEFINE p == picks[w]
           t == TableOf(w)
           auth == t.index[p.req.parent].auth
           u == Looked(t, p.req.parent, p.now)
           misses == ~Hit(t, p.req.parent, p.now) \/ auth \notin p.cands \/ BlockedFor(p.snaps[auth])
           n == IF misses THEN Cold(p, NoAuth)
                ELSE IF p.req.pinned THEN Decided(p, "affinity-hit", auth)
                ELSE [p EXCEPT !.pc = "inherit", !.chosen = auth]
<1>1. At(w, "parent") /\ Operates(w, u, n) /\ IInv
  BY DEF LookupParent, LoneIInv
<1>2. /\ p \in Picks /\ Sound(p) /\ t \in TableSet /\ p.pc = "parent" /\ p.ref # 0 /\ p.cands # {}
      /\ p.req.parent \in Keys /\ p.now \in Nat
  BY <1>1, AtTable DEF Operations
<1>3. p # Idle
  BY <1>2 DEF Idle
<1>4. u \in TableSet /\ Alive(u, p)
  BY <1>2, LookedLoses, LookedAlive DEF Loses
<1> HIDE DEF t, u
<1>5. n.ref \in {0, p.ref} /\ SameRequest(p, n) /\ n.pc # "refresh" /\ (Answering(n) => ~Binds(n))
  <2> HIDE DEF auth
  <2>1. CASE misses
    <3>1. NoAuth \in Auths \cup {NoAuth} /\ n = Cold(p, NoAuth)
      BY <2>1
    <3> HIDE DEF n
    <3>2. n.ref \in {0, p.ref}
      BY <1>2, <3>1, ColdOK DEF GoesOn
    <3> QED
      BY <1>2, <3>1, <3>2, ColdAnswers
  <2>2. CASE ~misses /\ p.req.pinned
    <3>1. auth \in Auths /\ n = Decided(p, "affinity-hit", auth)
      BY <1>2, <2>2 DEF Picks
    <3>2. n.ref = 0
      BY <1>2, <3>1 DEF Decided, Picks
    <3>3. SameRequest(p, n) /\ n.pc = "done"
      <4>1. auth \in Auths \cup {NoAuth} /\ n = Decided(p, "affinity-hit", auth)
        BY <3>1
      <4> HIDE DEF n
      <4> QED
        BY <1>2, <4>1, DecidedFields
    <3> QED
      BY <2>2, <3>2, <3>3 DEF SameRequest, Binds
  <2>3. CASE ~misses /\ ~p.req.pinned
    <3>1. n = [p EXCEPT !.pc = "inherit", !.chosen = auth]
      BY <2>3
    <3> HIDE DEF n
    <3>2. n.ref = p.ref /\ n.req = p.req /\ n.cfg = p.cfg /\ n.now = p.now /\ n.pc = "inherit"
      BY <1>2, <3>1 DEF Picks
    <3> QED
      BY <3>2 DEF SameRequest, Answering
  <2> QED
    BY <2>1, <2>2, <2>3
<1> HIDE DEF n
<1>6. Relies(u, n)
  BY <1>4, <1>5 DEF Relies, SameRequest, Alive
<1> QED
  BY <1>1, <1>2, <1>3, <1>4, <1>5, <1>6, LoneOperates

LEMMA LoneBinds ==
  ASSUME LoneIInv, OneWorker, NEW w \in Workers, Inherit(w) \/ BindCold(w)
  PROVE  \A v \in Workers : picks'[v] # Idle => Alone(picks[v])'
<1> DEFINE p == picks[w]
           t == TableOf(w)
           u == Bound(t, p.req.key, p.chosen, p.now)
<1>1. PICK kind \in {"affinity-hit", "failover", "cold-pick"}, op \in {"inherit", "bind"} :
        At(w, op) /\ Operates(w, u, Decided(p, kind, p.chosen))
  BY DEF Inherit, BindCold, ColdKind
<1> DEFINE n == Decided(p, kind, p.chosen)
<1>2. /\ p \in Picks /\ Sound(p) /\ t \in TableSet /\ p.ref # 0 /\ p.cands # {}
      /\ p.req.key \in Keys /\ p.now \in Nat /\ p.pc = op /\ IInv
  BY <1>1, AtTable DEF Operations, LoneIInv
<1>3. p # Idle
  BY <1>2 DEF Idle
<1>4. Answers(p, p.chosen) /\ p.chosen \in Auths
  BY <1>2 DEF Sound, Answers, Picks
<1>5. u \in TableSet /\ HomeIn(u, p.req.key) \in {p.chosen, NoAuth}
  BY <1>2, <1>4, BoundHomes
<1>6. p.ref = live /\ p.cfg.affinity /\ FollowsParent(p) => Alive(t, p)
  <2>1. p.req.key # NoKey
    BY <1>2 DEF Sound, Operations
  <2>2. p.ref = live => Relies(t, p)
    BY <1>2, <1>3 DEF LoneIInv, Alone, LiveTab, TableOf
  <2> QED
    BY <1>2, <2>1, <2>2 DEF Relies, HasSeenParent
<1>7. p.ref = live /\ p.cfg.affinity /\ FollowsParent(p) => Alive(u, p)
  BY <1>2, <1>4, <1>6, BoundAlive
<1> HIDE DEF t, u
<1>8. SameRequest(p, n) /\ n.pc = "done" /\ n.chosen = p.chosen
  BY <1>2, <1>4, DecidedFields
<1>9. n.ref = 0
  BY <1>2 DEF Decided, Picks
<1> HIDE DEF n
<1>10. p.ref = live => Relies(u, n)
  BY <1>5, <1>7, <1>8 DEF Relies, SameRequest, Alive, HasSeenParent, FollowsParent
<1> QED
  BY <1>1, <1>2, <1>3, <1>5, <1>9, <1>10, LoneOperates DEF n

LEMMA LoneCount ==
  ASSUME LoneIInv, OneWorker, NEW w \in Workers, Count(w)
  PROVE  \A v \in Workers : picks'[v] # Idle => Alone(picks[v])'
<1> DEFINE p == picks[w]
           t == TableOf(w)
           c == CountByAuth(t, p.now)
           n == Placed(p, LeastBound(p, c))
<1>1. At(w, "count") /\ Operates(w, t, n) /\ IInv
  BY DEF Count, LoneIInv
<1>2. /\ p \in Picks /\ Sound(p) /\ t \in TableSet /\ p.pc = "count" /\ p.ref # 0 /\ p.cands # {}
  BY <1>1, AtTable DEF Operations
<1>3. p # Idle
  BY <1>2 DEF Idle
<1>4. p.ref = live => Relies(t, p)
  BY <1>2, <1>3 DEF LoneIInv, Alone, LiveTab, TableOf
<1>5. c \in [Auths -> Nat]
  BY <1>2, CountByAuthType
<1> HIDE DEF c, t
<1>6. Answers(p, LeastBound(p, c)) /\ LeastBound(p, c) \in Auths
  BY <1>2, <1>5, LeastBoundAnswers DEF Answers, Picks
<1>7. n.ref \in {0, p.ref}
  BY <1>2, <1>6, PlacedOK DEF GoesOn
<1>8. SameRequest(p, n) /\ n.pc \in {"bind", "done"} /\ (Answering(n) => ~Binds(n))
  BY <1>2, <1>6, PlacedAnswers
<1> HIDE DEF n
<1>9. p.ref = live => Relies(t, n)
  BY <1>2, <1>4, <1>8 DEF Relies, SameRequest, Alive, HasSeenParent, FollowsParent
<1> QED
  BY <1>1, <1>2, <1>3, <1>7, <1>9, LoneOperates

LEMMA LoneGetTable ==
  ASSUME LoneIInv, OneWorker, NEW w \in Workers, GetTable(w)
  PROVE  \A v \in Workers : picks'[v] # Idle => Alone(picks[v])'
<1> DEFINE p == picks[w]
           n == [p EXCEPT !.ref = live']
<1>1. /\ picks \in [Workers -> {Idle} \cup Picks] /\ tables \in Seq(Entries)
      /\ live \in Nat /\ Len(tables) \in Nat /\ cfg \in AllConfigs
  BY DEF LoneIInv, IInv, TypeOK
<1>2. p # Idle /\ p \in Picks /\ p.pc \in {"own", "parent", "count", "bind"} /\ p.ref = 0
  BY <1>1 DEF GetTable, Idle
<1>3. live' \in Nat
  BY <1>1 DEF GetTable
<1>4. /\ n.ref = live' /\ SameRequest(p, n) /\ n.pc = p.pc /\ n.pc \notin {"refresh", "done"}
  BY <1>2, <1>3 DEF Picks, SameRequest
<1>5. picks'[w] = n
  BY <1>1 DEF GetTable
<1> HIDE DEF n
<1>6. CASE live = 0
  <2>1. [shape |-> cfg.shape, table |-> NewStore] \in Entries
    BY <1>1, EmptyTable DEF Entries, AllConfigs
  <2>2. LiveTab' = NewStore
    BY <1>1, <1>6, <2>1 DEF GetTable, Built, LiveTab
  <2>3. Relies(LiveTab', n)
    BY <2>2, EmptyTable, EmptyRelies
  <2> QED
    BY <1>4, <1>5, <2>3 DEF OneWorker, Alone
<1>7. CASE live # 0
  <2>1. live' = live /\ LiveTab' = LiveTab
    BY <1>7 DEF GetTable, LiveTab
  <2>2. Relies(LiveTab, p)
    BY <1>2, <1>7 DEF LoneIInv, Alone
  <2>3. Relies(LiveTab, n)
    BY <1>4, <2>2 DEF Relies, SameRequest, Answering, HasSeenParent, FollowsParent, Alive
  <2> QED
    BY <1>4, <1>5, <2>1, <2>3 DEF OneWorker, Alone
<1> QED
  BY <1>6, <1>7

LEMMA LoneStart ==
  ASSUME LoneIInv, OneWorker, NEW w \in Workers, NEW req \in Requests, NEW snaps \in PoolStates,
         Start(w, req, snaps)
  PROVE  \A v \in Workers : picks'[v] # Idle => Alone(picks[v])'
<1> DEFINE p == NewPick(req, snaps)
           n == IF Ungoverned(p) THEN Decided(p, "declined", NoAuth)
                ELSE IF req.key = NoKey /\ ~(\E a \in p.cands : Usable(p.snaps[a]))
                  THEN Decided(p, "declined", NoAuth)
                ELSE IF p.cfg.affinity /\ req.key # NoKey THEN Wants(p, "own")
                ELSE Cold(p, NoAuth)
<1>1. picks' = [picks EXCEPT ![w] = n] /\ UNCHANGED <<tables, live, cfg, clock>>
  BY DEF Start
<1>2. req \in AllRequests /\ snaps \in [Auths -> Readings] /\ cfg \in AllConfigs /\ clock \in Nat
      /\ picks \in [Workers -> {Idle} \cup Picks]
  BY PickAssumption DEF LoneIInv, IInv, TypeOK
<1>3. req.offered \in SUBSET Auths
  BY <1>2 DEF AllRequests
<1>4. p \in Picks /\ p.pc = "new" /\ p.ref = 0 /\ p.req = req /\ p.previous = NoAuth
  BY <1>2, <1>3 DEF NewPick, Picks
<1> HIDE DEF p
<1>5. Sound(p) /\ NoAuth \in Auths \cup {NoAuth}
  BY <1>4 DEF Sound, Operations
<1>6. /\ n.ref = 0 /\ n.pc # "refresh"
      /\ Answering(n) => ~Binds(n)
      /\ HasSeenParent(n) => FALSE
  <2>1. CASE Ungoverned(p) \/ (req.key = NoKey /\ ~(\E a \in p.cands : Usable(p.snaps[a])))
    <3>1. n = Decided(p, "declined", NoAuth)
      BY <2>1
    <3> HIDE DEF n
    <3>2. n.pc = "done" /\ n.kind = "declined"
      BY <1>4, <1>5, <3>1, DecidedFields
    <3>3. n.ref = 0
      BY <1>4, <3>1 DEF Decided, Picks
    <3> QED
      BY <3>2, <3>3 DEF Answering, HasSeenParent
  <2>2. CASE ~Ungoverned(p) /\ p.cfg.affinity /\ req.key # NoKey
    <3>1. n = Wants(p, "own")
      BY <2>2
    <3> HIDE DEF n
    <3>2. n.pc = "own" /\ n.ref = 0
      BY <1>4, <3>1 DEF Wants, Picks
    <3> QED
      BY <3>2 DEF Answering, HasSeenParent
  <2>3. CASE /\ ~Ungoverned(p) /\ ~(p.cfg.affinity /\ req.key # NoKey)
             /\ ~(req.key = NoKey /\ ~(\E a \in p.cands : Usable(p.snaps[a])))
    <3>1. n = Cold(p, NoAuth) /\ p.cands # {}
      BY <2>3 DEF Ungoverned
    <3> HIDE DEF n
    <3>2. SameRequest(p, n) /\ n.pc \in {"count", "bind", "done"} /\ (Answering(n) => ~Binds(n))
      BY <1>4, <1>5, <3>1, ColdAnswers
    <3>3. n.ref = 0
      BY <1>4, <1>5, <3>1, ColdOK DEF GoesOn
    <3>4. ~HasSeenParent(n)
      BY <1>4, <2>3, <3>2 DEF HasSeenParent, SameRequest
    <3> QED
      BY <3>2, <3>3, <3>4
  <2> QED
    BY <2>1, <2>2, <2>3
<1> HIDE DEF n
<1>7. picks'[w] = n
  BY <1>1, <1>2
<1>8. \A t : Relies(t, n)
  BY <1>6 DEF Relies
<1> QED
  BY <1>6, <1>7, <1>8 DEF OneWorker, Alone

LEMMA LoneApplyConfig ==
  ASSUME LoneIInv, NEW c \in Configs, ApplyConfig(c)
  PROVE  \A v \in Workers : picks'[v] # Idle => Alone(picks[v])'
<1>1. tables \in Seq(Entries) /\ live \in 0..Len(tables) /\ Len(tables) \in Nat /\ c \in AllConfigs
  BY PickAssumption DEF LoneIInv, IInv, TypeOK
<1>2. picks' = picks
  BY DEF ApplyConfig
<1>3. CASE live = 0 \/ tables[live].shape # c.shape
  <2>1. [shape |-> c.shape, table |-> NewStore] \in Entries
    BY <1>1, EmptyTable DEF Entries, AllConfigs
  <2>2. /\ Built(c) \in Seq(Entries) /\ Len(Built(c)) = Len(tables) + 1
        /\ Built(c)[Len(tables) + 1].table = NewStore
    BY <1>1, <2>1 DEF Built
  <2>3. live' = Len(tables) + 1 /\ tables' = Reachable(Built(c), live', picks)
    BY <1>3 DEF ApplyConfig
  <2>4. live' \in 0..Len(Built(c)) /\ live' # 0
    BY <1>1, <2>2, <2>3
  <2>5. tables'[live'] = Built(c)[live']
    BY <2>2, <2>3, <2>4, ReachableOK
  <2>6. LiveTab' = NewStore
    BY <2>2, <2>3, <2>5 DEF LiveTab
  <2>7. Held(LiveTab') = {} /\ \A p : Relies(LiveTab', p)
    BY <2>6, EmptyTable, EmptyRelies
  <2> QED
    BY <1>2, <2>7 DEF Alone
<1>4. CASE ~(live = 0 \/ tables[live].shape # c.shape)
  <2>1. tables' = tables /\ live' = live
    BY <1>4 DEF ApplyConfig
  <2> QED
    BY <1>2, <2>1 DEF LoneIInv, Alone, LiveTab
<1> QED
  BY <1>3, <1>4

LEMMA LoneOnLive ==
  ASSUME LoneIInv, NEW u, live # 0 => Trims(LiveTab, u), OnLive(u)
  PROVE  \A v \in Workers : picks'[v] # Idle => Alone(picks[v])'
<1>1. tables \in Seq(Entries) /\ live \in 1..Len(tables)
  BY DEF OnLive, LoneIInv, IInv, TypeOK
<1>2. live # 0 /\ live' = live /\ picks' = picks /\ tables' = [tables EXCEPT ![live].table = u]
  BY DEF OnLive
<1>3. LiveTab' = u
  <2>1. tables[live] \in Entries
    BY <1>1
  <2>2. [tables[live] EXCEPT !.table = u].table = u
    BY <2>1 DEF Entries
  <2> QED
    BY <1>1, <1>2, <2>2 DEF LiveTab
<1>4. ASSUME NEW v \in Workers, picks[v] # Idle PROVE Alone(picks[v])'
  <2>1. Alone(picks[v])
    BY <1>4 DEF LoneIInv
  <2>2. Relies(u, picks[v])
    BY <1>2, <2>1, TrimsRely DEF Alone
  <2>3. Held(LiveTab) = {} => Held(u) = {}
    BY <1>2 DEF Trims
  <2> QED
    BY <1>2, <1>3, <2>1, <2>2, <2>3 DEF Alone
<1> QED
  BY <1>2, <1>4

LEMMA LoneStepOK ==
  ASSUME OneWorker, LoneIInv, [Next]_vars
  PROVE  LoneIInv'
<1> DEFINE AllAlone == \A v \in Workers : picks'[v] # Idle => Alone(picks[v])'
<1> USE DEF LoneIInv
<1>1. IInv'
  BY StepOK
<1>2. ASSUME NEW w \in Workers, Step(w) PROVE AllAlone
  <2>1. CASE Return(w)
    <3>1. picks'[w] = Idle /\ UNCHANGED <<tables, live>>
      BY <2>1 DEF Return, IInv, TypeOK
    <3> QED
      BY <3>1 DEF OneWorker
  <2> QED
    BY <1>2, <2>1, LoneGetTable, LoneLookupOwn, LoneRefreshParent, LoneLookupParent, LoneBinds, LoneCount
       DEF Step
<1>3. ASSUME NEW w \in Workers, NEW req \in Requests, NEW snaps \in PoolStates, Start(w, req, snaps)
      PROVE  AllAlone
  BY <1>3, LoneStart
<1>4. ASSUME NEW c \in Configs, ApplyConfig(c) PROVE AllAlone
  BY <1>4, LoneApplyConfig
<1>5. ASSUME SweepLive PROVE AllAlone
  <2>1. live # 0 => Trims(LiveTab, Swept(LiveTab, clock))
    <3>1. live # 0 => LiveTab \in TableSet
      BY LiveTable DEF LiveTab
    <3>2. live # 0 => Trims(LiveTab, LiveTab)
      BY DEF Trims
    <3> QED
      BY <3>1, <3>2, RemoveTrims DEF Swept
  <2> QED
    BY <1>5, <2>1, LoneOnLive DEF SweepLive, LiveTab
<1>6. ASSUME NEW a \in Auths, DropSeat(a) PROVE AllAlone
  <2>1. live # 0 => Trims(LiveTab, DropAuth(LiveTab, a))
    <3>1. live # 0 => LiveTab \in TableSet
      BY LiveTable DEF LiveTab
    <3> QED
      BY <3>1, RemoveTrims DEF DropAuth
  <2> QED
    BY <1>6, <2>1, LoneOnLive DEF DropSeat, LiveTab
<1>7. ASSUME Tick \/ UNCHANGED vars PROVE AllAlone
  BY <1>7 DEF Tick, vars, Alone, LiveTab
<1> QED
  BY <1>1, <1>2, <1>3, <1>4, <1>5, <1>6, <1>7 DEF Next

LEMMA LoneInvariance == ASSUME OneWorker PROVE Spec => []LoneIInv
<1>1. Init => LoneIInv
  BY InitOK DEF Init, LoneIInv
<1>2. LoneIInv /\ [Next]_vars => LoneIInv'
  BY LoneStepOK
<1> QED
  BY <1>1, <1>2, PTL DEF Spec

\* Picks one at a time: the seat a bound pick answers is the home it leaves, whatever
\* replaces, sweeps or empties the table meanwhile.
THEOREM AnswersAreHomes == ASSUME OneWorker PROVE Spec => []AnswerIsHome
<1>1. LoneIInv => AnswerIsHome
  <2> SUFFICES ASSUME LoneIInv, NEW w \in Answered, Binds(picks[w]), Home(picks[w].req.key) # NoAuth
               PROVE  Home(picks[w].req.key) = picks[w].chosen
    BY DEF AnswerIsHome
  <2>1. w \in Workers /\ picks[w] # Idle /\ Answering(picks[w])
    BY DEF Answered, Idle, Answering
  <2>2. live # 0 /\ Home(picks[w].req.key) = HomeIn(LiveTab, picks[w].req.key)
    BY HomeOf DEF LiveTab
  <2>3. Relies(LiveTab, picks[w])
    BY <2>1, <2>2 DEF LoneIInv, Alone
  <2> QED
    BY <2>1, <2>2, <2>3 DEF Relies
<1> QED
  BY <1>1, LoneInvariance, PTL

\* Picks one at a time: once a subagent's request is answered, its parent's binding, if
\* there is one, was seen no earlier than the request.
THEOREM ParentsKeptAlive == ASSUME OneWorker PROVE Spec => []ParentKeptAlive
<1>1. LoneIInv => ParentKeptAlive
  <2> SUFFICES ASSUME LoneIInv, NEW w \in Answered,
                      picks[w].cfg.affinity, FollowsParent(picks[w]), picks[w].req.key # NoKey,
                      live # 0, picks[w].req.parent \in Held(LiveTab)
               PROVE  LiveTab.index[picks[w].req.parent].lastSeen >= picks[w].now
    BY DEF ParentKeptAlive, LiveTab
  <2>1. w \in Workers /\ picks[w] # Idle /\ Answering(picks[w])
    BY DEF Answered, Idle, Answering
  <2>2. Relies(LiveTab, picks[w])
    BY <2>1 DEF LoneIInv, Alone
  <2> QED
    BY <2>1, <2>2 DEF Relies, HasSeenParent, Alive
<1> QED
  BY <1>1, LoneInvariance, PTL

-----------------------------------------------------------------------------
(***************************************************************************)
(* The log of decisions.  A step of the ring is a step of the list because *)
(* slot (next - i) of the ring, modulo its size, holds the i-th newest     *)
(* decision before and after it.                                           *)
(***************************************************************************)
Slots == Decisions \cup {Unset}

\* How many decisions the ring shows.
Fill == IF full THEN Size ELSE next

LogTypeOK ==
  /\ Size \in 1..MaxLimit
  /\ entries \in [0..(Size - 1) -> Slots]
  /\ next \in 0..(Size - 1)
  /\ full \in BOOLEAN

\* The remainder of an index that has gone round at most once.
LEMMA Modulo ==
  \A n \in Nat \ {0} : \A a \in Nat :
    /\ a < n => a % n = a
    /\ n <= a /\ a < n + n => a % n = a - n
<1> SUFFICES ASSUME NEW n \in Nat \ {0}, NEW a \in Nat
             PROVE  /\ a < n => a % n = a
                    /\ n <= a /\ a < n + n => a % n = a - n
  OBVIOUS
<1>1. CASE a < n
  BY <1>1
<1>2. CASE n <= a /\ a < n + n
  BY <1>2
<1> QED
  BY <1>1, <1>2

\* The size of a ring is that of its domain.
LEMMA RingSize ==
  ASSUME NEW n \in 1..MaxLimit, NEW f, DOMAIN f = 0..(n - 1)
  PROVE  Cardinality(DOMAIN f) = n
<1>1. n \in Int /\ n - 1 \in Int
  BY DecisionLogAssumption
<1>2. Cardinality(0..(n - 1)) = n
  BY <1>1, FS_Interval
<1> QED
  BY <1>2

LEMMA Capacities ==
  ASSUME NEW limit \in 0..MaxLimit PROVE Capacity(limit) \in 1..MaxLimit
BY DecisionLogAssumption DEF Capacity

\* What newestFirst reads.
Shows ==
  /\ NewestFirst \in Seq(Slots) /\ Len(NewestFirst) = Fill /\ Fill \in 0..Size
  /\ \A i \in 1..Fill : NewestFirst[i] = entries[IF i <= next THEN next - i ELSE next - i + Size]

LEMMA Shown == LogTypeOK => Shows
<1> SUFFICES ASSUME LogTypeOK PROVE Shows
  OBVIOUS
<1>1. Size \in Nat \ {0} /\ next \in Nat /\ next < Size /\ Fill \in Nat /\ Fill <= Size
  BY DecisionLogAssumption DEF LogTypeOK, Fill
<1>2. ASSUME NEW i \in 1..Fill
      PROVE  /\ (next - i + Size) % Size = IF i <= next THEN next - i ELSE next - i + Size
             /\ (next - i + Size) % Size \in 0..(Size - 1)
  <2>1. next - i + Size \in Nat /\ next - i + Size < Size + Size
    BY <1>1
  <2>2. (next - i + Size) % Size = IF next - i + Size < Size THEN next - i + Size ELSE next - i + Size - Size
    BY <1>1, <2>1, Modulo
  <2> QED
    BY <1>1, <2>1, <2>2
<1>3. NewestFirst = [i \in 1..Fill |-> entries[(next - i + Size) % Size]]
  BY DEF NewestFirst, Fill
<1>4. NewestFirst \in [1..Fill -> Slots]
  BY <1>2, <1>3 DEF LogTypeOK
<1>5. NewestFirst \in Seq(Slots) /\ Len(NewestFirst) = Fill
  BY <1>1, <1>4
<1> QED
  BY <1>1, <1>2, <1>3, <1>5 DEF Shows

\* The newest n of a list.
LEMMA NewestOf ==
  ASSUME NEW s \in Seq(Slots), NEW n \in Nat
  PROVE  /\ List!Newest(s, n) \in Seq(Slots)
         /\ Len(List!Newest(s, n)) = IF Len(s) < n THEN Len(s) ELSE n
         /\ \A i \in 1..(IF Len(s) < n THEN Len(s) ELSE n) : List!Newest(s, n)[i] = s[i]
<1> DEFINE m == IF Len(s) < n THEN Len(s) ELSE n
<1>1. m \in Nat /\ m <= Len(s) /\ \A i \in 1..m : s[i] \in Slots
  OBVIOUS
<1>2. List!Newest(s, n) = SubSeq(s, 1, m)
  BY DEF List!Newest
<1> HIDE DEF m
<1>3. /\ SubSeq(s, 1, m) \in Seq(Slots)
      /\ Len(SubSeq(s, 1, m)) = IF 1 <= m THEN m - 1 + 1 ELSE 0
      /\ \A i \in 1..(m - 1 + 1) : SubSeq(s, 1, m)[i] = s[1 + i - 1]
  BY <1>1, SubSeqProperties
<1>4. Len(SubSeq(s, 1, m)) = m /\ \A i \in 1..m : SubSeq(s, 1, m)[i] = s[i]
  BY <1>1, <1>3
<1> QED
  BY <1>2, <1>3, <1>4 DEF m

LEMMA LogInitOK == LogInit => LogTypeOK /\ List!Init
<1> SUFFICES ASSUME LogInit PROVE LogTypeOK /\ List!Init
  OBVIOUS
<1>1. PICK n \in 1..MaxLimit : entries = [i \in 0..(n - 1) |-> Unset]
  BY Capacities DEF LogInit
<1>2. Size = n
  BY <1>1, RingSize DEF Size
<1>3. LogTypeOK
  <2>1. entries \in [0..(n - 1) -> Slots]
    BY <1>1 DEF Slots
  <2>2. 0 \in 0..(n - 1)
    BY DecisionLogAssumption
  <2> QED
    BY <1>2, <2>1, <2>2 DEF LogInit, LogTypeOK
<1>4. Len(NewestFirst) = 0 /\ NewestFirst \in Seq(Slots)
  BY <1>3, Shown DEF Shows, LogInit, Fill
<1>5. NewestFirst = <<>>
  BY <1>4
<1> QED
  BY <1>2, <1>3, <1>5 DEF List!Init

\* A decision recorded comes first, and the oldest goes once the ring is full.
LEMMA AddOK ==
  ASSUME LogTypeOK, NEW d \in Decisions, Add(d)
  PROVE  LogTypeOK' /\ List!Add(d)
<1>1. Size \in Nat \ {0} /\ next \in Nat /\ next < Size
  BY DecisionLogAssumption DEF LogTypeOK
<1>2. entries' = [entries EXCEPT ![next] = d] /\ d \in Slots
  BY DEF Add, Slots
<1>3. next' = IF next + 1 < Size THEN next + 1 ELSE 0
  <2> DEFINE a == next + 1
  <2>1. next' = a % Size
    BY DEF Add
  <2>2. a \in Nat /\ a = next + 1
    BY <1>1
  <2> HIDE DEF a
  <2>3. /\ a < Size => a % Size = a
        /\ Size <= a /\ a < Size + Size => a % Size = a - Size
    BY <1>1, <2>2, Modulo
  <2> QED
    BY <1>1, <2>1, <2>2, <2>3
<1>4. Size' = Size
  BY <1>2 DEF Size, LogTypeOK
<1>5. LogTypeOK'
  BY <1>1, <1>2, <1>3, <1>4 DEF LogTypeOK, Add
<1>6. Fill' = IF Fill + 1 < Size THEN Fill + 1 ELSE Size
  <2>1. full' <=> full \/ next + 1 = Size
    <3>1. full' <=> full \/ next' = 0
      BY DEF Add
    <3> QED
      BY <1>1, <1>3, <3>1
  <2>2. CASE full
    BY <1>1, <1>4, <2>1, <2>2 DEF Fill
  <2>3. CASE ~full
    BY <1>1, <1>3, <1>4, <2>1, <2>3 DEF Fill
  <2> QED
    BY <2>2, <2>3
<1> DEFINE s == NewestFirst
           t == <<d>> \o s
<1>7. /\ s \in Seq(Slots) /\ Len(s) = Fill /\ Fill \in 0..Size
      /\ \A i \in 1..Fill : s[i] = entries[IF i <= next THEN next - i ELSE next - i + Size]
  BY Shown DEF Shows
<1>8. /\ s' \in Seq(Slots) /\ Len(s') = Fill'
      /\ \A i \in 1..Fill' : s'[i] = entries'[IF i <= next' THEN next' - i ELSE next' - i + Size]
  <2>1. Shows'
    BY <1>5, Shown, PTL
  <2> QED
    BY <1>4, <2>1 DEF Shows
<1>9. /\ t \in Seq(Slots) /\ Len(t) = 1 + Fill
      /\ t[1] = d /\ \A i \in 2..(1 + Fill) : t[i] = s[i - 1]
  <2>1. <<d>> \in Seq(Slots) /\ Len(<<d>>) = 1 /\ <<d>>[1] = d
    BY <1>2
  <2> QED
    BY <1>7, <2>1, ConcatProperties
<1> HIDE DEF s, t
<1>10. /\ List!Newest(t, Size) \in Seq(Slots) /\ Len(List!Newest(t, Size)) = Fill'
       /\ \A i \in 1..Fill' : List!Newest(t, Size)[i] = t[i]
  <2>1. (IF Len(t) < Size THEN Len(t) ELSE Size) = Fill'
    BY <1>1, <1>6, <1>7, <1>9
  <2> QED
    BY <1>1, <1>9, <2>1, NewestOf
<1>11. ASSUME NEW i \in 1..Fill' PROVE s'[i] = t[i]
  <2>1. i \in Nat /\ 1 <= i /\ i <= Size /\ i <= Fill + 1
    BY <1>1, <1>6, <1>7
  <2>2. CASE i = 1
    <3>1. (IF i <= next' THEN next' - i ELSE next' - i + Size) = next
      BY <1>1, <1>3, <2>2
    <3> QED
      BY <1>1, <1>2, <1>8, <1>9, <2>2, <3>1, <1>11 DEF LogTypeOK
  <2>3. CASE i > 1
    <3> DEFINE j == i - 1
               x == IF j <= next THEN next - j ELSE next - j + Size
    <3>1. j \in 1..Fill /\ j < Size
      BY <1>1, <2>1, <2>3, <1>7
    <3>2. (IF i <= next' THEN next' - i ELSE next' - i + Size) = x
      BY <1>1, <1>3, <2>1, <2>3
    <3>3. x \in 0..(Size - 1) /\ x # next
      BY <1>1, <3>1
    <3>4. t[i] = entries[x]
      BY <1>7, <1>9, <2>1, <2>3, <3>1
    <3>5. s'[i] = entries'[x]
      BY <1>8, <1>11, <3>2
    <3> QED
      BY <1>2, <3>3, <3>4, <3>5 DEF LogTypeOK
  <2> QED
    BY <2>1, <2>2, <2>3
<1>12. s' = List!Newest(t, Size)
  BY <1>8, <1>10, <1>11, SeqEqual
<1> QED
  BY <1>4, <1>5, <1>12 DEF List!Add, s, t

\* Another size keeps the newest of what the ring showed.
LEMMA ResizeOK ==
  ASSUME LogTypeOK, NEW limit \in 0..MaxLimit, Resize(limit)
  PROVE  LogTypeOK' /\ List!Resize(Capacity(limit))
<1> DEFINE n == Capacity(limit)
           s == NewestFirst
           k == IF Len(s) > n THEN n ELSE Len(s)
           old == Seqs!Reverse(Survivors(n))
<1>1. n \in 1..MaxLimit /\ n \in Nat \ {0}
  BY Capacities, DecisionLogAssumption
<1>2. /\ s \in Seq(Slots) /\ Len(s) = Fill /\ Fill \in Nat
  BY Shown, DecisionLogAssumption DEF Shows, LogTypeOK
<1>3. entries' = [i \in 0..(n - 1) |-> IF i < Len(old) THEN old[i + 1] ELSE Unset]
      /\ next' = Len(old) % n /\ full' = (Len(old) = n)
  BY DEF Resize
<1> HIDE DEF n, s
<1>4. /\ Survivors(n) \in Seq(Slots) /\ Len(Survivors(n)) = k
      /\ \A i \in 1..k : Survivors(n)[i] = s[i]
  <2>1. CASE Len(s) > n
    <3>1. \A i \in 1..n : s[i] \in Slots
      BY <1>1, <1>2, <2>1
    <3>2. /\ SubSeq(s, 1, n) \in Seq(Slots)
          /\ Len(SubSeq(s, 1, n)) = IF 1 <= n THEN n - 1 + 1 ELSE 0
          /\ \A i \in 1..(n - 1 + 1) : SubSeq(s, 1, n)[i] = s[1 + i - 1]
      BY <1>1, <3>1, SubSeqProperties
    <3>3. Survivors(n) = SubSeq(s, 1, n)
      BY <2>1 DEF Survivors, s
    <3> QED
      BY <1>1, <1>2, <2>1, <3>2, <3>3
  <2>2. CASE ~(Len(s) > n)
    BY <1>1, <1>2, <2>2 DEF Survivors, s
  <2> QED
    BY <2>1, <2>2
<1>5. k \in Nat /\ k <= n /\ k <= Len(s)
  BY <1>1, <1>2
<1> HIDE DEF k
<1>6. /\ Len(old) = k
      /\ \A i \in 1..k : old[i] \in Slots /\ old[i] = s[k - i + 1]
  <2>1. old = [i \in 1..k |-> Survivors(n)[(k - i) + 1]]
    BY <1>4 DEF Seqs!Reverse
  <2>2. old \in [1..k -> Slots]
    BY <1>4, <1>5, <2>1
  <2>3. Len(old) = k
    BY <1>5, <2>2
  <2> QED
    BY <1>4, <1>5, <2>1, <2>2, <2>3
<1> HIDE DEF old
<1>7. Size' = n
  BY <1>1, <1>3, RingSize DEF Size
<1>8. next' = IF k < n THEN k ELSE 0
  BY <1>1, <1>3, <1>5, <1>6, Modulo
<1>9. LogTypeOK'
  <2>1. entries' \in [0..(n - 1) -> Slots]
    <3>1. \A i \in 0..(n - 1) : i < k => old[i + 1] \in Slots
      BY <1>1, <1>5, <1>6
    <3> QED
      BY <1>3, <1>6, <3>1 DEF Slots
  <2> QED
    BY <1>1, <1>3, <1>5, <1>7, <1>8, <2>1 DEF LogTypeOK
<1>10. Fill' = k
  <2>1. full' <=> k = n
    BY <1>3, <1>6
  <2> QED
    BY <1>1, <1>5, <1>7, <1>8, <2>1 DEF Fill
<1>11. /\ s' \in Seq(Slots) /\ Len(s') = k
       /\ \A i \in 1..k : s'[i] = entries'[IF i <= next' THEN next' - i ELSE next' - i + n]
  <2>1. Shows'
    BY <1>9, Shown, PTL
  <2> QED
    BY <1>7, <1>10, <2>1 DEF Shows, s
<1>12. /\ List!Newest(s, n) \in Seq(Slots) /\ Len(List!Newest(s, n)) = k
       /\ \A i \in 1..k : List!Newest(s, n)[i] = s[i]
  BY <1>1, <1>2, NewestOf DEF k
<1>13. ASSUME NEW i \in 1..k PROVE s'[i] = s[i]
  <2>1. (IF i <= next' THEN next' - i ELSE next' - i + n) = k - i
    BY <1>1, <1>5, <1>8
  <2>2. k - i \in 0..(n - 1) /\ k - i < k /\ k - i + 1 \in 1..k /\ k - (k - i + 1) + 1 = i
    BY <1>1, <1>5
  <2>3. entries'[k - i] = old[k - i + 1]
    BY <1>3, <1>6, <2>2
  <2>4. old[k - i + 1] = s[k - (k - i + 1) + 1]
    BY <1>6, <2>2
  <2> QED
    BY <1>11, <1>13, <2>1, <2>2, <2>3, <2>4
<1>14. s' = List!Newest(s, n)
  <2>1. \A i \in 1..k : s'[i] = List!Newest(s, n)[i]
    BY <1>12, <1>13
  <2> QED
    BY <1>11, <1>12, <2>1, SeqEqual
<1> QED
  BY <1>7, <1>9, <1>14 DEF List!Resize, s, n

LEMMA LogStepOK == LogTypeOK /\ [LogNext]_logVars => LogTypeOK' /\ [List!Next]_<<NewestFirst, Size>>
<1> SUFFICES ASSUME LogTypeOK, [LogNext]_logVars
             PROVE  LogTypeOK' /\ [List!Next]_<<NewestFirst, Size>>
  OBVIOUS
<1>1. ASSUME NEW d \in Decisions, Add(d) PROVE LogTypeOK' /\ List!Next
  BY <1>1, AddOK DEF List!Next
<1>2. ASSUME NEW limit \in 0..MaxLimit, Resize(limit) PROVE LogTypeOK' /\ List!Next
  BY <1>2, ResizeOK, Capacities DEF List!Next
<1>3. CASE UNCHANGED logVars
  BY <1>3 DEF logVars, LogTypeOK, Size, NewestFirst
<1> QED
  BY <1>1, <1>2, <1>3 DEF LogNext

\* Behind its lock, the ring of newestFirst and resize is the list of newest decisions:
\* every step of the one, read through NewestFirst, is a step of the other.
THEOREM ListIsImplemented == LogSpec => ImplementsList
  BY LogInitOK, LogStepOK, PTL DEF LogSpec, ImplementsList, List!Spec
=============================================================================
