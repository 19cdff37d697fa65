------------------------ MODULE RefusalHistoryProofs ------------------------
(***************************************************************************)
(* What RefusalHistory promises of a window's refusal spans across saves,  *)
(* restarts and loads, for every clock precision, bound and cap, where a   *)
(* run is delivered the records of its own requests only.  A load merges   *)
(* the live spans behind the stored ones, one at a time: all are appended  *)
(* but the first, which may take over a stored span that goes on.          *)
(***************************************************************************)
EXTENDS RefusalHistory, RefusalSpansProofs

\* What merging spans in turn yields, one step at a time.
LEMMA MergeAllSteps ==
  ASSUME NEW base, NEW spans, Len(spans) \in Nat
  PROVE  \E f : /\ MergeAll(base, spans) = f[Len(spans)]
                /\ f[0] = base
                /\ \A n \in 1 .. Len(spans) : f[n] = MergeLock(f[n - 1], spans[n])
<1> DEFINE N == Len(spans)
           Step(f, n) == IF n = 0 THEN base ELSE MergeLock(f[n - 1], spans[n])
           Upto(k, f) == f = [n \in 0 .. k |-> Step(f, n)]
           Bad == {k \in 0 .. N : ~ \E f : Upto(k, f)}
           R == {p \in Nat \X Nat : p[1] < p[2]}
           merged[n \in 0 .. N] == IF n = 0 THEN base ELSE MergeLock(merged[n - 1], spans[n])
<1>1. Bad = {}
  <2>1. SUFFICES ASSUME Bad # {} PROVE FALSE
    OBVIOUS
  <2>2. PICK k \in Bad : \A y \in Bad : ~(<<y, k>> \in R)
    <3>1. IsWellFoundedOn(R, Nat)
      BY NatLessThanWellFounded, Zenon DEF OpToRel
    <3>2. Bad \subseteq Nat
      OBVIOUS
    <3> HIDE DEF Bad, R
    <3> QED
      BY <2>1, <3>1, <3>2, WFMin
  <2>3. k # 0
    <3>1. Upto(0, [n \in 0 .. 0 |-> base])
      BY DEF Step
    <3> QED
      BY <3>1
  <2>4. k \in 0 .. N /\ k - 1 \in 0 .. N /\ k \in Nat /\ k - 1 \in Nat
    BY <2>3
  <2>5. k - 1 \notin Bad
    <3>1. <<k - 1, k>> \in R
      BY <2>4
    <3> QED
      BY <2>2, <3>1
  <2>6. PICK f : Upto(k - 1, f)
    BY <2>4, <2>5
  <2> DEFINE g == [n \in 0 .. k |-> IF n = k THEN MergeLock(f[k - 1], spans[k]) ELSE f[n]]
  <2>7. \A n \in 0 .. k - 1 : g[n] = f[n] /\ f[n] = Step(f, n)
    BY <2>4, <2>6
  <2>8. g[k] = Step(g, k)
    BY <2>3, <2>4, <2>7
  <2>9. \A n \in 0 .. k - 1 : g[n] = Step(g, n)
    BY <2>4, <2>7
  <2>10. Upto(k, g)
    <3>1. g = [n \in 0 .. k |-> g[n]]
      OBVIOUS
    <3>2. \A n \in 0 .. k : g[n] = Step(g, n)
      BY <2>4, <2>8, <2>9
    <3> HIDE DEF g, Step
    <3> QED
      BY <3>1, <3>2
  <2> QED
    BY <2>2, <2>10
<1>2. PICK f : Upto(N, f)
  BY <1>1
<1>3. merged = CHOOSE g : Upto(N, g)
  OBVIOUS
<1>4. Upto(N, merged)
  BY <1>2, <1>3
<1>5. MergeAll(base, spans) = merged[N]
  BY DEF MergeAll
<1> HIDE DEF merged
<1>6. merged[0] = base /\ \A n \in 1 .. N : merged[n] = MergeLock(merged[n - 1], spans[n])
  BY <1>4
<1> QED
  BY <1>5, <1>6

\* Truncation to the second: what it yields, and that it respects the order.
LEMMA TruncateOK ==
  ASSUME NEW t \in Int
  PROVE  /\ Truncate(t) \in Int /\ Truncate(t) <= t
         /\ Truncate(Truncate(t)) = Truncate(t)
         /\ \A u \in Int : u <= t => Truncate(u) <= Truncate(t)
         /\ 0 <= t => 0 <= Truncate(t)
<1>1. Second \in Nat \ {0}
  BY SpanAssumption
<1>2. \A u \in Int : /\ u \div Second \in Int /\ u % Second \in Int
                     /\ 0 <= u % Second /\ u % Second < Second
                     /\ u = Second * (u \div Second) + (u % Second)
  BY <1>1
<1>3. \A u \in Int : Truncate(u) = Second * (u \div Second)
  <2>1. SUFFICES ASSUME NEW u \in Int PROVE Truncate(u) = Second * (u \div Second)
    OBVIOUS
  <2> DEFINE x == Second * (u \div Second)
  <2>2. x \in Int /\ u = x + (u % Second) /\ u % Second \in Int
    BY <1>1, <1>2
  <2> HIDE DEF x
  <2>3. u - (u % Second) = x
    BY <2>2
  <2> QED
    BY <2>3 DEF Truncate, x
<1>4. Truncate(t) \in Int /\ Truncate(t) <= t
  BY <1>1, <1>2 DEF Truncate
<1>5. Truncate(Truncate(t)) = Truncate(t)
  <2>1. \A q \in Int : (Second * q) % Second = 0
    BY <1>1
  <2>2. Truncate(t) % Second = 0
    BY <1>2, <1>3, <2>1
  <2> HIDE DEF Truncate
  <2> QED
    BY <1>4, <2>2 DEF Truncate
<1>6. ASSUME NEW u \in Int, u <= t PROVE Truncate(u) <= Truncate(t)
  <2> DEFINE p == u \div Second
             q == t \div Second
  <2>1. p \in Int /\ q \in Int /\ Second * p <= u /\ t < Second * q + Second
    <3>1. Second * p \in Int /\ Second * q \in Int
      BY <1>1, <1>2
    <3> QED
      BY <1>1, <1>2, <3>1
  <2> HIDE DEF p, q
  <2>2. p <= q
    <3>1. SUFFICES ASSUME p >= q + 1 PROVE FALSE
      BY <2>1
    <3>2. Second * p >= Second * (q + 1)
      BY <1>1, <2>1, <3>1
    <3>3. Second * (q + 1) = Second * q + Second
      BY <1>1, <2>1
    <3> DEFINE x == Second * p
               y == Second * q
    <3>4. x \in Int /\ y \in Int /\ x >= y + Second /\ x <= u /\ t < y + Second
      BY <1>1, <2>1, <3>2, <3>3
    <3> HIDE DEF x, y
    <3> QED
      BY <1>1, <1>6, <3>4
  <2>3. Second * p <= Second * q
    BY <1>1, <2>1, <2>2
  <2> QED
    BY <1>3, <2>3 DEF p, q
<1>7. Truncate(0) = 0
  BY <1>1 DEF Truncate
<1> QED
  BY <1>4, <1>5, <1>6, <1>7

\* Disjoint spans merged behind spans whose first merge ends them as the first
\* of these are appended one after another.
LEMMA MergeAllAppends ==
  ASSUME NEW base, NEW spans, WF(spans), spans # <<>>,
         NEW first, first = MergeLock(base, spans[1]), first \in Seq(Spans), first # <<>>,
         Newest(first).to = spans[1].to, Newest(first).end = spans[1].end
  PROVE  LET m == MergeAll(base, spans)
         IN  /\ m \in Seq(Spans)
             /\ Len(m) = Len(first) + Len(spans) - 1
             /\ \A i \in 1 .. Len(first) : m[i] = first[i]
             /\ \A i \in 2 .. Len(spans) : m[Len(first) + i - 1] = spans[i]
<1> DEFINE N == Len(spans)
           A == Len(first)
           J(n, a) == /\ a \in Seq(Spans)
                      /\ Len(a) = A + n - 1
                      /\ \A i \in 1 .. A : a[i] = first[i]
                      /\ \A i \in 2 .. n : a[A + i - 1] = spans[i]
           R == {p \in Nat \X Nat : p[1] < p[2]}
<1>1. /\ spans \in Seq(Spans) /\ N \in Nat /\ N >= 1 /\ DOMAIN spans = 1 .. N
      /\ A \in Nat /\ A >= 1 /\ DOMAIN first = 1 .. A
  BY DEF WF
<1>2. PICK f : /\ MergeAll(base, spans) = f[N]
               /\ f[0] = base
               /\ \A n \in 1 .. N : f[n] = MergeLock(f[n - 1], spans[n])
  <2>1. Len(spans) \in Nat
    BY <1>1
  <2> HIDE DEF N
  <2> QED
    BY <2>1, MergeAllSteps DEF N
<1>3. J(1, f[1])
  <2>1. f[1] = MergeLock(f[1 - 1], spans[1]) /\ 1 - 1 = 0
    BY <1>1, <1>2
  <2>2. f[1] = first
    BY <1>2, <2>1
  <2> QED
    BY <1>1, <2>2
<1>4. ASSUME NEW n \in 2 .. N, J(n - 1, f[n - 1]) PROVE J(n, f[n])
  <2> DEFINE a == f[n - 1]
             l == spans[n]
  <2>1. n \in Nat /\ n >= 2 /\ n <= N /\ n - 1 \in 1 .. N /\ n \in 1 .. N /\ n - 1 < n
    BY <1>1
  <2>2. a \in Seq(Spans) /\ Len(a) = A + n - 2 /\ Len(a) \in Nat /\ Len(a) >= 1 /\ a # <<>>
    BY <1>1, <1>4, <2>1
  <2>3. Newest(a).to = spans[n - 1].to /\ Newest(a).end = spans[n - 1].end
    <3>1. CASE n = 2
      <4>1. Newest(a) = Newest(first)
        BY <1>1, <1>4, <2>2, <3>1 DEF Newest
      <4> QED
        BY <3>1, <4>1
    <3>2. CASE n > 2
      <4>1. n - 1 \in 2 .. (n - 1) /\ A + (n - 1) - 1 = Len(a)
        BY <1>1, <2>1, <2>2, <3>2
      <4>2. Newest(a) = spans[n - 1]
        BY <1>4, <4>1 DEF Newest
      <4> QED
        BY <4>2
    <3> QED
      BY <2>1, <3>1, <3>2
  <2>4. /\ l.from < l.to /\ l.from \in Int /\ l.to \in Int /\ l \in Spans
        /\ spans[n - 1].to <= l.from /\ spans[n - 1].end # "ongoing"
    <3>1. l \in Spans /\ n \in DOMAIN spans /\ n - 1 \in DOMAIN spans
      BY <1>1, <2>1
    <3>2. l.from \in Int /\ l.to \in Int
      BY <3>1 DEF Spans
    <3>3. Disjoint(spans)
      BY DEF WF
    <3> QED
      BY <2>1, <3>1, <3>2, <3>3 DEF Disjoint
  <2>5. f[n] = Append(a, l)
    <3>1. f[n] = MergeLock(a, l)
      BY <1>2, <2>1
    <3>2. MergeLock(a, l) = Push(a, l)
      BY <2>3, <2>4 DEF MergeLock
    <3> QED
      BY <2>2, <2>3, <2>4, <3>1, <3>2 DEF Push
  <2> DEFINE b == Append(a, l)
  <2>6. /\ b \in Seq(Spans) /\ Len(b) = Len(a) + 1 /\ b[Len(a) + 1] = l
        /\ \A i \in 1 .. Len(a) : b[i] = a[i]
    BY <2>2, <2>4
  <2> HIDE DEF b, l, a
  <2>7. Len(b) = A + n - 1
    BY <1>1, <2>1, <2>2, <2>6
  <2>8. \A i \in 1 .. A : b[i] = first[i]
    <3>1. \A i \in 1 .. A : i \in 1 .. Len(a)
      BY <1>1, <2>1, <2>2
    <3> QED
      BY <1>4, <2>6, <3>1 DEF a
  <2>9. \A i \in 2 .. n : b[A + i - 1] = spans[i]
    <3>1. SUFFICES ASSUME NEW i \in 2 .. n PROVE b[A + i - 1] = spans[i]
      OBVIOUS
    <3>2. CASE i = n
      <4>1. A + i - 1 = Len(a) + 1
        BY <1>1, <2>1, <2>2, <3>2
      <4> QED
        BY <2>6, <3>2, <4>1 DEF l
    <3>3. CASE i # n
      <4>1. i \in 2 .. (n - 1) /\ A + i - 1 \in 1 .. Len(a)
        BY <1>1, <2>1, <2>2, <3>3
      <4> QED
        BY <1>4, <2>6, <4>1 DEF a
    <3> QED
      BY <3>2, <3>3
  <2> QED
    BY <2>5, <2>6, <2>7, <2>8, <2>9 DEF b, a, l
<1> DEFINE Bad == {n \in 1 .. N : ~J(n, f[n])}
<1> HIDE DEF J
<1>5. Bad = {}
  <2>1. SUFFICES ASSUME Bad # {} PROVE FALSE
    OBVIOUS
  <2>2. PICK n \in Bad : \A y \in Bad : ~(<<y, n>> \in R)
    <3>1. IsWellFoundedOn(R, Nat)
      BY NatLessThanWellFounded, Zenon DEF OpToRel
    <3>2. Bad \subseteq Nat
      OBVIOUS
    <3> HIDE DEF Bad, R
    <3> QED
      BY <2>1, <3>1, <3>2, WFMin
  <2>3. n \in 1 .. N /\ ~J(n, f[n]) /\ n # 1
    BY <1>3, <2>2
  <2>4. n \in 2 .. N /\ n - 1 \in 1 .. N /\ n \in Nat /\ n - 1 \in Nat /\ n - 1 < n
    BY <1>1, <2>3
  <2>5. <<n - 1, n>> \in R
    BY <2>4
  <2>6. n - 1 \notin Bad
    BY <2>2, <2>5
  <2>7. J(n - 1, f[n - 1])
    BY <2>4, <2>6
  <2> QED
    BY <1>4, <2>3, <2>4, <2>7
<1>6. J(N, f[N])
  BY <1>1, <1>5
<1> QED
  BY <1>2, <1>6 DEF J

\* Nothing to merge leaves the spans as they are.
LEMMA MergeAllNone ==
  ASSUME NEW base PROVE MergeAll(base, <<>>) = base
BY MergeAllSteps

\* A replay merges what is stored into what is stored.
LEMMA ReplayStored ==
  ASSUME NEW stored, WF(stored)
  PROVE  MergeAll(<<>>, stored) = stored
<1>1. CASE stored = <<>>
  BY <1>1, MergeAllNone
<1>2. CASE stored # <<>>
  <2> DEFINE m == MergeAll(<<>>, stored)
             first == <<stored[1]>>
  <2>1. /\ stored \in Seq(Spans) /\ Len(stored) \in Nat /\ Len(stored) >= 1
        /\ DOMAIN stored = 1 .. Len(stored)
    BY <1>2 DEF WF
  <2>2. stored[1] \in Spans /\ stored[1].from < stored[1].to
        /\ stored[1].from \in Int /\ stored[1].to \in Int
    <3>1. stored[1] \in Spans /\ 1 \in DOMAIN stored
      BY <2>1
    <3>2. stored[1].from \in Int /\ stored[1].to \in Int
      BY <3>1 DEF Spans
    <3> QED
      BY <3>1, <3>2 DEF WF, Disjoint
  <2>3. first = MergeLock(<<>>, stored[1])
    BY <2>2 DEF MergeLock, Push
  <2>4. first \in Seq(Spans) /\ Len(first) = 1 /\ first # <<>> /\ Newest(first) = stored[1]
    BY <2>2 DEF Newest
  <2> HIDE DEF first
  <2>5. /\ m \in Seq(Spans) /\ Len(m) = Len(first) + Len(stored) - 1
        /\ \A i \in 1 .. Len(first) : m[i] = first[i]
        /\ \A i \in 2 .. Len(stored) : m[Len(first) + i - 1] = stored[i]
    BY <1>2, <2>3, <2>4, MergeAllAppends
  <2> HIDE DEF m
  <2>6. Len(m) = Len(stored) /\ DOMAIN m = 1 .. Len(stored)
    BY <2>1, <2>4, <2>5
  <2>7. m[1] = stored[1]
    BY <2>4, <2>5 DEF Newest
  <2>8. \A i \in 1 .. Len(stored) : m[i] = stored[i]
    <3>1. SUFFICES ASSUME NEW i \in 1 .. Len(stored), i # 1 PROVE m[i] = stored[i]
      BY <2>7
    <3>2. i \in 2 .. Len(stored) /\ Len(first) + i - 1 = i
      BY <2>1, <2>4, <3>1
    <3> QED
      BY <2>5, <3>2
  <2>9. m = stored
    BY <2>1, <2>5, <2>6, <2>8
  <2> QED
    BY <2>9 DEF m
<1> QED
  BY <1>1, <1>2

-----------------------------------------------------------------------------
(* Where the spans of a ring lie *)

\* A span that began between two instants, had ended by the later if it ended,
\* and whose end is a whole second.
HeldSpan(l, low, high) ==
  /\ low <= l.from /\ l.from <= high
  /\ l.end # "ongoing" => l.to <= high
  /\ Truncate(l.to) = l.to

Held(locks, low, high) == \A i \in DOMAIN locks : HeldSpan(locks[i], low, high)

\* push changes nothing of the spans before but how an ongoing one ended.
LEMMA PushElements ==
  ASSUME NEW locks, WF(locks), NEW l \in Spans
  PROVE  LET p == Push(locks, l)
         IN  /\ p \in Seq(Spans) /\ Len(p) = Len(locks) + 1
             /\ Newest(p) = l
             /\ \A i \in DOMAIN locks :
                  /\ p[i].from = locks[i].from /\ p[i].to = locks[i].to
                  /\ p[i].expected = locks[i].expected
                  /\ p[i].end = IF locks[i].end = "ongoing" THEN "reset" ELSE locks[i].end
<1> DEFINE n == Len(locks)
           p == Push(locks, l)
<1>1. locks \in Seq(Spans) /\ n \in Nat /\ DOMAIN locks = 1 .. n
  BY DEF WF
<1>2. ASSUME NEW s \in Seq(Spans), Len(s) = n
      PROVE  /\ Append(s, l) \in Seq(Spans) /\ Len(Append(s, l)) = n + 1
             /\ Newest(Append(s, l)) = l
             /\ \A i \in 1 .. n : Append(s, l)[i] = s[i]
  <2>1. /\ Append(s, l) \in Seq(Spans) /\ Len(Append(s, l)) = n + 1
        /\ Append(s, l)[n + 1] = l
        /\ \A i \in 1 .. n : Append(s, l)[i] = s[i]
    BY <1>1, <1>2, AppendProperties
  <2> QED
    BY <2>1 DEF Newest
<1>3. CASE locks # <<>> /\ Newest(locks).end = "ongoing"
  <2> DEFINE m == [Newest(locks) EXCEPT !.end = "reset"]
             s == WithLast(locks, m)
  <2>1. Newest(locks) \in Spans /\ Newest(locks) = locks[n] /\ n >= 1
    BY <1>3, NewestIn
  <2>2. /\ m \in Spans /\ m.from = locks[n].from /\ m.to = locks[n].to
        /\ m.expected = locks[n].expected /\ m.end = "reset"
    BY <2>1 DEF Spans, Ends
  <2> HIDE DEF m
  <2>3. s = [i \in 1 .. n |-> IF i = n THEN m ELSE locks[i]]
    BY <1>1 DEF WithLast
  <2>4. \A i \in 1 .. n : locks[i] \in Spans
    BY <1>1
  <2> HIDE DEF s, n
  <2>5. s \in Seq(Spans) /\ Len(s) = n
    BY <1>1, <2>2, <2>3, <2>4
  <2>6. \A i \in 1 .. n : s[i] = IF i = n THEN m ELSE locks[i]
    BY <2>3
  <2>7. \A i \in 1 .. n : i # n => locks[i].end # "ongoing"
    <3>1. \A i \in 1 .. n : i # n => i < n /\ i \in DOMAIN locks /\ n \in DOMAIN locks
      BY <1>1, <2>1
    <3> QED
      BY <3>1 DEF WF, Disjoint
  <2>8. p = Append(s, l)
    BY <1>3 DEF Push, s, m
  <2> HIDE DEF p
  <2>9. \A i \in 1 .. n : p[i] = s[i]
    BY <1>2, <2>5, <2>8
  <2>10. \A i \in DOMAIN locks :
           /\ p[i].from = locks[i].from /\ p[i].to = locks[i].to
           /\ p[i].expected = locks[i].expected
           /\ p[i].end = IF locks[i].end = "ongoing" THEN "reset" ELSE locks[i].end
    BY <1>1, <1>3, <2>1, <2>2, <2>6, <2>7, <2>9
  <2> QED
    BY <1>2, <2>5, <2>8, <2>10 DEF p, n
<1>4. CASE ~(locks # <<>> /\ Newest(locks).end = "ongoing")
  <2>1. p = Append(locks, l)
    BY <1>4 DEF Push
  <2>2. \A i \in DOMAIN locks : locks[i].end # "ongoing"
    <3>1. SUFFICES ASSUME NEW i \in DOMAIN locks PROVE locks[i].end # "ongoing"
      OBVIOUS
    <3>2. locks # <<>>
      BY <1>1
    <3>3. Newest(locks).end # "ongoing" /\ Newest(locks) = locks[n] /\ n \in DOMAIN locks
      BY <1>4, <3>2, NewestIn
    <3>4. i = n \/ i < n
      BY <1>1
    <3> QED
      BY <3>3, <3>4 DEF WF, Disjoint
  <2> QED
    BY <1>1, <1>2, <2>1, <2>2
<1> QED
  BY <1>3, <1>4

\* What trimLocks keeps lies where it did.
LEMMA TrimHeld ==
  ASSUME NEW locks, WF(locks), NEW oldest, NEW low, NEW high, Held(locks, low, high)
  PROVE  Held(TrimLocks(locks, oldest), low, high)
BY TrimOK DEF Held

\* Another newest span that lies there too keeps the spans there.
LEMMA WithLastHeld ==
  ASSUME NEW locks, WF(locks), locks # <<>>, NEW low, NEW high, Held(locks, low, high),
         NEW l, HeldSpan(l, low, high)
  PROVE  Held(WithLast(locks, l), low, high)
<1>1. Len(locks) \in DOMAIN locks /\ DOMAIN locks = 1 .. Len(locks)
  BY NewestIn
<1>2. WithLast(locks, l) = [i \in DOMAIN locks |-> IF i = Len(locks) THEN l ELSE locks[i]]
  BY DEF WithLast
<1> QED
  BY <1>2 DEF Held

\* So does a push behind a span that had ended or was to by the later instant.
LEMMA PushHeld ==
  ASSUME NEW locks, WF(locks), NEW low, NEW high, Held(locks, low, high),
         NEW l \in Spans, HeldSpan(l, low, high),
         locks # <<>> => Newest(locks).to <= high
  PROVE  Held(Push(locks, l), low, high)
<1> DEFINE p == Push(locks, l)
           n == Len(locks)
<1>1. /\ p \in Seq(Spans) /\ Len(p) = n + 1 /\ Newest(p) = l
      /\ \A i \in DOMAIN locks :
           /\ p[i].from = locks[i].from /\ p[i].to = locks[i].to
           /\ p[i].end = IF locks[i].end = "ongoing" THEN "reset" ELSE locks[i].end
  BY PushElements
<1>2. n \in Nat /\ DOMAIN locks = 1 .. n
  BY DEF WF
<1> HIDE DEF p
<1>3. DOMAIN p = 1 .. (n + 1) /\ p[n + 1] = l
  BY <1>1, <1>2 DEF Newest
<1>4. ASSUME NEW i \in DOMAIN locks PROVE HeldSpan(p[i], low, high)
  <2>1. HeldSpan(locks[i], low, high)
    BY DEF Held
  <2>2. locks[i].end = "ongoing" => locks[i].to <= high
    <3>1. i = n \/ (i < n /\ n \in DOMAIN locks)
      BY <1>2
    <3>2. i < n /\ n \in DOMAIN locks => locks[i].end # "ongoing"
      BY DEF WF, Disjoint
    <3>3. i = n => locks # <<>> /\ Newest(locks) = locks[i]
      BY <1>2 DEF Newest
    <3> QED
      BY <3>1, <3>2, <3>3
  <2> QED
    BY <1>1, <2>1, <2>2 DEF HeldSpan
<1>5. \A i \in DOMAIN p : i \in DOMAIN locks \/ i = n + 1
  BY <1>2, <1>3
<1>6. Held(p, low, high)
  BY <1>3, <1>4, <1>5 DEF Held
<1> QED
  BY <1>6 DEF p

\* refuse
LEMMA RefuseHeld ==
  ASSUME NEW r, RingOK(r), NEW admitted \in Int, NEW at0 \in Int, NEW until0 \in Int, NEW oldest,
         NEW low \in Int, NEW high \in Int, Held(r.locks, low, high),
         low <= Truncate(at0), Truncate(at0) <= high
  PROVE  Held(Refuse(r, admitted, at0, until0, oldest).locks, low, high)
<1> DEFINE at == Truncate(at0)
           until == Truncate(until0)
           q == Refuse(r, admitted, at0, until0, oldest)
           l == Newest(r.locks)
<1>1. /\ at \in Int /\ until \in Int /\ Truncate(until) = until
      /\ WF(r.locks) /\ r.served \in Int
  BY TruncateOK DEF RingOK
<1>2. low <= at /\ at <= high
  OBVIOUS
<1> HIDE DEF at, until, l
<1>3. ASSUME ~RefuseDropped(r, admitted, at, until), r.locks = <<>> \/ at >= l.to
      PROVE  Held(q.locks, low, high)
  <2> DEFINE o == Opened(at, until)
             p == Push(r.locks, o)
  <2>1. q.locks = TrimLocks(p, oldest)
    BY <1>3 DEF Refuse, at, until, l
  <2>2. /\ o \in Spans /\ o.from = at /\ o.to = until /\ o.expected = Never /\ o.end = "ongoing"
    BY <1>1 DEF Opened, Spans, Ends, Never
  <2>3. at < until
    BY <1>1, <1>3 DEF RefuseDropped
  <2> HIDE DEF o
  <2>4. WF(p)
    BY <1>1, <1>3, <2>2, <2>3, PushOK DEF l
  <2>5. r.locks # <<>> => l.to <= high
    <3>1. ASSUME r.locks # <<>> PROVE l.to <= high
      <4>1. l \in Spans /\ at >= l.to
        BY <1>1, <1>3, <3>1, NewestIn DEF l
      <4>2. l.to \in Int
        BY <4>1 DEF Spans
      <4> QED
        BY <1>1, <1>2, <4>1, <4>2
    <3> QED
      BY <3>1
  <2>6. Held(p, low, high)
    BY <1>1, <1>2, <2>2, <2>5, PushHeld DEF HeldSpan, l
  <2> HIDE DEF p, q
  <2> QED
    BY <2>1, <2>4, <2>6, TrimHeld
<1>4. ASSUME ~RefuseDropped(r, admitted, at, until), r.locks # <<>>, ~(at >= l.to),
             ~ReachesBack(r.locks, at)
      PROVE  Held(q.locks, low, high)
  <2> DEFINE m == Extend(l, at, until)
  <2>1. q.locks = WithLast(r.locks, m)
    BY <1>4 DEF Refuse, at, until, l
  <2>2. l \in Spans /\ HeldSpan(l, low, high)
    BY <1>1, <1>4, NewestIn DEF l, Held
  <2>3. l.from \in Int /\ l.to \in Int
    BY <2>2 DEF Spans
  <2>4. HeldSpan(m, low, high)
    <3>1. CASE at < l.from
      <4>1. m = [l EXCEPT !.from = at]
        BY <3>1 DEF Extend
      <4>2. m.from = at /\ m.to = l.to /\ m.end = l.end
        BY <2>2, <4>1 DEF Spans
      <4> QED
        BY <1>2, <2>2, <4>2 DEF HeldSpan
    <3>2. CASE ~(at < l.from) /\ Reopens(l)
      <4>1. m.from = l.from /\ m.to = until /\ m.end = "ongoing"
        BY <3>2 DEF Extend
      <4> QED
        BY <1>1, <2>2, <4>1 DEF HeldSpan
    <3>3. CASE ~(at < l.from) /\ ~Reopens(l)
      <4>1. m = l
        BY <3>3 DEF Extend
      <4> QED
        BY <2>2, <4>1
    <3> QED
      BY <3>1, <3>2, <3>3
  <2> HIDE DEF m, q
  <2> QED
    BY <1>1, <1>4, <2>1, <2>4, WithLastHeld
<1>5. \/ q = r
      \/ ~RefuseDropped(r, admitted, at, until) /\ (r.locks = <<>> \/ at >= l.to)
      \/ /\ ~RefuseDropped(r, admitted, at, until) /\ r.locks # <<>>
         /\ ~(at >= l.to) /\ ~ReachesBack(r.locks, at)
  BY DEF Refuse, at, until, l
<1> HIDE DEF q
<1> QED
  BY <1>3, <1>4, <1>5 DEF q

\* end
LEMMA EndHeld ==
  ASSUME NEW locks, WF(locks), NEW at0 \in Int, NEW cause \in Ends \ {"ongoing"},
         NEW low \in Int, NEW high \in Int, Held(locks, low, high), Truncate(at0) <= high
  PROVE  Held(End(locks, at0, cause), low, high)
<1> DEFINE at == Truncate(at0)
           l == Newest(locks)
           m == EndedAt(l, at, cause)
<1>1. at \in Int /\ Truncate(at) = at /\ at <= high
  BY TruncateOK
<1> HIDE DEF at
<1>2. CASE ~EndsSpan(locks, at)
  BY <1>2 DEF End, at
<1>3. CASE EndsSpan(locks, at)
  <2>1. locks # <<>> /\ End(locks, at0, cause) = WithLast(locks, m)
    BY <1>3 DEF End, EndsSpan, EndedAt, at
  <2>2. l \in Spans /\ HeldSpan(l, low, high)
    BY <2>1, NewestIn DEF Held
  <2>3. l.from \in Int /\ l.to \in Int
    BY <2>2 DEF Spans
  <2> HIDE DEF l
  <2>4. HeldSpan(m, low, high)
    <3>1. CASE at < l.to
      <4>1. m.from = l.from /\ m.to = at
        BY <3>1 DEF EndedAt
      <4> QED
        BY <1>1, <2>2, <4>1 DEF HeldSpan
    <3>2. CASE ~(at < l.to)
      <4>1. m.from = l.from /\ m.to = l.to
        BY <2>2, <3>2 DEF EndedAt, Spans
      <4>2. l.to <= high
        BY <1>1, <2>3, <3>2
      <4> QED
        BY <2>2, <4>1, <4>2 DEF HeldSpan
    <3> QED
      BY <3>1, <3>2
  <2> HIDE DEF m
  <2> QED
    BY <2>1, <2>4, WithLastHeld
<1> QED
  BY <1>2, <1>3

\* serve
LEMMA ServeHeld ==
  ASSUME NEW r, RingOK(r), NEW admitted, NEW at \in Int,
         NEW low \in Int, NEW high \in Int, Held(r.locks, low, high), Truncate(at) <= high
  PROVE  Held(Serve(r, admitted, at).locks, low, high)
<1> DEFINE q == Serve(r, admitted, at)
<1>1. WF(r.locks)
  BY DEF RingOK
<1>2. CASE q.locks = r.locks
  BY <1>2
<1>3. CASE r.locks # <<>> /\ q.locks = SubSeq(r.locks, 1, Len(r.locks) - 1)
  <2> DEFINE n == Len(r.locks)
  <2>1. r.locks \in Seq(Spans) /\ n \in Nat /\ n >= 1 /\ DOMAIN r.locks = 1 .. n
    BY <1>1, <1>3, NewestIn DEF WF
  <2>2. q.locks = [i \in 1 .. (n - 1) |-> r.locks[i]]
    BY <1>3, <2>1
  <2> HIDE DEF q
  <2> QED
    BY <2>1, <2>2 DEF Held, q
<1>4. CASE q.locks = End(r.locks, at, "served")
  BY <1>1, <1>4, EndHeld DEF Ends
<1>5. \/ q.locks = r.locks
      \/ r.locks # <<>> /\ q.locks = SubSeq(r.locks, 1, Len(r.locks) - 1)
      \/ q.locks = End(r.locks, at, "served")
  BY DEF Serve, EndServed
<1> QED
  BY <1>2, <1>3, <1>4, <1>5

-----------------------------------------------------------------------------
(* A load *)

\* The span of some that one of the merged ones continues: it begins where that did
\* and ends no later, on a whole second, and where and how it ended is kept if it had.
Continues(m, l) ==
  /\ m.from = l.from /\ m.to <= l.to /\ Truncate(m.to) = m.to
  /\ l.end # "ongoing" => m.to = l.to /\ m.end = l.end

\* The oldest span of this run merges behind the stored ones: it is pushed, or
\* takes over the stored span that goes on into this run.
LEMMA FirstMerge ==
  ASSUME NEW stored, WF(stored), NEW base, WF(base),
         \A j \in DOMAIN base : \E i \in DOMAIN stored : Continues(base[j], stored[i]),
         NEW low, NEW t \in Int, Held(stored, low, t),
         NEW l \in Spans, l.from < l.to, l.expected # Never => l.to < l.expected, t <= l.from
  PROVE  LET first == MergeLock(base, l)
             n == Newest(first)
         IN  /\ WF(first) /\ first # <<>>
             /\ n.to = l.to /\ n.end = l.end /\ n.from <= l.from
             /\ \/ n.from = l.from
                \/ \E i \in DOMAIN stored : stored[i].end = "ongoing" /\ n.from = stored[i].from
             /\ \A j \in DOMAIN first : j # Len(first) =>
                  \E i \in DOMAIN stored : Continues(first[j], stored[i])
<1> DEFINE first == MergeLock(base, l)
           n == Newest(first)
           b == Newest(base)
           N == Len(base)
<1>1. l.from \in Int /\ l.to \in Int
  BY DEF Spans
<1>2. base \in Seq(Spans) /\ N \in Nat /\ DOMAIN base = 1 .. N
  BY DEF WF
<1> HIDE DEF N
<1>3. base # <<>> => /\ b \in Spans /\ b = base[N] /\ N \in DOMAIN base
                     /\ b.from \in Int /\ b.to \in Int /\ b.from < b.to
  <2>1. SUFFICES ASSUME base # <<>>
                 PROVE  /\ b \in Spans /\ b = base[N] /\ N \in DOMAIN base
                        /\ b.from \in Int /\ b.to \in Int /\ b.from < b.to
    OBVIOUS
  <2>2. b \in Spans /\ b = base[N] /\ N \in DOMAIN base
    BY <2>1, NewestIn DEF N
  <2> QED
    BY <2>2 DEF Spans, WF, Disjoint
<1> HIDE DEF b
<1>4. CASE base = <<>> \/ l.from >= b.to
  <2>1. first = Push(base, l)
    <3>1. ~(l.to <= l.from)
      BY <1>1
    <3> QED
      BY <1>4, <3>1 DEF MergeLock, b
  <2>2. WF(first) /\ Newest(first) = l
    BY <1>4, <2>1, PushOK DEF b
  <2>3. /\ first \in Seq(Spans) /\ Len(first) = N + 1
        /\ \A i \in DOMAIN base :
             /\ first[i].from = base[i].from /\ first[i].to = base[i].to
             /\ first[i].end = IF base[i].end = "ongoing" THEN "reset" ELSE base[i].end
    BY <2>1, PushElements DEF N
  <2> HIDE DEF first
  <2>4. DOMAIN first = 1 .. (N + 1) /\ first # <<>>
    BY <1>2, <2>3
  <2>5. ASSUME NEW j \in DOMAIN first, j # Len(first)
        PROVE  \E i \in DOMAIN stored : Continues(first[j], stored[i])
    <3>1. j \in DOMAIN base
      BY <1>2, <2>3, <2>4, <2>5
    <3>2. /\ first[j].from = base[j].from /\ first[j].to = base[j].to
          /\ base[j].end # "ongoing" => first[j].end = base[j].end
      BY <2>3, <3>1
    <3>3. PICK i \in DOMAIN stored : Continues(base[j], stored[i])
      BY <3>1
    <3>4. stored[i].end # "ongoing" => base[j].end # "ongoing"
      BY <3>3 DEF Continues
    <3> QED
      BY <3>2, <3>3, <3>4 DEF Continues
  <2> QED
    BY <1>1, <2>2, <2>4, <2>5 DEF first
<1>5. CASE ~(base = <<>> \/ l.from >= b.to)
  <2> DEFINE m == [l EXCEPT !.from = b.from]
  <2>1. base # <<>> /\ l.from < b.to
    BY <1>1, <1>3, <1>5
  <2>2. PICK i \in DOMAIN stored : Continues(b, stored[i])
    BY <1>3, <2>1
  <2>3. HeldSpan(stored[i], low, t) /\ stored[i].to \in Int
    <3>1. stored[i] \in Spans
      BY DEF WF
    <3> QED
      BY <3>1 DEF Held, Spans
  <2>4. b.from <= l.from /\ stored[i].end = "ongoing" /\ stored[i].from = b.from
    BY <1>1, <1>3, <2>1, <2>2, <2>3 DEF HeldSpan, Continues
  <2>5. l.to > b.from /\ ~(l.from < b.from)
    BY <1>1, <1>3, <2>1, <2>4
  <2>6. first = WithLast(base, [l EXCEPT !.from = b.from])
    <3>1. first = WithLast(base, [l EXCEPT !.from = IF l.from < b.from THEN l.from ELSE b.from])
      <4>1. ~(l.to <= l.from)
        BY <1>1
      <4> QED
        BY <1>5, <2>5, <4>1 DEF MergeLock, b
    <3> QED
      BY <2>5, <3>1
  <2>7. /\ m \in Spans /\ m.from = b.from /\ m.to = l.to /\ m.end = l.end
        /\ m.expected = l.expected
    BY <1>3, <2>1 DEF Spans
  <2> HIDE DEF m, first
  <2>8. \A j \in DOMAIN base : j < N => base[j].to <= m.from
    BY <1>3, <2>1, <2>7 DEF WF, Disjoint
  <2>9. m.from < m.to /\ m.expected # Never => m.to < m.expected
    BY <1>1, <1>3, <2>1, <2>5, <2>7
  <2>10. WF(first) /\ Newest(first) = m /\ Len(first) = N
    <3>1. m.from < m.to
      BY <1>1, <1>3, <2>1, <2>5, <2>7
    <3> QED
      BY <2>1, <2>6, <2>7, <2>8, <2>9, <3>1, WithLastWF DEF m, b, N
  <2>11. first # <<>> /\ DOMAIN first = 1 .. N
    <3>1. first \in Seq(Spans)
      BY <2>10 DEF WF
    <3>2. DOMAIN first = 1 .. N
      BY <2>10, <3>1
    <3> QED
      BY <1>2, <1>3, <2>1, <3>2
  <2>12. \A j \in 1 .. N : j # N => first[j] = base[j]
    <3>1. first = [j \in 1 .. N |-> IF j = N THEN m ELSE base[j]]
      BY <1>2, <2>6 DEF WithLast, m, N
    <3> QED
      BY <3>1
  <2>13. ASSUME NEW j \in DOMAIN first, j # Len(first)
         PROVE  \E k \in DOMAIN stored : Continues(first[j], stored[k])
    <3>1. j \in DOMAIN base /\ first[j] = base[j]
      BY <1>2, <2>10, <2>11, <2>12, <2>13
    <3> QED
      BY <3>1
  <2> QED
    BY <2>2, <2>4, <2>7, <2>10, <2>11, <2>13 DEF first
<1> QED
  BY <1>4, <1>5

\* Two disjoint spans that overlap are one.
LEMMA OverlapIsOne ==
  ASSUME NEW locks, WF(locks), NEW i \in DOMAIN locks, NEW j \in DOMAIN locks,
         locks[j].from < locks[i].to, locks[i].from < locks[j].to
  PROVE  i = j
<1>1. i \in Int /\ j \in Int /\ locks[i] \in Spans /\ locks[j] \in Spans
  BY DEF WF
<1>2. /\ i < j => locks[i].to <= locks[j].from
      /\ j < i => locks[j].to <= locks[i].from
  BY DEF WF, Disjoint
<1>3. /\ locks[i].from \in Int /\ locks[i].to \in Int
      /\ locks[j].from \in Int /\ locks[j].to \in Int
  BY <1>1 DEF Spans
<1> QED
  BY <1>1, <1>2, <1>3

\* The spans of this run merged behind what a trim left of the stored ones: both
\* keep what they ended, and the newest span is this run's.
LEMMA MergeLive ==
  ASSUME NEW stored, WF(stored), NEW base, WF(base),
         \A j \in DOMAIN base : \E i \in DOMAIN stored : Continues(base[j], stored[i]),
         NEW t \in Int, Held(stored, 0, t), 0 <= t,
         NEW spans, WF(spans), spans # <<>>, NEW high \in Int, Held(spans, t, high)
  PROVE  LET m == MergeAll(base, spans)
         IN  /\ WF(m) /\ m # <<>>
             /\ Newest(m).to = Newest(spans).to /\ Newest(m).end = Newest(spans).end
             /\ EndedStands(stored, m)
             /\ EndedStands(spans, m)
             /\ Held(m, 0, high)
<1> DEFINE m == MergeAll(base, spans)
           l == spans[1]
           first == MergeLock(base, l)
           n == Newest(first)
           A == Len(first)
           N == Len(spans)
<1>1. /\ spans \in Seq(Spans) /\ N \in Nat /\ N >= 1 /\ DOMAIN spans = 1 .. N
      /\ \A i \in 1 .. N : spans[i] \in Spans
  BY NewestIn DEF WF
<1>3. l.from < l.to /\ (l.expected # Never => l.to < l.expected)
  BY <1>1 DEF WF, Disjoint
<1>4. l \in Spans /\ HeldSpan(l, t, high) /\ t <= l.from
  BY <1>1 DEF Held, HeldSpan
<1>5. l.from \in Int /\ l.to \in Int
  BY <1>4 DEF Spans
<1> HIDE DEF N, l
<1>6. /\ WF(first) /\ first # <<>>
      /\ n.to = l.to /\ n.end = l.end /\ n.from <= l.from
      /\ \/ n.from = l.from
         \/ \E i \in DOMAIN stored : stored[i].end = "ongoing" /\ n.from = stored[i].from
      /\ \A j \in DOMAIN first : j # A =>
           \E i \in DOMAIN stored : Continues(first[j], stored[i])
  BY <1>3, <1>4, FirstMerge
<1> HIDE DEF first
<1>7. /\ first \in Seq(Spans) /\ A \in Nat /\ A >= 1 /\ DOMAIN first = 1 .. A
      /\ n = first[A] /\ n \in Spans /\ \A i \in 1 .. A : first[i] \in Spans
  BY <1>6, NewestIn DEF WF
<1>8. n.from \in Int /\ n.to \in Int /\ n.from < n.to
  <2>1. Disjoint(first) /\ A \in DOMAIN first
    BY <1>6, <1>7 DEF WF
  <2>2. n.from < n.to
    BY <1>7, <2>1 DEF Disjoint
  <2> HIDE DEF n
  <2> QED
    BY <1>7, <2>2 DEF Spans
<1> HIDE DEF n, A
<1>9. /\ m \in Seq(Spans)
      /\ Len(m) = A + N - 1
      /\ \A i \in 1 .. A : m[i] = first[i]
      /\ \A i \in 2 .. N : m[A + i - 1] = spans[i]
  BY <1>6, <1>7, MergeAllAppends DEF n, A, N, l, first
<1> HIDE DEF m
<1>10. DOMAIN m = 1 .. (A + N - 1) /\ m # <<>>
  BY <1>1, <1>7, <1>9
\* A merged span is an older one, the one the merge began with, or of this run.
<1> DEFINE Older(j) == /\ j \in 1 .. A /\ j < A /\ m[j] = first[j]
                       /\ m[j].to <= n.from /\ m[j].end # "ongoing"
           Own(j, i) == i \in 2 .. N /\ j = A + i - 1 /\ m[j] = spans[i]
<1>11. ASSUME NEW j \in DOMAIN m
       PROVE  Older(j) \/ (j = A /\ m[j] = n) \/ \E i \in 2 .. N : Own(j, i)
  <2>1. j \in Int /\ 1 <= j /\ j <= A + N - 1
    BY <1>1, <1>7, <1>10
  <2>2. CASE j < A
    <3>1. j \in 1 .. A /\ m[j] = first[j]
      BY <1>7, <1>9, <2>1, <2>2
    <3>2. first[j].to <= first[A].from /\ first[j].end # "ongoing"
      <4>1. Disjoint(first) /\ j \in DOMAIN first /\ A \in DOMAIN first
        BY <1>6, <1>7, <3>1 DEF WF
      <4> QED
        BY <2>2, <4>1 DEF Disjoint
    <3> QED
      BY <1>7, <2>2, <3>1, <3>2
  <2>3. CASE j = A
    BY <1>7, <1>9, <2>3
  <2>4. CASE j > A
    <3> DEFINE i == j - A + 1
    <3>1. i \in 2 .. N /\ A + i - 1 = j
      BY <1>1, <1>7, <2>1, <2>4
    <3>2. Own(j, i)
      BY <1>9, <3>1
    <3> QED
      BY <3>1, <3>2
  <2> QED
    BY <1>7, <2>1, <2>2, <2>3, <2>4
\* The spans of this run after the first begin when it had ended, or later.
<1>12. ASSUME NEW i \in 2 .. N
       PROVE  /\ i \in DOMAIN spans /\ spans[i] \in Spans
              /\ spans[i].from \in Int /\ spans[i].to \in Int /\ spans[i].from < spans[i].to
              /\ n.to <= spans[i].from /\ n.end # "ongoing"
              /\ t <= spans[i].from
  <2>1. i \in DOMAIN spans /\ 1 \in DOMAIN spans /\ 1 < i
    BY <1>1
  <2>2. spans[i].from < spans[i].to /\ l.to <= spans[i].from /\ l.end # "ongoing"
    BY <2>1 DEF WF, Disjoint, l
  <2>3. spans[i] \in Spans
    BY <1>1, <2>1
  <2>4. t <= spans[i].from
    BY <2>1 DEF Held, HeldSpan
  <2> QED
    BY <1>6, <2>1, <2>2, <2>3, <2>4 DEF Spans
<1>13. WF(m)
  <2>1. \A j \in DOMAIN m : m[j].from < m[j].to /\ (m[j].expected # Never => m[j].to < m[j].expected)
    <3>1. SUFFICES ASSUME NEW j \in DOMAIN m
                   PROVE  m[j].from < m[j].to /\ (m[j].expected # Never => m[j].to < m[j].expected)
      OBVIOUS
    <3>2. \A i \in DOMAIN first :
            first[i].from < first[i].to /\ (first[i].expected # Never => first[i].to < first[i].expected)
      BY <1>6 DEF WF, Disjoint
    <3>3. \A i \in DOMAIN spans :
            spans[i].from < spans[i].to /\ (spans[i].expected # Never => spans[i].to < spans[i].expected)
      BY DEF WF, Disjoint
    <3>4. CASE j \in 1 .. A
      BY <1>7, <1>9, <3>2, <3>4
    <3>5. CASE \E i \in 2 .. N : Own(j, i)
      BY <1>12, <3>3, <3>5
    <3> QED
      BY <1>7, <1>11, <3>4, <3>5
  <2>2. ASSUME NEW i \in DOMAIN m, NEW j \in DOMAIN m, i < j
        PROVE  m[i].to <= m[j].from /\ m[i].end # "ongoing"
    <3>1. CASE j \in 1 .. A
      <4>1. i \in 1 .. A /\ m[i] = first[i] /\ m[j] = first[j]
        BY <1>1, <1>7, <1>9, <1>10, <2>2, <3>1
      <4> QED
        BY <1>6, <1>7, <2>2, <3>1, <4>1 DEF WF, Disjoint
    <3>2. ASSUME NEW k \in 2 .. N, Own(j, k) PROVE m[i].to <= m[j].from /\ m[i].end # "ongoing"
      <4>1. n.to <= m[j].from /\ n.end # "ongoing" /\ m[j].from \in Int
        BY <1>12, <3>2
      <4>2. CASE Older(i)
        <5>1. m[i].to \in Int
          BY <1>7, <4>2 DEF Spans
        <5> QED
          BY <1>8, <4>1, <4>2, <5>1
      <4>3. CASE m[i] = n
        BY <4>1, <4>3
      <4>4. ASSUME NEW h \in 2 .. N, Own(i, h) PROVE m[i].to <= m[j].from /\ m[i].end # "ongoing"
        <5>1. h < k
          BY <1>1, <1>7, <2>2, <3>2, <4>4
        <5> QED
          BY <1>12, <3>2, <4>4, <5>1 DEF WF, Disjoint
      <4> QED
        BY <1>11, <4>2, <4>3, <4>4
    <3> QED
      BY <1>7, <1>11, <3>1, <3>2
  <2> QED
    BY <1>9, <2>1, <2>2 DEF WF, Disjoint
<1>14. Newest(m).to = Newest(spans).to /\ Newest(m).end = Newest(spans).end
  <2>1. CASE N = 1
    <3>1. Newest(m) = n /\ Newest(spans) = l
      BY <1>1, <1>7, <1>9, <2>1 DEF Newest, N, l
    <3> QED
      BY <1>6, <3>1
  <2>2. CASE N # 1
    <3>1. N \in 2 .. N
      BY <1>1, <2>2
    <3>2. m[A + N - 1] = spans[N]
      BY <1>9, <3>1
    <3> QED
      BY <1>9, <3>2 DEF Newest, N
  <2> QED
    BY <2>1, <2>2
<1>15. EndedStands(stored, m)
  <2>1. SUFFICES ASSUME NEW i \in DOMAIN stored, NEW j \in DOMAIN m,
                        stored[i].end \in {"reset", "cleared"},
                        m[j].from < stored[i].to, stored[i].from < m[j].to
                 PROVE  m[j].to = stored[i].to /\ m[j].end = stored[i].end
    BY DEF EndedStands
  <2>2. /\ stored[i] \in Spans /\ stored[i].from \in Int /\ stored[i].to \in Int
        /\ stored[i].from < stored[i].to
        /\ stored[i].end # "ongoing" /\ stored[i].to <= t
    <3>1. stored[i] \in Spans /\ HeldSpan(stored[i], 0, t)
      BY DEF WF, Held
    <3> QED
      BY <2>1, <3>1 DEF Spans, HeldSpan, WF, Disjoint
  <2>3. CASE Older(j)
    <3>1. PICK k \in DOMAIN stored : Continues(m[j], stored[k])
      BY <1>6, <1>7, <2>3
    <3>2. k = i
      <4>1. m[j] \in Spans /\ stored[k] \in Spans
        BY <1>7, <2>3 DEF WF
      <4>2. m[j].to \in Int /\ stored[k].to \in Int
        BY <4>1 DEF Spans
      <4>3. stored[k].from < stored[i].to /\ stored[i].from < stored[k].to
        BY <2>1, <2>2, <3>1, <4>1, <4>2 DEF Continues
      <4> QED
        BY <4>3, OverlapIsOne
    <3> QED
      BY <2>2, <3>1, <3>2 DEF Continues
  <2>4. CASE m[j] = n
    <3>1. ~(n.from = l.from)
      BY <1>4, <1>5, <1>8, <2>1, <2>2, <2>4
    <3>2. PICK k \in DOMAIN stored : stored[k].end = "ongoing" /\ n.from = stored[k].from
      BY <1>6, <3>1
    <3>3. i # k /\ i \in Int /\ k \in Int
      BY <2>2, <3>2 DEF WF
    <3>4. ~(k < i)
      BY <3>2 DEF WF, Disjoint
    <3>5. stored[i].to <= n.from
      <4>1. i < k
        BY <3>3, <3>4
      <4> QED
        BY <3>2, <4>1 DEF WF, Disjoint
    <3> QED
      BY <1>8, <2>1, <2>2, <2>4, <3>5
  <2>5. ASSUME NEW k \in 2 .. N, Own(j, k) PROVE FALSE
    BY <1>12, <2>1, <2>2, <2>5
  <2> QED
    BY <1>11, <2>3, <2>4, <2>5
<1>16. EndedStands(spans, m)
  <2>1. SUFFICES ASSUME NEW i \in DOMAIN spans, NEW j \in DOMAIN m,
                        spans[i].end \in {"reset", "cleared"},
                        m[j].from < spans[i].to, spans[i].from < m[j].to
                 PROVE  m[j].to = spans[i].to /\ m[j].end = spans[i].end
    BY DEF EndedStands
  <2>2. spans[i] \in Spans /\ spans[i].from \in Int /\ spans[i].to \in Int /\ l.from <= spans[i].from
    <3>1. spans[i] \in Spans
      BY <1>1
    <3>2. i = 1 \/ i \in 2 .. N
      BY <1>1
    <3>3. i \in 2 .. N => l.from <= spans[i].from
      BY <1>3, <1>5, <1>6, <1>8, <1>12
    <3>4. i = 1 => l.from <= spans[i].from
      BY <1>5 DEF l
    <3> QED
      BY <3>1, <3>2, <3>3, <3>4 DEF Spans
  <2>3. CASE Older(j)
    <3>1. m[j].to \in Int
      BY <1>7, <2>3 DEF Spans
    <3> QED
      BY <1>5, <1>6, <1>8, <2>1, <2>2, <2>3, <3>1
  <2>4. CASE m[j] = n
    <3>1. i = 1 \/ i \in 2 .. N
      BY <1>1
    <3>2. CASE i = 1
      BY <1>6, <2>4, <3>2 DEF l
    <3>3. CASE i \in 2 .. N
      BY <1>8, <1>12, <2>1, <2>4, <3>3
    <3> QED
      BY <3>1, <3>2, <3>3
  <2>5. ASSUME NEW k \in 2 .. N, Own(j, k)
        PROVE  m[j].to = spans[i].to /\ m[j].end = spans[i].end
    <3>1. k = i
      BY <1>12, <2>1, <2>5, OverlapIsOne
    <3> QED
      BY <2>5, <3>1
  <2> QED
    BY <1>11, <2>3, <2>4, <2>5
<1>17. Held(m, 0, high)
  <2>1. SUFFICES ASSUME NEW j \in DOMAIN m PROVE HeldSpan(m[j], 0, high)
    BY DEF Held
  <2>2. l.from <= high
    BY <1>4 DEF HeldSpan
  <2>3. \A i \in DOMAIN stored : /\ 0 <= stored[i].from /\ Truncate(stored[i].to) = stored[i].to
    BY DEF Held, HeldSpan
  <2>4. CASE Older(j)
    <3>1. PICK k \in DOMAIN stored : Continues(m[j], stored[k])
      BY <1>6, <1>7, <2>4
    <3>2. m[j].to \in Int /\ m[j].from \in Int /\ m[j].from < m[j].to
      BY <1>6, <1>7, <2>4 DEF Spans, WF, Disjoint
    <3> QED
      BY <1>5, <1>6, <1>8, <2>2, <2>3, <2>4, <3>1, <3>2 DEF HeldSpan, Continues
  <2>5. CASE m[j] = n
    <3>1. 0 <= n.from
      BY <1>4, <1>5, <1>6, <2>3
    <3>2. n.from <= high
      BY <1>5, <1>6, <1>8, <2>2
    <3> QED
      BY <1>4, <1>6, <2>5, <3>1, <3>2 DEF HeldSpan
  <2>6. ASSUME NEW k \in 2 .. N, Own(j, k) PROVE HeldSpan(m[j], 0, high)
    <3>1. HeldSpan(spans[k], t, high) /\ spans[k].from \in Int
      BY <1>12 DEF Held
    <3> QED
      BY <2>6, <3>1 DEF HeldSpan
  <2> QED
    BY <1>11, <2>4, <2>5, <2>6
<1> QED
  BY <1>10, <1>13, <1>14, <1>15, <1>16, <1>17 DEF m

\* What an end of the newest span leaves of some spans continues them.
LEMMA EndContinues ==
  ASSUME NEW locks, WF(locks), NEW at0 \in Int, NEW cause \in Ends \ {"ongoing"},
         NEW low, NEW high, Held(End(locks, at0, cause), low, high)
  PROVE  LET e == End(locks, at0, cause)
         IN  \A j \in DOMAIN e : j \in DOMAIN locks /\ Continues(e[j], locks[j])
<1> DEFINE at == Truncate(at0)
           e == End(locks, at0, cause)
           l == Newest(locks)
           m == EndedAt(l, at, cause)
<1>1. at \in Int
  BY TruncateOK
<1>2. \A j \in DOMAIN e : Truncate(e[j].to) = e[j].to
  BY DEF Held, HeldSpan
<1>3. \A j \in DOMAIN locks : locks[j].to \in Int
  <2>1. \A j \in DOMAIN locks : locks[j] \in Spans
    BY DEF WF
  <2> QED
    BY <2>1 DEF Spans
<1> HIDE DEF at
<1>4. CASE ~EndsSpan(locks, at)
  <2>1. e = locks
    BY <1>4 DEF End, at
  <2> QED
    BY <1>2, <1>3, <2>1 DEF Continues
<1>5. CASE EndsSpan(locks, at)
  <2>1. /\ locks # <<>> /\ l.end = "ongoing" /\ e = WithLast(locks, m)
        /\ l = locks[Len(locks)] /\ Len(locks) \in DOMAIN locks
    BY <1>5, NewestIn DEF End, EndsSpan, EndedAt, at
  <2>2. DOMAIN e = DOMAIN locks
        /\ \A j \in DOMAIN locks : e[j] = IF j = Len(locks) THEN m ELSE locks[j]
    BY <2>1 DEF WithLast
  <2>3. m.from = l.from /\ m.to <= l.to
    <3>1. l.to \in Int /\ l \in Spans
      BY <1>3, <2>1 DEF WF
    <3> QED
      BY <1>1, <3>1 DEF EndedAt, Spans
  <2> HIDE DEF e, m, l
  <2>4. ASSUME NEW j \in DOMAIN e PROVE j \in DOMAIN locks /\ Continues(e[j], locks[j])
    <3>1. CASE j = Len(locks)
      BY <1>2, <2>1, <2>2, <2>3, <3>1 DEF Continues
    <3>2. CASE j # Len(locks)
      BY <1>2, <1>3, <2>2, <3>2 DEF Continues
    <3> QED
      BY <2>2, <3>1, <3>2
  <2> QED
    BY <2>4 DEF e
<1> QED
  BY <1>4, <1>5

\* Spans that continue some keep what those had ended.
LEMMA ContinuesStands ==
  ASSUME NEW stored, WF(stored), NEW base, WF(base),
         \A j \in DOMAIN base : \E i \in DOMAIN stored : Continues(base[j], stored[i])
  PROVE  EndedStands(stored, base)
<1>1. SUFFICES ASSUME NEW i \in DOMAIN stored, NEW j \in DOMAIN base,
                      stored[i].end \in {"reset", "cleared"},
                      base[j].from < stored[i].to, stored[i].from < base[j].to
               PROVE  base[j].to = stored[i].to /\ base[j].end = stored[i].end
  BY DEF EndedStands
<1>2. PICK k \in DOMAIN stored : Continues(base[j], stored[k])
  OBVIOUS
<1>3. base[j] \in Spans /\ stored[i] \in Spans /\ stored[k] \in Spans
  BY DEF WF
<1>4. base[j].to \in Int /\ stored[i].from \in Int /\ stored[k].to \in Int
  BY <1>3 DEF Spans
<1>5. stored[k].from < stored[i].to /\ stored[i].from < stored[k].to
  BY <1>1, <1>2, <1>4 DEF Continues
<1>6. k = i
  BY <1>5, OverlapIsOne
<1> QED
  BY <1>1, <1>2, <1>6 DEF Continues

\* Spans stay where they lie when the instants they lie between part.
LEMMA HeldWidens ==
  ASSUME NEW locks, WF(locks), NEW low \in Int, NEW high \in Int, Held(locks, low, high),
         NEW less \in Int, less <= low, NEW more \in Int, high <= more
  PROVE  Held(locks, less, more)
<1>1. \A i \in DOMAIN locks : locks[i] \in Spans
  BY DEF WF
<1>2. \A i \in DOMAIN locks : locks[i].from \in Int /\ locks[i].to \in Int
  BY <1>1 DEF Spans
<1> QED
  BY <1>2 DEF Held, HeldSpan

\* ImportHistory
LEMMA ImportOK ==
  ASSUME NEW live, RingOK(live), NEW stored, WF(stored), NEW now \in Int, live.served <= now,
         NEW t \in Int, 0 <= t, Held(stored, 0, t), NEW high \in Int, t <= high,
         Held(live.locks, t, high), NEW oldest,
         NEW at \in Int, Truncate(at) <= high, NEW cause \in Ends \ {"ongoing"}
  PROVE  LET q == Import(live, stored, now, oldest, at, cause)
         IN  /\ RingOK(q) /\ q.served <= now
             /\ Held(q.locks, 0, high)
             /\ EndedStands(stored, q.locks)
             /\ EndedStands(live.locks, q.locks)
             /\ live.locks # <<>> /\ q.locks # <<>> =>
                  /\ Newest(q.locks).to = Newest(live.locks).to
                  /\ Newest(q.locks).end = Newest(live.locks).end
<1> DEFINE q == Import(live, stored, now, oldest, at, cause)
           kept == TrimLocks(stored, oldest)
           base == End(kept, at, cause)
           m == MergeAll(base, live.locks)
           seen == IF stored # <<>> THEN now ELSE Never
<1>1. q = [locks   |-> TrimLocks(m, oldest),
           refused |-> IF live.locks # <<>> THEN live.refused ELSE seen,
           served  |-> live.served]
  BY ReplayStored DEF Import, Replay
<1>2. /\ WF(live.locks) /\ live.refused \in Int /\ live.served \in Int
      /\ live.locks # <<>> /\ Newest(live.locks).end = "ongoing" => live.served <= live.refused
      /\ seen \in Int /\ (stored # <<>> => seen = now)
  BY DEF RingOK, Never
<1>3. /\ WF(base) /\ \A j \in DOMAIN base : \E i \in DOMAIN stored : Continues(base[j], stored[i])
      /\ Held(base, 0, high) /\ EndedStands(stored, base)
      /\ base # <<>> => stored # <<>>
  <2>1. /\ WF(kept) /\ \A j \in DOMAIN kept : \E i \in DOMAIN stored : kept[j] = stored[i]
        /\ Held(kept, 0, t)
    BY TrimOK, TrimHeld
  <2> HIDE DEF kept
  <2>2. Held(kept, 0, high)
    BY <2>1, HeldWidens
  <2>3. WF(base) /\ Len(base) = Len(kept) /\ Held(base, 0, high)
    BY <2>1, <2>2, EndOK, EndHeld
  <2>4. \A j \in DOMAIN base : j \in DOMAIN kept /\ Continues(base[j], kept[j])
    BY <2>1, <2>3, EndContinues
  <2> HIDE DEF base
  <2>5. \A j \in DOMAIN base : \E i \in DOMAIN stored : Continues(base[j], stored[i])
    BY <2>1, <2>4
  <2>6. EndedStands(stored, base)
    BY <2>3, <2>5, ContinuesStands
  <2>7. base # <<>> => 1 \in DOMAIN base
    BY <2>3, NewestIn
  <2>8. stored = <<>> => DOMAIN stored = {}
    OBVIOUS
  <2> QED
    BY <2>3, <2>5, <2>6, <2>7, <2>8
<1> HIDE DEF base, seen
<1>4. /\ WF(m) /\ EndedStands(stored, m) /\ EndedStands(live.locks, m) /\ Held(m, 0, high)
      /\ live.locks # <<>> =>
           Newest(m).to = Newest(live.locks).to /\ Newest(m).end = Newest(live.locks).end
      /\ live.locks = <<>> /\ m # <<>> => stored # <<>>
  <2>1. CASE live.locks = <<>>
    <3>1. m = base
      BY <2>1, MergeAllNone
    <3>2. EndedStands(live.locks, base)
      <4>1. DOMAIN live.locks = {}
        BY <2>1
      <4> QED
        BY <4>1 DEF EndedStands
    <3> HIDE DEF m
    <3> QED
      BY <1>3, <2>1, <3>1, <3>2
  <2>2. CASE live.locks # <<>>
    BY <1>2, <1>3, <2>2, MergeLive
  <2> QED
    BY <2>1, <2>2
<1> HIDE DEF m
<1> DEFINE r == TrimLocks(m, oldest)
<1>5. /\ WF(r) /\ Len(r) <= MaxLocks /\ Held(r, 0, high)
      /\ EndedStands(stored, r) /\ EndedStands(live.locks, r)
      /\ r # <<>> => Newest(r) = Newest(m) /\ m # <<>>
  <2>1. /\ WF(r) /\ Len(r) <= MaxLocks /\ Held(r, 0, high)
        /\ EndedStands(stored, r) /\ EndedStands(live.locks, r)
        /\ r # <<>> => Newest(r) = Newest(m)
        /\ \A j \in DOMAIN r : \E i \in DOMAIN m : r[j] = m[i]
    BY <1>4, TrimOK, TrimStands, TrimHeld
  <2>2. r # <<>> => 1 \in DOMAIN r
    BY <2>1, NewestIn
  <2>3. m = <<>> => DOMAIN m = {}
    OBVIOUS
  <2> HIDE DEF r
  <2> QED
    BY <2>1, <2>2, <2>3
<1> HIDE DEF r
<1>6. /\ q.locks = r /\ q.served = live.served
      /\ q.refused = IF live.locks # <<>> THEN live.refused ELSE seen
  BY <1>1 DEF r
<1> HIDE DEF q
<1>7. q.locks # <<>> /\ Newest(q.locks).end = "ongoing" => q.served <= q.refused
  <2>1. SUFFICES ASSUME q.locks # <<>>, Newest(q.locks).end = "ongoing" PROVE q.served <= q.refused
    OBVIOUS
  <2>2. CASE live.locks # <<>>
    BY <1>2, <1>4, <1>5, <1>6, <2>1, <2>2
  <2>3. CASE live.locks = <<>>
    BY <1>2, <1>4, <1>5, <1>6, <2>1, <2>3
  <2> QED
    BY <2>2, <2>3
<1>8. RingOK(q)
  BY <1>2, <1>5, <1>6, <1>7 DEF RingOK
<1> QED
  BY <1>4, <1>5, <1>6, <1>8 DEF q

-----------------------------------------------------------------------------
(* The invariant *)

\* export
LEMMA ExportOK ==
  ASSUME NEW locks, WF(locks), NEW now \in Int, Held(locks, 0, Truncate(now))
  PROVE  WF(Export(locks, now)) /\ Held(Export(locks, now), 0, Truncate(now))
<1> DEFINE e == Export(locks, now)
           n == Len(locks)
<1>1. locks \in Seq(Spans) /\ n \in Nat /\ DOMAIN locks = 1 .. n
  BY DEF WF
<1>2. e = [i \in 1 .. n |-> ExportLock(locks[i], now)]
  BY <1>1 DEF Export
<1> HIDE DEF e
<1>3. ASSUME NEW i \in 1 .. n
      PROVE  /\ e[i] \in Spans
             /\ e[i].from = locks[i].from /\ e[i].to = locks[i].to
             /\ e[i].expected = locks[i].expected
             /\ locks[i].end # "ongoing" => e[i].end = locks[i].end
             /\ HeldSpan(e[i], 0, Truncate(now))
  <2>1. e[i] = ExportLock(locks[i], now) /\ locks[i] \in Spans /\ HeldSpan(locks[i], 0, Truncate(now))
    BY <1>1, <1>2 DEF Held
  <2>2. CASE locks[i].end = "ongoing" /\ locks[i].to <= now
    <3>1. e[i] = [locks[i] EXCEPT !.end = "reset"]
      BY <2>1, <2>2 DEF ExportLock
    <3>2. /\ e[i] \in Spans /\ e[i].from = locks[i].from /\ e[i].to = locks[i].to
          /\ e[i].expected = locks[i].expected
      BY <2>1, <3>1 DEF Spans, Ends
    <3>3. locks[i].to <= Truncate(now)
      <4>1. locks[i].to \in Int /\ Truncate(locks[i].to) = locks[i].to
        BY <2>1 DEF Spans, HeldSpan
      <4>2. Truncate(locks[i].to) <= Truncate(now)
        BY <2>2, <4>1, TruncateOK
      <4> QED
        BY <4>1, <4>2
    <3> QED
      BY <2>1, <2>2, <3>2, <3>3 DEF HeldSpan
  <2>3. CASE ~(locks[i].end = "ongoing" /\ locks[i].to <= now)
    BY <2>1, <2>3 DEF ExportLock
  <2> QED
    BY <2>2, <2>3
<1>4. e \in Seq(Spans) /\ DOMAIN e = 1 .. n
  BY <1>1, <1>2, <1>3
<1>5. Disjoint(e)
  BY <1>1, <1>3, <1>4 DEF WF, Disjoint
<1> QED
  BY <1>3, <1>4, <1>5 DEF WF, Held, e

\* The records a run is delivered are those of its own requests.
OnTime == ReloadLate = FALSE

\* The spans this run saw before it loaded the file began no earlier than the run,
\* and what the file holds had begun, and ended if it did, when the run began: so
\* a load never finds a stored span newer than a live one.
HistoryIInv ==
  /\ clock \in 0 .. MaxTick /\ boot \in 0 .. clock /\ loaded \in BOOLEAN
  /\ RingOK(ring) /\ ring.served <= clock
  /\ Held(ring.locks, IF loaded THEN 0 ELSE Truncate(boot), Truncate(clock))
  /\ WF(file)
  /\ Held(file, 0, Truncate(IF loaded THEN clock ELSE boot))

LEMMA NothingHeld == \A low, high : Held(<<>>, low, high)
BY DEF Held

LEMMA HistoryInitOK == HInit => HistoryIInv
<1>1. SUFFICES ASSUME HInit PROVE HistoryIInv
  OBVIOUS
<1>2. RingOK(ring) /\ ring.locks = <<>> /\ ring.served = Never
  BY <1>1, InitOK DEF HInit, Init, EmptyRing
<1>3. clock = 0 /\ boot = 0 /\ file = <<>> /\ loaded = FALSE
  BY <1>1 DEF HInit
<1>4. clock \in 0 .. MaxTick /\ boot \in 0 .. clock /\ loaded \in BOOLEAN
  <2>1. clock \in 0 .. MaxTick /\ boot \in 0 .. clock
    BY <1>3, SpanAssumption
  <2>2. loaded \in BOOLEAN
    BY <1>3, Zenon
  <2> QED
    BY <2>1, <2>2
<1>5. ring.served <= clock
  BY <1>2, <1>3 DEF Never
<1>6. /\ Held(ring.locks, IF loaded THEN 0 ELSE Truncate(boot), Truncate(clock))
      /\ Held(file, 0, Truncate(IF loaded THEN clock ELSE boot))
  BY <1>2, <1>3, NothingHeld
<1> QED
  BY <1>2, <1>3, <1>4, <1>5, <1>6, EmptyOK DEF HistoryIInv

\* A record or a reading.
LEMMA LiveOK ==
  ASSUME OnTime, HistoryIInv, Live
  PROVE  HistoryIInv' /\ EndedStands(ring.locks, ring'.locks)
<1> DEFINE low == IF loaded THEN 0 ELSE Truncate(boot)
           high == Truncate(clock)
<1>1. /\ clock \in Int /\ boot \in Int /\ 0 <= boot /\ boot <= clock /\ loaded \in BOOLEAN
      /\ RingOK(ring) /\ ring.served \in Int /\ ring.served <= clock /\ ring.refused \in Int
      /\ Held(ring.locks, low, high)
  BY SpanAssumption DEF HistoryIInv, RingOK
<1>2. UNCHANGED <<clock, boot, file, loaded>> /\ Delivered = boot .. clock
  BY DEF Live, Delivered, OnTime
<1>3. \A at \in Delivered : /\ at \in Int /\ at <= clock
                            /\ low <= Truncate(at) /\ Truncate(at) <= high
  <2>1. SUFFICES ASSUME NEW at \in Delivered
                 PROVE  /\ at \in Int /\ at <= clock
                        /\ low <= Truncate(at) /\ Truncate(at) <= high
    OBVIOUS
  <2>2. at \in Int /\ boot <= at /\ at <= clock /\ 0 <= at
    BY <1>1, <1>2
  <2>3. Truncate(boot) <= Truncate(at) /\ Truncate(at) <= high /\ 0 <= Truncate(at)
    BY <1>1, <2>2, TruncateOK
  <2> QED
    BY <2>2, <2>3
<1>4. low \in Int /\ high \in Int
  BY <1>1, TruncateOK
<1> HIDE DEF low, high
<1>5. Ticks \subseteq Int
  BY SpanAssumption DEF Ticks
<1> DEFINE Good == /\ RingOK(ring') /\ ring'.served <= clock /\ Held(ring'.locks, low, high)
                   /\ EndedStands(ring.locks, ring'.locks)
<1>6. ASSUME NEW at \in Delivered, NEW until \in Ticks, NEW oldest \in Seconds,
             NEW admitted \in Delivered, RecordRefusal(admitted, at, until, oldest)
      PROVE  Good
  <2>1. ring' = Refuse(ring, admitted, at, until, oldest)
    BY <1>6 DEF RecordRefusal
  <2>2. ring'.served = ring.served
    BY <2>1 DEF Refuse
  <2>3. at \in Int /\ admitted \in Int /\ until \in Int
    BY <1>3, <1>5
  <2>4. RingOK(ring') /\ EndedStands(ring.locks, ring'.locks)
    BY <1>1, <2>1, <2>3, RefuseOK
  <2>5. Held(ring'.locks, low, high)
    BY <1>1, <1>3, <1>4, <2>1, <2>3, RefuseHeld
  <2> QED
    BY <1>1, <2>2, <2>4, <2>5
<1>7. ASSUME NEW at \in Delivered, NEW admitted \in Delivered, MarkServed(admitted, at)
      PROVE  Good
  <2>1. ring' = Serve(ring, admitted, at)
    BY <1>7 DEF MarkServed
  <2>2. at \in Int /\ admitted \in Int /\ admitted <= clock
    BY <1>3
  <2>3. ring'.served = Later(admitted, ring.served)
    BY <2>1 DEF Serve
  <2>4. RingOK(ring') /\ EndedStands(ring.locks, ring'.locks)
    BY <1>1, <2>1, <2>2, ServeOK
  <2>5. Held(ring'.locks, low, high)
    BY <1>1, <1>3, <1>4, <2>1, <2>2, ServeHeld
  <2> QED
    BY <1>1, <2>2, <2>3, <2>4, <2>5 DEF Later
<1>8. ASSUME NEW at \in Delivered, NEW cause \in {"reset", "cleared"}, NEW oldest \in Seconds,
             Reading(at, cause, oldest)
      PROVE  Good
  <2>1. ring' = [locks   |-> TrimLocks(End(ring.locks, at, cause), oldest),
                 refused |-> ring.refused,
                 served  |-> ring.served]
    BY <1>8 DEF Reading
  <2>2. at \in Int /\ cause \in Ends \ {"ongoing"} /\ WF(ring.locks)
    BY <1>1, <1>3 DEF Ends, RingOK
  <2>3. RingOK(ring') /\ EndedStands(ring.locks, ring'.locks)
    BY <1>1, <2>1, <2>2, ReadingOK
  <2>4. WF(End(ring.locks, at, cause)) /\ Held(End(ring.locks, at, cause), low, high)
    BY <1>1, <1>3, <1>4, <2>2, EndOK, EndHeld
  <2>5. Held(ring'.locks, low, high)
    BY <2>1, <2>4, TrimHeld
  <2> QED
    BY <1>1, <2>1, <2>3, <2>5
<1>9. Good
  BY <1>6, <1>7, <1>8 DEF Live
<1> QED
  BY <1>1, <1>2, <1>9 DEF HistoryIInv, low, high

\* A load.
LEMMA LoadOK ==
  ASSUME HistoryIInv, LoadHistory
  PROVE  /\ HistoryIInv'
         /\ EndedStands(ring.locks, ring'.locks)
         /\ EndedStands(file, ring'.locks)
         /\ ring.locks # <<>> /\ ring'.locks # <<>> =>
              /\ Newest(ring'.locks).to = Newest(ring.locks).to
              /\ Newest(ring'.locks).end = Newest(ring.locks).end
<1>1. PICK oldest \in Seconds, at \in {0} \cup Delivered, cause \in {"reset", "cleared"} :
        ring' = Import(ring, file, clock, oldest, at, cause)
  BY DEF LoadHistory
<1>2. loaded = FALSE /\ loaded' = TRUE /\ UNCHANGED <<clock, boot, file>>
  BY DEF LoadHistory, HistoryIInv
<1>3. /\ clock \in Int /\ boot \in Int /\ 0 <= boot /\ boot <= clock
      /\ RingOK(ring) /\ ring.served <= clock /\ WF(file)
      /\ Held(ring.locks, Truncate(boot), Truncate(clock)) /\ Held(file, 0, Truncate(boot))
  BY <1>2, SpanAssumption DEF HistoryIInv
<1>4. /\ Truncate(boot) \in Int /\ 0 <= Truncate(boot) /\ Truncate(clock) \in Int
      /\ Truncate(boot) <= Truncate(clock)
  BY <1>3, TruncateOK
<1>5. at \in Int /\ Truncate(at) <= Truncate(clock) /\ cause \in Ends \ {"ongoing"}
  <2>1. at \in Int /\ at <= clock
    BY <1>3 DEF Delivered
  <2> QED
    BY <1>3, <2>1, TruncateOK DEF Ends
<1>6. /\ RingOK(ring') /\ ring'.served <= clock /\ Held(ring'.locks, 0, Truncate(clock))
      /\ EndedStands(file, ring'.locks) /\ EndedStands(ring.locks, ring'.locks)
      /\ ring.locks # <<>> /\ ring'.locks # <<>> =>
           /\ Newest(ring'.locks).to = Newest(ring.locks).to
           /\ Newest(ring'.locks).end = Newest(ring.locks).end
  BY <1>1, <1>3, <1>4, <1>5, ImportOK
<1>7. Held(file, 0, Truncate(clock))
  BY <1>3, <1>4, HeldWidens
<1>8. HistoryIInv'
  BY <1>2, <1>6, <1>7 DEF HistoryIInv
<1> QED
  BY <1>6, <1>8

\* Every step keeps the invariant and what the ring has ended.
LEMMA HistoryNextOK ==
  ASSUME OnTime, HistoryIInv, [HNext]_hvars
  PROVE  HistoryIInv' /\ EndedStands(ring.locks, ring'.locks)
<1>1. /\ clock \in Int /\ boot \in Int /\ 0 <= boot /\ boot <= clock /\ loaded \in BOOLEAN
      /\ WF(ring.locks) /\ WF(file)
      /\ 0 <= Truncate(boot) /\ Truncate(boot) \in Int /\ Truncate(clock) \in Int
  BY SpanAssumption, TruncateOK DEF HistoryIInv, RingOK
<1>2. EndedStands(ring.locks, ring.locks)
  BY <1>1, SameStands
<1>3. CASE Tick
  <2>1. clock' = clock + 1 /\ clock' <= MaxTick /\ UNCHANGED <<ring, boot, file, loaded>>
    BY <1>1, <1>3, SpanAssumption DEF Tick
  <2>2. clock' \in Int /\ Truncate(clock') \in Int /\ Truncate(clock) <= Truncate(clock')
    BY <1>1, <2>1, TruncateOK
  <2>3. Held(ring.locks, IF loaded THEN 0 ELSE Truncate(boot), Truncate(clock'))
    BY <1>1, <2>2, HeldWidens DEF HistoryIInv
  <2>4. Held(file, 0, Truncate(IF loaded THEN clock' ELSE boot))
    BY <1>1, <2>2, HeldWidens DEF HistoryIInv
  <2>5. ring.served \in Int /\ ring.served <= clock'
    BY <1>1, <2>1 DEF HistoryIInv, RingOK
  <2> QED
    BY <1>1, <1>2, <2>1, <2>2, <2>3, <2>4, <2>5 DEF HistoryIInv
<1>4. CASE Live
  BY <1>4, LiveOK
<1>5. CASE SaveHistory
  <2>1. loaded /\ file' = Export(ring.locks, clock) /\ UNCHANGED <<ring, clock, boot, loaded>>
    BY <1>5 DEF SaveHistory
  <2>2. Held(ring.locks, 0, Truncate(clock))
    BY <2>1 DEF HistoryIInv
  <2>3. WF(file') /\ Held(file', 0, Truncate(clock))
    BY <1>1, <2>1, <2>2, ExportOK
  <2> QED
    BY <1>2, <2>1, <2>3 DEF HistoryIInv
<1>6. CASE Restart
  <2>1. ring' = EmptyRing /\ boot' = clock /\ loaded' = FALSE /\ UNCHANGED <<clock, file>>
    BY <1>6 DEF Restart
  <2>2. ring'.locks = <<>> /\ ring'.served = Never /\ ring'.refused = Never
    BY <2>1 DEF EmptyRing
  <2>3. RingOK(ring')
    BY <2>2, EmptyOK, SpanAssumption DEF RingOK, Never
  <2>4. Held(file, 0, Truncate(clock))
    <3>1. Held(file, 0, Truncate(IF loaded THEN clock ELSE boot))
      BY DEF HistoryIInv
    <3>2. Truncate(boot) <= Truncate(clock)
      BY <1>1, TruncateOK
    <3> QED
      BY <1>1, <3>1, <3>2, HeldWidens
  <2>5. EndedStands(ring.locks, ring'.locks)
    BY <2>2 DEF EndedStands
  <2>6. clock' \in 0 .. MaxTick /\ boot' \in 0 .. clock' /\ loaded' \in BOOLEAN
    <3>1. clock' \in 0 .. MaxTick /\ boot' \in 0 .. clock'
      BY <1>1, <2>1 DEF HistoryIInv
    <3>2. loaded' \in BOOLEAN
      BY <2>1, Zenon
    <3> QED
      BY <3>1, <3>2
  <2>7. ring'.served <= clock'
    BY <1>1, <2>1, <2>2 DEF Never
  <2>8. Held(ring'.locks, IF loaded' THEN 0 ELSE Truncate(boot'), Truncate(clock'))
    BY <2>2, NothingHeld
  <2>9. WF(file') /\ Held(file', 0, Truncate(IF loaded' THEN clock' ELSE boot'))
    BY <1>1, <2>1, <2>4
  <2> QED
    BY <2>3, <2>5, <2>6, <2>7, <2>8, <2>9 DEF HistoryIInv
<1>7. CASE LoadHistory
  BY <1>7, LoadOK
<1>8. CASE UNCHANGED hvars
  BY <1>2, <1>8 DEF hvars, HistoryIInv
<1> QED
  BY <1>3, <1>4, <1>5, <1>6, <1>7, <1>8 DEF HNext

LEMMA HistoryInvariance == ASSUME OnTime PROVE HSpec => []HistoryIInv
<1>1. HistoryIInv /\ [HNext]_hvars => HistoryIInv'
  BY HistoryNextOK
<1> QED
  BY <1>1, HistoryInitOK, PTL DEF HSpec

\* A load keeps the spans oldest first, disjoint and non-empty, with none but
\* the newest ongoing, whatever the file and the new run hold.
THEOREM DisjointAcross == ASSUME OnTime PROVE HSpec => []SpansDisjoint
<1>1. HistoryIInv => SpansDisjoint
  BY DEF HistoryIInv, RingOK, WF, SpansDisjoint
<1> QED
  BY <1>1, HistoryInvariance, PTL

\* An ongoing span is not outlived across restarts: the load stands in for the
\* admissions the file does not keep.
THEOREM NotOutlivedAcross == ASSUME OnTime PROVE HSpec => []OngoingNotOutlived
<1>1. HistoryIInv => OngoingNotOutlived
  BY DEF HistoryIInv, RingOK, OngoingNotOutlived
<1> QED
  BY <1>1, HistoryInvariance, PTL

\* What this run has seen stays the newer evidence through the load.
THEOREM LiveIsKept == ASSUME OnTime PROVE HSpec => LoadKeepsLive
<1>1. HistoryIInv /\ [HNext]_hvars =>
        [loaded' /\ ~loaded /\ ring.locks # <<>> /\ ring'.locks # <<>> =>
           /\ Newest(ring'.locks).to = Newest(ring.locks).to
           /\ Newest(ring'.locks).end = Newest(ring.locks).end]_hvars
  <2>1. HistoryIInv /\ [HNext]_hvars /\ loaded' /\ ~loaded => LoadHistory
    BY DEF HNext, hvars, Tick, Live, SaveHistory, Restart, HistoryIInv
  <2> QED
    BY <2>1, LoadOK
<1> QED
  BY <1>1, HistoryInvariance, PTL DEF HSpec, LoadKeepsLive

\* Saves, restarts and loads reopen nothing that had ended, in the run or in the
\* file.
THEOREM EndedStaysEndedAcross == ASSUME OnTime PROVE HSpec => EndedForGoodAcross
<1>1. HistoryIInv /\ [HNext]_hvars =>
        [/\ EndedStands(ring.locks, ring'.locks)
         /\ loaded' /\ ~loaded => EndedStands(file, ring'.locks)]_hvars
  <2>1. HistoryIInv /\ [HNext]_hvars /\ loaded' /\ ~loaded => LoadHistory
    BY DEF HNext, hvars, Tick, Live, SaveHistory, Restart, HistoryIInv
  <2> QED
    BY <2>1, LoadOK, HistoryNextOK
<1> QED
  BY <1>1, HistoryInvariance, PTL DEF HSpec, EndedForGoodAcross
=============================================================================
