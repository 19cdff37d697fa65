------------------------- MODULE RefusalSpansProofs -------------------------
(***************************************************************************)
(* What RefusalSpans promises of a window's refusal spans, for every clock *)
(* precision, bound on instants and cap on spans.  A lemma per step of the *)
(* code says what it makes of well-formed spans; the theorems follow.      *)
(***************************************************************************)
EXTENDS RefusalSpans, SequenceTheorems, WellFoundedInduction, TLAPS

WF(locks) == locks \in Seq(Spans) /\ Disjoint(locks)

LEMMA TruncateInt ==
  ASSUME NEW t \in Int
  PROVE  Truncate(t) \in Int
BY SpanAssumption DEF Truncate

\* trimLocks keeps a suffix, within the cap.
LEMMA TrimSuffix ==
  ASSUME NEW locks \in Seq(Spans), NEW oldest
  PROVE  \E d \in 0 .. Len(locks) :
           /\ d \in TrimCounts(locks, oldest) /\ d >= Len(locks) - MaxLocks
           /\ TrimLocks(locks, oldest) = SubSeq(locks, d + 1, Len(locks))
<1> DEFINE C == TrimCounts(locks, oldest)
           T == {n \in Nat : \E m \in C : n = Len(locks) - m}
           R == {p \in Nat \X Nat : p[1] < p[2]}
           low == IF Len(locks) > MaxLocks THEN Len(locks) - MaxLocks ELSE 0
<1>1. Len(locks) \in Nat /\ MaxLocks \in Nat
  BY SpanAssumption, LenProperties
<1>2. low \in C
  BY <1>1 DEF TrimCounts
<1>3. \A m \in C : m \in Int /\ m \in 0 .. Len(locks) /\ m >= Len(locks) - MaxLocks
  BY <1>1 DEF TrimCounts
<1> HIDE DEF C, low
<1>4. T \subseteq Nat /\ T # {}
  <2>1. Len(locks) - low \in Nat
    BY <1>1, <1>2, <1>3
  <2> QED
    BY <1>2, <2>1
<1>5. PICK x \in T : \A y \in T : ~(<<y, x>> \in R)
  <2>1. IsWellFoundedOn(R, Nat)
    BY NatLessThanWellFounded, Zenon DEF OpToRel
  <2> HIDE DEF T, R
  <2> QED
    BY <1>4, <2>1, WFMin
<1>6. \A y \in T : x <= y
  <2>1. SUFFICES ASSUME NEW y \in T, y < x PROVE FALSE
    BY <1>4, <1>5
  <2>2. y \in Nat /\ x \in Nat
    BY <1>4
  <2>3. <<y, x>> \in R
    BY <2>1, <2>2
  <2> QED
    BY <1>5, <2>3
<1>7. PICK d \in C : x = Len(locks) - d
  BY <1>5
<1>8. \A m \in C : m <= d
  <2>1. SUFFICES ASSUME NEW m \in C
                 PROVE  m <= d
    OBVIOUS
  <2>2. Len(locks) - m \in T
    BY <1>1, <1>3
  <2>3. x <= Len(locks) - m /\ m \in Int /\ d \in Int
    BY <1>3, <1>6, <2>2
  <2> QED
    BY <1>1, <1>7, <2>3
<1> DEFINE drop == CHOOSE n \in C : \A m \in C : m <= n
<1>9. drop \in C
  BY <1>8
<1>10. TrimLocks(locks, oldest) = SubSeq(locks, drop + 1, Len(locks))
  BY DEF TrimLocks, C
<1> QED
  BY <1>3, <1>9, <1>10 DEF C

LEMMA TrimOK ==
  ASSUME NEW locks, WF(locks), NEW oldest
  PROVE  LET t == TrimLocks(locks, oldest)
         IN  /\ WF(t)
             /\ Len(t) <= MaxLocks
             /\ \A j \in DOMAIN t : \E i \in DOMAIN locks : t[j] = locks[i]
             /\ t # <<>> => Newest(t) = Newest(locks)
             /\ locks # <<>> /\ ~(Newest(locks).to < oldest) => t # <<>>
<1>0. PICK d \in 0 .. Len(locks) :
        /\ d \in TrimCounts(locks, oldest) /\ d >= Len(locks) - MaxLocks
        /\ TrimLocks(locks, oldest) = SubSeq(locks, d + 1, Len(locks))
  BY TrimSuffix DEF WF
<1>1. /\ d \in 0 .. Len(locks) /\ d >= Len(locks) - MaxLocks
      /\ TrimLocks(locks, oldest) = SubSeq(locks, d + 1, Len(locks))
  BY <1>0
<1> DEFINE t == SubSeq(locks, d + 1, Len(locks))
<1>2. /\ locks \in Seq(Spans) /\ Len(locks) \in Nat /\ MaxLocks \in Nat /\ d \in Int
      /\ DOMAIN locks = 1 .. Len(locks)
      /\ \A i \in 1 .. Len(locks) : locks[i] \in Spans
  BY SpanAssumption, <1>1 DEF WF
<1>3. /\ t \in Seq(Spans)
      /\ Len(t) = Len(locks) - d
      /\ \A i \in 1 .. Len(locks) - d : t[i] = locks[d + i]
  <2>1. \A i \in d + 1 .. Len(locks) : locks[i] \in Spans
    BY <1>1, <1>2
  <2>2. /\ t \in Seq(Spans)
        /\ Len(t) = IF d + 1 <= Len(locks) THEN Len(locks) - (d + 1) + 1 ELSE 0
        /\ \A i \in 1 .. Len(locks) - (d + 1) + 1 : t[i] = locks[d + 1 + i - 1]
    BY <2>1, <1>2, SubSeqProperties
  <2> HIDE DEF t
  <2>3. Len(t) = Len(locks) - d
    <3>1. \A n, e \in Nat : e <= n =>
            (IF e + 1 <= n THEN n - (e + 1) + 1 ELSE 0) = n - e
      OBVIOUS
    <3>2. d \in Nat /\ d <= Len(locks)
      BY <1>1, <1>2
    <3> QED
      BY <2>2, <3>1, <3>2, <1>2
  <2>4. \A i \in Int : d + 1 + i - 1 = d + i
    BY <1>2
  <2>5. Len(locks) - (d + 1) + 1 = Len(locks) - d
    BY <1>2
  <2> QED
    BY <2>2, <2>3, <2>4, <2>5
<1> HIDE DEF t
<1>4. DOMAIN t = 1 .. Len(locks) - d /\ (t # <<>> => Len(locks) - d >= 1)
  BY <1>3, <1>1, <1>2
<1>5. Len(t) <= MaxLocks
  BY <1>1, <1>2, <1>3
<1>6. \A j \in DOMAIN t : d + j \in DOMAIN locks /\ t[j] = locks[d + j]
  BY <1>1, <1>2, <1>3, <1>4
<1>7. Disjoint(t)
  <2>1. \A i, j \in DOMAIN t : i < j => d + i < d + j
    BY <1>2, <1>4
  <2> QED
    BY <1>6, <2>1 DEF WF, Disjoint
<1>8. t # <<>> => Newest(t) = Newest(locks)
  BY <1>1, <1>2, <1>3, <1>4 DEF Newest
<1>9. TrimLocks(locks, oldest) = t
  BY <1>1 DEF t
<1>10. ASSUME locks # <<>>, t = <<>> PROVE Newest(locks).to < oldest
  <2>1. d = Len(locks) /\ Len(locks) \in 1 .. d
    <3>1. Len(t) = 0 /\ Len(locks) # 0
      BY <1>2, <1>10
    <3> QED
      BY <1>1, <1>2, <1>3, <3>1
  <2>2. ~(Len(locks) <= Len(locks) - MaxLocks)
    BY <1>2, SpanAssumption
  <2> QED
    BY <1>0, <2>1, <2>2 DEF TrimCounts, Newest
<1> QED
  BY <1>3, <1>5, <1>6, <1>7, <1>8, <1>9, <1>10 DEF WF

\* What stands in some spans stands in what trimLocks keeps of them.
LEMMA TrimStands ==
  ASSUME NEW before, NEW locks, WF(locks), NEW oldest, EndedStands(before, locks)
  PROVE  EndedStands(before, TrimLocks(locks, oldest))
BY TrimOK DEF EndedStands

-----------------------------------------------------------------------------
(* Replacing the newest span *)

LEMMA NewestIn ==
  ASSUME NEW locks, WF(locks), locks # <<>>
  PROVE  /\ Len(locks) \in Nat /\ Len(locks) >= 1
         /\ DOMAIN locks = 1 .. Len(locks)
         /\ Newest(locks) \in Spans /\ Newest(locks) = locks[Len(locks)]
         /\ \A i \in DOMAIN locks : locks[i] \in Spans
BY DEF WF, Newest

LEMMA WithLastWF ==
  ASSUME NEW locks, WF(locks), locks # <<>>, NEW l \in Spans,
         l.from < l.to, l.expected # Never => l.to < l.expected,
         \A i \in DOMAIN locks : i < Len(locks) => locks[i].to <= l.from
  PROVE  /\ WF(WithLast(locks, l))
         /\ Len(WithLast(locks, l)) = Len(locks)
         /\ Newest(WithLast(locks, l)) = l
<1> DEFINE t == WithLast(locks, l)
           n == Len(locks)
<1>1. /\ n \in Nat /\ n >= 1 /\ DOMAIN locks = 1 .. n
      /\ Newest(locks) = locks[n]
      /\ locks \in Seq(Spans)
      /\ \A i \in DOMAIN locks : locks[i] \in Spans
  BY NewestIn DEF WF
<1>2. /\ t \in Seq(Spans)
      /\ Len(t) = n
      /\ \A j \in 1 .. n : t[j] = IF j = n THEN l ELSE locks[j]
  BY <1>1, ExceptSeq DEF WithLast
<1> HIDE DEF t, n
<1>3. DOMAIN t = 1 .. n
  BY <1>1, <1>2
<1>4. Disjoint(t)
  <2>1. \A i \in 1 .. n : i # n => i < n
    BY <1>1
  <2>2. \A i \in DOMAIN t : t[i].from < t[i].to /\ (t[i].expected # Never => t[i].to < t[i].expected)
    BY <1>1, <1>2, <1>3 DEF Disjoint, WF
  <2>3. ASSUME NEW i \in DOMAIN t, NEW j \in DOMAIN t, i < j
        PROVE  t[i].to <= t[j].from /\ t[i].end # "ongoing"
    <3>1. i # n /\ t[i] = locks[i] /\ i < n
      BY <1>1, <1>2, <1>3, <2>1, <2>3
    <3>2. locks[i].to <= locks[n].from /\ locks[i].end # "ongoing"
      <4>1. n \in DOMAIN locks /\ i \in DOMAIN locks
        BY <1>1, <1>3
      <4> QED
        BY <4>1, <3>1 DEF Disjoint, WF
    <3>3. CASE j = n
      BY <1>1, <1>2, <1>3, <3>1, <3>2, <3>3 DEF n
    <3>4. CASE j # n
      BY <1>1, <1>2, <1>3, <2>3, <3>1, <3>4 DEF Disjoint, WF
    <3> QED
      BY <3>3, <3>4
  <2> QED
    BY <2>2, <2>3 DEF Disjoint
<1>5. t[n] = l /\ Len(t) = n
  BY <1>1, <1>2
<1> QED
  BY <1>2, <1>4, <1>5 DEF WF, Newest, t, n

LEMMA WithLastOK ==
  ASSUME NEW locks, WF(locks), locks # <<>>, NEW l \in Spans,
         l.from < l.to, l.expected # Never => l.to < l.expected,
         \A i \in DOMAIN locks : i < Len(locks) => locks[i].to <= l.from,
         Newest(locks).end \in {"reset", "cleared"}
           => l.to = Newest(locks).to /\ l.end = Newest(locks).end
  PROVE  /\ WF(WithLast(locks, l))
         /\ Len(WithLast(locks, l)) = Len(locks)
         /\ Newest(WithLast(locks, l)) = l
         /\ EndedStands(locks, WithLast(locks, l))
<1> DEFINE t == WithLast(locks, l)
           n == Len(locks)
<1>1. /\ n \in Nat /\ n >= 1 /\ DOMAIN locks = 1 .. n
      /\ Newest(locks) = locks[n]
      /\ locks \in Seq(Spans)
      /\ \A i \in DOMAIN locks : locks[i] \in Spans
  BY NewestIn DEF WF
<1>2. /\ t \in Seq(Spans)
      /\ Len(t) = n
      /\ \A j \in 1 .. n : t[j] = IF j = n THEN l ELSE locks[j]
  BY <1>1, ExceptSeq DEF WithLast
<1> HIDE DEF t, n
<1>3. DOMAIN t = 1 .. n
  BY <1>1, <1>2
<1>4. \A i \in DOMAIN locks : locks[i].from \in Int /\ locks[i].to \in Int
  BY <1>1 DEF Spans
<1>5. l.from \in Int /\ l.to \in Int
  BY DEF Spans
<1>6. EndedStands(locks, t)
  <2>1. SUFFICES ASSUME NEW i \in DOMAIN locks, NEW j \in DOMAIN t,
                        locks[i].end \in {"reset", "cleared"},
                        t[j].from < locks[i].to, locks[i].from < t[j].to
                 PROVE  t[j].to = locks[i].to /\ t[j].end = locks[i].end
    BY DEF EndedStands
  <2>2. CASE j # n
    <3>1. t[j] = locks[j] /\ j \in DOMAIN locks /\ i \in Int /\ j \in Int
      BY <1>1, <1>2, <1>3, <2>2
    <3>2. /\ i < j => locks[i].to <= locks[j].from
          /\ j < i => locks[j].to <= locks[i].from
      BY <3>1 DEF WF, Disjoint
    <3>4. /\ locks[i].from \in Int /\ locks[i].to \in Int
          /\ locks[j].from \in Int /\ locks[j].to \in Int
          /\ locks[j].from < locks[i].to /\ locks[i].from < locks[j].to
      BY <1>4, <2>1, <3>1
    <3>3. i = j
      BY <3>1, <3>2, <3>4
    <3> QED
      BY <3>1, <3>3
  <2>3. CASE j = n /\ i # n
    <3>1. t[j] = l /\ i < n
      BY <1>1, <1>2, <2>3
    <3>2. locks[i].to <= l.from
      BY <3>1 DEF n
    <3> QED
      BY <1>4, <1>5, <2>1, <3>1, <3>2
  <2>4. CASE j = n /\ i = n
    BY <1>1, <1>2, <2>1, <2>4
  <2> QED
    BY <2>2, <2>3, <2>4
<1> QED
  BY <1>6, WithLastWF DEF t

-----------------------------------------------------------------------------
(* Keeping, dropping and adding the newest span *)

LEMMA SameStands ==
  ASSUME NEW locks, WF(locks)
  PROVE  EndedStands(locks, locks)
<1>1. SUFFICES ASSUME NEW i \in DOMAIN locks, NEW j \in DOMAIN locks,
                      locks[j].from < locks[i].to, locks[i].from < locks[j].to
               PROVE  i = j
  BY DEF EndedStands
<1>2. i \in Int /\ j \in Int /\ locks[i] \in Spans /\ locks[j] \in Spans
  BY DEF WF
<1>3. /\ i < j => locks[i].to <= locks[j].from
      /\ j < i => locks[j].to <= locks[i].from
  BY DEF WF, Disjoint
<1>4. /\ locks[i].from \in Int /\ locks[i].to \in Int
      /\ locks[j].from \in Int /\ locks[j].to \in Int
  BY <1>2 DEF Spans
<1> QED
  BY <1>1, <1>2, <1>3, <1>4

LEMMA FrontOK ==
  ASSUME NEW locks, WF(locks), locks # <<>>
  PROVE  LET t == SubSeq(locks, 1, Len(locks) - 1)
         IN  /\ WF(t)
             /\ Len(t) < Len(locks)
             /\ EndedStands(locks, t)
             /\ t # <<>> => Newest(t).end # "ongoing"
<1> DEFINE n == Len(locks)
           t == SubSeq(locks, 1, n - 1)
<1>1. n \in Nat /\ n >= 1 /\ DOMAIN locks = 1 .. n /\ locks \in Seq(Spans)
  BY NewestIn DEF WF
<1>2. \A i \in 1 .. n : locks[i] \in Spans
  BY <1>1
<1>3. t \in Seq(Spans) /\ Len(t) = n - 1 /\ \A i \in 1 .. n - 1 : t[i] = locks[i]
  BY <1>1, <1>2
<1> HIDE DEF t, n
<1>4. DOMAIN t = 1 .. n - 1 /\ \A i \in 1 .. n - 1 : i \in DOMAIN locks
  BY <1>1, <1>3
<1>5. Disjoint(t)
  <2>1. \A i \in DOMAIN t : i \in DOMAIN locks /\ t[i] = locks[i]
    BY <1>3, <1>4
  <2> QED
    BY <2>1 DEF WF, Disjoint
<1>6. EndedStands(locks, t)
  BY <1>3, <1>4, SameStands DEF EndedStands
<1>7. ASSUME t # <<>> PROVE Newest(t).end # "ongoing"
  <2>1. n - 1 \in DOMAIN locks /\ n \in DOMAIN locks /\ n - 1 < n /\ n - 1 \in 1 .. n - 1
    BY <1>1, <1>3, <1>7
  <2>2. locks[n - 1].end # "ongoing"
    BY <2>1 DEF WF, Disjoint
  <2> QED
    BY <1>3, <2>1, <2>2 DEF Newest
<1>8. WF(t) /\ Len(t) < n
  BY <1>1, <1>3, <1>5 DEF WF
<1> QED
  BY <1>6, <1>7, <1>8 DEF t, n

LEMMA AppendOK ==
  ASSUME NEW before, WF(before), NEW locks, WF(locks), EndedStands(before, locks),
         NEW l \in Spans,
         l.from < l.to, l.expected # Never => l.to < l.expected,
         \A i \in DOMAIN locks : locks[i].to <= l.from /\ locks[i].end # "ongoing",
         \A i \in DOMAIN before : before[i].to <= l.from
  PROVE  /\ WF(Append(locks, l))
         /\ Newest(Append(locks, l)) = l
         /\ EndedStands(before, Append(locks, l))
<1> DEFINE n == Len(locks)
           t == Append(locks, l)
<1>0. locks \in Seq(Spans)
  BY DEF WF
<1>1. n \in Nat /\ DOMAIN locks = 1 .. n /\ locks \in Seq(Spans)
  BY <1>0, LenProperties
<1>2. /\ t \in Seq(Spans) /\ Len(t) = n + 1
      /\ t[n + 1] = l
      /\ \A i \in 1 .. n : t[i] = locks[i]
  BY <1>1, AppendProperties
<1> HIDE DEF t, n
<1>3. DOMAIN t = 1 .. n + 1 /\ \A i \in 1 .. n + 1 : i # n + 1 => i \in DOMAIN locks
  <2>1. DOMAIN t = 1 .. n + 1
    BY <1>2, LenProperties
  <2>2. \A m \in Nat : \A i \in 1 .. m + 1 : i # m + 1 => i \in 1 .. m
    OBVIOUS
  <2> QED
    BY <1>1, <2>1, <2>2
<1>4. Disjoint(t)
  <2>1. \A i \in DOMAIN t : t[i].from < t[i].to /\ (t[i].expected # Never => t[i].to < t[i].expected)
    BY <1>1, <1>2, <1>3 DEF WF, Disjoint
  <2>2. ASSUME NEW i \in DOMAIN t, NEW j \in DOMAIN t, i < j
        PROVE  t[i].to <= t[j].from /\ t[i].end # "ongoing"
    <3>0. i # n + 1
      <4>1. \A m \in Nat : \A a, b \in 1 .. m + 1 : a < b => a # m + 1
        OBVIOUS
      <4> QED
        BY <1>1, <1>3, <2>2, <4>1
    <3>1. i \in DOMAIN locks /\ t[i] = locks[i]
      BY <1>1, <1>2, <1>3, <3>0
    <3>2. CASE j = n + 1
      BY <1>2, <3>1, <3>2
    <3>3. CASE j # n + 1
      <4>1. j \in DOMAIN locks /\ t[j] = locks[j]
        BY <1>1, <1>2, <1>3, <3>3
      <4> QED
        BY <2>2, <3>1, <4>1 DEF WF, Disjoint
    <3> QED
      BY <3>2, <3>3
  <2> QED
    BY <2>1, <2>2 DEF Disjoint
<1>5. EndedStands(before, t)
  <2>1. ASSUME NEW i \in DOMAIN before, NEW j \in DOMAIN t,
               before[i].end \in {"reset", "cleared"},
               t[j].from < before[i].to, before[i].from < t[j].to
        PROVE  t[j].to = before[i].to /\ t[j].end = before[i].end
    <3>1. CASE j = n + 1
      <4>1. before[i] \in Spans
        BY DEF WF
      <4>2. before[i].to \in Int /\ l.from \in Int /\ before[i].to <= l.from
        BY <4>1 DEF Spans
      <4>3. l.from < before[i].to
        BY <1>2, <2>1, <3>1
      <4> QED
        BY <4>2, <4>3
    <3>2. CASE j # n + 1
      <4>1. j \in DOMAIN locks /\ t[j] = locks[j]
        BY <1>1, <1>2, <1>3, <3>2
      <4> QED
        BY <2>1, <4>1 DEF EndedStands
    <3> QED
      BY <3>1, <3>2
  <2> QED
    BY <2>1 DEF EndedStands
<1>6. WF(t) /\ Newest(t) = l
  BY <1>2, <1>4 DEF WF, Newest
<1> QED
  BY <1>5, <1>6 DEF t

\* push, of a span that begins no earlier than the newest ends.
LEMMA PushOK ==
  ASSUME NEW locks, WF(locks), NEW l \in Spans,
         l.from < l.to, l.expected # Never => l.to < l.expected,
         locks # <<>> => l.from >= Newest(locks).to
  PROVE  /\ WF(Push(locks, l))
         /\ Newest(Push(locks, l)) = l
         /\ EndedStands(locks, Push(locks, l))
<1>1. EndedStands(locks, locks)
  BY SameStands
<1>2. CASE locks = <<>>
  <2>1. DOMAIN locks = {}
    BY <1>2
  <2>2. Push(locks, l) = Append(locks, l)
    BY <1>2 DEF Push
  <2>3. /\ \A i \in DOMAIN locks : locks[i].to <= l.from /\ locks[i].end # "ongoing"
        /\ \A i \in DOMAIN locks : locks[i].to <= l.from
    BY <2>1
  <2> QED
    BY <1>1, <2>2, <2>3, AppendOK
<1>3. CASE locks # <<>>
  <2> DEFINE n == Len(locks)
             s == Newest(locks)
  <2>1. /\ n \in Nat /\ n >= 1 /\ DOMAIN locks = 1 .. n
        /\ s \in Spans /\ s = locks[n] /\ n \in DOMAIN locks
    BY <1>3, NewestIn
  <2>2. \A i \in DOMAIN locks : i \in Int /\ (i = n \/ i < n)
    BY <2>1
  <2>3. \A i \in DOMAIN locks : locks[i].from \in Int /\ locks[i].to \in Int
    BY <1>3, NewestIn DEF Spans
  <2>4. l.from \in Int /\ s.from \in Int /\ s.to \in Int /\ s.from < s.to /\ l.from >= s.to
    BY <1>3, <2>1, <2>3 DEF WF, Disjoint, Spans
  <2>5. \A i \in DOMAIN locks : i < n => locks[i].to <= s.from /\ locks[i].end # "ongoing"
    BY <2>1 DEF WF, Disjoint
  <2>6. ASSUME NEW i \in DOMAIN locks PROVE locks[i].to <= l.from
    <3>1. i = n => locks[i].to = s.to
      BY <2>1
    <3>2. locks[i].to \in Int /\ (i = n \/ locks[i].to <= s.from)
      BY <2>2, <2>3, <2>5
    <3> HIDE DEF s, n
    <3> QED
      BY <3>1, <3>2, <2>4
  <2>8. CASE s.end # "ongoing"
    <3>1. Push(locks, l) = Append(locks, l)
      BY <2>8 DEF Push
    <3>2. \A i \in DOMAIN locks : locks[i].end # "ongoing"
      BY <2>1, <2>2, <2>5, <2>8
    <3>3. \A i \in DOMAIN locks : locks[i].to <= l.from /\ locks[i].end # "ongoing"
      BY <2>6, <3>2
    <3> HIDE DEF s, n
    <3> QED
      BY <1>1, <2>6, <3>1, <3>3, AppendOK
  <2>9. CASE s.end = "ongoing"
    <3> DEFINE s1 == [s EXCEPT !.end = "reset"]
               w == WithLast(locks, s1)
    <3>1. /\ s1 \in Spans /\ s1.from = s.from /\ s1.to = s.to /\ s1.end = "reset"
          /\ s1.expected = s.expected
      BY <2>1 DEF Spans, Ends
    <3>2. s.expected # Never => s.to < s.expected
      BY <2>1 DEF WF, Disjoint
    <3>3. Push(locks, l) = Append(w, l)
      BY <1>3, <2>9 DEF Push
    <3> HIDE DEF s1, w
    <3>4. /\ WF(w) /\ Len(w) = n /\ Newest(w) = s1 /\ EndedStands(locks, w)
      BY <1>3, <2>4, <2>5, <2>9, <3>1, <3>2, WithLastOK DEF w
    <3>5. DOMAIN w = 1 .. n /\ w \in Seq(Spans) /\ w[n] = s1
      BY <3>4 DEF WF, Newest
    <3>6. \A i \in DOMAIN w : i # n => w[i] = locks[i]
      BY <3>5, <2>1 DEF w, WithLast
    <3>7. \A i \in DOMAIN w : w[i].to <= l.from /\ w[i].end # "ongoing"
      BY <2>1, <2>2, <2>4, <2>5, <2>6, <3>1, <3>5, <3>6
    <3> HIDE DEF s, n
    <3> QED
      BY <2>6, <3>3, <3>4, <3>7, AppendOK
  <2> QED
    BY <2>8, <2>9
<1> QED
  BY <1>2, <1>3

-----------------------------------------------------------------------------
(* The ring's operations *)

RingOK(r) ==
  /\ WF(r.locks)
  /\ r.refused \in Int
  /\ r.served \in Int
  /\ Len(r.locks) <= MaxLocks
  /\ r.locks # <<>> /\ Newest(r.locks).end = "ongoing" => r.served <= r.refused

\* end closes the newest span or leaves the spans alone.
LEMMA EndOK ==
  ASSUME NEW locks, WF(locks), NEW at \in Int, NEW cause \in Ends \ {"ongoing"}
  PROVE  LET t == End(locks, at, cause)
         IN  /\ WF(t)
             /\ Len(t) = Len(locks)
             /\ EndedStands(locks, t)
             /\ t # <<>> /\ Newest(t).end = "ongoing" =>
                  t = locks /\ Truncate(at) <= Newest(locks).from
<1> DEFINE a == Truncate(at)
           l == Newest(locks)
           t == End(locks, at, cause)
<1>1. a \in Int
  BY TruncateInt
<1> HIDE DEF a
<1>2. CASE ~EndsSpan(locks, a)
  <2>1. t = locks
    BY <1>2 DEF End, a
  <2>2. EndedStands(locks, locks)
    BY SameStands
  <2>3. ASSUME locks # <<>>, l.end = "ongoing" PROVE a <= l.from
    <3>1. l \in Spans
      BY <2>3, NewestIn
    <3>2. l.from \in Int
      BY <3>1 DEF Spans
    <3>3. ~(a > l.from)
      BY <1>2, <2>3 DEF EndsSpan
    <3> QED
      BY <1>1, <3>2, <3>3
  <2> HIDE DEF t, l
  <2> QED
    BY <2>1, <2>2, <2>3 DEF t, a, l
<1>3. CASE EndsSpan(locks, a)
  <2>1. locks # <<>> /\ l.end = "ongoing" /\ a > l.from
    BY <1>3 DEF EndsSpan
  <2>2. /\ l \in Spans /\ l = locks[Len(locks)] /\ Len(locks) \in DOMAIN locks
        /\ Len(locks) \in Nat /\ DOMAIN locks = 1 .. Len(locks)
    BY <2>1, NewestIn
  <2>3. /\ l.from \in Int /\ l.to \in Int /\ l.expected \in Int /\ l.from < l.to
        /\ l.expected # Never => l.to < l.expected
    BY <2>2 DEF Spans, WF, Disjoint
  <2>4. \A i \in DOMAIN locks : i < Len(locks) => locks[i].to <= l.from
    BY <2>2 DEF WF, Disjoint
  <2>5. PICK m : /\ m \in Spans /\ m.from = l.from /\ m.from < m.to
                 /\ m.expected # Never => m.to < m.expected
                 /\ m.end # "ongoing"
                 /\ t = WithLast(locks, m)
    <3>1. CASE a < l.to
      <4> DEFINE m == [from |-> l.from, to |-> a, end |-> cause, expected |-> l.to]
      <4>1. m \in Spans /\ m.from = l.from /\ m.to = a /\ m.end = cause /\ m.expected = l.to
        BY <1>1, <2>3 DEF Spans
      <4>2. t = WithLast(locks, m)
        BY <1>3, <3>1 DEF End, a
      <4> HIDE DEF m
      <4>3. m.from < m.to /\ m.to < m.expected
        BY <1>1, <2>1, <2>3, <3>1, <4>1
      <4> QED
        BY <4>1, <4>2, <4>3
    <3>2. CASE ~(a < l.to)
      <4> DEFINE m == [l EXCEPT !.end = "reset"]
      <4>1. m \in Spans /\ m.from = l.from /\ m.to = l.to /\ m.end = "reset" /\ m.expected = l.expected
        BY <2>2 DEF Spans, Ends
      <4>2. t = WithLast(locks, m)
        BY <1>3, <3>2 DEF End, a
      <4> HIDE DEF m
      <4> QED
        BY <2>3, <4>1, <4>2
    <3> QED
      BY <3>1, <3>2
  <2> HIDE DEF t, l
  <2>6. l.end \notin {"reset", "cleared"}
    BY <2>1
  <2>7. \A i \in DOMAIN locks : i < Len(locks) => locks[i].to <= m.from
    BY <2>4, <2>5
  <2>8. /\ WF(WithLast(locks, m)) /\ Len(WithLast(locks, m)) = Len(locks)
        /\ Newest(WithLast(locks, m)) = m /\ EndedStands(locks, WithLast(locks, m))
    BY <2>1, <2>5, <2>6, <2>7, WithLastOK DEF l
  <2> QED
    BY <2>5, <2>8 DEF t
<1> QED
  BY <1>2, <1>3

LEMMA EmptyOK == WF(<<>>) /\ Len(<<>>) = 0
BY DEF WF, Disjoint

LEMMA RefuseOK ==
  ASSUME NEW r, RingOK(r), NEW admitted \in Int, NEW at0 \in Int, NEW until0 \in Int, NEW oldest
  PROVE  /\ RingOK(Refuse(r, admitted, at0, until0, oldest))
         /\ EndedStands(r.locks, Refuse(r, admitted, at0, until0, oldest).locks)
<1> DEFINE at == Truncate(at0)
           until == Truncate(until0)
           q == Refuse(r, admitted, at0, until0, oldest)
           l == Newest(r.locks)
<1>1. at \in Int /\ until \in Int
  BY TruncateInt
<1>2. /\ WF(r.locks) /\ r.refused \in Int /\ r.served \in Int /\ Len(r.locks) <= MaxLocks
      /\ EndedStands(r.locks, r.locks)
  BY SameStands DEF RingOK
<1>3. ASSUME q = r PROVE RingOK(q) /\ EndedStands(r.locks, q.locks)
  BY <1>2, <1>3
<1> HIDE DEF at, until, l
<1>4. ASSUME ~RefuseDropped(r, admitted, at, until), r.locks = <<>> \/ at >= l.to
      PROVE  RingOK(q) /\ EndedStands(r.locks, q.locks)
  <2> DEFINE o == Opened(at, until)
             p == Push(r.locks, o)
             t == TrimLocks(p, oldest)
  <2>1. q = [locks |-> t, refused |-> admitted, served |-> r.served]
    BY <1>4 DEF Refuse, at, until, l
  <2>2. at < until /\ r.served < admitted
    BY <1>1, <1>2, <1>4 DEF RefuseDropped
  <2>3. /\ o \in Spans /\ o.from = at /\ o.to = until /\ o.expected = Never
    BY <1>1 DEF Opened, Spans, Ends, Never
  <2> HIDE DEF o
  <2>4. WF(p) /\ EndedStands(r.locks, p)
    BY <1>2, <1>4, <2>2, <2>3, PushOK DEF l
  <2> HIDE DEF p
  <2>5. WF(t) /\ Len(t) <= MaxLocks /\ EndedStands(r.locks, t)
    BY <2>4, TrimOK, TrimStands
  <2> HIDE DEF t, q
  <2> QED
    BY <1>2, <2>1, <2>2, <2>5 DEF RingOK
<1>5. ASSUME ~RefuseDropped(r, admitted, at, until), r.locks # <<>>, ~(at >= l.to),
             ~ReachesBack(r.locks, at)
      PROVE  RingOK(q) /\ EndedStands(r.locks, q.locks)
  <2> DEFINE m == Extend(l, at, until)
             n == Len(r.locks)
             t == WithLast(r.locks, m)
  <2>1. q = [locks |-> t, refused |-> Later(admitted, r.refused), served |-> r.served]
    BY <1>5 DEF Refuse, at, until, l
  <2>2. at < until /\ r.served < admitted
    BY <1>1, <1>2, <1>5 DEF RefuseDropped
  <2>3. /\ l \in Spans /\ l = r.locks[n] /\ n \in DOMAIN r.locks
        /\ n \in Nat /\ n >= 1 /\ DOMAIN r.locks = 1 .. n
        /\ \A i \in DOMAIN r.locks : r.locks[i] \in Spans
    BY <1>2, <1>5, NewestIn DEF l
  <2> HIDE DEF n
  <2>4. /\ l.from \in Int /\ l.to \in Int /\ l.from < l.to
        /\ l.expected # Never => l.to < l.expected
    BY <1>2, <2>3 DEF Spans, WF, Disjoint
  <2>5. \A i \in DOMAIN r.locks : i < n => r.locks[i].to <= l.from
    BY <1>2, <2>3 DEF WF, Disjoint
  <2>6. at < l.to
    BY <1>1, <1>5, <2>4
  <2>7. ASSUME at < l.from, NEW i \in DOMAIN r.locks, i < n
        PROVE  r.locks[i].to <= at
    <3> DEFINE b == n - 1
    <3>1. b \in DOMAIN r.locks /\ b \in Int /\ i \in Int /\ i <= b /\ n > 1
      BY <2>3, <2>7
    <3>2. ~(at < r.locks[b].to)
      BY <1>5, <2>7, <3>1 DEF ReachesBack, l, n
    <3> HIDE DEF b
    <3>3. /\ r.locks[b].to \in Int /\ r.locks[b].from \in Int /\ r.locks[i].to \in Int
          /\ r.locks[b].from < r.locks[b].to
      BY <1>2, <2>3, <3>1 DEF Spans, WF, Disjoint
    <3>4. i < b => r.locks[i].to <= r.locks[b].from
      BY <1>2, <3>1 DEF WF, Disjoint
    <3> QED
      BY <1>1, <3>1, <3>2, <3>3, <3>4
  <2>8. /\ m \in Spans /\ m.from < m.to
        /\ m.expected # Never => m.to < m.expected
        /\ \A i \in DOMAIN r.locks : i < n => r.locks[i].to <= m.from
        /\ l.end \in {"reset", "cleared"} => m.to = l.to /\ m.end = l.end
    <3>1. CASE at < l.from
      <4>1. m = [l EXCEPT !.from = at]
        BY <3>1 DEF Extend
      <4>2. /\ m \in Spans /\ m.from = at /\ m.to = l.to /\ m.end = l.end
            /\ m.expected = l.expected
        BY <1>1, <2>3, <4>1 DEF Spans
      <4> HIDE DEF m
      <4> QED
        BY <2>4, <2>6, <2>7, <3>1, <4>2
    <3>2. CASE ~(at < l.from) /\ Reopens(l)
      <4>1. m = [from |-> l.from, to |-> until, end |-> "ongoing", expected |-> Never]
        BY <3>2 DEF Extend
      <4>2. /\ m \in Spans /\ m.from = l.from /\ m.to = until /\ m.expected = Never
        BY <1>1, <2>4, <4>1 DEF Spans, Ends, Never
      <4>3. l.end \notin {"reset", "cleared"}
        BY <3>2 DEF Reopens
      <4>4. l.from < until
        BY <1>1, <2>2, <2>4, <3>2
      <4> HIDE DEF m
      <4> QED
        BY <2>5, <4>2, <4>3, <4>4
    <3>3. CASE ~(at < l.from) /\ ~Reopens(l)
      <4>1. m = l
        BY <3>3 DEF Extend
      <4> QED
        BY <2>3, <2>4, <2>5, <4>1
    <3> QED
      BY <3>1, <3>2, <3>3
  <2> HIDE DEF m
  <2>9. WF(t) /\ Len(t) = n /\ EndedStands(r.locks, t)
    BY <1>2, <1>5, <2>8, WithLastOK DEF l, n
  <2>10. Later(admitted, r.refused) \in Int /\ r.served <= Later(admitted, r.refused)
    BY <1>2, <2>2 DEF Later
  <2> HIDE DEF t, q
  <2> QED
    BY <1>2, <2>1, <2>9, <2>10 DEF RingOK, n
<1>6. \/ q = r
      \/ ~RefuseDropped(r, admitted, at, until) /\ (r.locks = <<>> \/ at >= l.to)
      \/ /\ ~RefuseDropped(r, admitted, at, until) /\ r.locks # <<>>
         /\ ~(at >= l.to) /\ ~ReachesBack(r.locks, at)
  BY DEF Refuse, at, until, l
<1> HIDE DEF q
<1> QED
  BY <1>3, <1>4, <1>5, <1>6 DEF q

LEMMA ServeOK ==
  ASSUME NEW r, RingOK(r), NEW admitted \in Int, NEW at \in Int
  PROVE  /\ RingOK(Serve(r, admitted, at))
         /\ EndedStands(r.locks, Serve(r, admitted, at).locks)
<1> DEFINE l == Newest(r.locks)
           q == Serve(r, admitted, at)
           stands == r.locks = <<>> \/ l.end # "ongoing" \/ admitted <= r.refused
           t == IF stands THEN r.locks ELSE EndServed(r.locks, at)
           s == Later(admitted, r.served)
<1>1. q = [locks |-> t, refused |-> r.refused, served |-> s]
  BY DEF Serve
<1>2. /\ WF(r.locks) /\ r.refused \in Int /\ r.served \in Int /\ Len(r.locks) <= MaxLocks
      /\ r.locks # <<>> /\ l.end = "ongoing" => r.served <= r.refused
  BY DEF RingOK
<1>3. s \in Int /\ (s = admitted \/ s = r.served)
  BY <1>2 DEF Later
<1>4. Len(r.locks) \in Int /\ MaxLocks \in Int
  BY <1>2, SpanAssumption DEF WF
<1>5. /\ WF(t) /\ Len(t) <= MaxLocks /\ EndedStands(r.locks, t)
      /\ t # <<>> /\ Newest(t).end = "ongoing" => s <= r.refused
  <2>1. CASE stands
    <3>1. t = r.locks
      BY <2>1
    <3>2. EndedStands(r.locks, r.locks)
      BY <1>2, SameStands
    <3> HIDE DEF t, s
    <3> QED
      BY <1>2, <1>3, <2>1, <3>1, <3>2
  <2>2. CASE ~stands /\ Truncate(at) <= l.from
    <3>1. t = SubSeq(r.locks, 1, Len(r.locks) - 1)
      BY <2>2 DEF EndServed
    <3>2. /\ WF(t) /\ Len(t) < Len(r.locks) /\ EndedStands(r.locks, t)
          /\ t # <<>> => Newest(t).end # "ongoing"
      BY <1>2, <2>2, <3>1, FrontOK
    <3> HIDE DEF t
    <3>3. Len(t) <= MaxLocks
      <4>1. Len(t) \in Int
        BY <3>2 DEF WF
      <4> QED
        BY <1>2, <1>4, <3>2, <4>1
    <3> QED
      BY <3>2, <3>3
  <2>3. CASE ~stands /\ ~(Truncate(at) <= l.from)
    <3>1. t = End(r.locks, at, "served")
      BY <2>3 DEF EndServed
    <3>2. "served" \in Ends \ {"ongoing"}
      BY DEF Ends
    <3>3. /\ WF(t) /\ Len(t) = Len(r.locks) /\ EndedStands(r.locks, t)
          /\ t # <<>> => Newest(t).end # "ongoing"
      BY <1>2, <2>3, <3>1, <3>2, EndOK
    <3> HIDE DEF t
    <3> QED
      BY <1>2, <3>3
  <2> QED
    BY <2>1, <2>2, <2>3
<1> HIDE DEF t, s, q
<1> QED
  BY <1>1, <1>2, <1>3, <1>5 DEF RingOK, q

LEMMA ReadingOK ==
  ASSUME NEW r, RingOK(r), NEW at \in Int, NEW cause \in {"reset", "cleared"}, NEW oldest
  PROVE  LET q == [locks   |-> TrimLocks(End(r.locks, at, cause), oldest),
                   refused |-> r.refused,
                   served  |-> r.served]
         IN  RingOK(q) /\ EndedStands(r.locks, q.locks)
<1> DEFINE e == End(r.locks, at, cause)
           t == TrimLocks(e, oldest)
           q == [locks |-> t, refused |-> r.refused, served |-> r.served]
<1>1. /\ WF(r.locks) /\ r.refused \in Int /\ r.served \in Int
      /\ r.locks # <<>> /\ Newest(r.locks).end = "ongoing" => r.served <= r.refused
  BY DEF RingOK
<1>2. cause \in Ends \ {"ongoing"}
  BY DEF Ends
<1>3. /\ WF(e) /\ EndedStands(r.locks, e)
      /\ e # <<>> /\ Newest(e).end = "ongoing" => e = r.locks
  BY <1>1, <1>2, EndOK
<1> HIDE DEF e
<1>4. /\ WF(t) /\ Len(t) <= MaxLocks /\ EndedStands(r.locks, t)
      /\ t # <<>> => Newest(t) = Newest(e) /\ \E i \in DOMAIN e : TRUE
  <2>1. /\ WF(t) /\ Len(t) <= MaxLocks /\ EndedStands(r.locks, t)
        /\ t # <<>> => Newest(t) = Newest(e)
        /\ \A j \in DOMAIN t : \E i \in DOMAIN e : t[j] = e[i]
    BY <1>3, TrimOK, TrimStands
  <2>2. t # <<>> => 1 \in DOMAIN t
    BY <2>1 DEF WF
  <2> HIDE DEF t
  <2> QED
    BY <2>1, <2>2
<1>5. t # <<>> => e # <<>>
  BY <1>4
<1> HIDE DEF t
<1>6. t # <<>> /\ Newest(t).end = "ongoing" => r.served <= r.refused
  BY <1>1, <1>3, <1>4, <1>5
<1>7. q.locks = t /\ q.refused = r.refused /\ q.served = r.served
  OBVIOUS
<1> HIDE DEF q
<1>8. RingOK(q) /\ EndedStands(r.locks, q.locks)
  BY <1>1, <1>4, <1>6, <1>7 DEF RingOK
<1> QED
  BY <1>8 DEF q, t, e

-----------------------------------------------------------------------------
(* What the operations make of spans that are all in the past, where every *)
(* record comes as it is made and instants are whole seconds               *)

\* Every span had begun by t.
Begun(locks, t) == \A i \in DOMAIN locks : locks[i].from <= t

\* Every span had begun by t, and those that ended had by then.
Past(locks, t) ==
  /\ Begun(locks, t)
  /\ \A i \in DOMAIN locks : locks[i].end # "ongoing" => locks[i].to <= t

\* The instant the ongoing span l ends at, at `at`.
EndedAt(l, at, cause) ==
  IF at < l.to THEN [from |-> l.from, to |-> at, end |-> cause, expected |-> l.to]
  ELSE [l EXCEPT !.end = "reset"]

\* Another newest span that had begun, and had ended or goes on, leaves spans past.
LEMMA WithLastPast ==
  ASSUME NEW locks, WF(locks), locks # <<>>, NEW t \in Int, Past(locks, t), NEW l,
         l.from <= t, l.end # "ongoing" => l.to <= t
  PROVE  /\ Past(WithLast(locks, l), t)
         /\ WithLast(locks, l) # <<>> /\ Newest(WithLast(locks, l)) = l
         /\ DOMAIN WithLast(locks, l) = DOMAIN locks
         /\ \A i \in DOMAIN locks : i # Len(locks) => WithLast(locks, l)[i] = locks[i]
<1> DEFINE n == Len(locks)
           w == WithLast(locks, l)
<1>1. n \in Nat /\ n >= 1 /\ DOMAIN locks = 1 .. n /\ n \in DOMAIN locks
  BY NewestIn
<1>2. w = [i \in 1 .. n |-> IF i = n THEN l ELSE locks[i]]
  BY <1>1 DEF WithLast
<1> HIDE DEF w, n
<1>3. DOMAIN w = 1 .. n /\ w[n] = l /\ \A i \in 1 .. n : i # n => w[i] = locks[i]
  BY <1>1, <1>2
<1>4. Len(w) = n
  BY <1>1, <1>3
<1>5. w # <<>>
  BY <1>1, <1>3
<1>6. Newest(w) = l
  BY <1>3, <1>4 DEF Newest
<1>7. Past(w, t)
  BY <1>1, <1>3 DEF Past, Begun
<1> QED
  BY <1>1, <1>3, <1>5, <1>6, <1>7 DEF w, n

\* end moves no span's start.
LEMMA EndPast ==
  ASSUME NEW locks, WF(locks), NEW at \in Int, Truncate(at) = at, Past(locks, at),
         NEW cause \in Ends \ {"ongoing"}
  PROVE  LET e == End(locks, at, cause)
         IN  /\ Past(e, at)
             /\ \A t : Begun(locks, t) => Begun(e, t)
             /\ EndsSpan(locks, at) => e # <<>> /\ Newest(e) = EndedAt(Newest(locks), at, cause)
<1> DEFINE l == Newest(locks)
           m == EndedAt(l, at, cause)
           e == End(locks, at, cause)
<1>1. CASE ~EndsSpan(locks, at)
  <2>1. e = locks
    BY <1>1 DEF End
  <2> QED
    BY <1>1, <2>1
<1>2. CASE EndsSpan(locks, at)
  <2>1. locks # <<>> /\ at > l.from
    BY <1>2 DEF EndsSpan
  <2>2. /\ l \in Spans /\ l = locks[Len(locks)] /\ Len(locks) \in DOMAIN locks
        /\ \A i \in DOMAIN locks : locks[i] \in Spans
    BY <2>1, NewestIn
  <2>3. l.from \in Int /\ l.to \in Int
    BY <2>2 DEF Spans
  <2>4. e = WithLast(locks, m)
    BY <1>2 DEF End, EndedAt
  <2>5. m.from = l.from /\ m.from <= at /\ m.to <= at
    <3>1. CASE at < l.to
      BY <2>1, <2>3, <3>1 DEF EndedAt
    <3>2. CASE ~(at < l.to)
      <4>1. m.from = l.from /\ m.to = l.to
        BY <2>2, <3>2 DEF EndedAt, Spans
      <4> HIDE DEF m, l
      <4> QED
        BY <2>1, <2>3, <3>2, <4>1
    <3> QED
      BY <3>1, <3>2
  <2> HIDE DEF m, l
  <2>6. /\ Past(e, at) /\ e # <<>> /\ Newest(e) = m /\ DOMAIN e = DOMAIN locks
        /\ \A i \in DOMAIN locks : i # Len(locks) => e[i] = locks[i]
    BY <2>1, <2>4, <2>5, WithLastPast
  <2>7. e[Len(locks)].from = l.from
    <3>1. Len(e) = Len(locks)
      BY EndOK
    <3> QED
      BY <2>5, <2>6, <3>1 DEF Newest
  <2>8. \A i \in DOMAIN locks : e[i].from = locks[i].from
    BY <2>2, <2>6, <2>7
  <2> HIDE DEF e
  <2>9. ASSUME NEW t, Begun(locks, t) PROVE Begun(e, t)
    BY <2>6, <2>8, <2>9 DEF Begun
  <2> QED
    BY <2>6, <2>9 DEF m, l, e
<1> QED
  BY <1>1, <1>2

\* A span pushed behind spans that are past.
LEMMA PushPast ==
  ASSUME NEW locks, WF(locks), NEW t \in Int, Past(locks, t), NEW l, l.from <= t, l.end = "ongoing",
         locks # <<>> => Newest(locks).to <= t
  PROVE  Past(Push(locks, l), t) /\ Push(locks, l) # <<>>
<1>1. ASSUME NEW s, WF(s), Past(s, t) PROVE Past(Append(s, l), t) /\ Append(s, l) # <<>>
  <2>1. s \in Seq(Spans) /\ Len(s) \in Nat /\ DOMAIN s = 1 .. Len(s)
    BY <1>1 DEF WF
  <2> DEFINE a == Append(s, l)
  <2>2. /\ DOMAIN a = 1 .. (Len(s) + 1) /\ a[Len(s) + 1] = l
        /\ \A i \in 1 .. Len(s) : a[i] = s[i]
    BY <2>1
  <2> HIDE DEF a
  <2>3. ASSUME NEW i \in DOMAIN a PROVE i \in DOMAIN s \/ a[i] = l
    BY <2>1, <2>2
  <2> QED
    BY <1>1, <2>1, <2>2, <2>3 DEF Past, Begun, a
<1>2. CASE locks # <<>> /\ Newest(locks).end = "ongoing"
  <2> DEFINE s == Newest(locks)
             m == [s EXCEPT !.end = "reset"]
  <2>1. s \in Spans /\ s.from <= t
    BY <1>2, NewestIn DEF Past, Begun, Newest
  <2>2. m \in Spans /\ m.from = s.from /\ m.to = s.to /\ m.end = "reset" /\ m.expected = s.expected
    BY <2>1 DEF Spans, Ends
  <2>3. Push(locks, l) = Append(WithLast(locks, m), l)
    BY <1>2 DEF Push
  <2>4. s.to <= t
    BY <1>2
  <2>5. /\ s.from < s.to
        /\ s.expected # Never => s.to < s.expected
        /\ \A i \in DOMAIN locks : i < Len(locks) => locks[i].to <= s.from
    BY <1>2, NewestIn DEF WF, Disjoint, Newest
  <2>6. s.end \notin {"reset", "cleared"}
    BY <1>2
  <2> HIDE DEF m
  <2>7. Past(WithLast(locks, m), t)
    BY <1>2, <2>1, <2>2, <2>4, WithLastPast
  <2>8. WF(WithLast(locks, m))
    <3>1. m.from < m.to /\ (m.expected # Never => m.to < m.expected)
      BY <2>2, <2>5
    <3>2. \A i \in DOMAIN locks : i < Len(locks) => locks[i].to <= m.from
      BY <2>2, <2>5
    <3> HIDE DEF s
    <3> QED
      BY <1>2, <2>2, <2>6, <3>1, <3>2, WithLastOK DEF s
  <2> QED
    BY <1>1, <2>3, <2>7, <2>8
<1>3. CASE ~(locks # <<>> /\ Newest(locks).end = "ongoing")
  <2>1. Push(locks, l) = Append(locks, l)
    BY <1>3 DEF Push
  <2> QED
    BY <1>1, <2>1
<1> QED
  BY <1>2, <1>3

\* A refusal of now that expects its reset ahead: the newest span is ongoing to it.
LEMMA RefusePast ==
  ASSUME NEW r, RingOK(r), NEW at \in Nat, NEW until \in Int, Truncate(at) = at,
         Truncate(until) = until, Past(r.locks, at)
  PROVE  LET q == Refuse(r, at, at, until, 0)
         IN  /\ Past(q.locks, at)
             /\ at < until /\ r.served < at =>
                  /\ q.locks # <<>> /\ q.refused >= at
                  /\ Newest(q.locks).end = "ongoing" /\ Newest(q.locks).to = until
<1> DEFINE q == Refuse(r, at, at, until, 0)
           l == Newest(r.locks)
<1>1. WF(r.locks) /\ r.refused \in Int /\ r.served \in Int
  BY DEF RingOK
<1>2. CASE RefuseDropped(r, at, at, until)
  <2>1. q = r /\ ~(at < until /\ r.served < at)
    BY <1>1, <1>2 DEF Refuse, RefuseDropped
  <2> QED
    BY <2>1
<1>3. CASE ~RefuseDropped(r, at, at, until) /\ (r.locks = <<>> \/ at >= l.to)
  <2> DEFINE o == Opened(at, until)
             p == Push(r.locks, o)
             t == TrimLocks(p, 0)
  <2>1. q = [locks |-> t, refused |-> at, served |-> r.served]
    BY <1>3 DEF Refuse
  <2>2. at < until
    BY <1>3 DEF RefuseDropped
  <2>3. /\ o \in Spans /\ o.from = at /\ o.to = until /\ o.expected = Never /\ o.end = "ongoing"
    BY DEF Opened, Spans, Ends, Never
  <2> HIDE DEF o
  <2>4. WF(p) /\ Newest(p) = o
    BY <1>1, <1>3, <2>2, <2>3, PushOK
  <2>5. r.locks # <<>> => l.to \in Int
    BY <1>1, NewestIn DEF Spans
  <2>6. Past(p, at)
    BY <1>1, <1>3, <2>3, <2>5, PushPast
  <2>7. p # <<>>
    BY <1>1, <1>3, <2>3, <2>5, PushPast
  <2> HIDE DEF p
  <2>8. /\ \A j \in DOMAIN t : \E i \in DOMAIN p : t[j] = p[i]
        /\ t # <<>> /\ Newest(t) = o
    <3>1. ~(Newest(p).to < 0)
      BY <2>2, <2>3, <2>4
    <3> QED
      BY <2>4, <2>7, <3>1, TrimOK
  <2> HIDE DEF t
  <2>9. Past(t, at)
    BY <2>6, <2>8 DEF Past, Begun
  <2> QED
    BY <2>1, <2>3, <2>8, <2>9
<1>4. CASE ~RefuseDropped(r, at, at, until) /\ ~(r.locks = <<>> \/ at >= l.to)
  <2>1. /\ l \in Spans /\ l = r.locks[Len(r.locks)] /\ Len(r.locks) \in DOMAIN r.locks
    BY <1>1, <1>4, NewestIn
  <2>2. l.from \in Int /\ l.to \in Int /\ at < l.to /\ l.from <= at /\ at < until
    BY <1>4, <2>1 DEF Spans, Past, Begun, RefuseDropped
  <2>3. l.end = "ongoing"
    BY <2>1, <2>2 DEF Past
  <2>4. ~ReachesBack(r.locks, at)
    BY <2>2 DEF ReachesBack
  <2> DEFINE m == [from |-> l.from, to |-> until, end |-> "ongoing", expected |-> Never]
  <2>5. Extend(l, at, until) = m
    BY <2>2, <2>3 DEF Extend, Reopens
  <2>6. q = [locks |-> WithLast(r.locks, m), refused |-> Later(at, r.refused), served |-> r.served]
    BY <1>4, <2>4, <2>5 DEF Refuse
  <2>7. m.from <= at /\ m.end = "ongoing" /\ m.to = until
    BY <2>2
  <2> HIDE DEF m
  <2>8. /\ Past(WithLast(r.locks, m), at) /\ WithLast(r.locks, m) # <<>>
        /\ Newest(WithLast(r.locks, m)) = m
    BY <1>1, <1>4, <2>7, WithLastPast
  <2>9. Later(at, r.refused) >= at
    BY <1>1 DEF Later
  <2> QED
    BY <2>6, <2>7, <2>8, <2>9
<1> QED
  BY <1>2, <1>3, <1>4

\* A request served now moves no span's start.
LEMMA ServePast ==
  ASSUME NEW r, RingOK(r), NEW at \in Int, Truncate(at) = at, Past(r.locks, at)
  PROVE  LET q == Serve(r, at, at)
             l == Newest(r.locks)
         IN  /\ Past(q.locks, at)
             /\ \A t : Begun(r.locks, t) => Begun(q.locks, t)
             /\ q.refused = r.refused
             /\ r.locks # <<>> /\ l.end # "ongoing" => q.locks = r.locks
             /\ r.locks # <<>> /\ l.end = "ongoing" /\ r.refused < at /\ l.from < at =>
                  q.locks # <<>> /\ Newest(q.locks) = EndedAt(l, at, "served")
<1> DEFINE l == Newest(r.locks)
           q == Serve(r, at, at)
           t == IF r.locks = <<>> \/ l.end # "ongoing" \/ at <= r.refused
                  THEN r.locks ELSE EndServed(r.locks, at)
<1>1. q.locks = t /\ q.refused = r.refused
  BY DEF Serve
<1>2. WF(r.locks) /\ r.refused \in Int
  BY DEF RingOK
<1> HIDE DEF q
<1>3. CASE r.locks = <<>> \/ l.end # "ongoing" \/ at <= r.refused
  <2>1. t = r.locks
    BY <1>3
  <2> QED
    BY <1>1, <1>2, <1>3, <2>1 DEF q
<1>4. CASE ~(r.locks = <<>> \/ l.end # "ongoing" \/ at <= r.refused)
  <2>1. l \in Spans /\ l.from \in Int
    BY <1>2, <1>4, NewestIn DEF Spans
  <2>2. CASE at <= l.from
    <3>1. t = SubSeq(r.locks, 1, Len(r.locks) - 1)
      BY <1>4, <2>2 DEF EndServed
    <3>2. /\ DOMAIN t \subseteq DOMAIN r.locks
          /\ \A i \in DOMAIN t : t[i] = r.locks[i]
      <4>1. r.locks \in Seq(Spans) /\ Len(r.locks) \in Nat /\ DOMAIN r.locks = 1 .. Len(r.locks)
        BY <1>2 DEF WF
      <4> QED
        BY <3>1, <4>1
    <3> HIDE DEF t
    <3>3. Past(t, at) /\ \A u : Begun(r.locks, u) => Begun(t, u)
      BY <3>2 DEF Past, Begun
    <3> QED
      BY <1>1, <1>4, <2>1, <2>2, <3>3 DEF q
  <2>3. CASE ~(at <= l.from)
    <3>1. t = End(r.locks, at, "served")
      BY <1>4, <2>3 DEF EndServed
    <3>2. "served" \in Ends \ {"ongoing"}
      BY DEF Ends
    <3>3. EndsSpan(r.locks, at)
      BY <1>4, <2>1, <2>3 DEF EndsSpan
    <3> HIDE DEF t
    <3>4. /\ Past(t, at) /\ (\A u : Begun(r.locks, u) => Begun(t, u))
          /\ t # <<>> /\ Newest(t) = EndedAt(l, at, "served")
      BY <1>2, <3>1, <3>2, <3>3, EndPast
    <3> QED
      BY <1>1, <1>4, <3>4 DEF q
  <2> QED
    BY <2>2, <2>3
<1> QED
  BY <1>3, <1>4

-----------------------------------------------------------------------------
(* The specification *)

LEMMA InitOK == Init => RingOK(ring)
<1>1. SUFFICES ASSUME Init PROVE RingOK(ring)
  OBVIOUS
<1>2. ring.locks = <<>> /\ ring.refused = Never /\ ring.served = Never
  BY <1>1 DEF Init, EmptyRing
<1>3. Never \in Int /\ MaxLocks \in Nat
  BY SpanAssumption DEF Never
<1> QED
  BY <1>2, <1>3, EmptyOK DEF RingOK

LEMMA NextOK ==
  ASSUME RingOK(ring), [Next]_vars
  PROVE  RingOK(ring)' /\ EndedStands(ring.locks, ring'.locks)
<1>1. Ticks \subseteq Int /\ \A a \in Ticks : 0 .. a \subseteq Int
  BY SpanAssumption DEF Ticks
<1>2. ASSUME NEW at \in Ticks, NEW until \in Ticks, NEW oldest \in Seconds,
             NEW admitted \in 0 .. at, RecordRefusal(admitted, at, until, oldest)
      PROVE  RingOK(ring') /\ EndedStands(ring.locks, ring'.locks)
  BY <1>1, <1>2, RefuseOK DEF RecordRefusal
<1>3. ASSUME NEW at \in Ticks, NEW admitted \in 0 .. at, MarkServed(admitted, at)
      PROVE  RingOK(ring') /\ EndedStands(ring.locks, ring'.locks)
  BY <1>1, <1>3, ServeOK DEF MarkServed
<1>4. ASSUME NEW at \in Ticks, NEW cause \in {"reset", "cleared"}, NEW oldest \in Seconds,
             Reading(at, cause, oldest)
      PROVE  RingOK(ring') /\ EndedStands(ring.locks, ring'.locks)
  BY <1>1, <1>4, ReadingOK DEF Reading
<1>5. CASE UNCHANGED vars
  <2>1. ring' = ring /\ WF(ring.locks)
    BY <1>5 DEF vars, RingOK
  <2> QED
    BY <2>1, SameStands
<1>6. RingOK(ring') /\ EndedStands(ring.locks, ring'.locks)
  BY <1>2, <1>3, <1>4, <1>5 DEF Next
<1> QED
  BY <1>6 DEF RingOK

LEMMA Invariance == Spec => []RingOK(ring)
<1>1. RingOK(ring) /\ [Next]_vars => RingOK(ring)'
  BY NextOK
<1> QED
  BY <1>1, InitOK, PTL DEF Spec

\* The ring keeps its type.
THEOREM TypeCorrect == Spec => []TypeOK
<1>1. RingOK(ring) => TypeOK
  BY DEF RingOK, WF, TypeOK
<1> QED
  BY <1>1, Invariance, PTL

\* Whatever the order records arrive in, a ring's spans stay oldest first,
\* disjoint and non-empty, with none but the newest ongoing.
THEOREM DisjointAlways == Spec => []SpansDisjoint
<1>1. RingOK(ring) => SpansDisjoint
  BY DEF RingOK, WF, SpansDisjoint
<1> QED
  BY <1>1, Invariance, PTL

\* A span is ongoing only while no later-admitted request was served.
THEOREM NotOutlived == Spec => []OngoingNotOutlived
<1>1. RingOK(ring) => OngoingNotOutlived
  BY DEF RingOK, OngoingNotOutlived
<1> QED
  BY <1>1, Invariance, PTL

\* The ring's spans stay within historyMaxLocks.
THEOREM BoundedAlways == Spec => []LocksBounded
<1>1. RingOK(ring) => LocksBounded
  BY DEF RingOK, LocksBounded
<1> QED
  BY <1>1, Invariance, PTL

\* What a reset or a clearing ended is never reopened, moved or overlapped.
THEOREM EndedStaysEnded == Spec => EndedForGood
<1>1. RingOK(ring) /\ [Next]_vars => [EndedStands(ring.locks, ring'.locks)]_vars
  BY NextOK
<1> QED
  BY <1>1, Invariance, PTL DEF Spec, EndedForGood
=============================================================================
