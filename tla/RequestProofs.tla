---------------------------- MODULE RequestProofs ----------------------------
(***************************************************************************)
(* Proofs about what surrounds a pick: Identity, Pace and Config.          *)
(*                                                                         *)
(* Identity, for any of the clients' styles and any number of turns.       *)
(* Whatever order a map's headers are visited in, the index reads a name   *)
(* as the value of the spelling of it that sorts first, so where each name *)
(* has one spelling it reads as the map does. The interceptor clears what  *)
(* a client wrote under the bridge's names and sets what Extract derived,  *)
(* so the pick reads that: an identity it derived is well formed, which is *)
(* why its parts survive the trip through the headers. What Extract says   *)
(* of a client's request is a closed form, IdOf, in which neither the turn *)
(* nor the order the headers are visited in occurs; that two conversations *)
(* differ in it, and that a subagent's parent is one an ancestor goes by,  *)
(* is then read off the form.                                              *)
(*                                                                         *)
(* Pace, for any seats, readings and settings. better is a strict order,   *)
(* total on scores of different seats, so an insertion sort yields the one *)
(* sequence in that order, whatever order the scores came in, and the one  *)
(* pass of Best its head. A seat that dominates another costs no more: the *)
(* windows of the two match one to one, each term is at most its match,    *)
(* because Normalize leaves no negative weight and every curve rises, and  *)
(* a sum does not depend on the order it is taken in.                      *)
(*                                                                         *)
(* Config, for any entries. A dotted key changes what is on its path and   *)
(* nothing else: a walk of the new block along that path meets the new     *)
(* value, and one that leaves it goes on where it went before. So by       *)
(* induction along a block what is at a setting is what was last said of   *)
(* it, or a mapping a dotted key opened, and whatever breaks the block or  *)
(* does not decode some entry put there.                                   *)
(***************************************************************************)
EXTENDS Identity, Config, Pace, FiniteSetTheorems, SequenceTheorems, WellFoundedInduction, TLAPS

-----------------------------------------------------------------------------
(* The header index *)

\* A name and a value a header of it supplies.
Supplies(h, name) == h.name = name /\ FirstValue(h.values) # Blank

EntryOf(h) == [name |-> h.name, spelling |-> h.spelling, value |-> FirstValue(h.values)]

\* What an index holds under a name after the headers order[1 .. n].
Indexed(idx, name, order, n) ==
  /\ \A e \in idx : e.name = name =>
       \E i \in 1 .. n : Supplies(order[i], name) /\ e = EntryOf(order[i])
  /\ \A i \in 1 .. n : Supplies(order[i], name) =>
       \E e \in idx : e.name = name /\ e.spelling <= order[i].spelling
  /\ \A e, f \in idx : e.name = name /\ f.name = name => e = f

\* Spellings are numbers.
Spelled(order) == \A i \in 1 .. Len(order) : order[i].spelling \in Nat

LEMMA NewIndexSteps ==
  ASSUME NEW order, Len(order) \in Nat
  PROVE  \E f : /\ NewIndex(order) = f[Len(order)]
                /\ f[0] = {}
                /\ \A n \in 1 .. Len(order) : f[n] = Visit(f[n - 1], order[n])
<1> DEFINE N == Len(order)
           Step(f, n) == IF n = 0 THEN {} ELSE Visit(f[n - 1], order[n])
           Upto(k, f) == f = [n \in 0 .. k |-> Step(f, n)]
           Bad == {k \in 0 .. N : ~ \E f : Upto(k, f)}
           R == {p \in Nat \X Nat : p[1] < p[2]}
           idx[n \in 0 .. N] == IF n = 0 THEN {} ELSE Visit(idx[n - 1], order[n])
<1>1. Bad = {}
  <2>1. SUFFICES ASSUME Bad # {} PROVE FALSE
    OBVIOUS
  <2>2. PICK k \in Bad : \A y \in Bad : ~(<<y, k>> \in R)
    <3>1. IsWellFoundedOn(R, Nat)
      BY NatLessThanWellFounded, Zenon DEF OpToRel
    <3>2. Bad \subseteq Nat
      OBVIOUS
    <3> HIDE DEF Bad, R
    <3> QED
      BY <2>1, <3>1, <3>2, WFMin
  <2>3. k # 0
    <3>1. Upto(0, [n \in 0 .. 0 |-> {}])
      BY DEF Step
    <3> QED
      BY <3>1
  <2>4. k \in 0 .. N /\ k - 1 \in 0 .. N /\ k \in Nat /\ k - 1 \in Nat
    BY <2>3
  <2>5. k - 1 \notin Bad
    <3>1. <<k - 1, k>> \in R
      BY <2>4
    <3> QED
      BY <2>2, <3>1
  <2>6. PICK f : Upto(k - 1, f)
    BY <2>4, <2>5
  <2> DEFINE g == [n \in 0 .. k |-> IF n = k THEN Visit(f[k - 1], order[k]) ELSE f[n]]
  <2>7. \A n \in 0 .. k - 1 : g[n] = f[n] /\ f[n] = Step(f, n)
    <3>1. \A n \in 0 .. k - 1 : f[n] = Step(f, n)
      <4> HIDE DEF Step
      <4> QED
        BY <2>6
    <3>2. \A n \in 0 .. k - 1 : n \in 0 .. k /\ n # k
      BY <2>4
    <3>3. \A n \in 0 .. k - 1 : g[n] = f[n]
      BY <3>2
    <3> QED
      BY <3>1, <3>3
  <2>8. g[k] = Step(g, k)
    BY <2>3, <2>4, <2>7
  <2>9. \A n \in 0 .. k - 1 : g[n] = Step(g, n)
    BY <2>4, <2>7
  <2>10. Upto(k, g)
    <3>1. g = [n \in 0 .. k |-> g[n]]
      OBVIOUS
    <3>2. \A n \in 0 .. k : g[n] = Step(g, n)
      BY <2>4, <2>8, <2>9
    <3> HIDE DEF g, Step
    <3> QED
      BY <3>1, <3>2
  <2> QED
    BY <2>2, <2>10
<1>2. PICK f : Upto(N, f)
  BY <1>1
<1>3. idx = CHOOSE g : Upto(N, g)
  OBVIOUS
<1>4. Upto(N, idx)
  BY <1>2, <1>3
<1>5. NewIndex(order) = idx[N]
  BY DEF NewIndex
<1>6. idx[0] = {} /\ \A n \in 1 .. N : idx[n] = Visit(idx[n - 1], order[n])
  <2> HIDE DEF idx, Step
  <2>1. \A n \in 0 .. N : idx[n] = Step(idx, n)
    BY <1>4
  <2>2. 0 \in 0 .. N /\ \A n \in 1 .. N : n \in 0 .. N /\ n # 0
    OBVIOUS
  <2> QED
    BY <2>1, <2>2 DEF Step
<1> HIDE DEF idx
<1> QED
  BY <1>5, <1>6

LEMMA VisitIndexed ==
  ASSUME NEW order, NEW n \in Nat, NEW idx, NEW name,
         order[n + 1].spelling \in Nat,
         \A i \in 1 .. n : order[i].spelling \in Nat,
         Indexed(idx, name, order, n)
  PROVE  Indexed(Visit(idx, order[n + 1]), name, order, n + 1)
<1> DEFINE h == order[n + 1]
           new == Visit(idx, h)
           own == {e \in idx : e.name = name}
<1>1. \A i \in 1 .. n + 1 : i \in 1 .. n \/ i = n + 1
  OBVIOUS
<1>2. \A i \in 1 .. n : i \in 1 .. n + 1
  OBVIOUS
<1>3. n + 1 \in 1 .. n + 1
  OBVIOUS
<1>4. \A e \in idx : e.name = name => e.spelling \in Nat
  BY DEF Indexed, EntryOf
<1> DEFINE Lower == \E e \in idx : e.name = h.name /\ e.spelling <= h.spelling
<1>5. CASE FirstValue(h.values) = Blank \/ Lower
  <2>1. new = idx
    BY <1>5 DEF Visit
  <2>2. Supplies(h, name) => \E e \in idx : e.name = name /\ e.spelling <= h.spelling
    BY <1>5 DEF Supplies
  <2> HIDE DEF new
  <2>3. \A i \in 1 .. n + 1 : Supplies(order[i], name) =>
          \E e \in new : e.name = name /\ e.spelling <= order[i].spelling
    BY <1>1, <2>1, <2>2 DEF Indexed
  <2>4. \A e \in new : e.name = name =>
          \E i \in 1 .. n + 1 : Supplies(order[i], name) /\ e = EntryOf(order[i])
    BY <1>2, <2>1 DEF Indexed
  <2> QED
    BY <2>1, <2>3, <2>4 DEF Indexed, new
<1>6. CASE ~(FirstValue(h.values) = Blank \/ Lower)
  <2>1. new = {e \in idx : e.name # h.name} \cup {EntryOf(h)}
    BY <1>6 DEF Visit, EntryOf
  <2>2. EntryOf(h).name = h.name /\ EntryOf(h).spelling = h.spelling
    BY DEF EntryOf
  <2> HIDE DEF new
  <2>3. CASE h.name # name
    <3>1. \A e : e \in new /\ e.name = name <=> e \in idx /\ e.name = name
      BY <2>1, <2>2, <2>3
    <3>2. ~Supplies(h, name)
      BY <2>3 DEF Supplies
    <3>3. \A i \in 1 .. n + 1 : Supplies(order[i], name) =>
            \E e \in new : e.name = name /\ e.spelling <= order[i].spelling
      BY <1>1, <3>1, <3>2 DEF Indexed
    <3>4. \A e \in new : e.name = name =>
            \E i \in 1 .. n + 1 : Supplies(order[i], name) /\ e = EntryOf(order[i])
      BY <1>2, <3>1 DEF Indexed
    <3>5. \A e, f \in new : e.name = name /\ f.name = name => e = f
      BY <3>1 DEF Indexed
    <3> QED
      BY <3>3, <3>4, <3>5 DEF Indexed, new
  <2>4. CASE h.name = name
    <3>1. \A e \in new : e.name = name => e = EntryOf(h)
      BY <2>1, <2>2, <2>4
    <3>2. Supplies(h, name)
      BY <1>6, <2>4 DEF Supplies
    <3>3. EntryOf(h) \in new
      BY <2>1
    <3>4. \A i \in 1 .. n + 1 : Supplies(order[i], name) => h.spelling <= order[i].spelling
      <4>1. SUFFICES ASSUME NEW i \in 1 .. n + 1, Supplies(order[i], name)
                     PROVE  h.spelling <= order[i].spelling
        OBVIOUS
      <4>2. CASE i = n + 1
        BY <4>2
      <4>3. CASE i \in 1 .. n
        <5>1. PICK e \in idx : e.name = name /\ e.spelling <= order[i].spelling
          BY <4>1, <4>3 DEF Indexed
        <5>2. ~(e.spelling <= h.spelling)
          BY <1>6, <2>4, <5>1
        <5>3. e.spelling \in Nat /\ h.spelling \in Nat /\ order[i].spelling \in Nat
          BY <1>4, <4>3, <5>1
        <5> QED
          BY <5>1, <5>2, <5>3
      <4> QED
        BY <1>1, <4>2, <4>3
    <3>5. \A i \in 1 .. n + 1 : Supplies(order[i], name) =>
            \E e \in new : e.name = name /\ e.spelling <= order[i].spelling
      BY <2>2, <2>4, <3>3, <3>4
    <3>6. \A e \in new : e.name = name =>
            \E i \in 1 .. n + 1 : Supplies(order[i], name) /\ e = EntryOf(order[i])
      BY <1>3, <3>1, <3>2
    <3>7. \A e, f \in new : e.name = name /\ f.name = name => e = f
      BY <3>1
    <3> QED
      BY <3>5, <3>6, <3>7 DEF Indexed, new
  <2> QED
    BY <2>3, <2>4
<1> QED
  BY <1>5, <1>6

LEMMA IndexHolds ==
  ASSUME NEW order, Len(order) \in Nat, Spelled(order), NEW name
  PROVE  Indexed(NewIndex(order), name, order, Len(order))
<1> DEFINE N == Len(order)
           R == {p \in Nat \X Nat : p[1] < p[2]}
<1>1. PICK f : /\ NewIndex(order) = f[N]
               /\ f[0] = {}
               /\ \A n \in 1 .. N : f[n] = Visit(f[n - 1], order[n])
  BY NewIndexSteps
<1> DEFINE Bad == {k \in 0 .. N : ~Indexed(f[k], name, order, k)}
<1>2. Bad = {}
  <2>1. SUFFICES ASSUME Bad # {} PROVE FALSE
    OBVIOUS
  <2>2. PICK k \in Bad : \A y \in Bad : ~(<<y, k>> \in R)
    <3>1. IsWellFoundedOn(R, Nat)
      BY NatLessThanWellFounded, Zenon DEF OpToRel
    <3>2. Bad \subseteq Nat
      OBVIOUS
    <3> HIDE DEF Bad, R
    <3> QED
      BY <2>1, <3>1, <3>2, WFMin
  <2>3. k # 0
    <3>1. Indexed({}, name, order, 0)
      BY DEF Indexed
    <3> QED
      BY <1>1, <3>1
  <2>4. k \in 1 .. N /\ k \in Nat /\ k - 1 \in Nat /\ k - 1 \in 0 .. N /\ (k - 1) + 1 = k
    BY <2>3
  <2>5. k - 1 \notin Bad
    <3>1. <<k - 1, k>> \in R
      BY <2>4
    <3> QED
      BY <2>2, <3>1
  <2>6. Indexed(f[k - 1], name, order, k - 1)
    BY <2>4, <2>5
  <2>7. order[k].spelling \in Nat /\ \A i \in 1 .. k - 1 : order[i].spelling \in Nat
    BY <2>4 DEF Spelled
  <2>8. f[k] = Visit(f[k - 1], order[k])
    BY <1>1, <2>4
  <2>9. Indexed(Visit(f[k - 1], order[k]), name, order, k)
    BY <2>4, <2>6, <2>7, VisitIndexed
  <2> QED
    BY <2>2, <2>8, <2>9
<1>3. N \in 0 .. N
  OBVIOUS
<1> QED
  BY <1>1, <1>2, <1>3

\* However the headers are visited, a name reads as the value of the spelling of it that
\* sorts first.
LEMMA GetLowest ==
  ASSUME NEW headers, NEW order, Len(order) \in Nat,
         \A h : h \in headers <=> \E i \in 1 .. Len(order) : order[i] = h,
         \A h \in headers : h.spelling \in Nat,
         NEW name, NEW h \in headers, Supplies(h, name),
         \A g \in headers : Supplies(g, name) =>
           h.spelling <= g.spelling /\ (g.spelling = h.spelling => g = h)
  PROVE  Get(NewIndex(order), name) = FirstValue(h.values)
<1> DEFINE idx == NewIndex(order)
<1>1. Indexed(idx, name, order, Len(order))
  BY IndexHolds DEF Spelled
<1> HIDE DEF idx
<1>2. PICK i \in 1 .. Len(order) : order[i] = h
  OBVIOUS
<1>3. PICK e \in idx : e.name = name /\ e.spelling <= h.spelling
  BY <1>1, <1>2 DEF Indexed
<1>4. PICK j \in 1 .. Len(order) : Supplies(order[j], name) /\ e = EntryOf(order[j])
  BY <1>1, <1>3 DEF Indexed
<1>5. order[j] \in headers /\ e.spelling = order[j].spelling
  BY <1>4 DEF EntryOf
<1>6. h.spelling \in Nat /\ order[j].spelling \in Nat /\ h.spelling <= order[j].spelling
  BY <1>4, <1>5
<1>7. order[j].spelling = h.spelling
  BY <1>3, <1>5, <1>6
<1>8. order[j] = h
  BY <1>4, <1>5, <1>7
<1>9. e.value = FirstValue(h.values)
  BY <1>4, <1>8 DEF EntryOf
<1>10. \A f \in idx : f.name = name => f = e
  BY <1>1, <1>3 DEF Indexed
<1>11. (CHOOSE f \in idx : f.name = name) = e
  BY <1>3, <1>10
<1>12. Get(idx, name) = e.value
  BY <1>3, <1>11 DEF Get
<1> QED
  BY <1>9, <1>12 DEF idx

LEMMA GetAbsent ==
  ASSUME NEW headers, NEW order, Len(order) \in Nat,
         \A h : h \in headers <=> \E i \in 1 .. Len(order) : order[i] = h,
         \A h \in headers : h.spelling \in Nat,
         NEW name, \A h \in headers : ~Supplies(h, name)
  PROVE  Get(NewIndex(order), name) = Blank
<1>1. Indexed(NewIndex(order), name, order, Len(order))
  BY IndexHolds DEF Spelled
<1>2. \A i \in 1 .. Len(order) : ~Supplies(order[i], name)
  OBVIOUS
<1>3. \A e \in NewIndex(order) : e.name # name
  BY <1>1, <1>2 DEF Indexed
<1> QED
  BY <1>3 DEF Get

-----------------------------------------------------------------------------
(* The orders a map range has *)

Orders(headers) == {Lists!SetToSeq(headers), Lists!Reverse(Lists!SetToSeq(headers))}

LEMMA OrderCovers ==
  ASSUME NEW headers, IsFiniteSet(headers), NEW order \in Orders(headers)
  PROVE  /\ Len(order) \in Nat
         /\ \A h : h \in headers <=> \E i \in 1 .. Len(order) : order[i] = h
<1> DEFINE N == Cardinality(headers)
           Fits(f) == f \in [1 .. N -> headers] /\ \A a, b \in 1 .. N : f[a] = f[b] => a = b
           seq == Lists!SetToSeq(headers)
<1>1. N \in Nat /\ ExistsBijection(1 .. N, headers)
  BY FS_CardinalityType
<1>2. \E f : Fits(f)
  <2>1. PICK f : f \in Bijection(1 .. N, headers)
    BY <1>1 DEF ExistsBijection
  <2> QED
    BY <2>1 DEF Bijection, Injection, IsInjective
<1>3. Fits(seq)
  <2>1. seq = CHOOSE f \in [1 .. N -> headers] : Lists!IsInjective(f)
    <3>1. Lists!Cardinality(headers) = Cardinality(headers)
      BY DEF Lists!Cardinality, Cardinality
    <3> QED
      BY <3>1 DEF Lists!SetToSeq
  <2>2. \A f \in [1 .. N -> headers] : Lists!IsInjective(f) <=> Fits(f)
    BY DEF Lists!IsInjective
  <2> HIDE DEF Fits, seq
  <2>3. \E f \in [1 .. N -> headers] : Lists!IsInjective(f)
    BY <1>2, <2>2 DEF Fits
  <2> QED
    BY <2>1, <2>2, <2>3
<1>4. \A h \in headers : \E i \in 1 .. N : seq[i] = h
  <2> HIDE DEF seq
  <2>1. seq \in Injection(1 .. N, headers)
    BY <1>3 DEF Injection, IsInjective
  <2>2. Cardinality(1 .. N) = N
    BY <1>1, FS_Interval
  <2>3. seq \in Surjection(1 .. N, headers)
    BY <2>1, <2>2, FS_Injection
  <2> QED
    BY <2>3 DEF Surjection
<1>5. seq \in Seq(headers) /\ Len(seq) = N
  <2> HIDE DEF seq, N
  <2> QED
    BY <1>1, <1>3
<1>6. CASE order = seq
  <2> HIDE DEF seq
  <2> QED
    BY <1>1, <1>3, <1>4, <1>5, <1>6
<1>7. CASE order = Lists!Reverse(seq)
  <2> HIDE DEF seq, N
  <2>1. order = [i \in 1 .. N |-> seq[(N - i) + 1]]
    BY <1>5, <1>7 DEF Lists!Reverse
  <2>2. order \in Seq(headers) /\ Len(order) = N
    <3>1. \A i \in 1 .. N : (N - i) + 1 \in 1 .. N
      BY <1>1
    <3>2. order \in [1 .. N -> headers]
      BY <1>3, <2>1, <3>1
    <3> QED
      BY <1>1, <3>2
  <2>3. \A h \in headers : \E i \in 1 .. N : order[i] = h
    <3>1. SUFFICES ASSUME NEW h \in headers PROVE \E i \in 1 .. N : order[i] = h
      OBVIOUS
    <3>2. PICK i \in 1 .. N : seq[i] = h
      BY <1>4
    <3>3. (N - i) + 1 \in 1 .. N /\ (N - ((N - i) + 1)) + 1 = i
      BY <1>1
    <3>4. order[(N - i) + 1] = seq[i]
      BY <2>1, <3>3
    <3> QED
      BY <3>2, <3>3, <3>4
  <2>4. \A i \in 1 .. N : order[i] \in headers
    BY <1>1, <2>2
  <2> QED
    BY <1>1, <2>2, <2>3, <2>4
<1> QED
  BY <1>6, <1>7 DEF Orders

-----------------------------------------------------------------------------
(* The bridge: what the pick reads is what the interceptor derived *)

\* Blank is no tuple of a session and the agents under it, and no hash of one.
BlankApart == \A a, b, c : Blank \notin {<<a>>, <<a, b>>, <<a, b, c>>}

\* What Extract says of a request.
Identified(id) ==
  /\ id = [key |-> id.key, parent |-> id.parent, subagent |-> id.subagent]
  /\ id.subagent \in BOOLEAN
  /\ id.key = <<>> => id = NoIdentity
  /\ id.key # Blank \/ id.key = <<>>
  /\ id.parent # <<>> => id.subagent /\ id.parent # Blank

\* The headers of a request: finitely many, the bridge's set by the plugin only.
Bridged(headers, id) ==
  /\ SetHeaders(id) \subseteq headers
  /\ \A h \in headers : h.name \in bridgeHeaders => h \in SetHeaders(id)

Sent(headers) == IsFiniteSet(headers) /\ \A h \in headers : h.spelling \in Nat

BInv ==
  /\ flight.at \in {"none", "sent", "intercepted", "picked"}
  /\ flight.at \in {"sent", "intercepted"} =>
       /\ flight = [at |-> flight.at, conv |-> flight.conv, headers |-> flight.headers,
                    body |-> flight.body, id |-> flight.id]
       /\ Sent(flight.headers)
  /\ flight.at = "intercepted" => Identified(flight.id) /\ Bridged(flight.headers, flight.id)
  /\ flight.at = "picked" => flight.read = flight.id

LEMMA NoIdentityIdentified ==
  Identified(NoIdentity)
BY DEF Identified, NoIdentity

LEMMA HashedIdentified ==
  ASSUME BlankApart, NEW raw
  PROVE  Identified(identity(raw))
<1> DEFINE id == identity(raw)
           names == raw.parent # Blank /\ <<raw.source, raw.parent>> # <<raw.source, raw.key>>
           sub == names \/ isSubagent(raw.agent)
           parent == IF names THEN <<raw.source, raw.parent>> ELSE <<>>
<1>1. CASE raw.key = Blank
  BY <1>1, NoIdentityIdentified DEF identity
<1>2. CASE raw.key # Blank
  <2>1. id = [key |-> <<raw.source, raw.key>>, parent |-> parent, subagent |-> sub]
    BY <1>2 DEF identity
  <2>2. sub \in BOOLEAN
    BY Zenon
  <2>3. id.key = <<raw.source, raw.key>> /\ id.parent = parent
    BY <2>1
  <2>4. id.subagent = sub
    <3> HIDE DEF id, sub
    <3>1. \A k, p, s, r : r = [key |-> k, parent |-> p, subagent |-> s] => r.subagent = s
      OBVIOUS
    <3> QED
      BY <2>1, <3>1
  <2>5. id.key # <<>> /\ id.key # Blank
    BY <2>3 DEF BlankApart
  <2>6. id.parent # <<>> => names /\ id.parent # Blank
    BY <2>3 DEF BlankApart
  <2>7. names => sub
    OBVIOUS
  <2> HIDE DEF id, names, sub, parent
  <2>8. id = [key |-> id.key, parent |-> id.parent, subagent |-> id.subagent]
    BY <2>1, <2>3, <2>4
  <2>9. id.parent # <<>> => id.subagent
    BY <2>4, <2>6, <2>7, Zenon
  <2>10. id.subagent \in BOOLEAN
    BY <2>2, <2>4, Zenon
  <2>11. Identified(id)
    BY <2>5, <2>6, <2>8, <2>9, <2>10 DEF Identified
  <2> QED
    BY <2>11 DEF id
<1> QED
  BY <1>1, <1>2

LEMMA ContentIdentified ==
  ASSUME BlankApart, NEW body
  PROVE  Identified(fromContent(body))
<1>1. CASE fromContent(body) = NoIdentity
  BY <1>1, NoIdentityIdentified
<1>2. CASE fromContent(body) # NoIdentity
  <2>1. PICK a, b, c : fromContent(body) = [NoIdentity EXCEPT !.key = <<a, b, c>>]
    BY <1>2 DEF fromContent
  <2>2. <<a, b, c>> # <<>> /\ <<a, b, c>> # Blank
    BY DEF BlankApart
  <2>3. fromContent(body) = [key |-> <<a, b, c>>, parent |-> <<>>, subagent |-> FALSE]
    BY <2>1 DEF NoIdentity
  <2> QED
    BY <2>2, <2>3 DEF Identified
<1> QED
  BY <1>1, <1>2

LEMMA ExtractIdentified ==
  ASSUME BlankApart, NEW order, NEW body
  PROVE  Identified(Extract(order, body))
<1>1. \/ Extract(order, body) = NoIdentity
      \/ Extract(order, body) = fromContent(body)
      \/ \E raw : Extract(order, body) = identity(raw)
  BY DEF Extract
<1> QED
  BY <1>1, NoIdentityIdentified, HashedIdentified, ContentIdentified

LEMMA FirstOfOne ==
  ASSUME NEW v
  PROVE  FirstValue(<<v>>) = v
<1> DEFINE given == {i \in DOMAIN <<v>> : <<v>>[i] # Blank}
<1>1. DOMAIN <<v>> = {1} /\ <<v>>[1] = v
  OBVIOUS
<1>2. CASE v = Blank
  <2>1. given = {}
    BY <1>1, <1>2
  <2> QED
    BY <1>2, <2>1 DEF FirstValue
<1>3. CASE v # Blank
  <2>1. given = {1}
    BY <1>1, <1>3
  <2>2. Min({1}) = 1
    BY DEF Min
  <2> HIDE DEF given
  <2>3. <<v>>[Min(given)] = v /\ given # {}
    BY <1>1, <2>1, <2>2
  <2> QED
    BY <2>3 DEF FirstValue, given
<1> QED
  BY <1>2, <1>3

LEMMA SetHeadersFinite ==
  ASSUME NEW id
  PROVE  Sent(SetHeaders(id))
<1> DEFINE k == Header("pacer-key", id.key)
           s == Header("pacer-subagent", <<"1">>)
           p == Header("pacer-parent", id.parent)
<1>1. SetHeaders(id) \subseteq {k, s, p}
  BY DEF SetHeaders
<1>2. \A x \in {k, s, p} : x.spelling \in Nat
  BY DEF Header
<1>3. IsFiniteSet({k, s, p})
  <2> HIDE DEF k, s, p
  <2>1. IsFiniteSet({} \cup {k}) /\ IsFiniteSet(({} \cup {k}) \cup {s})
    BY FS_EmptySet, FS_AddElement
  <2>2. IsFiniteSet((({} \cup {k}) \cup {s}) \cup {p})
    BY <2>1, FS_AddElement
  <2>3. (({} \cup {k}) \cup {s}) \cup {p} = {k, s, p}
    OBVIOUS
  <2> QED
    BY <2>2, <2>3
<1> HIDE DEF k, s, p
<1>4. IsFiniteSet(SetHeaders(id))
  BY <1>1, <1>3, FS_Subset
<1> QED
  BY <1>1, <1>2, <1>4 DEF Sent

\* A bridge header reads as it was set, or as nothing.
LEMMA BridgeReads ==
  ASSUME NEW headers, Sent(headers), NEW id, Bridged(headers, id),
         NEW order \in Orders(headers), NEW name \in bridgeHeaders
  PROVE  /\ \A v : Header(name, v) \in SetHeaders(id) => Get(NewIndex(order), name) = v
         /\ (\A v : Header(name, v) \notin SetHeaders(id)) => Get(NewIndex(order), name) = Blank
<1>1. /\ Len(order) \in Nat
      /\ \A h : h \in headers <=> \E i \in 1 .. Len(order) : order[i] = h
  BY OrderCovers DEF Sent
<1>2. \A h \in headers : h.spelling \in Nat
  BY DEF Sent
<1>3. \A v : Header(name, v).name = name /\ FirstValue(Header(name, v).values) = v
  BY FirstOfOne DEF Header
<1>4. \A h \in SetHeaders(id) : h.name = name => \E v : h = Header(name, v)
  BY DEF SetHeaders, Header
<1>5. \A v, w : Header(name, v) \in SetHeaders(id) /\ Header(name, w) \in SetHeaders(id) => v = w
  <2>1. \A v, m, w : Header(name, v) = Header(m, w) => name = m /\ v = w
    <3>1. SUFFICES ASSUME NEW v, NEW m, NEW w, Header(name, v) = Header(m, w)
                   PROVE  name = m /\ v = w
      OBVIOUS
    <3>2. Header(name, v).name = name /\ Header(m, w).name = m
      BY DEF Header
    <3>3. Header(name, v).values[1] = v /\ Header(m, w).values[1] = w
      BY DEF Header
    <3> QED
      BY <3>1, <3>2, <3>3
  <2>2. \A v : Header(name, v) \in SetHeaders(id) =>
          \/ name = "pacer-key" /\ v = id.key
          \/ name = "pacer-subagent" /\ v = <<"1">>
          \/ name = "pacer-parent" /\ v = id.parent
    BY <2>1 DEF SetHeaders
  <2> QED
    BY <2>2
<1>6. ASSUME NEW v, Header(name, v) \in SetHeaders(id)
      PROVE  Get(NewIndex(order), name) = v
  <2> DEFINE h == Header(name, v)
  <2>1. h \in headers /\ h.name = name /\ FirstValue(h.values) = v
    BY <1>3, <1>6 DEF Bridged
  <2>2. \A g \in headers : g.name = name => g = h
    BY <1>4, <1>5, <1>6 DEF Bridged
  <2>3. h.spelling \in Nat
    BY <1>2, <2>1
  <2> HIDE DEF h
  <2>4. CASE v = Blank
    <3>1. \A g \in headers : ~Supplies(g, name)
      BY <2>1, <2>2, <2>4 DEF Supplies
    <3> QED
      BY <1>1, <1>2, <2>4, <3>1, GetAbsent
  <2>5. CASE v # Blank
    <3>1. Supplies(h, name)
      BY <2>1, <2>5 DEF Supplies
    <3>2. \A g \in headers : Supplies(g, name) =>
            h.spelling <= g.spelling /\ (g.spelling = h.spelling => g = h)
      BY <2>2, <2>3 DEF Supplies
    <3>3. Get(NewIndex(order), name) = FirstValue(h.values)
      BY <1>1, <1>2, <2>1, <3>1, <3>2, GetLowest
    <3> QED
      BY <2>1, <3>3
  <2> QED
    BY <2>4, <2>5
<1>7. ASSUME \A v : Header(name, v) \notin SetHeaders(id)
      PROVE  Get(NewIndex(order), name) = Blank
  <2>1. \A g \in headers : ~Supplies(g, name)
    BY <1>4, <1>7 DEF Bridged, Supplies
  <2> QED
    BY <1>1, <1>2, <2>1, GetAbsent
<1> QED
  BY <1>6, <1>7

LEMMA BridgeRead ==
  ASSUME BlankApart, NEW headers, Sent(headers), NEW id, Identified(id), Bridged(headers, id),
         NEW order \in Orders(headers)
  PROVE  readBridge(order) = id
<1> DEFINE get(name) == Get(NewIndex(order), name)
           read == readBridge(order)
<1>1. \A n, m, v, w : Header(n, v) = Header(m, w) => n = m
  <2>1. \A n, v : Header(n, v).name = n
    BY DEF Header
  <2> QED
    BY <2>1
<1>2. get("pacer-key") = IF id.key = <<>> THEN Blank ELSE id.key
  <2>1. "pacer-key" \in bridgeHeaders
    BY DEF bridgeHeaders
  <2>2. CASE id.key = <<>>
    <3>1. \A v : Header("pacer-key", v) \notin SetHeaders(id)
      BY <2>2 DEF SetHeaders
    <3> QED
      BY <2>1, <2>2, <3>1, BridgeReads
  <2>3. CASE id.key # <<>>
    <3>1. Header("pacer-key", id.key) \in SetHeaders(id)
      BY <2>3 DEF SetHeaders
    <3> QED
      BY <2>1, <2>3, <3>1, BridgeReads
  <2> QED
    BY <2>2, <2>3
<1>3. get("pacer-subagent") = IF id.key # <<>> /\ id.subagent THEN <<"1">> ELSE Blank
  <2>1. "pacer-subagent" \in bridgeHeaders
    BY DEF bridgeHeaders
  <2>2. CASE ~(id.key # <<>> /\ id.subagent)
    <3>1. \A v : Header("pacer-subagent", v) \notin SetHeaders(id)
      BY <1>1, <2>2 DEF SetHeaders
    <3> QED
      BY <2>1, <2>2, <3>1, BridgeReads
  <2>3. CASE id.key # <<>> /\ id.subagent
    <3>1. Header("pacer-subagent", <<"1">>) \in SetHeaders(id)
      BY <2>3 DEF SetHeaders
    <3> QED
      BY <2>1, <2>3, <3>1, BridgeReads
  <2> QED
    BY <2>2, <2>3
<1>4. get("pacer-parent") = IF id.key # <<>> /\ id.subagent /\ id.parent # <<>> THEN id.parent ELSE Blank
  <2>1. "pacer-parent" \in bridgeHeaders
    BY DEF bridgeHeaders
  <2>2. CASE ~(id.key # <<>> /\ id.subagent /\ id.parent # <<>>)
    <3>1. \A v : Header("pacer-parent", v) \notin SetHeaders(id)
      BY <1>1, <2>2 DEF SetHeaders
    <3> QED
      BY <2>1, <2>2, <3>1, BridgeReads
  <2>3. CASE id.key # <<>> /\ id.subagent /\ id.parent # <<>>
    <3>1. Header("pacer-parent", id.parent) \in SetHeaders(id)
      BY <2>3 DEF SetHeaders
    <3> QED
      BY <2>1, <2>3, <3>1, BridgeReads
  <2> QED
    BY <2>2, <2>3
<1>5. read = [key |-> IF get("pacer-key") = Blank THEN <<>> ELSE get("pacer-key"),
              parent |-> IF get("pacer-parent") = Blank THEN <<>> ELSE get("pacer-parent"),
              subagent |-> get("pacer-subagent") = <<"1">>]
  BY DEF readBridge
<1>6. id.key = <<>> => id.parent = <<>> /\ id.subagent = FALSE
  BY DEF Identified, NoIdentity
<1> HIDE DEF get
<1>7. (IF get("pacer-key") = Blank THEN <<>> ELSE get("pacer-key")) = id.key
  BY <1>2 DEF Identified
<1>8. (IF get("pacer-parent") = Blank THEN <<>> ELSE get("pacer-parent")) = id.parent
  BY <1>4, <1>6 DEF Identified
<1>9. Blank # <<"1">>
  BY DEF BlankApart
<1>10. (get("pacer-subagent") = <<"1">>) <=> id.subagent
  BY <1>3, <1>6, <1>9
<1>11. (get("pacer-subagent") = <<"1">>) = id.subagent
  <2>1. id.subagent \in BOOLEAN
    BY DEF Identified
  <2> QED
    BY <1>10, <2>1, Zenon
<1> HIDE DEF read
<1>12. read = [key |-> id.key, parent |-> id.parent, subagent |-> id.subagent]
  BY <1>5, <1>7, <1>8, <1>11, Zenon
<1> QED
  BY <1>12 DEF Identified, read

\* A client sends finitely many headers.
LEMMA ClientSends ==
  ASSUME NEW c, NEW forged \in BOOLEAN
  PROVE  Sent(ClientHeaders(c) \cup
              (IF forged THEN {Header("pacer-key", <<"forged">>), Header("pacer-parent", <<"forged">>),
                               Header("pacer-subagent", <<"1">>)} ELSE {}))
<1>1. \A a, b, d : IsFiniteSet({a, b, d})
  <2>1. SUFFICES ASSUME NEW a, NEW b, NEW d PROVE IsFiniteSet({a, b, d})
    OBVIOUS
  <2>2. IsFiniteSet({} \cup {a}) /\ IsFiniteSet(({} \cup {a}) \cup {b})
    BY FS_EmptySet, FS_AddElement
  <2>3. IsFiniteSet((({} \cup {a}) \cup {b}) \cup {d})
    BY <2>2, FS_AddElement
  <2>4. (({} \cup {a}) \cup {b}) \cup {d} = {a, b, d}
    OBVIOUS
  <2> QED
    BY <2>3, <2>4
<1>2. Sent({})
  BY FS_EmptySet DEF Sent
<1>3. \A a, b, d : (a.spelling \in Nat /\ b.spelling \in Nat /\ d.spelling \in Nat) => Sent({a, b, d})
  BY <1>1 DEF Sent
<1>4. \A n, v : Header(n, v).spelling \in Nat
  BY DEF Header
<1>5. Sent(ClientHeaders(c))
  <2>1. CASE style[c] = "claude"
    BY <1>3, <1>4, <2>1 DEF ClientHeaders
  <2>2. CASE style[c] = "header"
    <3> DEFINE x == [name |-> "x-session-id", spelling |-> 1, values |-> <<Blank, SessionOf(c)>>]
               y == [name |-> "x-session-id", spelling |-> 2, values |-> <<<<"s9">>>>]
               z == [name |-> "session-id", spelling |-> 1, values |-> <<Blank>>]
    <3>1. x.spelling \in Nat /\ y.spelling \in Nat /\ z.spelling \in Nat
      OBVIOUS
    <3>2. ClientHeaders(c) = {x, y, z}
      BY <2>2 DEF ClientHeaders
    <3> HIDE DEF x, y, z
    <3> QED
      BY <1>3, <3>1, <3>2
  <2>3. CASE style[c] \notin {"claude", "header"}
    BY <1>2, <2>3 DEF ClientHeaders
  <2> QED
    BY <2>1, <2>2, <2>3
<1>6. \A S, T : Sent(S) /\ Sent(T) => Sent(S \cup T)
  BY FS_Union DEF Sent
<1> QED
  BY <1>2, <1>3, <1>4, <1>5, <1>6

LEMMA InterceptBridged ==
  ASSUME NEW headers, Sent(headers), NEW id
  PROVE  LET after == {h \in headers : h.name \notin ClearHeaders(id)} \cup SetHeaders(id)
         IN  Sent(after) /\ Bridged(after, id)
<1> DEFINE kept == {h \in headers : h.name \notin ClearHeaders(id)}
<1>1. IsFiniteSet(kept)
  BY FS_Subset DEF Sent
<1>2. Sent(kept \cup SetHeaders(id))
  BY <1>1, SetHeadersFinite, FS_Union DEF Sent
<1>3. Bridged(kept \cup SetHeaders(id), id)
  BY DEF Bridged, ClearHeaders
<1> QED
  BY <1>2, <1>3

LEMMA BInvStep ==
  ASSUME BlankApart, BInv, [IdentityNext]_identityVars
  PROVE  BInv'
<1>1. ASSUME NEW c \in Convs, NEW forged \in BOOLEAN, Send(c, forged)
      PROVE  BInv'
  <2> DEFINE own == IF forged THEN {Header("pacer-key", <<"forged">>), Header("pacer-parent", <<"forged">>),
                                    Header("pacer-subagent", <<"1">>)} ELSE {}
  <2>1. flight' = [at |-> "sent", conv |-> c, headers |-> ClientHeaders(c) \cup own,
                   body |-> ClientBody(c, turn[c] + 1), id |-> NoIdentity]
    BY <1>1 DEF Send
  <2>2. Sent(ClientHeaders(c) \cup own)
    BY ClientSends
  <2> HIDE DEF own
  <2> QED
    BY <2>1, <2>2 DEF BInv
<1>2. ASSUME NEW order \in Orders(flight.headers), NEW decodes \in BOOLEAN,
             interceptBefore(order, decodes)
      PROVE  BInv'
  <2> DEFINE id == IF decodes THEN Extract(order, flight.body) ELSE NoIdentity
             after == {h \in flight.headers : h.name \notin ClearHeaders(id)} \cup SetHeaders(id)
  <2>1. flight.at = "sent" /\ Sent(flight.headers)
    BY <1>2 DEF BInv, interceptBefore
  <2>2. flight' = [at |-> "intercepted", conv |-> flight.conv, headers |-> after,
                   body |-> flight.body, id |-> id]
    BY <1>2, <2>1 DEF BInv, interceptBefore
  <2>3. Identified(id)
    BY ExtractIdentified, NoIdentityIdentified
  <2>4. Sent(after) /\ Bridged(after, id)
    BY <2>1, InterceptBridged
  <2> HIDE DEF id, after
  <2> QED
    BY <2>2, <2>3, <2>4 DEF BInv
<1>3. ASSUME NEW order \in Orders(flight.headers), PickReads(order)
      PROVE  BInv'
  <2>1. flight.at = "intercepted"
    BY <1>3 DEF PickReads
  <2>2. readBridge(order) = flight.id
    BY <2>1, BridgeRead DEF BInv
  <2>3. flight' = [at |-> "picked", conv |-> flight.conv, id |-> flight.id, read |-> readBridge(order)]
    BY <1>3 DEF PickReads
  <2> QED
    BY <2>2, <2>3 DEF BInv
<1>4. CASE UNCHANGED identityVars
  BY <1>4 DEF BInv, identityVars
<1>5. CASE IdentityNext
  <2>1. CASE \E c \in Convs, forged \in BOOLEAN : Send(c, forged)
    BY <1>1, <2>1
  <2>2. CASE \E order \in Orders(flight.headers) :
               (\E decodes \in BOOLEAN : interceptBefore(order, decodes)) \/ PickReads(order)
    BY <1>2, <1>3, <2>2
  <2> QED
    BY <1>5, <2>1, <2>2 DEF IdentityNext, Orders
<1> QED
  BY <1>4, <1>5

\* The pick reads the identity the plugin derived, whatever bridge headers the client
\* wrote, in whatever order the headers are visited, and whether or not the request had
\* an identity or decoded (interceptBefore, readBridge).
THEOREM BridgeIsOwned ==
  ASSUME BlankApart
  PROVE  IdentitySpec => []BridgeOwned
<1>1. IdentityInit => BInv
  BY DEF IdentityInit, BInv, NoFlight
<1>2. BInv /\ [IdentityNext]_identityVars => BInv'
  BY BInvStep
<1>3. BInv => BridgeOwned
  BY DEF BInv, BridgeOwned
<1> QED
  BY <1>1, <1>2, <1>3, PTL DEF IdentitySpec

-----------------------------------------------------------------------------
(* What Extract says of a client's request *)

\* The bridge headers a client may write.
Forged == {Header("pacer-key", <<"forged">>), Header("pacer-parent", <<"forged">>),
           Header("pacer-subagent", <<"1">>)}

Source(c) ==
  CASE style[c] = "claude" -> "claude-session"
    [] style[c] = "header" -> "x-session-id"
    [] style[c] \in {"shared", "nested"} -> "user_id"
    [] style[c] = "suffixed" -> "user_id-suffix"
    [] OTHER -> "conversation_id"

\* What the key of a named conversation is taken of, and what its parent's is.
Material(c) ==
  IF style[c] = "nested" \/ c \in {"root", "other"} THEN OwnSession(c) ELSE <<"s1", Agent(c)[1]>>

ParentMaterial(c) ==
  IF c = "grand" /\ style[c] = "claude" THEN <<"s1", "a1">>
  ELSE IF c = "grand" /\ style[c] = "nested" THEN <<"s3">> ELSE <<"s1">>

Subagents == {"child", "grand"}

Greeting(c) ==
  LET text == <<"user", "text", <<"hello", OwnSession(c)[1]>>>>
  IN  IF "image" # Blank THEN <<<<"user", "image", Blank>>, text>> ELSE <<text>>

\* The identity of a conversation, the same on every turn.
IdOf(c) ==
  CASE style[c] = "none" -> NoIdentity
    [] style[c] = "content" ->
         [key |-> <<IF marked THEN "cache_control" ELSE "first-message",
                    <<<<"system", "text", <<"prompt">>>>>>, Greeting(c)>>,
          parent |-> <<>>, subagent |-> FALSE]
    [] OTHER ->
         [key |-> <<Source(c), Material(c)>>,
          parent |-> IF c \in Subagents THEN <<Source(c), ParentMaterial(c)>> ELSE <<>>,
          subagent |-> c \in Subagents]

\* What the clients' setting keeps.
Setting ==
  /\ style["child"] = style["root"] /\ style["grand"] = style["root"]
  /\ \A c \in Convs : style[c] \in Styles
  /\ rootAgent \in {<<"MAIN">>, Blank}
  /\ marked \in BOOLEAN

LEMMA GetOne ==
  ASSUME NEW headers, Sent(headers), NEW order \in Orders(headers),
         NEW name, NEW v, NEW h \in headers, h.name = name, h.values = <<v>>,
         \A g \in headers : g.name = name => g = h
  PROVE  Get(NewIndex(order), name) = v
<1>1. /\ Len(order) \in Nat
      /\ \A g : g \in headers <=> \E i \in 1 .. Len(order) : order[i] = g
  BY OrderCovers DEF Sent
<1>2. (\A g \in headers : g.spelling \in Nat) /\ h.spelling \in Nat
  BY DEF Sent
<1>3. FirstValue(h.values) = v
  BY FirstOfOne
<1>4. CASE v = Blank
  <2>1. \A g \in headers : ~Supplies(g, name)
    BY <1>3, <1>4 DEF Supplies
  <2> QED
    BY <1>1, <1>2, <1>4, <2>1, GetAbsent
<1>5. CASE v # Blank
  <2>1. Supplies(h, name)
    BY <1>3, <1>5 DEF Supplies
  <2>2. \A g \in headers : Supplies(g, name) =>
          h.spelling <= g.spelling /\ (g.spelling = h.spelling => g = h)
    BY <1>2 DEF Supplies
  <2>3. Get(NewIndex(order), name) = FirstValue(h.values)
    BY <1>1, <1>2, <2>1, <2>2, GetLowest
  <2> QED
    BY <1>3, <2>3
<1> QED
  BY <1>4, <1>5

LEMMA GetNone ==
  ASSUME NEW headers, Sent(headers), NEW order \in Orders(headers),
         NEW name, \A g \in headers : g.name # name
  PROVE  Get(NewIndex(order), name) = Blank
<1>1. /\ Len(order) \in Nat
      /\ \A g : g \in headers <=> \E i \in 1 .. Len(order) : order[i] = g
  BY OrderCovers DEF Sent
<1>2. \A g \in headers : g.spelling \in Nat
  BY DEF Sent
<1>3. \A g \in headers : ~Supplies(g, name)
  BY DEF Supplies
<1> QED
  BY <1>1, <1>2, <1>3, GetAbsent

LEMMA LeastIndex ==
  ASSUME NEW S, S \subseteq Nat, NEW i \in S, \A j \in S : i <= j
  PROVE  Min(S) = i
<1>1. \A k \in S : (\A j \in S : k <= j) => k = i
  <2>1. SUFFICES ASSUME NEW k \in S, \A j \in S : k <= j PROVE k = i
    OBVIOUS
  <2>2. k <= i /\ i <= k /\ k \in Nat /\ i \in Nat
    BY <2>1
  <2> QED
    BY <2>2
<1> QED
  BY <1>1 DEF Min

\* The first rule with a key decides.
LEMMA ExtractFirst ==
  ASSUME NEW order, NEW body, body.json \in BOOLEAN
  PROVE  LET one == fromClaudeCodeHeaders(NewIndex(order))
             two == fromSessionHeaders(NewIndex(order))
             three == fromUserID(body.user)
             four == fromBodyIDs(body.fields)
         IN  /\ one.key # Blank => Extract(order, body) = identity(one)
             /\ one.key = Blank /\ two.key # Blank => Extract(order, body) = identity(two)
             /\ one.key = Blank /\ two.key = Blank =>
                  /\ ~body.json => Extract(order, body) = NoIdentity
                  /\ body.json =>
                       /\ three.key # Blank => Extract(order, body) = identity(three)
                       /\ three.key = Blank /\ four.key # Blank => Extract(order, body) = identity(four)
                       /\ three.key = Blank /\ four.key = Blank =>
                            Extract(order, body) = fromContent(body)
<1> DEFINE one == fromClaudeCodeHeaders(NewIndex(order))
           two == fromSessionHeaders(NewIndex(order))
           three == fromUserID(body.user)
           four == fromBodyIDs(body.fields)
           raws == <<one, two>> \o (IF body.json THEN <<three, four>> ELSE <<>>)
           keyed == {i \in DOMAIN raws : raws[i].key # Blank}
<1>1. Extract(order, body) = IF keyed # {} THEN identity(raws[Min(keyed)])
                             ELSE IF body.json THEN fromContent(body) ELSE NoIdentity
  BY DEF Extract
<1> HIDE DEF one, two, three, four
<1>2. CASE ~body.json
  <2>1. DOMAIN raws = {1, 2} /\ raws[1] = one /\ raws[2] = two
    BY <1>2
  <2> HIDE DEF raws
  <2>2. CASE one.key # Blank
    <3>1. 1 \in keyed /\ keyed \subseteq Nat /\ \A j \in keyed : 1 <= j
      BY <2>1, <2>2
    <3> HIDE DEF keyed
    <3>2. Min(keyed) = 1
      BY <3>1, LeastIndex
    <3> QED
      BY <1>1, <2>1, <2>2, <3>1, <3>2 DEF one, two
  <2>3. CASE one.key = Blank /\ two.key # Blank
    <3>1. 2 \in keyed /\ keyed \subseteq Nat /\ \A j \in keyed : 2 <= j
      BY <2>1, <2>3
    <3> HIDE DEF keyed
    <3>2. Min(keyed) = 2
      BY <3>1, LeastIndex
    <3> QED
      BY <1>1, <2>1, <2>3, <3>1, <3>2 DEF one, two
  <2>4. CASE one.key = Blank /\ two.key = Blank
    <3>1. keyed = {}
      BY <2>1, <2>4
    <3> HIDE DEF keyed
    <3> QED
      BY <1>1, <1>2, <2>4, <3>1 DEF one, two
  <2> QED
    BY <2>2, <2>3, <2>4
<1>3. CASE body.json
  <2>1. /\ DOMAIN raws = {1, 2, 3, 4}
        /\ raws[1] = one /\ raws[2] = two /\ raws[3] = three /\ raws[4] = four
    <3>1. raws = <<one, two, three, four>>
      <4>1. raws = <<one, two>> \o <<three, four>>
        BY <1>3, Zenon
      <4>2. \A a, b, c, d : <<a, b>> \o <<c, d>> = <<a, b, c, d>>
        <5>1. SUFFICES ASSUME NEW a, NEW b, NEW c, NEW d
                       PROVE  <<a, b>> \o <<c, d>> = <<a, b, c, d>>
          OBVIOUS
        <5> DEFINE S == {a, b, c, d}
                   u == <<a, b>>
                   v == <<c, d>>
        <5>2. u \in Seq(S) /\ v \in Seq(S) /\ Len(u) = 2 /\ Len(v) = 2
          OBVIOUS
        <5>3. u[1] = a /\ u[2] = b /\ v[1] = c /\ v[2] = d
          OBVIOUS
        <5> HIDE DEF u, v, S
        <5> DEFINE w == u \o v
        <5>4. /\ w \in Seq(S) /\ Len(w) = Len(u) + Len(v)
              /\ \A i \in 1 .. Len(u) + Len(v) : w[i] = IF i <= Len(u) THEN u[i] ELSE v[i - Len(u)]
          BY <5>2, ConcatProperties
        <5> HIDE DEF w
        <5>5. w[1] = a /\ w[2] = b /\ w[3] = c /\ w[4] = d
          BY <5>2, <5>3, <5>4
        <5>6. w = <<a, b, c, d>>
          BY <5>2, <5>4, <5>5
        <5> QED
          BY <5>6 DEF u, v, w
      <4> HIDE DEF raws
      <4> QED
        BY <4>1, <4>2
    <3> HIDE DEF raws
    <3> QED
      BY <3>1
  <2> HIDE DEF raws
  <2>2. CASE one.key # Blank
    <3>1. 1 \in keyed /\ keyed \subseteq Nat /\ \A j \in keyed : 1 <= j
      BY <2>1, <2>2
    <3> HIDE DEF keyed
    <3>2. Min(keyed) = 1
      BY <3>1, LeastIndex
    <3> QED
      BY <1>1, <2>1, <2>2, <3>1, <3>2 DEF one, two
  <2>3. CASE one.key = Blank /\ two.key # Blank
    <3>1. 2 \in keyed /\ keyed \subseteq Nat /\ \A j \in keyed : 2 <= j
      BY <2>1, <2>3
    <3> HIDE DEF keyed
    <3>2. Min(keyed) = 2
      BY <3>1, LeastIndex
    <3> QED
      BY <1>1, <2>1, <2>3, <3>1, <3>2 DEF one, two
  <2>4. CASE one.key = Blank /\ two.key = Blank /\ three.key # Blank
    <3>1. 3 \in keyed /\ keyed \subseteq Nat /\ \A j \in keyed : 3 <= j
      BY <2>1, <2>4
    <3> HIDE DEF keyed
    <3>2. Min(keyed) = 3
      BY <3>1, LeastIndex
    <3> QED
      BY <1>1, <1>3, <2>1, <2>4, <3>1, <3>2 DEF one, two, three, four
  <2>5. CASE one.key = Blank /\ two.key = Blank /\ three.key = Blank /\ four.key # Blank
    <3>1. 4 \in keyed /\ keyed \subseteq Nat /\ \A j \in keyed : 4 <= j
      BY <2>1, <2>5
    <3> HIDE DEF keyed
    <3>2. Min(keyed) = 4
      BY <3>1, LeastIndex
    <3> QED
      BY <1>1, <1>3, <2>1, <2>5, <3>1, <3>2 DEF one, two, three, four
  <2>6. CASE one.key = Blank /\ two.key = Blank /\ three.key = Blank /\ four.key = Blank
    <3>1. keyed = {}
      BY <2>1, <2>6
    <3> HIDE DEF keyed
    <3> QED
      BY <1>1, <1>3, <2>6, <3>1 DEF one, two, three, four
  <2> QED
    BY <2>2, <2>3, <2>4, <2>5, <2>6
<1> QED
  BY <1>2, <1>3

\* Of the headers of a request, those no client forges.
Own(headers, c) == ClientHeaders(c) \subseteq headers /\ headers \subseteq ClientHeaders(c) \cup Forged

LEMMA ForgedNames ==
  \A g \in Forged : g.name \in bridgeHeaders
BY DEF Forged, Header, bridgeHeaders

LEMMA NamedApart ==
  ASSUME BlankApart, Setting, NEW c \in Convs
  PROVE  /\ SessionOf(c) \in {<<"s1">>, <<"s2">>} /\ (c # "other" => SessionOf(c) = <<"s1">>)
         /\ SessionOf(c) # Blank /\ OwnSession(c) # Blank
         /\ Agent(c) \in {<<"a1">>, <<"a2">>, <<"MAIN">>, Blank}
         /\ ParentAgent(c) \in {<<"a1">>, <<"MAIN">>, Blank}
<1>1. SessionOf(c) \in {<<"s1">>, <<"s2">>} /\ (c # "other" => SessionOf(c) = <<"s1">>)
  BY DEF SessionOf
<1>2. OwnSession(c) \in {<<"s1">>, <<"s2">>, <<"s3">>, <<"s4">>}
  BY <1>1 DEF OwnSession
<1>3. Agent(c) \in {<<"a1">>, <<"a2">>, <<"MAIN">>, Blank}
  BY DEF Agent, Setting
<1>4. ParentAgent(c) \in {<<"a1">>, <<"MAIN">>, Blank}
  BY DEF ParentAgent, Setting
<1>5. \A a : Blank # <<a>>
  BY DEF BlankApart
<1> QED
  BY <1>1, <1>2, <1>3, <1>4, <1>5

LEMMA NoneNamed ==
  ASSUME NEW names, NEW n \in Nat, DOMAIN names = 1 .. n, NEW value,
         \A i \in 1 .. n : value[names[i]] = Blank
  PROVE  FirstNamed(names, value) = NoRaw
<1>1. {i \in DOMAIN names : value[names[i]] # Blank} = {}
  OBVIOUS
<1> QED
  BY <1>1 DEF FirstNamed

LEMMA OneNamed ==
  ASSUME NEW names, NEW n \in Nat, DOMAIN names = 1 .. n, NEW value,
         NEW k \in 1 .. n, value[names[k]] # Blank,
         \A i \in 1 .. k - 1 : value[names[i]] = Blank
  PROVE  FirstNamed(names, value) = Raw(value[names[k]], names[k])
<1> DEFINE given == {i \in DOMAIN names : value[names[i]] # Blank}
<1>1. k \in given /\ given \subseteq Nat /\ \A j \in given : k <= j
  OBVIOUS
<1>2. Min(given) = k
  <2> HIDE DEF given
  <2> QED
    BY <1>1, LeastIndex
<1>3. given # {}
  BY <1>1
<1> QED
  BY <1>2, <1>3 DEF FirstNamed

\* No session header of their own, no session of the client's in the headers.
LEMMA NoHeaderSession ==
  ASSUME NEW headers, Sent(headers), NEW order \in Orders(headers),
         \A g \in headers : g.name \in bridgeHeaders
  PROVE  /\ fromClaudeCodeHeaders(NewIndex(order)).key = Blank
         /\ fromSessionHeaders(NewIndex(order)).key = Blank
<1> DEFINE idx == NewIndex(order)
<1>1. \A name \in {"claude-session", "session-id", "x-session-id", "x-conversation-id", "x-thread-id"} :
        Get(idx, name) = Blank
  <2>1. \A name \in {"claude-session", "session-id", "x-session-id", "x-conversation-id", "x-thread-id"} :
          \A g \in headers : g.name # name
    BY DEF bridgeHeaders
  <2> QED
    BY <2>1, GetNone
<1> HIDE DEF idx
<1>2. fromClaudeCodeHeaders(idx) = NoRaw
  BY <1>1 DEF fromClaudeCodeHeaders
<1>3. fromSessionHeaders(idx) = NoRaw
  <2> DEFINE value == [n \in Lists!ToSet(sessionHeaders) |-> Get(idx, n)]
  <2>1. DOMAIN sessionHeaders = 1 .. 4 /\ 4 \in Nat
    BY DEF sessionHeaders
  <2>2. \A i \in 1 .. 4 : value[sessionHeaders[i]] = Blank
    <3>1. \A i \in 1 .. 4 : sessionHeaders[i] \in Lists!ToSet(sessionHeaders)
      BY <2>1 DEF Lists!ToSet
    <3>2. \A i \in 1 .. 4 : sessionHeaders[i] \in {"session-id", "x-session-id", "x-conversation-id", "x-thread-id"}
      BY DEF sessionHeaders
    <3> QED
      BY <1>1, <3>1, <3>2
  <2> HIDE DEF value
  <2>3. FirstNamed(sessionHeaders, value) = NoRaw
    BY <2>1, <2>2, NoneNamed
  <2> QED
    BY <2>3 DEF fromSessionHeaders, value
<1> QED
  BY <1>2, <1>3 DEF NoRaw, idx

LEMMA Joins ==
  /\ \A a, b : <<a>> \o <<b>> = <<a, b>>
  /\ \A a : <<a>> \o <<>> = <<a>>
<1>1. SUFFICES ASSUME NEW a, NEW b PROVE <<a>> \o <<b>> = <<a, b>> /\ <<a>> \o <<>> = <<a>>
  OBVIOUS
<1> DEFINE S == {a, b}
           u == <<a>>
           v == <<b>>
           w == u \o v
<1>2. u \in Seq(S) /\ v \in Seq(S) /\ Len(u) = 1 /\ Len(v) = 1 /\ u[1] = a /\ v[1] = b
  OBVIOUS
<1> HIDE DEF u, v, S
<1>3. /\ w \in Seq(S) /\ Len(w) = Len(u) + Len(v)
      /\ \A i \in 1 .. Len(u) + Len(v) : w[i] = IF i <= Len(u) THEN u[i] ELSE v[i - Len(u)]
  BY <1>2, ConcatProperties
<1> HIDE DEF w
<1>4. w[1] = a /\ w[2] = b
  BY <1>2, <1>3
<1>5. w = <<a, b>>
  BY <1>2, <1>3, <1>4
<1>6. u \o <<>> = u
  BY <1>2, ConcatEmptySeq
<1> QED
  BY <1>5, <1>6 DEF u, v, w

LEMMA Scopes ==
  ASSUME BlankApart
  PROVE  /\ isSubagent(<<"a1">>) /\ isSubagent(<<"a2">>)
         /\ ~isSubagent(<<"MAIN">>) /\ ~isSubagent(Blank)
         /\ \A s : scope(<<s>>, <<"a1">>) = <<s, "a1">> /\ scope(<<s>>, <<"a2">>) = <<s, "a2">>
         /\ \A s : scope(<<s>>, <<"MAIN">>) = <<s>> /\ scope(<<s>>, Blank) = <<s>>
<1>1. /\ isSubagent(<<"a1">>) /\ isSubagent(<<"a2">>)
      /\ ~isSubagent(<<"MAIN">>) /\ ~isSubagent(Blank)
  <2>1. Blank # <<"a1">> /\ Blank # <<"a2">>
    BY DEF BlankApart
  <2>2. <<"a1">> \notin MainAgents /\ <<"a2">> \notin MainAgents /\ <<"MAIN">> \in MainAgents
    <3>1. \A x, y : <<x>> = <<y>> => x = y
      OBVIOUS
    <3> QED
      BY <3>1 DEF MainAgents
  <2> QED
    BY <2>1, <2>2 DEF isSubagent
<1> QED
  BY <1>1, Joins DEF scope

\* The identity of a conversation named on the wire.
LEMMA NamedIdentity ==
  ASSUME BlankApart, Setting, NEW c \in Convs, style[c] \notin {"none", "content"},
         NEW raw, raw.key = Material(c), raw.source = Source(c),
         raw.parent = IF c \in Subagents THEN ParentMaterial(c) ELSE Blank,
         c \notin Subagents => ~isSubagent(raw.agent)
  PROVE  identity(raw) = IdOf(c)
<1> DEFINE named == raw.parent # Blank /\ <<raw.source, raw.parent>> # <<raw.source, raw.key>>
<1>1. Material(c) # Blank /\ ParentMaterial(c) # Blank
  BY NamedApart DEF Material, ParentMaterial, BlankApart
<1>2. c \in Subagents => ParentMaterial(c) # Material(c)
  <2>1. SUFFICES ASSUME c \in Subagents PROVE ParentMaterial(c) # Material(c)
    OBVIOUS
  <2>2. CASE style[c] = "nested"
    <3>1. Material(c) = IF c = "child" THEN <<"s3">> ELSE <<"s4">>
      BY <2>1, <2>2 DEF Material, OwnSession, Subagents
    <3> QED
      BY <2>1, <3>1 DEF ParentMaterial
  <2>3. CASE style[c] # "nested"
    <3>1. Material(c) = IF c = "child" THEN <<"s1", "a1">> ELSE <<"s1", "a2">>
      BY <2>1, <2>3 DEF Material, Agent, Subagents
    <3> QED
      BY <2>1, <2>3, <3>1 DEF ParentMaterial
  <2> QED
    BY <2>2, <2>3
<1>3. \A s, x, y : <<s, x>> = <<s, y>> => x = y
  OBVIOUS
<1>4. named <=> c \in Subagents
  BY <1>1, <1>2, <1>3
<1>5. identity(raw) = [key |-> <<raw.source, raw.key>>,
                       parent |-> IF named THEN <<raw.source, raw.parent>> ELSE <<>>,
                       subagent |-> named \/ isSubagent(raw.agent)]
  BY <1>1 DEF identity
<1>6. (named \/ isSubagent(raw.agent)) = (c \in Subagents)
  BY <1>4
<1>7. (IF named THEN <<raw.source, raw.parent>> ELSE <<>>)
         = IF c \in Subagents THEN <<Source(c), ParentMaterial(c)>> ELSE <<>>
  BY <1>4
<1>8. IdOf(c) = [key |-> <<Source(c), Material(c)>>,
                 parent |-> IF c \in Subagents THEN <<Source(c), ParentMaterial(c)>> ELSE <<>>,
                 subagent |-> c \in Subagents]
  BY DEF IdOf
<1> HIDE DEF named
<1>9. identity(raw) = [key |-> <<Source(c), Material(c)>>,
                       parent |-> IF c \in Subagents THEN <<Source(c), ParentMaterial(c)>> ELSE <<>>,
                       subagent |-> c \in Subagents]
  BY <1>5, <1>6, <1>7, Zenon
<1> QED
  BY <1>8, <1>9

LEMMA ClaudeExtract ==
  ASSUME BlankApart, Setting, NEW c \in Convs, style[c] = "claude",
         NEW headers, Sent(headers), Own(headers, c), NEW order \in Orders(headers),
         NEW body, body.json \in BOOLEAN
  PROVE  Extract(order, body) = IdOf(c)
<1> DEFINE idx == NewIndex(order)
           raw == fromClaudeCodeHeaders(idx)
           hs == Header("claude-session", SessionOf(c))
           ha == Header("claude-agent", Agent(c))
           hp == Header("claude-parent", ParentAgent(c))
<1>1. hs \in headers /\ ha \in headers /\ hp \in headers
  BY DEF Own, ClientHeaders
<1>2. /\ hs.name = "claude-session" /\ hs.values = <<SessionOf(c)>>
      /\ ha.name = "claude-agent" /\ ha.values = <<Agent(c)>>
      /\ hp.name = "claude-parent" /\ hp.values = <<ParentAgent(c)>>
  BY DEF Header
<1>3. \A g \in headers : g \in {hs, ha, hp} \/ g.name \in {"pacer-key", "pacer-parent", "pacer-subagent"}
  BY ForgedNames DEF Own, ClientHeaders, bridgeHeaders
<1> HIDE DEF hs, ha, hp, idx
<1>4. Get(idx, "claude-session") = SessionOf(c)
  <2>1. \A g \in headers : g.name = "claude-session" => g = hs
    BY <1>2, <1>3
  <2> QED
    BY <1>1, <1>2, <2>1, GetOne DEF idx
<1>5. Get(idx, "claude-agent") = Agent(c)
  <2>1. \A g \in headers : g.name = "claude-agent" => g = ha
    BY <1>2, <1>3
  <2> QED
    BY <1>1, <1>2, <2>1, GetOne DEF idx
<1>6. Get(idx, "claude-parent") = ParentAgent(c)
  <2>1. \A g \in headers : g.name = "claude-parent" => g = hp
    BY <1>2, <1>3
  <2> QED
    BY <1>1, <1>2, <2>1, GetOne DEF idx
<1>7. raw = [key |-> scope(SessionOf(c), Agent(c)), agent |-> Agent(c), source |-> "claude-session",
             parent |-> IF ParentAgent(c) # Blank THEN scope(SessionOf(c), ParentAgent(c))
                        ELSE IF isSubagent(Agent(c)) THEN SessionOf(c) ELSE Blank]
  BY <1>4, <1>5, <1>6, NamedApart DEF fromClaudeCodeHeaders
<1>8. raw.key = Material(c)
  <2>1. raw.key = scope(SessionOf(c), Agent(c))
    BY <1>7
  <2>2. CASE c \in Subagents
    <3>1. SessionOf(c) = <<"s1">> /\ Agent(c) = (IF c = "child" THEN <<"a1">> ELSE <<"a2">>)
      BY <2>2, NamedApart DEF Agent, Subagents
    <3>2. Material(c) = IF c = "child" THEN <<"s1", "a1">> ELSE <<"s1", "a2">>
      BY <2>2 DEF Material, Agent, Subagents
    <3> QED
      BY <2>1, <3>1, <3>2, Scopes
  <2>3. CASE c \notin Subagents
    <3>1. c \in {"root", "other"}
      BY <2>3 DEF Convs, Subagents
    <3>2. Agent(c) \in {<<"MAIN">>, Blank} /\ Material(c) = SessionOf(c)
      BY <3>1 DEF Agent, Material, OwnSession, Setting
    <3> QED
      BY <2>1, <3>2, Scopes, NamedApart
  <2> QED
    BY <2>2, <2>3
<1>9. raw.parent = IF c \in Subagents THEN ParentMaterial(c) ELSE Blank
  <2>1. CASE c = "child"
    <3>1. /\ SessionOf(c) = <<"s1">> /\ Agent(c) = <<"a1">> /\ ParentAgent(c) \in {<<"MAIN">>, Blank}
          /\ ParentMaterial(c) = <<"s1">> /\ c \in Subagents
      BY <2>1, NamedApart DEF Agent, ParentAgent, ParentMaterial, Subagents, Setting
    <3> QED
      BY <1>7, <3>1, Scopes
  <2>2. CASE c = "grand"
    <3>1. /\ SessionOf(c) = <<"s1">> /\ ParentAgent(c) = <<"a1">> /\ <<"a1">> # Blank
          /\ ParentMaterial(c) = <<"s1", "a1">> /\ c \in Subagents
      BY <2>2, NamedApart DEF ParentAgent, ParentMaterial, Subagents, BlankApart
    <3> QED
      BY <1>7, <3>1, Scopes
  <2>3. CASE c \in {"root", "other"}
    <3>1. Agent(c) \in {<<"MAIN">>, Blank} /\ ParentAgent(c) = Blank /\ c \notin Subagents
      BY <2>3 DEF Agent, ParentAgent, Subagents, Setting
    <3> QED
      BY <1>7, <3>1, Scopes
  <2> QED
    BY <2>1, <2>2, <2>3 DEF Convs
<1>10. raw.source = Source(c) /\ raw.agent = Agent(c)
  BY <1>7 DEF Source
<1>11. c \notin Subagents => ~isSubagent(Agent(c))
  BY Scopes DEF Agent, Subagents, Setting, Convs
<1>12. raw.key # Blank
  BY <1>8, NamedApart DEF Material, BlankApart
<1> HIDE DEF raw
<1>13. identity(raw) = IdOf(c)
  BY <1>8, <1>9, <1>10, <1>11, NamedIdentity
<1> QED
  BY <1>12, <1>13, ExtractFirst DEF raw, idx

LEMMA HeaderExtract ==
  ASSUME BlankApart, Setting, NEW c \in Convs, style[c] = "header", c \notin Subagents,
         NEW headers, Sent(headers), Own(headers, c), NEW order \in Orders(headers),
         NEW body, body.json \in BOOLEAN
  PROVE  Extract(order, body) = IdOf(c)
<1> DEFINE idx == NewIndex(order)
           x == [name |-> "x-session-id", spelling |-> 1, values |-> <<Blank, SessionOf(c)>>]
           y == [name |-> "x-session-id", spelling |-> 2, values |-> <<<<"s9">>>>]
           z == [name |-> "session-id", spelling |-> 1, values |-> <<Blank>>]
<1>1. x \in headers /\ y \in headers /\ z \in headers
  BY DEF Own, ClientHeaders
<1>2. /\ x.name = "x-session-id" /\ x.spelling = 1 /\ x.values = <<Blank, SessionOf(c)>>
      /\ y.name = "x-session-id" /\ y.spelling = 2
      /\ z.name = "session-id" /\ z.values = <<Blank>>
  OBVIOUS
<1>3. \A g \in headers : g \in {x, y, z} \/ g.name \in {"pacer-key", "pacer-parent", "pacer-subagent"}
  BY ForgedNames DEF Own, ClientHeaders, bridgeHeaders
<1> HIDE DEF x, y, z, idx
<1>4. Get(idx, "session-id") = Blank
  <2>1. \A g \in headers : g.name = "session-id" => g = z
    BY <1>2, <1>3
  <2> QED
    BY <1>1, <1>2, <2>1, GetOne DEF idx
<1>5. Get(idx, "claude-session") = Blank
  <2>1. \A g \in headers : g.name # "claude-session"
    BY <1>2, <1>3
  <2> QED
    BY <2>1, GetNone DEF idx
<1>6. FirstValue(x.values) = SessionOf(c) /\ SessionOf(c) # Blank
  <2> DEFINE given == {i \in DOMAIN x.values : x.values[i] # Blank}
  <2>1. SessionOf(c) # Blank
    BY NamedApart
  <2>2. DOMAIN x.values = {1, 2} /\ x.values[1] = Blank /\ x.values[2] = SessionOf(c)
    BY <1>2
  <2>3. given = {2}
    BY <2>1, <2>2
  <2>4. Min({2}) = 2
    BY LeastIndex
  <2> HIDE DEF given
  <2>5. x.values[Min(given)] = SessionOf(c) /\ given # {}
    BY <2>2, <2>3, <2>4
  <2> QED
    BY <2>1, <2>5 DEF FirstValue, given
<1>7. Get(idx, "x-session-id") = SessionOf(c)
  <2>1. /\ Len(order) \in Nat
        /\ \A g : g \in headers <=> \E i \in 1 .. Len(order) : order[i] = g
    BY OrderCovers DEF Sent
  <2>2. \A g \in headers : g.spelling \in Nat
    BY DEF Sent
  <2>3. Supplies(x, "x-session-id")
    BY <1>2, <1>6 DEF Supplies
  <2>4. \A g \in headers : Supplies(g, "x-session-id") => g \in {x, y}
    BY <1>2, <1>3 DEF Supplies
  <2>5. \A g \in headers : Supplies(g, "x-session-id") =>
          x.spelling <= g.spelling /\ (g.spelling = x.spelling => g = x)
    BY <1>2, <2>4
  <2>6. Get(idx, "x-session-id") = FirstValue(x.values)
    BY <1>1, <2>1, <2>2, <2>3, <2>5, GetLowest DEF idx
  <2> QED
    BY <1>6, <2>6
<1>8. fromClaudeCodeHeaders(idx).key = Blank
  BY <1>5 DEF fromClaudeCodeHeaders, NoRaw
<1>9. fromSessionHeaders(idx) = Raw(SessionOf(c), "x-session-id")
  <2> DEFINE value == [n \in Lists!ToSet(sessionHeaders) |-> Get(idx, n)]
  <2>1. /\ DOMAIN sessionHeaders = 1 .. 4 /\ 4 \in Nat
        /\ sessionHeaders[1] = "session-id" /\ sessionHeaders[2] = "x-session-id"
    BY DEF sessionHeaders
  <2>2. \A i \in 1 .. 4 : sessionHeaders[i] \in Lists!ToSet(sessionHeaders)
    BY <2>1 DEF Lists!ToSet
  <2>3. value["session-id"] = Blank /\ value["x-session-id"] = SessionOf(c)
    BY <1>4, <1>7, <2>1, <2>2
  <2> HIDE DEF value
  <2>4. 2 \in 1 .. 4 /\ \A i \in 1 .. 2 - 1 : i = 1
    OBVIOUS
  <2>5. value[sessionHeaders[2]] # Blank /\ \A i \in 1 .. 2 - 1 : value[sessionHeaders[i]] = Blank
    BY <1>6, <2>1, <2>3, <2>4
  <2>6. FirstNamed(sessionHeaders, value) = Raw(value[sessionHeaders[2]], sessionHeaders[2])
    BY <2>1, <2>4, <2>5, OneNamed
  <2> QED
    BY <2>1, <2>3, <2>6 DEF fromSessionHeaders, value
<1> DEFINE raw == Raw(SessionOf(c), "x-session-id")
<1>10. /\ raw.key = SessionOf(c) /\ raw.source = "x-session-id"
       /\ raw.parent = Blank /\ raw.agent = Blank
  BY DEF Raw, NoRaw
<1>11. c \in {"root", "other"}
  BY DEF Convs, Subagents
<1>12. raw.key = Material(c) /\ raw.source = Source(c)
  BY <1>10, <1>11 DEF Material, OwnSession, Source
<1> HIDE DEF raw
<1>13. identity(raw) = IdOf(c)
  BY <1>10, <1>12, Scopes, NamedIdentity
<1> QED
  BY <1>6, <1>8, <1>9, <1>10, <1>13, ExtractFirst DEF raw, idx

\* Where the headers name no session, the body's rules decide.
LEMMA BodyExtract ==
  ASSUME NEW c \in Convs, style[c] \notin {"claude", "header"},
         NEW headers, Sent(headers), Own(headers, c), NEW order \in Orders(headers),
         NEW body, body.json \in BOOLEAN
  PROVE  /\ ~body.json => Extract(order, body) = NoIdentity
         /\ body.json /\ fromUserID(body.user).key # Blank =>
              Extract(order, body) = identity(fromUserID(body.user))
         /\ body.json /\ fromUserID(body.user).key = Blank /\ fromBodyIDs(body.fields).key # Blank =>
              Extract(order, body) = identity(fromBodyIDs(body.fields))
         /\ body.json /\ fromUserID(body.user).key = Blank /\ fromBodyIDs(body.fields).key = Blank =>
              Extract(order, body) = fromContent(body)
<1>1. \A g \in headers : g.name \in bridgeHeaders
  BY ForgedNames DEF Own, ClientHeaders
<1>2. /\ fromClaudeCodeHeaders(NewIndex(order)).key = Blank
      /\ fromSessionHeaders(NewIndex(order)).key = Blank
  BY <1>1, NoHeaderSession
<1> QED
  BY <1>2, ExtractFirst

LEMMA UserExtract ==
  ASSUME BlankApart, Setting, NEW c \in Convs, style[c] \in {"shared", "nested"},
         NEW headers, Sent(headers), Own(headers, c), NEW order \in Orders(headers),
         NEW n
  PROVE  Extract(order, ClientBody(c, n)) = IdOf(c)
<1> DEFINE body == ClientBody(c, n)
           user == UserID(c)
           raw == fromUserID(user)
<1>1. body.json = TRUE /\ body.user = user
  BY DEF ClientBody
<1>2. CASE style[c] = "shared"
  <2>1. user = [shape |-> "object", session |-> SessionOf(c), parent |-> Blank, agent |-> Agent(c)]
    BY <1>2 DEF UserID
  <2>2. SessionOf(c) # Blank
    BY NamedApart
  <2> HIDE DEF user
  <2>3. raw = [key |-> scope(SessionOf(c), Agent(c)),
               parent |-> IF isSubagent(Agent(c)) THEN SessionOf(c) ELSE Blank,
               agent |-> Agent(c), source |-> "user_id"]
    BY <2>1, <2>2 DEF fromUserID
  <2>4. raw.key = Material(c)
    <3>1. CASE c \in Subagents
      <4>1. SessionOf(c) = <<"s1">> /\ Agent(c) = (IF c = "child" THEN <<"a1">> ELSE <<"a2">>)
        BY <3>1, NamedApart DEF Agent, Subagents
      <4>2. Material(c) = IF c = "child" THEN <<"s1", "a1">> ELSE <<"s1", "a2">>
        BY <1>2, <3>1 DEF Material, Agent, Subagents
      <4> QED
        BY <2>3, <4>1, <4>2, Scopes
    <3>2. CASE c \notin Subagents
      <4>1. c \in {"root", "other"}
        BY <3>2 DEF Convs, Subagents
      <4>2. Agent(c) \in {<<"MAIN">>, Blank} /\ Material(c) = SessionOf(c)
        BY <4>1 DEF Agent, Material, OwnSession, Setting
      <4> QED
        BY <2>3, <4>2, Scopes, NamedApart
    <3> QED
      BY <3>1, <3>2
  <2>5. raw.parent = IF c \in Subagents THEN ParentMaterial(c) ELSE Blank
    <3>1. CASE c \in Subagents
      <4>1. SessionOf(c) = <<"s1">> /\ Agent(c) \in {<<"a1">>, <<"a2">>} /\ ParentMaterial(c) = <<"s1">>
        BY <1>2, <3>1, NamedApart DEF Agent, ParentMaterial, Subagents
      <4> QED
        BY <2>3, <3>1, <4>1, Scopes
    <3>2. CASE c \notin Subagents
      <4>1. Agent(c) \in {<<"MAIN">>, Blank}
        BY <3>2 DEF Agent, Subagents, Setting, Convs
      <4> QED
        BY <2>3, <3>2, <4>1, Scopes
    <3> QED
      BY <3>1, <3>2
  <2>6. raw.source = Source(c) /\ raw.agent = Agent(c)
    BY <1>2, <2>3 DEF Source
  <2>7. c \notin Subagents => ~isSubagent(Agent(c))
    BY Scopes DEF Agent, Subagents, Setting, Convs
  <2>8. raw.key # Blank
    BY <2>4, NamedApart DEF Material, BlankApart
  <2> HIDE DEF raw, body
  <2>9. identity(raw) = IdOf(c)
    BY <1>2, <2>4, <2>5, <2>6, <2>7, NamedIdentity
  <2>10. body.json \in BOOLEAN
    BY <1>1
  <2>11. Extract(order, body) = identity(raw)
    <3> HIDE DEF user
    <3> QED
      BY <1>1, <1>2, <2>8, <2>10, BodyExtract DEF raw
  <2> QED
    BY <2>9, <2>11 DEF body
<1>3. CASE style[c] = "nested"
  <2> DEFINE parent == CASE c = "child" -> SessionOf("root") [] c = "grand" -> OwnSession("child")
                         [] OTHER -> Blank
  <2>1. user = [shape |-> "quoted", session |-> OwnSession(c), agent |-> Agent(c), parent |-> parent]
    BY <1>3 DEF UserID
  <2>2. OwnSession(c) # Blank
    BY NamedApart
  <2>3. parent = IF c \in Subagents THEN ParentMaterial(c) ELSE Blank
    <3>1. SessionOf("root") = <<"s1">>
      BY DEF SessionOf
    <3> QED
      BY <1>3, <3>1 DEF Subagents, ParentMaterial, OwnSession
  <2>4. c \in Subagents => ParentMaterial(c) # Blank
    BY DEF ParentMaterial, BlankApart
  <2>5. c \notin Subagents => ~isSubagent(Agent(c))
    BY Scopes DEF Agent, Subagents, Setting, Convs
  <2> HIDE DEF user, parent
  <2>6. raw = [key |-> IF parent = Blank THEN scope(OwnSession(c), Agent(c)) ELSE OwnSession(c),
               parent |-> IF parent # Blank THEN parent
                          ELSE IF isSubagent(Agent(c)) THEN OwnSession(c) ELSE Blank,
               agent |-> Agent(c), source |-> "user_id"]
    BY <2>1, <2>2 DEF fromUserID
  <2>7. Material(c) = OwnSession(c)
    BY <1>3 DEF Material
  <2>8. raw.key = Material(c)
    <3>1. CASE c \in Subagents
      BY <2>3, <2>4, <2>6, <2>7, <3>1
    <3>2. CASE c \notin Subagents
      BY <2>3, <2>5, <2>6, <2>7, <3>2 DEF scope
    <3> QED
      BY <3>1, <3>2
  <2>9. raw.parent = IF c \in Subagents THEN ParentMaterial(c) ELSE Blank
    BY <2>3, <2>4, <2>5, <2>6
  <2>10. raw.source = Source(c) /\ raw.agent = Agent(c)
    BY <1>3, <2>6 DEF Source
  <2>11. raw.key # Blank
    BY <2>2, <2>7, <2>8
  <2> HIDE DEF raw, body
  <2>12. identity(raw) = IdOf(c)
    BY <1>3, <2>5, <2>8, <2>9, <2>10, NamedIdentity
  <2>13. body.json \in BOOLEAN
    BY <1>1
  <2>14. Extract(order, body) = identity(raw)
    BY <1>1, <1>3, <2>11, <2>13, BodyExtract DEF raw
  <2> QED
    BY <2>12, <2>14 DEF body
<1> QED
  BY <1>2, <1>3

LEMMA BodyFields ==
  /\ DOMAIN bodyFields = 1 .. 6 /\ 6 \in Nat
  /\ bodyFields[5] = "conversation_id"
  /\ \A i \in 1 .. 6 : bodyFields[i] \in Lists!ToSet(bodyFields)
  /\ \A i \in 1 .. 4 : bodyFields[i] # "conversation_id"
<1>1. /\ DOMAIN bodyFields = 1 .. 6 /\ 6 \in Nat
      /\ bodyFields[5] = "conversation_id"
  BY DEF bodyFields
<1>2. /\ bodyFields[1] # "conversation_id" /\ bodyFields[2] # "conversation_id"
      /\ bodyFields[3] # "conversation_id" /\ bodyFields[4] # "conversation_id"
  BY DEF bodyFields
<1>3. \A i \in 1 .. 4 : i = 1 \/ i = 2 \/ i = 3 \/ i = 4
  OBVIOUS
<1>4. \A i \in 1 .. 6 : bodyFields[i] \in Lists!ToSet(bodyFields)
  BY <1>1 DEF Lists!ToSet
<1> QED
  BY <1>1, <1>2, <1>3, <1>4

\* A bare session: the account string's suffix, or a field of the body.
LEMMA BareExtract ==
  ASSUME BlankApart, Setting, NEW c \in Convs, style[c] \in {"suffixed", "field"}, c \notin Subagents,
         NEW headers, Sent(headers), Own(headers, c), NEW order \in Orders(headers),
         NEW n
  PROVE  Extract(order, ClientBody(c, n)) = IdOf(c)
<1> DEFINE body == ClientBody(c, n)
           value == [f \in Lists!ToSet(bodyFields) |->
                       IF style[c] = "field" /\ f = "conversation_id" THEN SessionOf(c) ELSE Blank]
           raw == Raw(SessionOf(c), Source(c))
<1>1. body.json = TRUE /\ body.user = UserID(c) /\ body.fields = value
  BY DEF ClientBody
<1>2. SessionOf(c) # Blank /\ c \in {"root", "other"}
  BY NamedApart DEF Convs, Subagents
<1>3. /\ raw.key = SessionOf(c) /\ raw.source = Source(c)
      /\ raw.parent = Blank /\ raw.agent = Blank
  BY DEF Raw, NoRaw
<1>4. raw.key = Material(c) /\ raw.key # Blank
  BY <1>2, <1>3 DEF Material, OwnSession
<1>5. identity(raw) = IdOf(c)
  <2> HIDE DEF raw
  <2> QED
    BY <1>2, <1>3, <1>4, Scopes, NamedIdentity DEF Subagents
<1>6. CASE style[c] = "suffixed"
  <2>1. fromUserID(UserID(c)) = raw
    BY <1>6 DEF UserID, fromUserID, Source
  <2> HIDE DEF raw, body, value
  <2>2. body.json \in BOOLEAN
    BY <1>1
  <2>3. Extract(order, body) = identity(raw)
    BY <1>1, <1>4, <1>6, <2>1, <2>2, BodyExtract
  <2> QED
    BY <1>5, <2>3 DEF body
<1>7. CASE style[c] = "field"
  <2>1. fromUserID(UserID(c)) = NoRaw
    BY <1>7 DEF UserID, fromUserID
  <2>2. fromUserID(UserID(c)).key = Blank
    BY <2>1 DEF NoRaw
  <2>3. value["conversation_id"] = SessionOf(c)
    BY <1>7, BodyFields
  <2>4. \A i \in 1 .. 4 : value[bodyFields[i]] = Blank
    <3>1. \A i \in 1 .. 4 : i \in 1 .. 6
      OBVIOUS
    <3> QED
      BY <3>1, BodyFields
  <2>5. fromBodyIDs(value) = raw
    <3> HIDE DEF value
    <3>1. 5 \in 1 .. 6 /\ 5 - 1 = 4
      OBVIOUS
    <3>2. value[bodyFields[5]] # Blank
      BY <1>2, <2>3, BodyFields
    <3>3. FirstNamed(bodyFields, value) = Raw(value[bodyFields[5]], bodyFields[5])
      <4>1. \A i \in 1 .. 5 - 1 : value[bodyFields[i]] = Blank
        BY <2>4
      <4>2. DOMAIN bodyFields = 1 .. 6 /\ 6 \in Nat /\ 5 \in 1 .. 6
        BY BodyFields
      <4> QED
        BY <3>2, <4>1, <4>2, OneNamed
    <3>4. Source(c) = "conversation_id"
      BY <1>7 DEF Source
    <3> QED
      BY <2>3, <3>3, <3>4, BodyFields DEF fromBodyIDs
  <2> HIDE DEF raw, body, value
  <2>6. body.json \in BOOLEAN
    BY <1>1
  <2>7. Extract(order, body) = identity(raw)
    BY <1>1, <1>4, <1>7, <2>2, <2>5, <2>6, BodyExtract
  <2> QED
    BY <1>5, <2>7 DEF body
<1> QED
  BY <1>6, <1>7

-----------------------------------------------------------------------------
(* Conversations known by their content *)

LEMMA ChosenSteps ==
  ASSUME NEW seq, NEW keep, Len(seq) \in Nat
  PROVE  \E f : /\ Chosen(seq, keep) = f[Len(seq)]
                /\ f[0] = <<>>
                /\ \A n \in 1 .. Len(seq) : f[n] = Take(f[n - 1], seq, keep, n)
<1> DEFINE N == Len(seq)
           Step(f, n) == IF n = 0 THEN <<>> ELSE Take(f[n - 1], seq, keep, n)
           Upto(k, f) == f = [n \in 0 .. k |-> Step(f, n)]
           Bad == {k \in 0 .. N : ~ \E f : Upto(k, f)}
           R == {p \in Nat \X Nat : p[1] < p[2]}
           out[n \in 0 .. N] == IF n = 0 THEN <<>> ELSE Take(out[n - 1], seq, keep, n)
<1>1. Bad = {}
  <2>1. SUFFICES ASSUME Bad # {} PROVE FALSE
    OBVIOUS
  <2>2. PICK k \in Bad : \A y \in Bad : ~(<<y, k>> \in R)
    <3>1. IsWellFoundedOn(R, Nat)
      BY NatLessThanWellFounded, Zenon DEF OpToRel
    <3>2. Bad \subseteq Nat
      OBVIOUS
    <3> HIDE DEF Bad, R
    <3> QED
      BY <2>1, <3>1, <3>2, WFMin
  <2>3. k # 0
    <3>1. Upto(0, [n \in 0 .. 0 |-> <<>>])
      BY DEF Step
    <3> QED
      BY <3>1
  <2>4. k \in 0 .. N /\ k - 1 \in 0 .. N /\ k \in Nat /\ k - 1 \in Nat
    BY <2>3
  <2>5. k - 1 \notin Bad
    <3>1. <<k - 1, k>> \in R
      BY <2>4
    <3> QED
      BY <2>2, <3>1
  <2>6. PICK f : Upto(k - 1, f)
    BY <2>4, <2>5
  <2> DEFINE g == [n \in 0 .. k |-> IF n = k THEN Take(f[k - 1], seq, keep, k) ELSE f[n]]
  <2>7. \A n \in 0 .. k - 1 : g[n] = f[n] /\ f[n] = Step(f, n)
    <3>1. \A n \in 0 .. k - 1 : f[n] = Step(f, n)
      <4> HIDE DEF Step
      <4> QED
        BY <2>6
    <3>2. \A n \in 0 .. k - 1 : n \in 0 .. k /\ n # k
      BY <2>4
    <3>3. \A n \in 0 .. k - 1 : g[n] = f[n]
      BY <3>2
    <3> QED
      BY <3>1, <3>3
  <2>8. g[k] = Step(g, k)
    BY <2>3, <2>4, <2>7
  <2>9. \A n \in 0 .. k - 1 : g[n] = Step(g, n)
    BY <2>4, <2>7
  <2>10. Upto(k, g)
    <3>1. g = [n \in 0 .. k |-> g[n]]
      OBVIOUS
    <3>2. \A n \in 0 .. k : g[n] = Step(g, n)
      BY <2>4, <2>8, <2>9
    <3> HIDE DEF g, Step
    <3> QED
      BY <3>1, <3>2
  <2> QED
    BY <2>2, <2>10
<1>2. PICK f : Upto(N, f)
  BY <1>1
<1>3. out = CHOOSE g : Upto(N, g)
  OBVIOUS
<1>4. Upto(N, out)
  BY <1>2, <1>3
<1>5. Chosen(seq, keep) = out[N]
  BY DEF Chosen
<1>6. out[0] = <<>> /\ \A n \in 1 .. N : out[n] = Take(out[n - 1], seq, keep, n)
  <2> HIDE DEF out, Step
  <2>1. \A n \in 0 .. N : out[n] = Step(out, n)
    BY <1>4
  <2>2. 0 \in 0 .. N /\ \A n \in 1 .. N : n \in 0 .. N /\ n # 0
    OBVIOUS
  <2> QED
    BY <2>1, <2>2 DEF Step
<1> HIDE DEF out
<1> QED
  BY <1>5, <1>6

LEMMA Appends ==
  /\ \A a : Append(<<>>, a) = <<a>>
  /\ \A a, b : Append(<<a>>, b) = <<a, b>>
<1>1. SUFFICES ASSUME NEW a, NEW b PROVE Append(<<>>, a) = <<a>> /\ Append(<<a>>, b) = <<a, b>>
  OBVIOUS
<1>2. <<a>> \in Seq({a, b}) /\ a \in {a, b} /\ b \in {a, b} /\ <<>> \in Seq({a, b})
  OBVIOUS
<1>3. Append(<<a>>, b) = <<a>> \o <<b>>
  BY <1>2, AppendIsConcat
<1>4. Append(<<>>, a) = <<>> \o <<a>>
  BY <1>2, AppendIsConcat
<1>5. <<>> \o <<a>> = <<a>>
  BY <1>2, ConcatEmptySeq
<1> QED
  BY <1>3, <1>4, <1>5, Joins

LEMMA ChosenOne ==
  ASSUME NEW a, NEW keep, 1 \in keep
  PROVE  Chosen(<<a>>, keep) = <<a>>
<1> DEFINE s == <<a>>
<1>1. Len(s) = 1 /\ s[1] = a
  OBVIOUS
<1> HIDE DEF s
<1>2. PICK f : /\ Chosen(s, keep) = f[Len(s)]
               /\ f[0] = <<>>
               /\ \A n \in 1 .. Len(s) : f[n] = Take(f[n - 1], s, keep, n)
  <2>1. Len(s) \in Nat
    BY <1>1
  <2> QED
    BY <2>1, ChosenSteps
<1>3. f[1] = Take(f[0], s, keep, 1) /\ Chosen(s, keep) = f[1]
  BY <1>1, <1>2
<1>4. f[1] = Append(<<>>, a)
  BY <1>1, <1>2, <1>3 DEF Take
<1> QED
  BY <1>3, <1>4, Appends DEF s

LEMMA ChosenTwo ==
  ASSUME NEW a, NEW b, NEW keep
  PROVE  /\ 1 \in keep /\ 2 \in keep => Chosen(<<a, b>>, keep) = <<a, b>>
         /\ 1 \in keep /\ 2 \notin keep => Chosen(<<a, b>>, keep) = <<a>>
         /\ 1 \notin keep /\ 2 \in keep => Chosen(<<a, b>>, keep) = <<b>>
<1> DEFINE s == <<a, b>>
<1>1. Len(s) = 2 /\ s[1] = a /\ s[2] = b
  OBVIOUS
<1> HIDE DEF s
<1>2. PICK f : /\ Chosen(s, keep) = f[Len(s)]
               /\ f[0] = <<>>
               /\ \A n \in 1 .. Len(s) : f[n] = Take(f[n - 1], s, keep, n)
  <2>1. Len(s) \in Nat
    BY <1>1
  <2> QED
    BY <2>1, ChosenSteps
<1>3. /\ f[1] = Take(f[0], s, keep, 1) /\ f[2] = Take(f[1], s, keep, 2)
      /\ Chosen(s, keep) = f[2]
  BY <1>1, <1>2
<1>4. (1 \in keep => f[1] = <<a>>) /\ (1 \notin keep => f[1] = <<>>)
  BY <1>1, <1>2, <1>3, Appends DEF Take
<1>5. (2 \in keep => f[2] = Append(f[1], b)) /\ (2 \notin keep => f[2] = f[1])
  BY <1>1, <1>3 DEF Take
<1> QED
  BY <1>3, <1>4, <1>5, Appends DEF s

LEMMA ChosenThree ==
  ASSUME NEW a, NEW b, NEW c, NEW keep, 1 \notin keep, 2 \in keep, 3 \in keep
  PROVE  Chosen(<<a, b, c>>, keep) = <<b, c>>
<1> DEFINE s == <<a, b, c>>
<1>1. Len(s) = 3 /\ s[1] = a /\ s[2] = b /\ s[3] = c
  OBVIOUS
<1> HIDE DEF s
<1>2. PICK f : /\ Chosen(s, keep) = f[Len(s)]
               /\ f[0] = <<>>
               /\ \A n \in 1 .. Len(s) : f[n] = Take(f[n - 1], s, keep, n)
  <2>1. Len(s) \in Nat
    BY <1>1
  <2> QED
    BY <2>1, ChosenSteps
<1>3. /\ f[1] = Take(f[0], s, keep, 1) /\ f[2] = Take(f[1], s, keep, 2)
      /\ f[3] = Take(f[2], s, keep, 3) /\ Chosen(s, keep) = f[3]
  BY <1>1, <1>2
<1>4. f[1] = <<>>
  BY <1>2, <1>3 DEF Take
<1>5. f[2] = <<b>>
  BY <1>1, <1>3, <1>4, Appends DEF Take
<1>6. f[3] = Append(f[2], c)
  BY <1>1, <1>3 DEF Take
<1> QED
  BY <1>3, <1>5, <1>6, Appends DEF s

LEMMA SystemSection ==
  ASSUME BlankApart, NEW c, NEW n, NEW system, system = ClientBody(c, n).system, marked \in BOOLEAN
  PROVE  /\ Section("system", markedBlocks(blocksOf(system))) = <<<<"system", "text", <<"prompt">>>>>>
         /\ (\E i \in DOMAIN blocksOf(system) : blocksOf(system)[i].mark) <=> marked
<1> DEFINE p(m) == Block("text", <<"prompt">>, m)
           now == Block("text", <<"now", n>>, FALSE)
<1>1. \A m : Section("system", <<p(m)>>) = <<<<"system", "text", <<"prompt">>>>>>
  <2>1. SUFFICES ASSUME NEW m PROVE Section("system", <<p(m)>>) = <<<<"system", "text", <<"prompt">>>>>>
    OBVIOUS
  <2> DEFINE s == <<p(m)>>
             keep == {i \in DOMAIN s : s[i].type # Blank \/ s[i].text # Blank}
  <2>2. s[1].type = "text" /\ s[1].text = <<"prompt">> /\ DOMAIN s = {1}
    BY DEF Block
  <2>3. 1 \in keep
    BY <2>2 DEF BlankApart
  <2>4. Chosen(s, keep) = s
    <3> HIDE DEF keep
    <3> QED
      BY <2>3, ChosenOne
  <2>5. Section("system", s) = [i \in DOMAIN s |-> <<"system", s[i].type, s[i].text>>]
    BY <2>4 DEF Section
  <2>6. [i \in DOMAIN s |-> <<"system", s[i].type, s[i].text>>] = <<<<"system", "text", <<"prompt">>>>>>
    <3> HIDE DEF s
    <3> QED
      BY <2>2
  <2> QED
    BY <2>5, <2>6
<1>2. p(TRUE).mark = TRUE /\ p(FALSE).mark = FALSE /\ now.mark = FALSE
  BY DEF Block
<1>3. p(TRUE).type = "text" /\ now.type = "text"
  BY DEF Block
<1>4. CASE marked
  <2> DEFINE s == <<p(TRUE), now>>
             keep == {i \in DOMAIN s : s[i].type # "mistyped"}
             breakpoints == {i \in DOMAIN s : s[i].mark}
  <2>1. system = Array(s)
    BY <1>4 DEF ClientBody
  <2>2. system.shape = "array" /\ system.entries = s
    <3> HIDE DEF s
    <3> QED
      BY <2>1 DEF Array
  <2>3. DOMAIN s = {1, 2} /\ s[1] = p(TRUE) /\ s[2] = now
    OBVIOUS
  <2> HIDE DEF p, now
  <2>4. 1 \in keep /\ 2 \in keep
    <3> HIDE DEF s
    <3> QED
      BY <1>3, <2>3
  <2>5. Chosen(s, keep) = s
    <3> HIDE DEF keep
    <3> QED
      BY <2>4, ChosenTwo DEF s
  <2>6. blocksOf(system) = s
    BY <2>2, <2>5 DEF blocksOf
  <2>7. 1 \in breakpoints /\ 2 \notin breakpoints
    <3> HIDE DEF s
    <3> QED
      BY <1>2, <2>3
  <2>8. Chosen(s, breakpoints) = <<p(TRUE)>>
    <3> HIDE DEF breakpoints
    <3> QED
      BY <2>7, ChosenTwo DEF s
  <2>9. markedBlocks(s) = <<p(TRUE)>>
    BY <2>7, <2>8 DEF markedBlocks
  <2>10. s[1].mark /\ 1 \in DOMAIN s
    BY <1>2, <2>3
  <2> HIDE DEF s
  <2>11. \E i \in DOMAIN s : s[i].mark
    BY <2>10
  <2> QED
    BY <1>1, <1>4, <2>6, <2>9, <2>11
<1>5. CASE ~marked
  <2>1. system = [shape |-> "text", text |-> <<"prompt">>]
    BY <1>5 DEF ClientBody
  <2>2. blocksOf(system) = <<p(FALSE)>>
    <3>1. system.shape = "text" /\ system.text = <<"prompt">>
      BY <2>1
    <3>2. blocksOf(system) = <<[type |-> "text", text |-> system.text, mark |-> FALSE]>>
      BY <3>1 DEF blocksOf
    <3> QED
      BY <3>1, <3>2 DEF Block
  <2> DEFINE s == <<p(FALSE)>>
  <2>3. DOMAIN s = {1} /\ s[1] = p(FALSE)
    OBVIOUS
  <2>4. \A i \in DOMAIN s : ~s[i].mark
    <3> HIDE DEF s, p
    <3> QED
      BY <1>2, <2>3
  <2>5. markedBlocks(s) = s
    BY <2>4 DEF markedBlocks
  <2> HIDE DEF s, p
  <2>6. blocksOf(system) = s
    BY <2>2 DEF s
  <2> QED
    BY <1>1, <1>5, <2>4, <2>5, <2>6 DEF s
<1> QED
  BY <1>4, <1>5

LEMMA FirstMessage ==
  ASSUME BlankApart, Setting, NEW c \in Convs, NEW n
  PROVE  LET first == firstContentful(ClientBody(c, n).messages)
         IN  /\ first # <<>>
             /\ Section(first[1].role, blocksOf(first[1].content)) = Greeting(c)
<1> DEFINE image == Block("image", Blank, FALSE)
           bad == Block("mistyped", Blank, FALSE)
           hello == Block("text", <<"hello">> \o OwnSession(c), n = 1)
           content == Array(<<bad, image, hello>>)
           m == [role |-> "user", content |-> content]
           more == IF n = 1 THEN <<>>
                   ELSE <<[role |-> "assistant", content |-> [shape |-> "text", text |-> <<"answer">>]],
                          [role |-> "user", content |-> Array(<<Block("text", <<"more", n>>, TRUE)>>)]>>
           messages == <<m>> \o more
<1>1. ClientBody(c, n).messages = messages
  BY DEF ClientBody
<1>2. <<"hello">> \o OwnSession(c) = <<"hello", OwnSession(c)[1]>>
  <2>1. \E x : OwnSession(c) = <<x>>
    BY DEF OwnSession, SessionOf
  <2>2. \A x : <<x>>[1] = x
    OBVIOUS
  <2> QED
    BY <2>1, <2>2, Joins
<1> DEFINE text == <<"hello", OwnSession(c)[1]>>
<1>3. /\ bad.type = "mistyped" /\ image.type = "image" /\ image.text = Blank
      /\ hello.type = "text" /\ hello.text = text
  BY <1>2 DEF Block
<1>4. text # Blank
  BY DEF BlankApart
<1>5. content.shape = "array" /\ content.entries = <<bad, image, hello>>
  BY DEF Array
<1>6. m.role = "user" /\ m.content = content
  OBVIOUS
<1>7. DOMAIN messages \subseteq Nat /\ 1 \in DOMAIN messages /\ messages[1] = m
      /\ \A j \in DOMAIN messages : 1 <= j
  <2> DEFINE S == {m} \cup {more[i] : i \in DOMAIN more}
  <2>1. more \in Seq(S) /\ <<m>> \in Seq(S) /\ Len(<<m>>) = 1 /\ <<m>>[1] = m
    <3> HIDE DEF m
    <3>1. \E a, b : more \in {<<>>, <<a, b>>}
      OBVIOUS
    <3>2. \A a, b : <<a, b>> \in Seq({<<a, b>>[i] : i \in DOMAIN <<a, b>>})
      OBVIOUS
    <3> HIDE DEF more
    <3>3. more \in Seq({more[i] : i \in DOMAIN more})
      <4>1. PICK a, b : more \in {<<>>, <<a, b>>}
        BY <3>1
      <4>2. CASE more = <<>>
        BY <4>2
      <4>3. CASE more = <<a, b>>
        BY <3>2, <4>3
      <4> QED
        BY <4>1, <4>2, <4>3
    <3>4. {more[i] : i \in DOMAIN more} \subseteq S
      OBVIOUS
    <3> HIDE DEF S
    <3>5. more \in Seq(S)
      BY <3>3, <3>4, SeqMonotonic
    <3>6. m \in S
      BY DEF S
    <3>7. <<m>> \in Seq(S)
      BY <3>6
    <3> QED
      BY <3>5, <3>7
  <2> HIDE DEF m, more, S
  <2>2. /\ messages \in Seq(S) /\ Len(messages) = Len(<<m>>) + Len(more)
        /\ \A i \in 1 .. Len(<<m>>) + Len(more) :
             messages[i] = IF i <= Len(<<m>>) THEN <<m>>[i] ELSE more[i - Len(<<m>>)]
    BY <2>1, ConcatProperties
  <2>3. Len(more) \in Nat /\ Len(messages) = 1 + Len(more) /\ DOMAIN messages = 1 .. Len(messages)
    BY <2>1, <2>2, LenProperties
  <2>4. messages[1] = m
    BY <2>1, <2>2, <2>3
  <2> HIDE DEF messages
  <2> QED
    BY <2>3, <2>4
<1> HIDE DEF image, bad, hello, content, more, text
<1>8. blocksOf(content) = <<image, hello>>
  <2> DEFINE s == <<bad, image, hello>>
             keep == {i \in DOMAIN s : s[i].type # "mistyped"}
  <2>1. DOMAIN s = {1, 2, 3} /\ s[1] = bad /\ s[2] = image /\ s[3] = hello
    OBVIOUS
  <2>2. 1 \notin keep /\ 2 \in keep /\ 3 \in keep
    <3> HIDE DEF s
    <3> QED
      BY <1>3, <2>1
  <2>3. Chosen(s, keep) = <<image, hello>>
    <3> HIDE DEF keep
    <3> QED
      BY <2>2, ChosenThree
  <2> QED
    BY <1>5, <2>3 DEF blocksOf
<1>9. hasText(blocksOf(content))
  <2> DEFINE s == <<image, hello>>
  <2>1. 2 \in DOMAIN s /\ s[2] = hello
    OBVIOUS
  <2>2. \E i \in DOMAIN s : s[i].text # Blank
    <3> HIDE DEF s
    <3> QED
      BY <1>3, <1>4, <2>1
  <2> QED
    BY <1>8, <2>2 DEF hasText
<1> HIDE DEF m, messages
<1> DEFINE texts == {i \in DOMAIN messages : hasText(blocksOf(messages[i].content))}
           users == {i \in texts : messages[i].role = "user"}
<1>10. 1 \in users /\ users \subseteq Nat /\ \A j \in users : 1 <= j
  BY <1>6, <1>7, <1>9
<1>11. Min(users) = 1
  <2> HIDE DEF users
  <2> QED
    BY <1>10, LeastIndex
<1>12. firstContentful(messages) = <<m>>
  <2>1. firstContentful(messages) = <<messages[Min(users)]>>
    BY <1>10 DEF firstContentful
  <2> QED
    BY <1>7, <1>11, <2>1
<1>13. Section("user", <<image, hello>>) = Greeting(c)
  <2> DEFINE s == <<image, hello>>
             keep == {i \in DOMAIN s : s[i].type # Blank \/ s[i].text # Blank}
             filled == Chosen(s, keep)
             line(b) == <<"user", b.type, b.text>>
  <2>1. DOMAIN s = {1, 2} /\ s[1] = image /\ s[2] = hello
    OBVIOUS
  <2>2. (1 \in keep <=> "image" # Blank) /\ 2 \in keep
    <3> HIDE DEF s
    <3> QED
      BY <1>3, <1>4, <2>1
  <2>3. filled = IF 1 \in keep THEN <<image, hello>> ELSE <<hello>>
    <3> HIDE DEF keep
    <3> QED
      BY <2>2, ChosenTwo
  <2>4. Section("user", s) = [i \in DOMAIN filled |-> line(filled[i])]
    BY DEF Section
  <2>5. line(image) = <<"user", "image", Blank>> /\ line(hello) = <<"user", "text", text>>
    BY <1>3
  <2> HIDE DEF filled, keep, s
  <2>6. \A a, b : [i \in DOMAIN <<a, b>> |-> line(<<a, b>>[i])] = <<line(a), line(b)>>
    <3> HIDE DEF line
    <3> QED
      OBVIOUS
  <2>7. \A a : [i \in DOMAIN <<a>> |-> line(<<a>>[i])] = <<line(a)>>
    <3> HIDE DEF line
    <3> QED
      OBVIOUS
  <2> HIDE DEF line
  <2>8. Section("user", s) = IF "image" # Blank THEN <<line(image), line(hello)>> ELSE <<line(hello)>>
    BY <2>2, <2>3, <2>4, <2>6, <2>7
  <2> QED
    BY <2>5, <2>8 DEF Greeting, s, text
<1>14. <<m>>[1] = m /\ <<m>> # <<>>
  OBVIOUS
<1> QED
  BY <1>1, <1>6, <1>8, <1>12, <1>13, <1>14

LEMMA ContentExtract ==
  ASSUME BlankApart, Setting, NEW c \in Convs, style[c] = "content",
         NEW headers, Sent(headers), Own(headers, c), NEW order \in Orders(headers),
         NEW n
  PROVE  Extract(order, ClientBody(c, n)) = IdOf(c)
<1> DEFINE body == ClientBody(c, n)
           value == [f \in Lists!ToSet(bodyFields) |->
                       IF style[c] = "field" /\ f = "conversation_id" THEN SessionOf(c) ELSE Blank]
           first == firstContentful(body.messages)
<1>1. body.json = TRUE /\ body.user = UserID(c) /\ body.fields = value
  BY DEF ClientBody
<1>2. fromUserID(UserID(c)).key = Blank
  BY DEF UserID, fromUserID, NoRaw
<1>3. fromBodyIDs(value).key = Blank
  <2>1. \A i \in 1 .. 6 : value[bodyFields[i]] = Blank
    BY BodyFields
  <2> HIDE DEF value
  <2>2. FirstNamed(bodyFields, value) = NoRaw
    BY <2>1, BodyFields, NoneNamed
  <2> QED
    BY <2>2 DEF fromBodyIDs, NoRaw
<1>4. body.json \in BOOLEAN
  BY <1>1
<1>5. Extract(order, body) = fromContent(body)
  <2> HIDE DEF body, value
  <2> QED
    BY <1>1, <1>2, <1>3, <1>4, BodyExtract
<1>6. first # <<>> /\ Section(first[1].role, blocksOf(first[1].content)) = Greeting(c)
  BY FirstMessage
<1>7. /\ Section("system", markedBlocks(blocksOf(body.system))) = <<<<"system", "text", <<"prompt">>>>>>
      /\ (\E i \in DOMAIN blocksOf(body.system) : blocksOf(body.system)[i].mark) <=> marked
  BY SystemSection DEF Setting
<1> HIDE DEF body
<1>8. fromContent(body) = [NoIdentity EXCEPT !.key =
        <<IF marked THEN "cache_control" ELSE "first-message",
          <<<<"system", "text", <<"prompt">>>>>>, Greeting(c)>>]
  BY <1>6, <1>7 DEF fromContent
<1>9. fromContent(body) = IdOf(c)
  BY <1>8 DEF IdOf, NoIdentity
<1> QED
  BY <1>5, <1>9 DEF body

\* The identity of a client's request is the same whatever the turn, the order its
\* headers are visited in and the breakpoints it moves.
LEMMA ClientExtract ==
  ASSUME BlankApart, Setting, NEW c \in Convs, Names(c),
         NEW headers, Sent(headers), Own(headers, c), NEW order \in Orders(headers), NEW n
  PROVE  Extract(order, ClientBody(c, n)) = IdOf(c)
<1>1. style[c] \in {"claude", "header", "shared", "nested", "suffixed", "field", "content", "none"}
  BY IdentityAssumption DEF Setting
<1>2. style[c] \notin Agented => c \notin Subagents
  BY DEF Names, Subagents
<1>3. ClientBody(c, n).json \in BOOLEAN /\ (ClientBody(c, n).json <=> style[c] # "none")
  BY DEF ClientBody
<1>4. CASE style[c] = "claude"
  BY <1>3, <1>4, ClaudeExtract
<1>5. CASE style[c] = "header"
  BY <1>2, <1>3, <1>5, HeaderExtract DEF Agented
<1>6. CASE style[c] \in {"shared", "nested"}
  BY <1>6, UserExtract
<1>7. CASE style[c] \in {"suffixed", "field"}
  BY <1>2, <1>7, BareExtract DEF Agented
<1>8. CASE style[c] = "content"
  BY <1>8, ContentExtract
<1>9. CASE style[c] = "none"
  <2>1. Extract(order, ClientBody(c, n)) = NoIdentity
    BY <1>3, <1>9, BodyExtract
  <2> QED
    BY <1>9, <2>1 DEF IdOf
<1> QED
  BY <1>1, <1>4, <1>5, <1>6, <1>7, <1>8, <1>9

-----------------------------------------------------------------------------
(* One key for each conversation, and a parent that is real *)

KInv ==
  /\ Setting
  /\ keys \in [Convs -> {NoIdentity} \cup {IdOf(c) : c \in Convs}]
  /\ \A c \in Convs : keys[c] # NoIdentity => keys[c] = IdOf(c) /\ Names(c)
  /\ flight.at = "sent" =>
       /\ flight.conv \in Convs /\ Names(flight.conv)
       /\ Own(flight.headers, flight.conv)
       /\ \E n : flight.body = ClientBody(flight.conv, n)
  /\ flight.at = "intercepted" =>
       /\ flight.conv \in Convs /\ Names(flight.conv)
       /\ flight.id \in {NoIdentity, IdOf(flight.conv)}

LEMMA KInvInit ==
  ASSUME IdentityInit
  PROVE  KInv
<1>1. PICK f \in Styles, o \in Styles : style = [c \in Convs |-> IF c = "other" THEN o ELSE f]
  BY DEF IdentityInit
<1>2. Setting
  <2>1. /\ style["child"] = style["root"] /\ style["grand"] = style["root"]
        /\ \A c \in Convs : style[c] \in Styles
    BY <1>1 DEF Convs
  <2>2. rootAgent \in {<<"MAIN">>, Blank}
    BY DEF IdentityInit
  <2>3. marked \in BOOLEAN
    BY DEF IdentityInit
  <2> QED
    BY <2>1, <2>2, <2>3 DEF Setting
<1>3. flight.at = "none"
  BY DEF IdentityInit, NoFlight
<1>4. keys = [c \in Convs |-> NoIdentity]
  BY DEF IdentityInit
<1> QED
  BY <1>2, <1>3, <1>4 DEF KInv

\* What an identity is made of stays as it was.
LEMMA SettingKept ==
  ASSUME KInv, UNCHANGED <<style, rootAgent, marked>>,
         keys' \in [Convs -> {NoIdentity} \cup {IdOf(c) : c \in Convs}],
         \A c \in Convs : keys'[c] # NoIdentity => keys'[c] = IdOf(c) /\ Names(c),
         flight'.at = "sent" =>
           /\ flight'.conv \in Convs /\ Names(flight'.conv)
           /\ Own(flight'.headers, flight'.conv)
           /\ \E n : flight'.body = ClientBody(flight'.conv, n),
         flight'.at = "intercepted" =>
           /\ flight'.conv \in Convs /\ Names(flight'.conv)
           /\ flight'.id \in {NoIdentity, IdOf(flight'.conv)}
  PROVE  KInv'
<1>1. \A c \in Convs : IdOf(c)' = IdOf(c) /\ Names(c)' = Names(c)
  BY DEF IdOf, Greeting, OwnSession, SessionOf, Rule, Source, Material, ParentMaterial, Agent, Names
<1>2. \A c \in Convs : ClientHeaders(c)' = ClientHeaders(c)
  BY DEF ClientHeaders, SessionOf, Rule, Agent, ParentAgent
<1>3. \A n : \A c \in Convs : ClientBody(c, n)' = ClientBody(c, n)
  BY DEF ClientBody, UserID, OwnSession, SessionOf, Rule, Agent
<1>4. Setting'
  BY DEF KInv, Setting
<1>5. keys' \in [Convs -> {NoIdentity} \cup {IdOf(c)' : c \in Convs}]
  BY <1>1
<1> QED
  BY <1>1, <1>2, <1>3, <1>4, <1>5 DEF KInv, Own

LEMMA KInvStep ==
  ASSUME BlankApart, BInv, KInv, [IdentityNext]_identityVars
  PROVE  KInv'
<1>1. ASSUME NEW c \in Convs, NEW forged \in BOOLEAN, Send(c, forged)
      PROVE  KInv'
  <2> DEFINE own == IF forged THEN {Header("pacer-key", <<"forged">>), Header("pacer-parent", <<"forged">>),
                                    Header("pacer-subagent", <<"1">>)} ELSE {}
             n == turn[c] + 1
  <2>1. flight' = [at |-> "sent", conv |-> c, headers |-> ClientHeaders(c) \cup own,
                   body |-> ClientBody(c, n), id |-> NoIdentity]
    BY <1>1 DEF Send
  <2>2. Names(c) /\ UNCHANGED <<style, rootAgent, marked, keys>>
    BY <1>1 DEF Send
  <2>3. own \subseteq Forged
    BY DEF Forged
  <2> HIDE DEF own, n
  <2>4. /\ flight'.at = "sent" /\ flight'.conv = c
        /\ flight'.headers = ClientHeaders(c) \cup own
        /\ flight'.body = ClientBody(c, n)
    BY <2>1
  <2>5. Own(flight'.headers, flight'.conv) /\ \E k : flight'.body = ClientBody(flight'.conv, k)
    BY <2>3, <2>4 DEF Own
  <2> QED
    BY <2>2, <2>4, <2>5, SettingKept DEF KInv
<1>2. ASSUME NEW order \in Orders(flight.headers), NEW decodes \in BOOLEAN,
             interceptBefore(order, decodes)
      PROVE  KInv'
  <2> DEFINE c == flight.conv
             id == IF decodes THEN Extract(order, flight.body) ELSE NoIdentity
             after == {h \in flight.headers : h.name \notin ClearHeaders(id)} \cup SetHeaders(id)
  <2>1. flight.at = "sent" /\ UNCHANGED <<style, rootAgent, marked, turn, keys>>
    BY <1>2 DEF interceptBefore
  <2>2. Sent(flight.headers)
    BY <2>1 DEF BInv
  <2>3. PICK n : flight.body = ClientBody(c, n)
    BY <2>1 DEF KInv
  <2>4. c \in Convs /\ Names(c) /\ Own(flight.headers, c) /\ Setting
    BY <2>1 DEF KInv
  <2>5. Extract(order, flight.body) = IdOf(c)
    <3> HIDE DEF c
    <3> QED
      BY <2>2, <2>3, <2>4, ClientExtract
  <2>6. flight' = [at |-> "intercepted", conv |-> c, headers |-> after,
                   body |-> flight.body, id |-> id]
    BY <1>2, <2>1 DEF BInv, interceptBefore
  <2>7. id \in {NoIdentity, IdOf(c)}
    BY <2>5
  <2> HIDE DEF id, after, c
  <2>8. flight'.at = "intercepted" /\ flight'.conv = c /\ flight'.id = id
    BY <2>6
  <2> QED
    BY <2>1, <2>4, <2>7, <2>8, SettingKept DEF KInv
<1>3. ASSUME NEW order \in Orders(flight.headers), PickReads(order)
      PROVE  KInv'
  <2> DEFINE c == flight.conv
  <2>1. /\ flight.at = "intercepted" /\ UNCHANGED <<style, rootAgent, marked, turn>>
        /\ keys' = IF keys[c] = NoIdentity THEN [keys EXCEPT ![c] = flight.id] ELSE keys
    BY <1>3 DEF PickReads
  <2>2. flight'.at = "picked"
    BY <1>3 DEF PickReads
  <2>3. c \in Convs /\ Names(c) /\ flight.id \in {NoIdentity, IdOf(c)}
    BY <2>1 DEF KInv
  <2> HIDE DEF c
  <2>4. keys' \in [Convs -> {NoIdentity} \cup {IdOf(d) : d \in Convs}]
    BY <2>1, <2>3 DEF KInv
  <2>5. \A d \in Convs : keys'[d] # NoIdentity => keys'[d] = IdOf(d) /\ Names(d)
    BY <2>1, <2>3 DEF KInv
  <2> QED
    BY <2>1, <2>2, <2>4, <2>5, SettingKept
<1>4. CASE UNCHANGED identityVars
  <2>1. UNCHANGED <<style, rootAgent, marked, keys, flight>>
    BY <1>4 DEF identityVars
  <2> QED
    BY <2>1, SettingKept DEF KInv
<1>5. CASE IdentityNext
  <2>1. CASE \E c \in Convs, forged \in BOOLEAN : Send(c, forged)
    BY <1>1, <2>1
  <2>2. CASE \E order \in Orders(flight.headers) :
               (\E decodes \in BOOLEAN : interceptBefore(order, decodes)) \/ PickReads(order)
    BY <1>2, <1>3, <2>2
  <2> QED
    BY <1>5, <2>1, <2>2 DEF IdentityNext, Orders
<1> QED
  BY <1>4, <1>5

\* Two conversations that clients name have different keys.
LEMMA KeysApart ==
  ASSUME Setting, NEW c \in Convs, NEW d \in Convs, c # d, Names(c), Names(d),
         IdOf(c) # NoIdentity, IdOf(d) # NoIdentity
  PROVE  IdOf(c).key # IdOf(d).key
<1>1. style[c] # "none" /\ style[d] # "none"
  BY DEF IdOf
<1>2. \A e \in {c, d} :
        /\ style[e] = "content" =>
             \E a : IdOf(e).key = <<a, <<<<"system", "text", <<"prompt">>>>>>, Greeting(e)>>
        /\ style[e] # "content" => IdOf(e).key = <<Source(e), Material(e)>>
  BY <1>1 DEF IdOf
<1>3. \A x, y, a, b, z : <<x, y>> # <<a, b, z>>
  OBVIOUS
<1>4. \A x, y, a, b : <<x, y>> = <<a, b>> => x = a /\ y = b
  OBVIOUS
<1>5. CASE style[c] = "content" /\ style[d] = "content"
  <2>1. c \in {"root", "other"} /\ d \in {"root", "other"}
    BY <1>5 DEF Names, Agented
  <2>2. style["root"] = "content" /\ style["other"] = "content"
    BY <1>5, <2>1
  <2>3. OwnSession("root") = <<"s1">> /\ OwnSession("other") = <<"s2">>
    BY <2>2 DEF OwnSession, SessionOf
  <2>4. Greeting("root") # Greeting("other")
    <3> DEFINE t(s) == <<"user", "text", <<"hello", s>>>>
               i == <<"user", "image", Blank>>
    <3>1. t("s1") # t("s2")
      <4>1. t("s1")[3][2] = "s1" /\ t("s2")[3][2] = "s2"
        OBVIOUS
      <4> HIDE DEF t
      <4> QED
        BY <4>1
    <3>2. /\ Greeting("root") = IF "image" # Blank THEN <<i, t("s1")>> ELSE <<t("s1")>>
          /\ Greeting("other") = IF "image" # Blank THEN <<i, t("s2")>> ELSE <<t("s2")>>
      BY <2>3 DEF Greeting
    <3> HIDE DEF t, i
    <3>3. \A x, y : <<x>> = <<y>> => x = y
      OBVIOUS
    <3> QED
      BY <1>4, <3>1, <3>2, <3>3
  <2>5. \A a, b, x, y, z : <<a, z, x>> = <<b, z, y>> => x = y
    OBVIOUS
  <2>6. Greeting(c) # Greeting(d)
    BY <2>1, <2>4
  <2>7. PICK a : IdOf(c).key = <<a, <<<<"system", "text", <<"prompt">>>>>>, Greeting(c)>>
    BY <1>2, <1>5
  <2>8. PICK b : IdOf(d).key = <<b, <<<<"system", "text", <<"prompt">>>>>>, Greeting(d)>>
    BY <1>2, <1>5
  <2> QED
    BY <2>5, <2>6, <2>7, <2>8
<1>6. CASE style[c] = "content" /\ style[d] # "content"
  <2>1. IdOf(d).key = <<Source(d), Material(d)>>
    BY <1>2, <1>6
  <2>2. PICK a : IdOf(c).key = <<a, <<<<"system", "text", <<"prompt">>>>>>, Greeting(c)>>
    BY <1>2, <1>6
  <2> QED
    BY <1>3, <2>1, <2>2
<1>7. CASE style[c] # "content" /\ style[d] = "content"
  <2>1. IdOf(c).key = <<Source(c), Material(c)>>
    BY <1>2, <1>7
  <2>2. PICK a : IdOf(d).key = <<a, <<<<"system", "text", <<"prompt">>>>>>, Greeting(d)>>
    BY <1>2, <1>7
  <2> QED
    BY <1>3, <2>1, <2>2
<1>8. CASE style[c] # "content" /\ style[d] # "content"
  <2>1. IdOf(c).key = <<Source(c), Material(c)>> /\ IdOf(d).key = <<Source(d), Material(d)>>
    BY <1>2, <1>8
  <2>2. \A e \in Convs :
          style[e] \in {"claude", "header", "shared", "nested", "suffixed", "field", "content", "none"}
    BY IdentityAssumption DEF Setting
  <2>3. Rule(style[c]) # Rule(style[d]) => Source(c) # Source(d)
    BY <1>1, <1>8, <2>2 DEF Source, Rule
  <2>4. CASE Rule(style[c]) # Rule(style[d])
    BY <1>4, <2>1, <2>3, <2>4
  <2>5. CASE Rule(style[c]) = Rule(style[d])
    <3>1. \A e \in Convs \ {"other"} : style[e] = style["root"]
      BY DEF Setting, Convs
    <3>2. SessionOf("root") = <<"s1">>
      BY DEF SessionOf
    <3>3. \A e \in Convs \ {"other"} :
            /\ e = "root" => Material(e) = <<"s1">>
            /\ e = "child" => Material(e) \in {<<"s3">>, <<"s1", "a1">>}
            /\ e = "grand" => Material(e) \in {<<"s4">>, <<"s1", "a2">>}
      BY <3>2 DEF Material, OwnSession, SessionOf, Agent
    <3>4. Material("other") = SessionOf("other")
      BY DEF Material, OwnSession
    <3>5. c = "other" \/ d = "other" => Material("other") = <<"s2">>
      BY <2>5, <3>1, <3>4 DEF SessionOf
    <3>6. \A x, y, a, b : <<x>> # <<a, b>>
      OBVIOUS
    <3>7. \A x, y : <<x>> = <<y>> => x = y
      OBVIOUS
    <3>8. Material(c) # Material(d)
      <4>1. CASE c = "other"
        <5>1. d \in Convs \ {"other"}
          BY <4>1
        <5> QED
          BY <3>3, <3>5, <3>6, <3>7, <4>1, <5>1 DEF Convs
      <4>2. CASE d = "other"
        <5>1. c \in Convs \ {"other"}
          BY <4>2
        <5> QED
          BY <3>3, <3>5, <3>6, <3>7, <4>2, <5>1 DEF Convs
      <4>3. CASE c # "other" /\ d # "other"
        BY <1>4, <3>3, <3>6, <3>7, <4>3 DEF Convs
      <4> QED
        BY <4>1, <4>2, <4>3
    <3> QED
      BY <1>4, <2>1, <3>8
  <2> QED
    BY <2>4, <2>5
<1> QED
  BY <1>5, <1>6, <1>7, <1>8

LEMMA KeysHold ==
  ASSUME KInv
  PROVE  OneKeyEach
<1>1. ASSUME flight.at = "intercepted", flight.id # NoIdentity, keys[flight.conv] # NoIdentity
      PROVE  flight.id = keys[flight.conv]
  BY <1>1 DEF KInv
<1>2. ASSUME NEW c \in Convs, NEW d \in Convs, c # d, keys[c] # NoIdentity, keys[d] # NoIdentity
      PROVE  keys[c].key # keys[d].key
  BY <1>2, KeysApart DEF KInv
<1>3. ASSUME NEW c \in Convs, NEW d \in Convs, c # d, keys[c] # NoIdentity, keys[d] = NoIdentity
      PROVE  keys[c].key # keys[d].key
  <2>1. keys[d].key = <<>>
    BY <1>3 DEF NoIdentity
  <2>2. keys[c] = IdOf(c) /\ IdOf(c) # NoIdentity
    BY <1>3 DEF KInv
  <2>3. \E x, y, z : IdOf(c).key \in {<<x, y>>, <<x, y, z>>}
    <3>1. CASE style[c] = "content"
      <4>1. \E x, y, z : IdOf(c).key = <<x, y, z>>
        BY <3>1 DEF IdOf
      <4> QED
        BY <4>1
    <3>2. CASE style[c] # "content"
      <4>1. IdOf(c).key = <<Source(c), Material(c)>>
        BY <2>2, <3>2 DEF IdOf
      <4> QED
        BY <4>1
    <3> QED
      BY <3>1, <3>2
  <2>4. PICK x, y, z : IdOf(c).key \in {<<x, y>>, <<x, y, z>>}
    BY <2>3
  <2>5. <<x, y>> # <<>> /\ <<x, y, z>> # <<>>
    OBVIOUS
  <2> QED
    BY <2>1, <2>2, <2>4, <2>5
<1> QED
  BY <1>1, <1>2, <1>3 DEF OneKeyEach

LEMMA NamedFields ==
  ASSUME NEW c, style[c] \notin {"none", "content"}
  PROVE  /\ IdOf(c).subagent <=> c \in Subagents
         /\ c \in Subagents => IdOf(c).parent = <<Source(c), ParentMaterial(c)>>
         /\ c \notin Subagents => IdOf(c).parent = <<>>
<1>1. \A k, p, s, r : r = [key |-> k, parent |-> p, subagent |-> s] => r.subagent = s /\ r.parent = p
  OBVIOUS
<1> DEFINE k == <<Source(c), Material(c)>>
           p == IF c \in Subagents THEN <<Source(c), ParentMaterial(c)>> ELSE <<>>
           s == c \in Subagents
<1>2. IdOf(c) = [key |-> k, parent |-> p, subagent |-> s]
  BY DEF IdOf
<1>3. IdOf(c).subagent = s /\ IdOf(c).parent = p
  <2> HIDE DEF k, p, s
  <2> QED
    BY <1>1, <1>2
<1>4. IdOf(c).subagent <=> s
  BY <1>3, Zenon
<1> QED
  BY <1>3, <1>4

LEMMA ParentsHold ==
  ASSUME KInv
  PROVE  ParentIsReal
<1>1. SUFFICES ASSUME NEW c \in Convs, keys[c] # NoIdentity
               PROVE  IF c \in {"child", "grand"}
                        THEN /\ keys[c].subagent
                             /\ \E p \in Ancestors(c) : keys[p] = NoIdentity \/ keys[p].key = keys[c].parent
                        ELSE ~keys[c].subagent /\ keys[c].parent = <<>>
  BY DEF ParentIsReal
<1>2. keys[c] = IdOf(c) /\ Names(c) /\ style[c] # "none"
  BY <1>1 DEF KInv, IdOf
<1>3. CASE c \notin Subagents
  <2>1. CASE style[c] = "content"
    <3>1. IdOf(c).subagent = FALSE /\ IdOf(c).parent = <<>>
      BY <2>1 DEF IdOf
    <3> QED
      BY <1>2, <1>3, <3>1 DEF Subagents
  <2>2. CASE style[c] # "content"
    <3>1. ~IdOf(c).subagent /\ IdOf(c).parent = <<>>
      BY <1>2, <1>3, <2>2, NamedFields
    <3> QED
      BY <1>2, <1>3, <3>1 DEF Subagents
  <2> QED
    BY <2>1, <2>2
<1>4. CASE c \in Subagents
  <2>1. style[c] \in Agented /\ style[c] \in {"claude", "shared", "nested"}
    BY <1>2, <1>4 DEF Names, Subagents, Agented
  <2>2. keys[c].subagent /\ keys[c].parent = <<Source(c), ParentMaterial(c)>>
    BY <1>2, <1>4, <2>1, NamedFields
  <2>3. \A p \in {"root", "child"} : keys[p] # NoIdentity => keys[p].key = <<Source(c), Material(p)>>
    <3>1. SUFFICES ASSUME NEW p \in {"root", "child"}, keys[p] # NoIdentity
                   PROVE  keys[p].key = <<Source(c), Material(p)>>
      OBVIOUS
    <3>2. p \in Convs /\ style[p] = style[c]
      BY <1>4 DEF Convs, KInv, Setting, Subagents
    <3>3. keys[p] = IdOf(p) /\ Source(p) = Source(c)
      BY <3>1, <3>2 DEF KInv, Source
    <3> QED
      BY <2>1, <3>2, <3>3 DEF IdOf
  <2>4. \E p \in Ancestors(c) : p \in {"root", "child"} /\ Material(p) = ParentMaterial(c)
    <3>0. style["child"] = style[c]
      BY <1>4 DEF KInv, Setting, Subagents
    <3>1. CASE c = "child" \/ style[c] = "shared"
      <4>1. Material("root") = <<"s1">> /\ ParentMaterial(c) = <<"s1">>
        BY <1>4, <3>1 DEF Material, OwnSession, SessionOf, ParentMaterial, Subagents
      <4>2. "root" \in Ancestors(c)
        BY <1>4 DEF Ancestors, Subagents
      <4> QED
        BY <4>1, <4>2
    <3>2. CASE c = "grand" /\ style[c] \in {"claude", "nested"}
      <4>1. Material("child") = ParentMaterial(c)
        BY <3>0, <3>2 DEF Material, OwnSession, ParentMaterial, Agent
      <4>2. "child" \in Ancestors(c)
        BY <3>2 DEF Ancestors
      <4> QED
        BY <4>1, <4>2
    <3> QED
      BY <1>4, <2>1, <3>1, <3>2 DEF Subagents
  <2> QED
    BY <1>4, <2>2, <2>3, <2>4 DEF Subagents
<1> QED
  BY <1>3, <1>4

\* However a client names its conversation, and in whatever order its headers are
\* visited, the conversation has one key on every turn and shares it with no other
\* (Extract).
THEOREM OneKeyForEach ==
  ASSUME BlankApart
  PROVE  IdentitySpec => []OneKeyEach
<1>1. IdentityInit => BInv /\ KInv
  <2>1. IdentityInit => BInv
    BY DEF IdentityInit, BInv, NoFlight
  <2> QED
    BY <2>1, KInvInit
<1>2. BInv /\ KInv /\ [IdentityNext]_identityVars => (BInv /\ KInv)'
  BY BInvStep, KInvStep
<1>3. BInv /\ KInv => OneKeyEach
  BY KeysHold
<1> QED
  BY <1>1, <1>2, <1>3, PTL DEF IdentitySpec

\* A subagent's request names as its parent a key an ancestor of it goes by, and a root
\* names none (fromClaudeCodeHeaders, fromUserID, scope).
THEOREM ParentsAreReal ==
  ASSUME BlankApart
  PROVE  IdentitySpec => []ParentIsReal
<1>1. IdentityInit => BInv /\ KInv
  <2>1. IdentityInit => BInv
    BY DEF IdentityInit, BInv, NoFlight
  <2> QED
    BY <2>1, KInvInit
<1>2. BInv /\ KInv /\ [IdentityNext]_identityVars => (BInv /\ KInv)'
  BY BInvStep, KInvStep
<1>3. BInv /\ KInv => ParentIsReal
  BY ParentsHold
<1> QED
  BY <1>1, <1>2, <1>3, PTL DEF IdentitySpec


-----------------------------------------------------------------------------
(* Induction and recursion along the naturals, over sets *)

LEMMA Induction ==
  ASSUME NEW Good, 0 \in Good, \A k \in Nat : k \in Good => k + 1 \in Good
  PROVE  \A k \in Nat : k \in Good
<1> DEFINE Bad == Nat \ Good
           R == {p \in Nat \X Nat : p[1] < p[2]}
<1>1. SUFFICES ASSUME Bad # {} PROVE FALSE
  OBVIOUS
<1>2. PICK k \in Bad : \A y \in Bad : ~(<<y, k>> \in R)
  <2>1. IsWellFoundedOn(R, Nat)
    BY NatLessThanWellFounded, Zenon DEF OpToRel
  <2>2. Bad \subseteq Nat
    OBVIOUS
  <2> HIDE DEF Bad, R
  <2> QED
    BY <1>1, <2>1, <2>2, WFMin
<1>3. k \in Nat /\ k - 1 \in Nat
  OBVIOUS
<1>4. k - 1 \in Good
  <2>1. <<k - 1, k>> \in R
    BY <1>3
  <2>2. k - 1 \notin Bad
    BY <1>2, <2>1
  <2> QED
    BY <1>3, <2>2
<1>5. (k - 1) + 1 \in Good
  BY <1>3, <1>4
<1>6. (k - 1) + 1 = k
  BY <1>3
<1> QED
  BY <1>5, <1>6

\* f is the recursive function with this base and step.
Follows(f, N, base, step) ==
  f = [n \in 0 .. N |-> IF n = 0 THEN base ELSE step[<<n, f[n - 1]>>]]

LEMMA Recursion ==
  ASSUME NEW X, NEW base \in X, NEW N \in Nat, NEW step \in [(1 .. N) \X X -> X]
  PROVE  \E f \in [0 .. N -> X] : Follows(f, N, base, step)
<1> DEFINE To(k, f) == f = [n \in 0 .. k |-> IF n = 0 THEN base ELSE step[<<n, f[n - 1]>>]]
           Good == {k \in Nat : k <= N => \E f \in [0 .. k -> X] : To(k, f)}
<1>1. 0 \in Good
  <2>1. [n \in 0 .. 0 |-> base] \in [0 .. 0 -> X] /\ To(0, [n \in 0 .. 0 |-> base])
    OBVIOUS
  <2> QED
    BY <2>1
<1>2. ASSUME NEW k \in Nat, k \in Good PROVE k + 1 \in Good
  <2>1. SUFFICES ASSUME k + 1 <= N PROVE \E f \in [0 .. k + 1 -> X] : To(k + 1, f)
    OBVIOUS
  <2>2. PICK f \in [0 .. k -> X] : To(k, f)
    BY <1>2, <2>1
  <2> DEFINE h == [n \in 0 .. k + 1 |-> IF n <= k THEN f[n] ELSE step[<<n, f[k]>>]]
  <2>3. step[<<k + 1, f[k]>>] \in X
    BY <2>1
  <2>4. h \in [0 .. k + 1 -> X]
    BY <2>3
  <2>5. \A n \in 0 .. k + 1 : h[n] = IF n = 0 THEN base ELSE step[<<n, h[n - 1]>>]
    <3>1. TAKE n \in 0 .. k + 1
    <3>2. CASE n <= k
      <4>1. h[n] = f[n] /\ (n # 0 => h[n - 1] = f[n - 1])
        BY <3>2
      <4>2. f[n] = IF n = 0 THEN base ELSE step[<<n, f[n - 1]>>]
        BY <2>2, <3>2
      <4> QED
        BY <4>1, <4>2
    <3>3. CASE n = k + 1
      BY <3>3
    <3> QED
      BY <3>2, <3>3
  <2>6. To(k + 1, h)
    BY <2>4, <2>5
  <2> QED
    BY <2>4, <2>6
<1> HIDE DEF Good
<1>3. N \in Good
  BY <1>1, <1>2, Induction
<1> QED
  BY <1>3 DEF Good, Follows

-----------------------------------------------------------------------------
(* Sums *)

\* What the recursion of Total is, on the subsets of a finite set.
Adds(term, total) ==
  \A S \in SUBSET DOMAIN term :
    total[S] = IF S = {} THEN 0 ELSE LET w == CHOOSE w \in S : TRUE IN term[w] + total[S \ {w}]

LEMMA Smaller ==
  ASSUME NEW S, IsFiniteSet(S), NEW w \in S
  PROVE  /\ IsFiniteSet(S \ {w}) /\ Cardinality(S) \in Nat /\ Cardinality(S) > 0
         /\ Cardinality(S \ {w}) = Cardinality(S) - 1
  BY FS_RemoveElement, FS_CardinalityType, FS_EmptySet

LEMMA TotalAdds ==
  ASSUME NEW D, IsFiniteSet(D), NEW term \in [D -> Int]
  PROVE  \E total \in [SUBSET D -> Int] : Adds(term, total) /\ Total(term) = total[D]
<1> DEFINE Body(g, S) == IF S = {} THEN 0
                         ELSE LET w == CHOOSE w \in S : TRUE IN term[w] + g[S \ {w}]
           Good == {k \in Nat : \E g \in [SUBSET D -> Int] :
                      \A S \in SUBSET D : Cardinality(S) <= k => g[S] = Body(g, S)}
<1>1. \A S \in SUBSET D : IsFiniteSet(S) /\ Cardinality(S) \in Nat
                          /\ (S # {} => (CHOOSE w \in S : TRUE) \in S /\ Cardinality(S) # 0)
  BY FS_Subset, FS_CardinalityType, FS_EmptySet
<1>2. 0 \in Good
  <2> DEFINE z == [S \in SUBSET D |-> 0]
  <2>1. z \in [SUBSET D -> Int]
    OBVIOUS
  <2>2. \A S \in SUBSET D : Cardinality(S) <= 0 => z[S] = Body(z, S)
    BY <1>1
  <2> QED
    BY <2>1, <2>2
<1>3. ASSUME NEW k \in Nat, k \in Good PROVE k + 1 \in Good
  <2>1. PICK g \in [SUBSET D -> Int] : \A S \in SUBSET D : Cardinality(S) <= k => g[S] = Body(g, S)
    BY <1>3
  <2> DEFINE h == [S \in SUBSET D |-> Body(g, S)]
  <2>2. \A S \in SUBSET D : Body(g, S) \in Int
    BY <1>1
  <2>3. h \in [SUBSET D -> Int]
    BY <2>2
  <2>4. ASSUME NEW S \in SUBSET D, Cardinality(S) <= k + 1 PROVE h[S] = Body(h, S)
    <3>1. CASE S = {}
      BY <3>1
    <3>2. CASE S # {}
      <4> DEFINE w == CHOOSE w \in S : TRUE
      <4>1. w \in S
        BY <3>2
      <4>2. Cardinality(S \ {w}) <= k
        <5> HIDE DEF w
        <5> QED
          BY <1>1, <2>4, <4>1, Smaller
      <4>3. g[S \ {w}] = Body(g, S \ {w})
        BY <2>1, <4>2
      <4>4. h[S \ {w}] = g[S \ {w}]
        BY <4>3
      <4>5. h[S] = term[w] + g[S \ {w}]
        BY <3>2
      <4>6. Body(h, S) = term[w] + h[S \ {w}]
        BY <3>2
      <4> QED
        BY <4>4, <4>5, <4>6
    <3> QED
      BY <3>1, <3>2
  <2> HIDE DEF Body, h
  <2> QED
    BY <2>3, <2>4
<1>4. PICK g \in [SUBSET D -> Int] : \A S \in SUBSET D : g[S] = Body(g, S)
  <2>1. Cardinality(D) \in Nat /\ \A S \in SUBSET D : Cardinality(S) <= Cardinality(D)
    BY FS_Subset, FS_CardinalityType
  <2> HIDE DEF Good
  <2>2. Cardinality(D) \in Good
    BY <1>2, <1>3, <2>1, Induction
  <2>3. PICK g \in [SUBSET D -> Int] : \A S \in SUBSET D : Cardinality(S) <= Cardinality(D) => g[S] = Body(g, S)
    BY <2>2 DEF Good
  <2> HIDE DEF Body
  <2> QED
    BY <2>1, <2>3
<1> DEFINE Is(f) == f = [S \in SUBSET D |-> Body(f, S)]
           out == CHOOSE f : Is(f)
<1>5. Is(g)
  BY <1>4
<1>6. Is(out)
  <2> HIDE DEF Is
  <2> QED
    BY <1>5
<1>7. DOMAIN term = D
  OBVIOUS
<1>8. Total(term) = out[D]
  BY <1>7, Zenon DEF Total
<1> DEFINE Typed == {k \in Nat : \A S \in SUBSET D : Cardinality(S) <= k => out[S] \in Int}
<1>9. \A S \in SUBSET D : out[S] = Body(out, S)
  <2> HIDE DEF Body, out
  <2> QED
    BY <1>6
<1>10. 0 \in Typed
  <2>1. ASSUME NEW S \in SUBSET D, Cardinality(S) <= 0 PROVE out[S] \in Int
    <3>1. S = {}
      BY <1>1, <2>1
    <3> HIDE DEF out
    <3>2. out[S] = Body(out, S)
      BY <1>9
    <3> QED
      BY <3>1, <3>2
  <2> HIDE DEF out
  <2> QED
    BY <2>1
<1>11. ASSUME NEW k \in Nat, k \in Typed PROVE k + 1 \in Typed
  <2>1. ASSUME NEW S \in SUBSET D, Cardinality(S) <= k + 1 PROVE out[S] \in Int
    <3> HIDE DEF out
    <3>0. out[S] = Body(out, S)
      BY <1>9
    <3>1. CASE S = {}
      BY <3>0, <3>1
    <3>2. CASE S # {}
      <4> DEFINE w == CHOOSE w \in S : TRUE
      <4>1. w \in S
        BY <3>2
      <4>2. out[S] = term[w] + out[S \ {w}]
        BY <3>0, <3>2
      <4> HIDE DEF w, Body
      <4>3. Cardinality(S \ {w}) <= k
        BY <1>1, <2>1, <4>1, Smaller
      <4>4. out[S \ {w}] \in Int
        BY <1>11, <4>3
      <4> QED
        BY <4>1, <4>2, <4>4
    <3> QED
      BY <3>1, <3>2
  <2> HIDE DEF out
  <2> QED
    BY <2>1
<1>12. \A S \in SUBSET D : out[S] \in Int
  <2>1. Cardinality(D) \in Nat /\ \A S \in SUBSET D : Cardinality(S) <= Cardinality(D)
    BY FS_Subset, FS_CardinalityType
  <2> HIDE DEF Typed, out
  <2>2. Cardinality(D) \in Typed
    BY <1>10, <1>11, <2>1, Induction
  <2> QED
    BY <2>1, <2>2 DEF Typed
<1>13. out \in [SUBSET D -> Int]
  <2>1. out = [S \in SUBSET D |-> Body(out, S)]
    BY <1>6
  <2>2. \A S \in SUBSET D : Body(out, S) \in Int
    <3> HIDE DEF out, Body
    <3> QED
      BY <1>9, <1>12
  <2> HIDE DEF out, Body
  <2> QED
    BY <2>1, <2>2
<1>14. Adds(term, out)
  <2> HIDE DEF out
  <2> QED
    BY <1>7, <1>9 DEF Adds
<1> HIDE DEF out
<1> QED
  BY <1>8, <1>13, <1>14

\* Any member may be added last.
AddsEach(D, term, total) ==
  /\ total[{}] = 0
  /\ \A S \in SUBSET D : \A w \in S : total[S] = term[w] + total[S \ {w}]

LEMMA AddsAny ==
  ASSUME NEW D, IsFiniteSet(D), NEW term \in [D -> Int]
  PROVE  \E total \in [SUBSET D -> Int] :
           AddsEach(D, term, total) /\ Total(term) = total[D]
<1>0. PICK total \in [SUBSET D -> Int] : Adds(term, total) /\ Total(term) = total[D]
  BY TotalAdds
<1> DEFINE Good == {k \in Nat : \A S \in SUBSET D : Cardinality(S) <= k =>
                                   \A w \in S : total[S] = term[w] + total[S \ {w}]}
<1>1. \A S \in SUBSET D : IsFiniteSet(S) /\ Cardinality(S) \in Nat
  BY FS_Subset, FS_CardinalityType
<1>2. 0 \in Good
  <2>1. \A S \in SUBSET D : Cardinality(S) <= 0 => S = {}
    BY <1>1, FS_EmptySet
  <2> QED
    BY <2>1
<1>3. ASSUME NEW k \in Nat, k \in Good PROVE k + 1 \in Good
  <2>1. SUFFICES ASSUME NEW S \in SUBSET D, Cardinality(S) <= k + 1, NEW w \in S
                 PROVE  total[S] = term[w] + total[S \ {w}]
    OBVIOUS
  <2> DEFINE c == CHOOSE c \in S : TRUE
  <2>2. c \in S
    OBVIOUS
  <2>3. total[S] = term[c] + total[S \ {c}]
    BY <1>0, <2>1 DEF Adds
  <2> HIDE DEF c
  <2>4. CASE c = w
    BY <2>3, <2>4
  <2>5. CASE c # w
    <3>1. Cardinality(S \ {c}) <= k /\ Cardinality(S \ {w}) <= k
      BY <1>1, <2>1, <2>2, Smaller
    <3>2. total[S \ {c}] = term[w] + total[(S \ {c}) \ {w}]
      BY <1>3, <2>5, <3>1
    <3>3. total[S \ {w}] = term[c] + total[(S \ {w}) \ {c}]
      BY <1>3, <2>2, <2>5, <3>1
    <3>4. (S \ {c}) \ {w} = (S \ {w}) \ {c}
      OBVIOUS
    <3>5. total[(S \ {c}) \ {w}] = total[(S \ {w}) \ {c}]
      BY <3>4
    <3>6. /\ term[w] \in Int /\ term[c] \in Int /\ total[S \ {c}] \in Int /\ total[S \ {w}] \in Int
          /\ total[(S \ {w}) \ {c}] \in Int /\ total[S] \in Int
      BY <2>2
    <3> QED
      BY <2>3, <3>2, <3>3, <3>6, <3>5
  <2> QED
    BY <2>4, <2>5
<1> HIDE DEF Good
<1>4. ASSUME NEW S \in SUBSET D, NEW w \in S PROVE total[S] = term[w] + total[S \ {w}]
  <2>1. Cardinality(S) \in Good
    BY <1>1, <1>2, <1>3, Induction
  <2> QED
    BY <1>1, <2>1 DEF Good
<1>5. total[{}] = 0
  BY <1>0 DEF Adds
<1>6. AddsEach(D, term, total)
  BY <1>4, <1>5 DEF AddsEach
<1> QED
  BY <1>0, <1>6

\* Where each term has its match and none exceeds it, neither does the sum.
LEMMA TotalAtMost ==
  ASSUME NEW D, IsFiniteSet(D), NEW f \in [D -> Int],
         NEW E, NEW g \in [E -> Int], NEW match \in [D -> E],
         \A v \in E : \E w \in D : v = match[w],
         \A v, w \in D : match[v] = match[w] => v = w,
         \A w \in D : g[match[w]] <= f[w]
  PROVE  Total(f) \in Int /\ Total(g) \in Int /\ Total(g) <= Total(f)
<1> DEFINE Image(S) == {match[w] : w \in S}
<1>1. E = Image(D)
  OBVIOUS
<1>2. IsFiniteSet(E)
  <2>1. match \in Surjection(D, E)
    BY DEF Surjection
  <2> QED
    BY <2>1, FS_Surjection
<1>3. PICK a \in [SUBSET D -> Int] : AddsEach(D, f, a) /\ Total(f) = a[D]
  BY AddsAny
<1>4. PICK b \in [SUBSET E -> Int] : AddsEach(E, g, b) /\ Total(g) = b[E]
  <2>1. g \in [E -> Int]
    OBVIOUS
  <2> QED
    BY ONLY <1>2, <2>1, AddsAny
<1>5. \A S \in SUBSET D : \A w \in S : a[S] = f[w] + a[S \ {w}]
  BY ONLY <1>3 DEF AddsEach
<1>6. \A S \in SUBSET E : \A w \in S : b[S] = g[w] + b[S \ {w}]
  BY ONLY <1>4 DEF AddsEach
<1>7. a[{}] = 0 /\ b[{}] = 0
  BY <1>3, <1>4 DEF AddsEach
<1> DEFINE Good == {k \in Nat : \A S \in SUBSET D : Cardinality(S) <= k => b[Image(S)] <= a[S]}
<1>8. \A S \in SUBSET D : IsFiniteSet(S) /\ Cardinality(S) \in Nat /\ (S # {} => Cardinality(S) # 0)
  BY FS_Subset, FS_CardinalityType, FS_EmptySet
<1>9. 0 \in Good
  <2>1. ASSUME NEW S \in SUBSET D, Cardinality(S) <= 0 PROVE b[Image(S)] <= a[S]
    <3>1. S = {} /\ Image(S) = {}
      BY <1>8, <2>1
    <3>2. b[Image(S)] = 0 /\ a[S] = 0
      BY <1>7, <3>1, Zenon
    <3> QED
      BY <3>2
  <2> QED
    BY <2>1
<1>10. ASSUME NEW k \in Nat, k \in Good PROVE k + 1 \in Good
  <2>1. SUFFICES ASSUME NEW S \in SUBSET D, Cardinality(S) <= k + 1 PROVE b[Image(S)] <= a[S]
    OBVIOUS
  <2>2. CASE S = {}
    <3>1. Image(S) = {}
      BY <2>2
    <3>2. b[Image(S)] = 0 /\ a[S] = 0
      BY <1>7, <2>2, <3>1, Zenon
    <3> QED
      BY <3>2
  <2>3. CASE S # {}
    <3>1. PICK w \in S : TRUE
      BY <2>3
    <3>2. Cardinality(S \ {w}) <= k
      BY <1>8, <2>1, Smaller
    <3>3. b[Image(S \ {w})] <= a[S \ {w}]
      BY <1>10, <3>2
    <3>4. Image(S \ {w}) = Image(S) \ {match[w]}
      OBVIOUS
    <3>5. match[w] \in Image(S) /\ Image(S) \in SUBSET E
      OBVIOUS
    <3> HIDE DEF Image
    <3>6. b[Image(S)] = g[match[w]] + b[Image(S) \ {match[w]}]
      BY <1>6, <3>5, Zenon
    <3>7. a[S] = f[w] + a[S \ {w}]
      BY <1>5, <3>1, Zenon
    <3>8. /\ a[S] \in Int /\ a[S \ {w}] \in Int /\ b[Image(S)] \in Int
          /\ b[Image(S) \ {match[w]}] \in Int /\ f[w] \in Int /\ g[match[w]] \in Int
      BY <3>5
    <3>9. g[match[w]] <= f[w]
      OBVIOUS
    <3>10. b[Image(S \ {w})] = b[Image(S) \ {match[w]}]
      BY <3>4
    <3> QED
      BY <3>3, <3>6, <3>7, <3>8, <3>9, <3>10
  <2> QED
    BY <2>2, <2>3
<1> HIDE DEF Good
<1>11. Cardinality(D) \in Good
  BY <1>8, <1>9, <1>10, Induction
<1>12. b[Image(D)] <= a[D]
  BY <1>8, <1>11 DEF Good
<1> QED
  BY <1>1, <1>3, <1>4, <1>12

LEMMA TotalInt ==
  ASSUME NEW D, IsFiniteSet(D), NEW term \in [D -> Int]
  PROVE  Total(term) \in Int
<1>1. PICK total \in [SUBSET D -> Int] : Adds(term, total) /\ Total(term) = total[D]
  BY TotalAdds
<1> QED
  BY <1>1

-----------------------------------------------------------------------------
(* The ranking *)

Reasons == {"", "no-window", "rejected", "bad-reading", "spent", "no-snapshot", "stale"}
ScoreSet == [id : Int, eligible : BOOLEAN, only : BOOLEAN, cost : Int \cup {NaN}, reason : Reasons]

\* better is a strict order, total on scores of different seats.
LEMMA BetterOrder ==
  ASSUME NEW a \in ScoreSet, NEW b \in ScoreSet, NEW c \in ScoreSet
  PROVE  /\ ~better(a, a)
         /\ better(a, b) /\ better(b, c) => better(a, c)
         /\ a.id # b.id => better(a, b) \/ better(b, a)
<1>1. ~better(a, a)
  BY DEF better, ScoreSet
<1>2. ASSUME a.id # b.id PROVE better(a, b) \/ better(b, a)
  BY <1>2, LimitsAssumption DEF better, ScoreSet
<1>3. ASSUME better(a, b), better(b, c) PROVE better(a, c)
  <2>1. CASE a.eligible # b.eligible \/ b.eligible # c.eligible
    BY <1>3, <2>1 DEF better, ScoreSet
  <2>2. CASE a.eligible = b.eligible /\ b.eligible = c.eligible
    <3>1. CASE a.only # b.only \/ b.only # c.only
      BY <1>3, <2>2, <3>1 DEF better, ScoreSet
    <3>2. CASE a.only = b.only /\ b.only = c.only
      BY <1>3, <2>2, <3>2, LimitsAssumption DEF better, ScoreSet
    <3> QED
      BY <3>1, <3>2
  <2> QED
    BY <2>1, <2>2
<1> QED
  BY <1>1, <1>2, <1>3

Apart(scores) == \A i, j \in DOMAIN scores : i # j => scores[i].id # scores[j].id

Ordered(ranking) ==
  \A i, j \in DOMAIN ranking : i < j => better(ranking[i], ranking[j])

\* The members of a sequence up to n.
UpTo(scores, n) == {scores[i] : i \in 1 .. n}

LEMMA RankedInserts ==
  ASSUME NEW ranking \in Seq(ScoreSet), Ordered(ranking), NEW s \in ScoreSet,
         \A i \in DOMAIN ranking : ranking[i].id # s.id
  PROVE  /\ Ranked(ranking, s) \in Seq(ScoreSet) /\ Ordered(Ranked(ranking, s))
         /\ ToSet(Ranked(ranking, s)) = ToSet(ranking) \cup {s}
<1> DEFINE ahead == {i \in DOMAIN ranking : better(s, ranking[i])}
           at == IF ahead = {} THEN Len(ranking) + 1 ELSE CHOOSE i \in ahead : \A j \in ahead : i <= j
           out == InsertAt(ranking, at, s)
           N == Len(ranking)
<1>1. N \in Nat /\ DOMAIN ranking = 1 .. N /\ \A i \in 1 .. N : ranking[i] \in ScoreSet
  OBVIOUS
<1>2. Ranked(ranking, s) = out
  BY DEF Ranked
<1>3. /\ at \in 1 .. N + 1
      /\ \A i \in 1 .. N : i < at => ~better(s, ranking[i])
      /\ at <= N => better(s, ranking[at])
  <2>1. CASE ahead = {}
    BY <1>1, <2>1
  <2>2. CASE ahead # {}
    <3>1. \E i \in ahead : \A j \in ahead : i <= j
      <4> DEFINE Good == {k \in Nat : \A i \in 1 .. k : i \notin ahead}
      <4>1. SUFFICES ASSUME \A i \in ahead : \E j \in ahead : j < i PROVE FALSE
        BY <1>1
      <4>2. 0 \in Good
        OBVIOUS
      <4>3. ASSUME NEW k \in Nat, k \in Good PROVE k + 1 \in Good
        <5>1. k + 1 \notin ahead
          BY <1>1, <4>1, <4>3
        <5> HIDE DEF ahead
        <5> QED
          BY <4>3, <5>1
      <4>4. ahead \subseteq 1 .. N
        BY <1>1
      <4>5. \A k \in Nat : k \in Good
        <5> HIDE DEF Good
        <5> QED
          BY <4>2, <4>3, Induction
      <4> HIDE DEF ahead
      <4> QED
        BY <1>1, <2>2, <4>4, <4>5
    <3>2. at \in ahead /\ \A j \in ahead : at <= j
      <4> HIDE DEF ahead
      <4> QED
        BY <2>2, <3>1
    <3> HIDE DEF at
    <3> QED
      BY <1>1, <3>2
  <2> QED
    BY <2>1, <2>2
<1> HIDE DEF ahead, at
<1>4. /\ out \in Seq(ScoreSet) /\ Len(out) = N + 1
      /\ \A i \in 1 .. N + 1 : out[i] = IF i < at THEN ranking[i] ELSE IF i = at THEN s ELSE ranking[i - 1]
  <2> DEFINE front == SubSeq(ranking, 1, at - 1)
             back == SubSeq(ranking, at, N)
  <2>1. /\ front \in Seq(ScoreSet) /\ Len(front) = at - 1
        /\ \A i \in 1 .. at - 1 : front[i] = ranking[i]
    BY <1>1, <1>3, SubSeqProperties
  <2>2. /\ back \in Seq(ScoreSet) /\ Len(back) = N + 1 - at
        /\ \A i \in 1 .. N + 1 - at : back[i] = ranking[at + i - 1]
    BY <1>1, <1>3, SubSeqProperties
  <2> DEFINE head == front \o <<s>>
  <2>3. out = head \o back
    BY DEF InsertAt
  <2> HIDE DEF front, back
  <2>4. /\ head \in Seq(ScoreSet) /\ Len(head) = at
        /\ \A i \in 1 .. at - 1 : head[i] = ranking[i]
        /\ head[at] = s
    BY <1>1, <1>3, <2>1
  <2> HIDE DEF head
  <2>5. /\ out \in Seq(ScoreSet) /\ Len(out) = N + 1
        /\ \A i \in 1 .. N + 1 : out[i] = IF i <= at THEN head[i] ELSE back[i - at]
    <3>1. Len(head) + Len(back) = N + 1
      BY <1>1, <1>3, <2>2, <2>4
    <3> QED
      BY ONLY <2>2, <2>3, <2>4, <3>1, ConcatProperties
  <2>6. ASSUME NEW i \in 1 .. N + 1
        PROVE  out[i] = IF i < at THEN ranking[i] ELSE IF i = at THEN s ELSE ranking[i - 1]
    <3>1. CASE i < at
      <4>1. i <= at /\ i \in 1 .. at - 1
        BY <1>1, <1>3, <3>1
      <4> QED
        BY <2>4, <2>5, <3>1, <4>1
    <3>2. CASE i = at
      <4>1. i <= at /\ ~(i < at)
        BY <1>1, <1>3, <3>2
      <4> QED
        BY <2>4, <2>5, <3>2, <4>1
    <3>3. CASE i > at
      <4>1. ~(i <= at) /\ i - at \in 1 .. N + 1 - at /\ at + (i - at) - 1 = i - 1 /\ ~(i < at) /\ i # at
        BY <1>1, <1>3, <3>3
      <4>2. back[i - at] = ranking[i - 1]
        BY <2>2, <4>1
      <4> QED
        BY <2>5, <4>1, <4>2
    <3> QED
      BY <1>1, <1>3, <3>1, <3>2, <3>3
  <2> QED
    BY <2>5, <2>6
<1> HIDE DEF out
<1>5. DOMAIN out = 1 .. N + 1
  BY <1>4
<1>6. ASSUME NEW i \in 1 .. N + 1, NEW j \in 1 .. N + 1, i < j PROVE better(out[i], out[j])
  <2>1. \A k, m \in 1 .. N : k < m => better(ranking[k], ranking[m])
    BY <1>1 DEF Ordered
  <2>2. \A k \in 1 .. N : k < at => better(ranking[k], s)
    BY <1>1, <1>3, BetterOrder
  <2>3. \A k \in 1 .. N : at <= k => better(s, ranking[k])
    <3>1. TAKE k \in 1 .. N
    <3>2. CASE at = k
      BY <1>3, <3>2
    <3>3. CASE at < k
      <4>1. at \in 1 .. N /\ better(s, ranking[at]) /\ better(ranking[at], ranking[k])
        BY <1>1, <1>3, <2>1, <3>3
      <4> QED
        BY <1>1, <4>1, BetterOrder
    <3> QED
      BY <1>3, <3>2, <3>3
  <2>4. at \in 1 .. N + 1
    BY <1>3
  <2>5. CASE j < at
    <3>1. out[i] = ranking[i] /\ out[j] = ranking[j] /\ j \in 1 .. N /\ i \in 1 .. N
      BY <1>1, <1>4, <1>6, <2>4, <2>5
    <3> QED
      BY <1>6, <2>1, <3>1
  <2>6. CASE j = at
    <3>1. out[i] = ranking[i] /\ out[j] = s /\ i < at /\ i \in 1 .. N
      BY <1>1, <1>4, <1>6, <2>4, <2>6
    <3> QED
      BY <2>2, <3>1
  <2>7. CASE at < j /\ i = at
    <3>1. out[i] = s /\ out[j] = ranking[j - 1] /\ at <= j - 1 /\ j - 1 \in 1 .. N
      BY <1>1, <1>4, <1>6, <2>4, <2>7
    <3> QED
      BY <2>3, <3>1
  <2>8. CASE at < j /\ i < at
    <3>1. out[i] = ranking[i] /\ out[j] = ranking[j - 1] /\ i < j - 1 /\ j - 1 \in 1 .. N /\ i \in 1 .. N
      BY <1>1, <1>4, <1>6, <2>4, <2>8
    <3> QED
      BY <2>1, <3>1
  <2>9. CASE at < i
    <3>1. out[i] = ranking[i - 1] /\ out[j] = ranking[j - 1] /\ i - 1 < j - 1 /\ j - 1 \in 1 .. N /\ i - 1 \in 1 .. N
      BY <1>1, <1>4, <1>6, <2>4, <2>9
    <3> QED
      BY <2>1, <3>1
  <2> QED
    BY <1>6, <2>4, <2>5, <2>6, <2>7, <2>8, <2>9
<1>7. Ordered(out)
  BY <1>5, <1>6 DEF Ordered
<1>8. ToSet(out) = ToSet(ranking) \cup {s}
  <2>1. ASSUME NEW x \in ToSet(out) PROVE x \in ToSet(ranking) \cup {s}
    <3>1. PICK i \in 1 .. N + 1 : x = out[i]
      BY <1>5 DEF ToSet
    <3>2. i < at => i \in 1 .. N
      BY <1>1, <1>3
    <3>3. i > at => i - 1 \in 1 .. N
      BY <1>1, <1>3
    <3>4. CASE i < at
      BY <1>1, <1>4, <3>1, <3>2, <3>4 DEF ToSet
    <3>5. CASE i = at
      <4>1. ~(i < at)
        BY <1>3, <3>5
      <4> QED
        BY <1>4, <3>1, <3>5, <4>1
    <3>6. CASE i > at
      <4>1. ~(i < at) /\ i # at
        BY <1>3, <3>6
      <4>2. x = ranking[i - 1]
        BY <1>4, <3>1, <4>1
      <4> QED
        BY <1>1, <3>3, <3>6, <4>2 DEF ToSet
    <3> QED
      BY <1>1, <1>3, <3>4, <3>5, <3>6
  <2>2. s \in ToSet(out)
    <3>1. out[at] = s /\ at \in DOMAIN out
      BY <1>1, <1>3, <1>4, <1>5
    <3> QED
      BY <3>1 DEF ToSet
  <2>3. ASSUME NEW x \in ToSet(ranking) PROVE x \in ToSet(out)
    <3>1. PICK i \in 1 .. N : x = ranking[i]
      BY <1>1 DEF ToSet
    <3>2. CASE i < at
      <4>1. out[i] = x /\ i \in DOMAIN out
        BY <1>1, <1>3, <1>4, <1>5, <3>1, <3>2
      <4> QED
        BY <4>1 DEF ToSet
    <3>3. CASE ~(i < at)
      <4>1. out[i + 1] = x /\ i + 1 \in DOMAIN out
        BY <1>1, <1>3, <1>4, <1>5, <3>1, <3>3
      <4> QED
        BY <4>1 DEF ToSet
    <3> QED
      BY <3>2, <3>3
  <2> QED
    BY <2>1, <2>2, <2>3
<1> QED
  BY <1>2, <1>4, <1>7, <1>8

LEMMA RankSorts ==
  ASSUME NEW scores \in Seq(ScoreSet), Apart(scores)
  PROVE  Rank(scores) \in Seq(ScoreSet) /\ Ordered(Rank(scores)) /\ ToSet(Rank(scores)) = ToSet(scores)
<1> DEFINE N == Len(scores)
           X == {r \in Seq(ScoreSet) : Ordered(r)}
           Sorts(f) == f = [n \in 0 .. N |-> IF n = 0 THEN <<>> ELSE Ranked(f[n - 1], scores[n])]
           rank == CHOOSE f : Sorts(f)
           Fits(r, s) == \A i \in DOMAIN r : r[i].id # s.id
           step == [p \in (1 .. N) \X X |-> IF Fits(p[2], scores[p[1]]) THEN Ranked(p[2], scores[p[1]]) ELSE p[2]]
<1>1. N \in Nat /\ DOMAIN scores = 1 .. N /\ \A n \in 1 .. N : scores[n] \in ScoreSet
  OBVIOUS
<1>2. <<>> \in X
  BY DEF Ordered
<1>3. \A r \in X, s \in ScoreSet : Fits(r, s) =>
        Ranked(r, s) \in X /\ ToSet(Ranked(r, s)) = ToSet(r) \cup {s}
  BY RankedInserts
<1>4. step \in [(1 .. N) \X X -> X]
  <2> HIDE DEF X, Fits
  <2> QED
    BY <1>1, <1>3
<1>5. PICK f \in [0 .. N -> X] : f = [n \in 0 .. N |-> IF n = 0 THEN <<>> ELSE step[<<n, f[n - 1]>>]]
  <2> HIDE DEF X, step
  <2>1. \E f \in [0 .. N -> X] : Follows(f, N, <<>>, step)
    BY ONLY <1>1, <1>2, <1>4, Recursion
  <2> QED
    BY <2>1 DEF Follows
<1> DEFINE Good == {k \in Nat : k <= N => /\ ToSet(f[k]) = UpTo(scores, k)
                                          /\ k # 0 => f[k] = Ranked(f[k - 1], scores[k])}
<1>6. 0 \in Good
  <2>1. f[0] = <<>>
    BY <1>1, <1>5
  <2> QED
    BY <2>1 DEF ToSet, UpTo
<1>7. ASSUME NEW k \in Nat, k \in Good PROVE k + 1 \in Good
  <2>1. SUFFICES ASSUME k + 1 <= N PROVE /\ ToSet(f[k + 1]) = UpTo(scores, k + 1)
                                         /\ f[k + 1] = Ranked(f[k], scores[k + 1])
    OBVIOUS
  <2>2. f[k] \in X /\ ToSet(f[k]) = UpTo(scores, k) /\ k + 1 \in 1 .. N /\ k \in 0 .. N
    BY <1>1, <1>7, <2>1
  <2>3. Fits(f[k], scores[k + 1])
    <3>1. TAKE i \in DOMAIN f[k]
    <3>2. f[k][i] \in UpTo(scores, k)
      BY <2>2 DEF ToSet
    <3>3. PICK j \in 1 .. k : f[k][i] = scores[j]
      BY <3>2 DEF UpTo
    <3> QED
      BY <1>1, <2>2, <3>3 DEF Apart
  <2>4. f[k + 1] = step[<<k + 1, f[k]>>]
    <3> HIDE DEF step, X
    <3> QED
      BY <1>5, <2>2
  <2>5. f[k + 1] = Ranked(f[k], scores[k + 1])
    <3> HIDE DEF X, Fits
    <3> QED
      BY <2>2, <2>3, <2>4
  <2>6. ToSet(f[k + 1]) = UpTo(scores, k) \cup {scores[k + 1]}
    <3> HIDE DEF X, Fits
    <3> QED
      BY <1>1, <1>3, <2>2, <2>3, <2>5
  <2>7. UpTo(scores, k + 1) = UpTo(scores, k) \cup {scores[k + 1]}
    BY <2>2 DEF UpTo
  <2> QED
    BY <2>5, <2>6, <2>7
<1>8. \A k \in 0 .. N : /\ f[k] \in X /\ ToSet(f[k]) = UpTo(scores, k)
                        /\ k # 0 => f[k] = Ranked(f[k - 1], scores[k])
  <2>1. \A k \in Nat : k \in Good
    <3> HIDE DEF Good
    <3> QED
      BY <1>6, <1>7, Induction
  <2>2. SUFFICES ASSUME NEW k \in 0 .. N
                 PROVE  /\ f[k] \in X /\ ToSet(f[k]) = UpTo(scores, k)
                        /\ k # 0 => f[k] = Ranked(f[k - 1], scores[k])
    OBVIOUS
  <2>3. k \in Nat /\ k <= N
    BY <1>1
  <2> HIDE DEF X, step
  <2>4. f[k] \in X
    OBVIOUS
  <2>5. /\ ToSet(f[k]) = UpTo(scores, k)
        /\ k # 0 => f[k] = Ranked(f[k - 1], scores[k])
    BY <2>1, <2>3
  <2> QED
    BY <2>4, <2>5
<1>9. Sorts(f)
  <2>1. f[0] = <<>>
    BY <1>1, <1>5
  <2> HIDE DEF X
  <2> QED
    BY <1>1, <1>5, <1>8, <2>1
<1>10. Sorts(rank)
  <2> HIDE DEF Sorts
  <2> QED
    BY <1>9
<1>11. rank[N] = f[N]
  <2> DEFINE Same == {k \in Nat : k <= N => rank[k] = f[k]}
  <2> HIDE DEF rank
  <2>1. 0 \in Same
    BY <1>1, <1>9, <1>10
  <2>2. ASSUME NEW k \in Nat, k \in Same PROVE k + 1 \in Same
    <3>1. k + 1 <= N => /\ rank[k + 1] = Ranked(rank[k], scores[k + 1])
                        /\ f[k + 1] = Ranked(f[k], scores[k + 1])
      BY <1>1, <1>9, <1>10
    <3> QED
      BY <1>1, <2>2, <3>1
  <2> HIDE DEF Same
  <2>3. N \in Same
    BY <1>1, <2>1, <2>2, Induction
  <2> QED
    BY <1>1, <2>3 DEF Same
<1>12. Rank(scores) = rank[N]
  BY Zenon DEF Rank
<1>13. ToSet(scores) = UpTo(scores, N)
  BY <1>1 DEF ToSet, UpTo
<1> QED
  BY <1>1, <1>8, <1>11, <1>12, <1>13

\* An order lists a set in one way.
LEMMA OneOrder ==
  ASSUME NEW r \in Seq(ScoreSet), NEW t \in Seq(ScoreSet),
         Ordered(r), Ordered(t), ToSet(r) = ToSet(t)
  PROVE  r = t
<1> DEFINE Good == {k \in Nat : \A i \in 1 .. k : (i <= Len(r) \/ i <= Len(t)) =>
                      i <= Len(r) /\ i <= Len(t) /\ r[i] = t[i]}
<1>1. /\ Len(r) \in Nat /\ DOMAIN r = 1 .. Len(r) /\ \A i \in 1 .. Len(r) : r[i] \in ScoreSet
      /\ Len(t) \in Nat /\ DOMAIN t = 1 .. Len(t) /\ \A i \in 1 .. Len(t) : t[i] \in ScoreSet
  OBVIOUS
<1>2. \A i, j \in 1 .. Len(r) : i < j => better(r[i], r[j])
  BY <1>1 DEF Ordered
<1>3. \A i, j \in 1 .. Len(t) : i < j => better(t[i], t[j])
  BY <1>1 DEF Ordered
<1>4. \A i \in 1 .. Len(r) : \E j \in 1 .. Len(t) : t[j] = r[i]
  <2>1. TAKE i \in 1 .. Len(r)
  <2>2. r[i] \in ToSet(t)
    BY <1>1 DEF ToSet
  <2> QED
    BY <1>1, <2>2 DEF ToSet
<1>5. \A i \in 1 .. Len(t) : \E j \in 1 .. Len(r) : r[j] = t[i]
  <2>1. TAKE i \in 1 .. Len(t)
  <2>2. t[i] \in ToSet(r)
    BY <1>1 DEF ToSet
  <2> QED
    BY <1>1, <2>2 DEF ToSet
<1>6. \A x, y \in ScoreSet : ~(better(x, y) /\ better(y, x))
  BY BetterOrder
<1>7. 0 \in Good
  OBVIOUS
<1>8. ASSUME NEW k \in Nat, k \in Good PROVE k + 1 \in Good
  <2>1. \A i \in 1 .. k : (i <= Len(r) \/ i <= Len(t)) => i <= Len(r) /\ i <= Len(t) /\ r[i] = t[i]
    BY <1>8
  <2>2. SUFFICES ASSUME k + 1 <= Len(r) \/ k + 1 <= Len(t)
                 PROVE  k + 1 <= Len(r) /\ k + 1 <= Len(t) /\ r[k + 1] = t[k + 1]
    BY <2>1
  <2>3. ASSUME k + 1 <= Len(r) PROVE \E j \in k + 1 .. Len(t) : t[j] = r[k + 1]
    <3>1. PICK j \in 1 .. Len(t) : t[j] = r[k + 1]
      BY <1>1, <1>4, <2>3
    <3>2. ASSUME j <= k PROVE FALSE
      <4>1. r[j] = t[j] /\ j <= Len(r)
        BY <1>1, <2>1, <3>2
      <4>2. better(r[j], r[k + 1])
        BY <1>1, <1>2, <2>3, <3>2, <4>1
      <4> QED
        BY <1>1, <1>6, <2>3, <3>1, <4>1, <4>2
    <3> QED
      BY <1>1, <3>1, <3>2
  <2>4. ASSUME k + 1 <= Len(t) PROVE \E j \in k + 1 .. Len(r) : r[j] = t[k + 1]
    <3>1. PICK j \in 1 .. Len(r) : r[j] = t[k + 1]
      BY <1>1, <1>5, <2>4
    <3>2. ASSUME j <= k PROVE FALSE
      <4>1. r[j] = t[j] /\ j <= Len(t)
        BY <1>1, <2>1, <3>2
      <4>2. better(t[j], t[k + 1])
        BY <1>1, <1>3, <2>4, <3>2, <4>1
      <4> QED
        BY <1>1, <1>6, <2>4, <3>1, <4>1, <4>2
    <3> QED
      BY <1>1, <3>1, <3>2
  <2>5. k + 1 <= Len(r) /\ k + 1 <= Len(t)
    BY <1>1, <2>2, <2>3, <2>4
  <2>6. r[k + 1] = t[k + 1]
    <3>1. PICK i \in k + 1 .. Len(t) : t[i] = r[k + 1]
      BY <2>3, <2>5
    <3>2. PICK j \in k + 1 .. Len(r) : r[j] = t[k + 1]
      BY <2>4, <2>5
    <3>3. i = k + 1 \/ better(t[k + 1], t[i])
      BY <1>1, <1>3, <2>5
    <3>4. j = k + 1 \/ better(r[k + 1], r[j])
      BY <1>1, <1>2, <2>5
    <3>5. r[k + 1] \in ScoreSet /\ t[k + 1] \in ScoreSet
      BY <1>1, <2>5
    <3> QED
      BY <1>6, <3>1, <3>2, <3>3, <3>4, <3>5
  <2> QED
    BY <2>5, <2>6
<1>9. \A k \in Nat : k \in Good
  <2> HIDE DEF Good
  <2> QED
    BY <1>7, <1>8, Induction
<1>10. \A i \in Nat \ {0} : (i <= Len(r) \/ i <= Len(t)) => i <= Len(r) /\ i <= Len(t) /\ r[i] = t[i]
  <2>1. TAKE i \in Nat \ {0}
  <2>2. i \in Good
    BY <1>9
  <2> QED
    BY <2>2
<1>11. Len(r) = Len(t)
  <2>1. Len(r) + 1 \in Nat \ {0} /\ Len(t) + 1 \in Nat \ {0}
    BY <1>1
  <2>2. ~(Len(r) + 1 <= Len(t)) /\ ~(Len(t) + 1 <= Len(r))
    BY <1>1, <1>10, <2>1
  <2>3. Len(r) \in Nat /\ Len(t) \in Nat
    BY <1>1
  <2> QED
    BY ONLY <2>2, <2>3
<1> QED
  BY <1>1, <1>10, <1>11, SeqEqual
\* b is the eligible score of S that no other beats, or Nobody where none is eligible.
Leads(b, S) ==
  \/ b = Nobody /\ \A x \in S : ~x.eligible
  \/ b \in S /\ b.eligible /\ \A x \in S : x.eligible => x = b \/ better(b, x)

LEMMA OneLeads ==
  ASSUME NEW S \in SUBSET ScoreSet, NEW a, NEW b, Leads(a, S), Leads(b, S)
  PROVE  a = b
<1>1. \A x, y \in ScoreSet : ~(better(x, y) /\ better(y, x))
  BY BetterOrder
<1> QED
  BY <1>1 DEF Leads

LEMMA BetterLeads ==
  ASSUME NEW S \in SUBSET ScoreSet, NEW b, Leads(b, S), NEW s \in ScoreSet,
         \A x \in S : x.id # s.id
  PROVE  Leads(Better(b, s), S \cup {s})
<1>1. CASE ~s.eligible
  BY <1>1 DEF Leads, Better
<1>2. CASE s.eligible /\ b = Nobody
  <2>1. ~Nobody.eligible
    BY DEF Nobody, Unscored
  <2>2. \A x \in S : ~x.eligible
    BY <1>2, <2>1 DEF Leads
  <2> QED
    BY <1>2, <2>2 DEF Leads, Better
<1>3. CASE s.eligible /\ b # Nobody
  <2>1. b \in S /\ b.eligible /\ \A x \in S : x.eligible => x = b \/ better(b, x)
    BY <1>3 DEF Leads
  <2>2. b \in ScoreSet /\ b.id # s.id
    BY <2>1
  <2>3. CASE better(s, b)
    <3>1. \A x \in S : x.eligible => better(s, x)
      BY <2>1, <2>2, <2>3, BetterOrder
    <3>2. Better(b, s) = s
      BY <1>3, <2>3 DEF Better
    <3> QED
      BY <1>3, <3>1, <3>2 DEF Leads
  <2>4. CASE ~better(s, b)
    <3>1. better(b, s)
      BY <2>2, <2>4, BetterOrder
    <3>2. Better(b, s) = b
      BY <1>3, <2>4 DEF Better
    <3> QED
      BY <2>1, <3>1, <3>2 DEF Leads
  <2> QED
    BY <2>3, <2>4
<1> QED
  BY <1>1, <1>2, <1>3

LEMMA UnscoredTyped ==
  ASSUME NEW id \in Int, NEW reason \in Reasons
  PROVE  Unscored(id, reason) \in ScoreSet
BY DEF Unscored, ScoreSet

LEMMA BestLeads ==
  ASSUME NEW scores \in Seq(ScoreSet), Apart(scores)
  PROVE  Leads(Best(scores), ToSet(scores))
<1> DEFINE N == Len(scores)
           Picks(f) == f = [n \in 0 .. N |-> IF n = 0 THEN Nobody ELSE Better(f[n - 1], scores[n])]
           best == CHOOSE f : Picks(f)
           step == [p \in (1 .. N) \X ScoreSet |-> Better(p[2], scores[p[1]])]
<1>1. N \in Nat /\ DOMAIN scores = 1 .. N /\ \A n \in 1 .. N : scores[n] \in ScoreSet
  OBVIOUS
<1>2. Nobody \in ScoreSet
  <2>1. "" \in Reasons /\ 0 \in Int
    BY DEF Reasons
  <2> QED
    BY <2>1, UnscoredTyped, Zenon DEF Nobody
<1>3. step \in [(1 .. N) \X ScoreSet -> ScoreSet]
  <2>1. \A b, s \in ScoreSet : Better(b, s) \in ScoreSet
    BY DEF Better
  <2> HIDE DEF N
  <2> QED
    BY <1>1, <2>1
<1>4. PICK f \in [0 .. N -> ScoreSet] :
        f = [n \in 0 .. N |-> IF n = 0 THEN Nobody ELSE step[<<n, f[n - 1]>>]]
  <2> HIDE DEF step
  <2>1. \E f \in [0 .. N -> ScoreSet] : Follows(f, N, Nobody, step)
    BY ONLY <1>1, <1>2, <1>3, Recursion
  <2> QED
    BY <2>1 DEF Follows
<1>5. Picks(f)
  <2>1. \A n \in 1 .. N : step[<<n, f[n - 1]>>] = Better(f[n - 1], scores[n])
    <3>1. TAKE n \in 1 .. N
    <3>2. <<n, f[n - 1]>> \in (1 .. N) \X ScoreSet
      BY <1>1
    <3> QED
      BY <3>2
  <2>2. ASSUME NEW n \in 0 .. N PROVE f[n] = IF n = 0 THEN Nobody ELSE Better(f[n - 1], scores[n])
    <3>1. n = 0 \/ n \in 1 .. N
      BY <1>1
    <3> HIDE DEF step
    <3> QED
      BY <1>4, <2>1, <3>1
  <2> HIDE DEF step
  <2> QED
    BY <1>4, <2>2
<1>6. Picks(best)
  <2> HIDE DEF Picks
  <2> QED
    BY <1>5
<1> HIDE DEF best
<1> DEFINE Good == {k \in Nat : k <= N => Leads(best[k], UpTo(scores, k))}
<1>7. 0 \in Good
  <2>1. best[0] = Nobody
    BY <1>1, <1>6
  <2> QED
    BY <2>1 DEF Leads, UpTo
<1>8. ASSUME NEW k \in Nat, k \in Good PROVE k + 1 \in Good
  <2>1. SUFFICES ASSUME k + 1 <= N PROVE Leads(best[k + 1], UpTo(scores, k + 1))
    OBVIOUS
  <2>2. Leads(best[k], UpTo(scores, k)) /\ k + 1 \in 1 .. N
    BY <1>1, <1>8, <2>1
  <2>3. best[k + 1] = Better(best[k], scores[k + 1])
    BY <1>1, <1>6, <2>2
  <2>4. UpTo(scores, k) \in SUBSET ScoreSet /\ scores[k + 1] \in ScoreSet
    BY <1>1, <2>2 DEF UpTo
  <2>5. \A x \in UpTo(scores, k) : x.id # scores[k + 1].id
    BY <1>1, <2>2 DEF UpTo, Apart
  <2>6. UpTo(scores, k + 1) = UpTo(scores, k) \cup {scores[k + 1]}
    BY <2>2 DEF UpTo
  <2>7. Leads(Better(best[k], scores[k + 1]), UpTo(scores, k) \cup {scores[k + 1]})
    BY <2>2, <2>4, <2>5, BetterLeads
  <2> QED
    BY <2>3, <2>6, <2>7, Zenon
<1>9. Leads(best[N], UpTo(scores, N))
  <2> HIDE DEF Good
  <2>1. N \in Good
    BY <1>1, <1>7, <1>8, Induction
  <2> QED
    BY <1>1, <2>1 DEF Good
<1>10. Best(scores) = best[N]
  BY Zenon DEF Best, best
<1>11. ToSet(scores) = UpTo(scores, N)
  BY <1>1 DEF ToSet, UpTo
<1> QED
  BY <1>9, <1>10, <1>11, Zenon

-----------------------------------------------------------------------------
(* Orders of the seats *)

LEMMA OrdersSeats ==
  /\ SetToSeq(Seats) \in SetToSeqs(Seats)
  /\ \A order \in SetToSeqs(Seats) :
       /\ DOMAIN order = 1 .. Cardinality(Seats)
       /\ \A i, j \in DOMAIN order : i # j => order[i] # order[j]
       /\ {order[i] : i \in DOMAIN order} = Seats
<1> DEFINE N == Cardinality(Seats)
<1>1. N \in Nat /\ ExistsBijection(1 .. N, Seats) /\ Cardinality(1 .. N) = N
  BY PaceAssumption, FS_CardinalityType, FS_Interval
<1>2. ASSUME NEW order \in SetToSeqs(Seats)
      PROVE  /\ order \in [1 .. N -> Seats]
             /\ \A i, j \in 1 .. N : i # j => order[i] # order[j]
             /\ {order[i] : i \in DOMAIN order} = Seats
  <2>1. order \in [1 .. N -> Seats] /\ \A i, j \in 1 .. N : i # j => order[i] # order[j]
    BY DEF SetToSeqs
  <2> HIDE DEF N
  <2>2. order \in Injection(1 .. N, Seats)
    BY <2>1 DEF Injection, IsInjective
  <2>3. order \in Surjection(1 .. N, Seats)
    BY <1>1, <2>2, PaceAssumption, FS_Injection DEF N
  <2> QED
    BY <2>1, <2>3 DEF Surjection
<1>3. SetToSeq(Seats) \in SetToSeqs(Seats)
  <2>1. \E f \in [1 .. N -> Seats] : IsInjective(f)
    <3>1. PICK f : f \in Bijection(1 .. N, Seats)
      BY <1>1 DEF ExistsBijection
    <3> QED
      BY <3>1 DEF Bijection, Injection, IsInjective
  <2>2. SetToSeq(Seats) \in [1 .. N -> Seats] /\ IsInjective(SetToSeq(Seats))
    BY <2>1 DEF SetToSeq
  <2> QED
    BY <2>2 DEF SetToSeqs, IsInjective
<1> QED
  BY <1>2, <1>3
-----------------------------------------------------------------------------
(* The cost *)

\* What Normalize leaves of the settings the cost reads.
Sane(c) ==
  c.weekly \in Nat /\ c.session \in Nat /\ c.scoped \in Nat /\ c.landing \in Nat

LEMMA NormalizeSane ==
  ASSUME NEW raw \in RawPaces
  PROVE  Sane(Normalize(raw))
<1> DEFINE c == Normalize(raw)
<1>1. /\ DOMAIN raw = DOMAIN Defaults
      /\ raw["landing"] \in Int \cup {NaN} /\ raw["weekly"] \in Int \cup {NaN}
      /\ raw["session"] \in Int \cup {NaN} /\ raw["scoped"] \in Int \cup {NaN}
  BY PaceAssumption
<1>2. /\ "landing" \in DOMAIN raw /\ "weekly" \in DOMAIN raw
      /\ "session" \in DOMAIN raw /\ "scoped" \in DOMAIN raw
  BY <1>1 DEF Defaults
<1>3. /\ c.landing = Landing(raw.landing, Defaults.landing)
      /\ c.weekly = Weight(raw.weekly, Defaults.weekly)
      /\ c.session = Weight(raw.session, Defaults.session)
      /\ c.scoped = Weight(raw.scoped, Defaults.scoped)
  BY <1>2 DEF Normalize
<1>4. \A v \in Int \cup {NaN}, d \in Nat : Weight(v, d) \in Nat /\ Landing(v, d) \in Nat
  BY DEF Weight, Landing, Finite, AtMost, maxWeight
<1>5. /\ Defaults.landing \in Nat /\ Defaults.weekly \in Nat
      /\ Defaults.session \in Nat /\ Defaults.scoped \in Nat
  BY DEF Defaults
<1> HIDE DEF c
<1> QED
  BY <1>1, <1>3, <1>4, <1>5, Zenon DEF Sane, c

WellRead(snap) ==
  /\ IsFiniteSet(snap.windows)
  /\ \A w \in snap.windows :
       w.util \in Int \cup {NaN} /\ w.elapsed \in 0 .. 4 /\ w.open \in BOOLEAN
  /\ \A v, w \in snap.windows : v.kind = w.kind /\ v.scope = w.scope => v = w

LEMMA TargetRises ==
  ASSUME NEW c, c.landing \in Nat, NEW d \in 0 .. 4, NEW e \in 0 .. 4, d <= e
  PROVE  Target(c, d) \in Nat /\ Target(c, e) \in Nat /\ Target(c, d) <= Target(c, e)
<1>1. shape(c, d) \in Nat /\ shape(c, e) \in Nat /\ shape(c, d) <= shape(c, e)
  <2>1. d \in {0, 1, 2, 3, 4} /\ e \in {0, 1, 2, 3, 4}
    OBVIOUS
  <2>2. CASE c.shape = "power" /\ c.exponent = 2
    <3>1. shape(c, d) = d * d /\ shape(c, e) = e * e
      BY <2>2 DEF shape
    <3> QED
      BY <2>1, <3>1
  <2>3. CASE c.shape = "sigmoid"
    <3>1. shape(c, d) = Sigmoid[d + 1] /\ shape(c, e) = Sigmoid[e + 1]
      BY <2>3 DEF shape
    <3>2. /\ Sigmoid[0 + 1] = 0 /\ Sigmoid[1 + 1] = 2 /\ Sigmoid[2 + 1] = 8
          /\ Sigmoid[3 + 1] = 14 /\ Sigmoid[4 + 1] = 16
      BY DEF Sigmoid
    <3> QED
      BY <2>1, <3>1, <3>2
  <2>4. CASE ~(c.shape = "power" /\ c.exponent = 2) /\ c.shape # "sigmoid"
    <3>1. shape(c, d) = 4 * d /\ shape(c, e) = 4 * e
      BY <2>4 DEF shape
    <3> QED
      BY <2>1, <3>1
  <2> QED
    BY <2>2, <2>3, <2>4
<1>2. \A k, x, y \in Nat : x <= y => k * x \in Nat /\ k * y \in Nat /\ k * x <= k * y
  OBVIOUS
<1> DEFINE x == c.landing * shape(c, d)
           y == c.landing * shape(c, e)
<1>3. x \in Nat /\ y \in Nat /\ x <= y
  BY <1>1, <1>2
<1>4. Target(c, d) = Min2(x, 64) /\ Target(c, e) = Min2(y, 64)
  BY DEF Target
<1> HIDE DEF x, y
<1> QED
  BY <1>3, <1>4 DEF Min2

LEMMA WeightNat ==
  ASSUME NEW c, Sane(c), NEW w, NEW only
  PROVE  weightOf(c, w, only) \in Nat
BY DEF Sane, weightOf

\* The summand of a window in the cost.
Term(c, w, only) == weightOf(c, w, only) * (16 * w.util - Target(c, Elapsed(w)))

LEMMA ElapsedTyped ==
  ASSUME NEW snap, WellRead(snap), NEW w \in snap.windows
  PROVE  Elapsed(w) \in 0 .. 4
BY DEF WellRead, Elapsed

LEMMA TermTyped ==
  ASSUME NEW c, Sane(c), NEW snap, WellRead(snap), NEW w \in snap.windows, w.util # NaN, NEW only
  PROVE  Term(c, w, only) \in Int
<1>1. weightOf(c, w, only) \in Nat
  BY WeightNat
<1>2. Target(c, Elapsed(w)) \in Nat
  BY ElapsedTyped, TargetRises DEF Sane
<1>3. w.util \in Int
  BY DEF WellRead
<1>4. \A k \in Nat, u \in Int, t \in Nat : k * (16 * u - t) \in Int
  OBVIOUS
<1> QED
  BY <1>1, <1>2, <1>3, <1>4 DEF Term

LEMMA CostTyped ==
  ASSUME NEW c, Sane(c), NEW snap, WellRead(snap), NEW fam, NEW only
  PROVE  Cost(c, snap, fam, only) \in Int \cup {NaN}
<1> DEFINE terms == Weighing(c, snap, fam, only)
           f == [w \in terms |-> weightOf(c, w, only) * (16 * w.util - Target(c, Elapsed(w)))]
<1>1. terms \subseteq snap.windows
  BY DEF Weighing
<1>2. IsFiniteSet(terms)
  BY <1>1, FS_Subset DEF WellRead
<1>3. CASE \E w \in terms : w.util = NaN
  BY <1>3 DEF Cost
<1>4. CASE \A w \in terms : w.util # NaN
  <2>1. \A w \in terms : weightOf(c, w, only) * (16 * w.util - Target(c, Elapsed(w))) \in Int
    BY <1>1, <1>4, TermTyped DEF Term
  <2>2. f \in [terms -> Int]
    BY <2>1
  <2>3. Cost(c, snap, fam, only) = Total(f)
    BY <1>4 DEF Cost
  <2> HIDE DEF f, terms
  <2> QED
    BY <1>2, <2>2, <2>3, TotalInt
<1> QED
  BY <1>3, <1>4

ScoreOf(a) == ScoreWithStaleness(pace, snaps[a], a, family)

PaceInv ==
  /\ pace \in {Normalize(raw) : raw \in RawPaces}
  /\ snaps \in [Seats -> Snapshots \cup {NeverRead}]

LEMMA PaceInvHolds == PaceSpec => []PaceInv
<1>1. PaceInit => PaceInv
  BY DEF PaceInit, PaceInv
<1>2. PaceInv /\ [PaceNext]_paceVars => PaceInv'
  BY DEF PaceInv, PaceNext, Read, paceVars
<1> QED
  BY <1>1, <1>2, PTL DEF PaceSpec

LEMMA PaceFacts ==
  ASSUME PaceInv
  PROVE  Sane(pace) /\ \A a \in Seats : WellRead(snaps[a])
<1>1. Sane(pace)
  BY NormalizeSane DEF PaceInv
<1>2. WellRead(NeverRead)
  BY FS_EmptySet DEF WellRead, NeverRead
<1>3. \A snap \in Snapshots : WellRead(snap)
  BY PaceAssumption DEF WellRead
<1> QED
  BY <1>1, <1>2, <1>3 DEF PaceInv

LEMMA ScoreTyped ==
  ASSUME PaceInv, NEW a \in Seats
  PROVE  ScoreOf(a) \in ScoreSet /\ ScoreOf(a).id = a
<1>1. a \in Int
  BY PaceAssumption
<1>2. \A reason \in Reasons : Unscored(a, reason) \in ScoreSet /\ Unscored(a, reason).id = a
  <2>1. \A reason : Unscored(a, reason).id = a
    BY DEF Unscored
  <2> QED
    BY <1>1, <2>1, UnscoredTyped
<1>3. /\ "no-snapshot" \in Reasons /\ "stale" \in Reasons /\ "no-window" \in Reasons
      /\ Reason(snaps[a], family) \in Reasons
  BY DEF Reason, Reasons
<1> DEFINE only == snaps[a].source = "usage" /\ sessionOnly(snaps[a].windows, family)
           scored == [id |-> a, eligible |-> Reason(snaps[a], family) = "", only |-> only,
                      cost |-> Cost(pace, snaps[a], family, only), reason |-> Reason(snaps[a], family)]
<1>4. Cost(pace, snaps[a], family, only) \in Int \cup {NaN}
  BY PaceFacts, CostTyped
<1>5. scored \in ScoreSet /\ scored.id = a
  <2>1. only \in BOOLEAN
    OBVIOUS
  <2> HIDE DEF only
  <2> QED
    BY <1>1, <1>3, <1>4, <2>1 DEF ScoreSet
<1>6. ScoreOf(a) \in {Unscored(a, "no-snapshot"), Unscored(a, "stale"), Unscored(a, "no-window"), scored}
  BY DEF ScoreOf, ScoreWithStaleness, ScoreAuth
<1> HIDE DEF scored
<1> QED
  BY <1>2, <1>3, <1>5, <1>6

\* What an eligible score was made from.
LEMMA EligibleScored ==
  ASSUME NEW a \in Seats, ScoreOf(a).eligible
  PROVE  LET only == snaps[a].source = "usage" /\ sessionOnly(snaps[a].windows, family)
         IN  /\ ScoreOf(a).only = only
             /\ ScoreOf(a).cost = Cost(pace, snaps[a], family, only)
             /\ \A w \in snaps[a].windows : BearsOn(w, family) => w.util # NaN
<1> DEFINE only == snaps[a].source = "usage" /\ sessionOnly(snaps[a].windows, family)
           scored == [id |-> a, eligible |-> Reason(snaps[a], family) = "", only |-> only,
                      cost |-> Cost(pace, snaps[a], family, only), reason |-> Reason(snaps[a], family)]
<1>1. \A reason : ~Unscored(a, reason).eligible
  BY DEF Unscored
<1>2. ScoreOf(a) = scored
  BY <1>1 DEF ScoreOf, ScoreWithStaleness, ScoreAuth
<1>3. /\ scored.eligible = (Reason(snaps[a], family) = "") /\ scored.only = only
      /\ scored.cost = Cost(pace, snaps[a], family, only)
  OBVIOUS
<1> HIDE DEF scored, only
<1>4. Reason(snaps[a], family) = ""
  BY <1>2, <1>3
<1>5. \A w \in snaps[a].windows : BearsOn(w, family) => w.util # NaN
  BY <1>4 DEF Reason
<1> QED
  BY <1>2, <1>5, <1>3 DEF only

LEMMA SameOnly ==
  ASSUME NEW a \in Seats, NEW b \in Seats, Dominates(b, a)
  PROVE  sessionOnly(snaps[a].windows, family) = sessionOnly(snaps[b].windows, family)
<1> DEFINE Keys(x) == {<<w.kind, w.scope>> : w \in snaps[x].windows}
           Only(K) == /\ \E k \in K : k[1] = "session"
                      /\ \A k \in K : k[1] # "session" =>
                           ~(k[1] \in {"session", "weekly"} \/ (family # "none" /\ k[2] = family))
<1>1. ASSUME NEW x \in Seats PROVE sessionOnly(snaps[x].windows, family) = Only(Keys(x))
  <2>1. \A w \in snaps[x].windows : <<w.kind, w.scope>> \in Keys(x)
    OBVIOUS
  <2>2. \A k \in Keys(x) : \E w \in snaps[x].windows : k[1] = w.kind /\ k[2] = w.scope
    OBVIOUS
  <2>3. \A w : <<w.kind, w.scope>>[1] = w.kind /\ <<w.kind, w.scope>>[2] = w.scope
    OBVIOUS
  <2> HIDE DEF Keys
  <2>4. ASSUME Only(Keys(x)) PROVE sessionOnly(snaps[x].windows, family)
    <3>1. \E w \in snaps[x].windows : w.kind = "session"
      BY <2>2, <2>4
    <3>2. ASSUME NEW w \in snaps[x].windows, w.kind # "session" PROVE ~BearsOn(w, family)
      BY <2>1, <2>3, <2>4, <3>2 DEF BearsOn
    <3> QED
      BY <3>1, <3>2 DEF sessionOnly
  <2>5. ASSUME sessionOnly(snaps[x].windows, family) PROVE Only(Keys(x))
    <3>1. \E k \in Keys(x) : k[1] = "session"
      <4>1. PICK w \in snaps[x].windows : w.kind = "session"
        BY <2>5 DEF sessionOnly
      <4> QED
        BY <2>1, <2>3, <4>1
    <3>2. ASSUME NEW k \in Keys(x), k[1] # "session"
          PROVE  ~(k[1] \in {"session", "weekly"} \/ (family # "none" /\ k[2] = family))
      <4>1. PICK w \in snaps[x].windows : k[1] = w.kind /\ k[2] = w.scope
        BY <2>2
      <4>2. ~BearsOn(w, family)
        BY <2>5, <3>2, <4>1 DEF sessionOnly
      <4> QED
        BY <4>1, <4>2 DEF BearsOn
    <3> QED
      BY <3>1, <3>2
  <2>6. sessionOnly(snaps[x].windows, family) \in BOOLEAN /\ Only(Keys(x)) \in BOOLEAN
    BY DEF sessionOnly
  <2> HIDE DEF Only
  <2> QED
    BY <2>4, <2>5, <2>6
<1>2. Keys(a) = Keys(b)
  BY DEF Dominates
<1> HIDE DEF Only, Keys
<1> QED
  BY <1>1, <1>2, Zenon

\* A seat that dominates another costs no more.
LEMMA DominatingCostsLess ==
  ASSUME PaceInv, NEW a \in Seats, NEW b \in Seats, Dominates(b, a),
         ScoreOf(a).eligible, ScoreOf(b).eligible
  PROVE  /\ ScoreOf(a).only = ScoreOf(b).only
         /\ ScoreOf(a).cost \in Int /\ ScoreOf(b).cost \in Int
         /\ ScoreOf(b).cost <= ScoreOf(a).cost
<1> DEFINE only == snaps[a].source = "usage" /\ sessionOnly(snaps[a].windows, family)
           D == Weighing(pace, snaps[a], family, only)
           E == Weighing(pace, snaps[b], family, only)
           f == [w \in D |-> weightOf(pace, w, only) * (16 * w.util - Target(pace, Elapsed(w)))]
           g == [w \in E |-> weightOf(pace, w, only) * (16 * w.util - Target(pace, Elapsed(w)))]
           match == [w \in D |-> CHOOSE v \in snaps[b].windows : v.kind = w.kind /\ v.scope = w.scope]
<1>1. only = (snaps[b].source = "usage" /\ sessionOnly(snaps[b].windows, family))
  <2>1. snaps[a].source = snaps[b].source
    BY DEF Dominates
  <2> QED
    BY <2>1, SameOnly
<1>2. /\ ScoreOf(a).only = only /\ ScoreOf(b).only = only
      /\ ScoreOf(a).cost = Cost(pace, snaps[a], family, only)
      /\ ScoreOf(b).cost = Cost(pace, snaps[b], family, only)
      /\ \A w \in snaps[a].windows : BearsOn(w, family) => w.util # NaN
      /\ \A w \in snaps[b].windows : BearsOn(w, family) => w.util # NaN
  BY <1>1, EligibleScored
<1>3. Sane(pace) /\ WellRead(snaps[a]) /\ WellRead(snaps[b])
  BY PaceFacts
<1> HIDE DEF only
<1>4. /\ \A w \in D : w \in snaps[a].windows /\ w.util # NaN
      /\ \A w \in E : w \in snaps[b].windows /\ w.util # NaN
  BY <1>2 DEF Weighing
<1>5. IsFiniteSet(D)
  <2>1. D \subseteq snaps[a].windows
    BY <1>4
  <2> QED
    BY <1>3, <2>1, FS_Subset DEF WellRead
<1>6. /\ \A w \in D : Term(pace, w, only) \in Int /\ f[w] = Term(pace, w, only)
      /\ \A w \in E : Term(pace, w, only) \in Int /\ g[w] = Term(pace, w, only)
  BY <1>3, <1>4, TermTyped DEF Term
<1>7. f \in [D -> Int] /\ g \in [E -> Int]
  BY <1>6
<1>8. /\ ScoreOf(a).cost = Total(f) /\ ScoreOf(b).cost = Total(g)
  BY <1>2, <1>4 DEF Cost
<1>9. ASSUME NEW w \in snaps[a].windows, NEW v \in snaps[b].windows, v.kind = w.kind, v.scope = w.scope
      PROVE  /\ w \in D <=> v \in E
             /\ weightOf(pace, w, only) = weightOf(pace, v, only)
             /\ w.util # NaN => v.util <= w.util
             /\ Elapsed(w) <= Elapsed(v)
  <2>1. /\ w.open = v.open /\ (w.util # NaN => v.util <= w.util) /\ Elapsed(v) >= Elapsed(w)
    BY <1>9 DEF Dominates
  <2>2. weightOf(pace, w, only) = weightOf(pace, v, only)
    BY <1>9 DEF weightOf
  <2>3. BearsOn(w, family) <=> BearsOn(v, family)
    BY <1>9 DEF BearsOn
  <2>4. Elapsed(w) \in 0 .. 4 /\ Elapsed(v) \in 0 .. 4
    BY <1>3, ElapsedTyped
  <2>5. w \in D <=> v \in E
    BY <2>1, <2>2, <2>3 DEF Weighing
  <2> QED
    BY <2>1, <2>2, <2>4, <2>5
<1>10. /\ \A w \in snaps[a].windows : \E v \in snaps[b].windows : v.kind = w.kind /\ v.scope = w.scope
       /\ \A v \in snaps[b].windows : \E w \in snaps[a].windows : v.kind = w.kind /\ v.scope = w.scope
  <2>1. {<<w.kind, w.scope>> : w \in snaps[a].windows} = {<<w.kind, w.scope>> : w \in snaps[b].windows}
    BY DEF Dominates
  <2>2. ASSUME NEW w \in snaps[a].windows
        PROVE  \E v \in snaps[b].windows : v.kind = w.kind /\ v.scope = w.scope
    <3>1. <<w.kind, w.scope>> \in {<<v.kind, v.scope>> : v \in snaps[b].windows}
      BY <2>1
    <3> QED
      BY <3>1
  <2>3. ASSUME NEW v \in snaps[b].windows
        PROVE  \E w \in snaps[a].windows : v.kind = w.kind /\ v.scope = w.scope
    <3>1. <<v.kind, v.scope>> \in {<<w.kind, w.scope>> : w \in snaps[a].windows}
      BY <2>1
    <3> QED
      BY <3>1
  <2> QED
    BY <2>2, <2>3
<1>11. ASSUME NEW w \in D
       PROVE  /\ match[w] \in E /\ match[w] \in snaps[b].windows
              /\ match[w].kind = w.kind /\ match[w].scope = w.scope
  <2> DEFINE v == CHOOSE v \in snaps[b].windows : v.kind = w.kind /\ v.scope = w.scope
  <2>1. v \in snaps[b].windows /\ v.kind = w.kind /\ v.scope = w.scope
    BY <1>4, <1>10
  <2>2. match[w] = v
    OBVIOUS
  <2> HIDE DEF v, match, D, E
  <2>3. v \in E
    BY <1>4, <1>9, <2>1
  <2> QED
    BY <2>1, <2>2, <2>3
<1>12. match \in [D -> E]
  BY <1>11
<1> HIDE DEF match, f, g, D, E
<1>13. \A v \in E : \E w \in D : v = match[w]
  <2>1. TAKE v \in E
  <2>2. PICK w \in snaps[a].windows : v.kind = w.kind /\ v.scope = w.scope
    BY <1>4, <1>10
  <2>3. w \in D
    BY <1>4, <1>9, <2>2
  <2>4. v = match[w]
    BY <1>3, <1>4, <1>11, <2>2, <2>3 DEF WellRead
  <2> QED
    BY <2>3, <2>4
<1>14. \A v, w \in D : match[v] = match[w] => v = w
  BY <1>3, <1>4, <1>11 DEF WellRead
<1>15. \A w \in D : g[match[w]] <= f[w]
  <2>1. TAKE w \in D
  <2> DEFINE v == match[w]
  <2>2. v \in E /\ v \in snaps[b].windows /\ v.kind = w.kind /\ v.scope = w.scope /\ w \in snaps[a].windows
    BY <1>4, <1>11
  <2> HIDE DEF v
  <2>3. /\ weightOf(pace, w, only) = weightOf(pace, v, only)
        /\ v.util <= w.util /\ Elapsed(w) <= Elapsed(v)
    BY <1>4, <1>9, <2>2
  <2>4. /\ Elapsed(w) \in 0 .. 4 /\ Elapsed(v) \in 0 .. 4
        /\ w.util \in Int /\ v.util \in Int /\ weightOf(pace, w, only) \in Nat
    BY <1>3, <1>4, <2>2, ElapsedTyped, WeightNat DEF WellRead
  <2>5. /\ Target(pace, Elapsed(w)) \in Nat /\ Target(pace, Elapsed(v)) \in Nat
        /\ Target(pace, Elapsed(w)) <= Target(pace, Elapsed(v))
    BY <1>3, <2>3, <2>4, TargetRises DEF Sane
  <2>6. \A k \in Nat, x, y \in Int : x <= y => k * x <= k * y
    OBVIOUS
  <2> DEFINE x == 16 * v.util - Target(pace, Elapsed(v))
             y == 16 * w.util - Target(pace, Elapsed(w))
  <2>7. x \in Int /\ y \in Int /\ x <= y
    BY <2>3, <2>4, <2>5
  <2>8. Term(pace, v, only) = weightOf(pace, w, only) * x /\ Term(pace, w, only) = weightOf(pace, w, only) * y
    BY <2>3 DEF Term
  <2> HIDE DEF x, y
  <2>9. Term(pace, v, only) <= Term(pace, w, only)
    BY <2>4, <2>6, <2>7, <2>8
  <2> QED
    BY <1>6, <2>2, <2>9 DEF v
<1>16. Total(f) \in Int /\ Total(g) \in Int /\ Total(g) <= Total(f)
  BY <1>5, <1>7, <1>12, <1>13, <1>14, <1>15, TotalAtMost
<1> QED
  BY <1>2, <1>8, <1>16

-----------------------------------------------------------------------------
(* The seat chosen *)

LEMMA SelectionIsRight == PaceInv => NearerResetFirst
<1> DEFINE All == {ScoreOf(a) : a \in Seats}
<1>1. SUFFICES ASSUME PaceInv PROVE NearerResetFirst
  OBVIOUS
<1>2. \A a \in Seats : ScoreOf(a) \in ScoreSet /\ ScoreOf(a).id = a
  BY <1>1, ScoreTyped
<1>3. ASSUME NEW order \in SetToSeqs(Seats)
      PROVE  LET scores == Scores(pace, order, family)
             IN  scores \in Seq(ScoreSet) /\ Apart(scores) /\ ToSet(scores) = All
  <2> DEFINE scores == Scores(pace, order, family)
  <2>1. /\ DOMAIN order = 1 .. Cardinality(Seats)
        /\ \A i, j \in DOMAIN order : i # j => order[i] # order[j]
        /\ {order[i] : i \in DOMAIN order} = Seats
    BY OrdersSeats
  <2>2. Cardinality(Seats) \in Nat
    BY PaceAssumption, FS_CardinalityType
  <2>3. /\ DOMAIN scores = 1 .. Cardinality(Seats)
        /\ scores = [i \in DOMAIN order |-> ScoreOf(order[i])]
    BY <2>1 DEF Scores, ScoreOf
  <2>4. \A i \in DOMAIN order : order[i] \in Seats
    BY <2>1
  <2> HIDE DEF scores
  <2>5. scores \in [1 .. Cardinality(Seats) -> ScoreSet]
    BY <1>2, <2>1, <2>3, <2>4
  <2>6. scores \in Seq(ScoreSet)
    BY <2>2, <2>5
  <2>7. Apart(scores)
    BY <1>2, <2>1, <2>3, <2>4 DEF Apart
  <2>8. ToSet(scores) = All
    <3>1. ASSUME NEW x \in ToSet(scores) PROVE x \in All
      <4>1. PICK i \in DOMAIN scores : x = scores[i]
        BY DEF ToSet
      <4> QED
        BY <2>1, <2>3, <2>4, <4>1
    <3>2. ASSUME NEW a \in Seats PROVE ScoreOf(a) \in ToSet(scores)
      <4>1. PICK i \in DOMAIN order : order[i] = a
        BY <2>1
      <4>2. scores[i] = ScoreOf(a) /\ i \in DOMAIN scores
        BY <2>1, <2>3, <4>1
      <4> QED
        BY <4>2 DEF ToSet
    <3> QED
      BY <3>1, <3>2
  <2> QED
    BY <2>6, <2>7, <2>8 DEF scores
<1> DEFINE S == SetToSeq(Seats)
<1>4. S \in SetToSeqs(Seats)
  BY OrdersSeats
<1>5. ASSUME NEW order \in SetToSeqs(Seats)
      PROVE  LET ranking == RankWithStaleness(pace, order, family)
             IN  ranking \in Seq(ScoreSet) /\ Ordered(ranking) /\ ToSet(ranking) = All
  <2> HIDE DEF All
  <2> QED
    BY <1>3, RankSorts DEF RankWithStaleness
<1>6. SUFFICES ASSUME NEW order \in SetToSeqs(Seats)
               PROVE  LET ranking == RankWithStaleness(pace, order, family)
                          best == Best(ranking)
                      IN  /\ ranking = RankWithStaleness(pace, S, family)
                          /\ best = Best(Scores(pace, order, family))
                          /\ best # Nobody => ranking[1] = best
                          /\ \A s \in ToSet(ranking) :
                               best # Nobody /\ s.eligible /\ Dominates(s.id, best.id) => s.cost = best.cost
  BY DEF NearerResetFirst
<1> DEFINE ranking == RankWithStaleness(pace, order, family)
           best == Best(ranking)
<1>7. ranking \in Seq(ScoreSet) /\ Ordered(ranking) /\ ToSet(ranking) = All
  BY <1>5
<1>8. ranking = RankWithStaleness(pace, S, family)
  <2> HIDE DEF All, S
  <2>1. /\ RankWithStaleness(pace, S, family) \in Seq(ScoreSet)
        /\ Ordered(RankWithStaleness(pace, S, family))
        /\ ToSet(RankWithStaleness(pace, S, family)) = All
    BY <1>4, <1>5
  <2> HIDE DEF ranking
  <2> QED
    BY <1>7, <2>1, OneOrder
<1> HIDE DEF ranking
<1>9. \A x, y \in All : x.id = y.id => x = y
  BY <1>2
<1>10. /\ Len(ranking) \in Nat /\ DOMAIN ranking = 1 .. Len(ranking)
       /\ \A i \in 1 .. Len(ranking) : ranking[i] \in ScoreSet /\ ranking[i] \in All
  <2> HIDE DEF All
  <2>1. \A i \in DOMAIN ranking : ranking[i] \in All
    BY <1>7 DEF ToSet
  <2> QED
    BY <1>7, <2>1
<1>11. All \in SUBSET ScoreSet
  BY <1>2
<1> HIDE DEF All
<1>12. Apart(ranking)
  <2>1. SUFFICES ASSUME NEW i \in 1 .. Len(ranking), NEW j \in 1 .. Len(ranking), i < j
                 PROVE  ranking[i].id # ranking[j].id
    <3>1. \A i, j \in 1 .. Len(ranking) : i # j => i < j \/ j < i
      BY <1>10
    <3> QED
      BY <1>10, <2>1, <3>1 DEF Apart
  <2>2. better(ranking[i], ranking[j])
    BY <1>7, <1>10, <2>1 DEF Ordered
  <2>3. ranking[i] # ranking[j]
    BY <1>10, <2>2, BetterOrder
  <2> QED
    BY <1>9, <1>10, <2>3
<1>13. Leads(best, All)
  BY <1>7, <1>12, BestLeads
<1>14. Leads(Best(Scores(pace, order, family)), All)
  BY <1>3, BestLeads
<1>15. best = Best(Scores(pace, order, family))
  <2> HIDE DEF best
  <2> QED
    BY <1>11, <1>13, <1>14, OneLeads
<1> HIDE DEF best
<1>16. ASSUME best # Nobody
       PROVE  best \in All /\ best.eligible /\ \A x \in All : x.eligible => x = best \/ better(best, x)
  BY <1>13, <1>16 DEF Leads
<1>17. ASSUME best # Nobody PROVE ranking[1] = best
  <2>1. PICK k \in 1 .. Len(ranking) : ranking[k] = best
    BY <1>7, <1>10, <1>16, <1>17 DEF ToSet
  <2>2. CASE k = 1
    BY <2>1, <2>2
  <2>3. CASE k # 1
    <3>1. 1 \in 1 .. Len(ranking) /\ 1 < k
      BY <1>10, <2>3
    <3>2. better(ranking[1], best)
      BY <1>7, <1>10, <2>1, <3>1 DEF Ordered
    <3>3. ranking[1].eligible
      BY <1>16, <1>17, <3>2 DEF better
    <3>4. ranking[1] = best \/ better(best, ranking[1])
      BY <1>10, <1>16, <1>17, <3>1, <3>3
    <3>5. ranking[1] \in ScoreSet /\ best \in ScoreSet
      BY <1>10, <1>11, <1>16, <1>17, <3>1
    <3> QED
      BY <3>2, <3>4, <3>5, BetterOrder
  <2> QED
    BY <2>2, <2>3
<1>18. ASSUME NEW s \in All, best # Nobody, s.eligible, Dominates(s.id, best.id)
       PROVE  s.cost = best.cost
  <2>1. PICK b \in Seats : s = ScoreOf(b)
    BY DEF All
  <2>2. PICK a \in Seats : best = ScoreOf(a)
    BY <1>16, <1>18 DEF All
  <2>3. s.id = b /\ best.id = a
    BY <1>2, <2>1, <2>2
  <2>4. Dominates(b, a) /\ ScoreOf(a).eligible /\ ScoreOf(b).eligible
    BY <1>16, <1>18, <2>1, <2>2, <2>3
  <2>5. best.only = s.only /\ best.cost \in Int /\ s.cost \in Int /\ s.cost <= best.cost
    BY <1>1, <2>1, <2>2, <2>4, DominatingCostsLess
  <2>6. s = best \/ better(best, s)
    BY <1>16, <1>18
  <2>7. CASE better(best, s)
    <3>1. best.eligible /\ s.eligible
      BY <1>16, <1>18
    <3>2. best.eligible \in BOOLEAN /\ s.eligible \in BOOLEAN
      BY <1>2, <2>1, <2>2 DEF ScoreSet
    <3> QED
      BY <2>5, <2>7, <3>1, <3>2, LimitsAssumption DEF better
  <2> QED
    BY <2>6, <2>7
<1> QED
  BY <1>7, <1>8, <1>15, <1>17, <1>18, Zenon DEF ranking, best

\* NearerResetFirst: whatever the settings, the readings and the order in which the host
\* offers the seats, the pick's single pass over them and the sorted ranking agree on one
\* seat, and none that has more left of every cap, nearer its reset, costs less.
THEOREM NearerResetAlwaysFirst == PaceSpec => []NearerResetFirst
<1>1. PaceSpec => []PaceInv
  BY PaceInvHolds
<1> QED
  BY <1>1, SelectionIsRight, PTL

-----------------------------------------------------------------------------
(* Paths *)

\* STRING, with the words the settings' paths are made of named: no prover knows a word
\* for a string.
SettingWords ==
  {"enabled", "affinity", "ttl", "max-sessions", "pace", "shape", "curve-exponent", "steepness",
   "landing-target", "weekly-weight", "session-weight", "scoped-weight", "quota", "poll-interval",
   "request-timeout", "max-staleness", "usage-url", "web", "history-limit"}

PathWords == STRING \cup SettingWords

\* at walks from node along the steps of path after the i-th.
Walks(at, node, path, i) ==
  at = [n \in i .. Len(path) |-> IF n = i THEN node ELSE Child(at[n - 1], path[n])]

LEMMA WalkExists ==
  ASSUME NEW node, NEW path \in Seq(PathWords), NEW i \in 0 .. Len(path)
  PROVE  \E at : Walks(at, node, path, i) /\ NodeFrom(node, path, i) = at[Len(path)]
<1> DEFINE To(k, at) == at = [n \in i .. i + k |-> IF n = i THEN node ELSE Child(at[n - 1], path[n])]
           Good == {k \in Nat : \E at : To(k, at)}
<1>1. 0 \in Good
  <2>1. To(0, [n \in i .. i |-> node])
    OBVIOUS
  <2> QED
    BY <2>1
<1>2. ASSUME NEW k \in Nat, k \in Good PROVE k + 1 \in Good
  <2>1. PICK f : To(k, f)
    BY <1>2
  <2> DEFINE h == [n \in i .. i + (k + 1) |-> IF n <= i + k THEN f[n] ELSE Child(f[i + k], path[n])]
  <2>2. \A n \in i .. i + (k + 1) : h[n] = IF n = i THEN node ELSE Child(h[n - 1], path[n])
    <3>1. TAKE n \in i .. i + (k + 1)
    <3>2. CASE n <= i + k
      <4>1. n \in i .. i + k /\ h[n] = f[n] /\ (n # i => h[n - 1] = f[n - 1])
        BY <3>2
      <4>2. f[n] = IF n = i THEN node ELSE Child(f[n - 1], path[n])
        BY <2>1, <4>1
      <4> QED
        BY <4>1, <4>2
    <3>3. CASE n = i + (k + 1)
      BY <3>3
    <3> QED
      BY <3>2, <3>3
  <2>3. h = [n \in i .. i + (k + 1) |-> h[n]]
    OBVIOUS
  <2> HIDE DEF h
  <2>4. To(k + 1, h)
    BY <2>2, <2>3
  <2> HIDE DEF To
  <2> QED
    BY <2>4
<1> HIDE DEF Good
<1>3. Len(path) - i \in Good
  BY <1>1, <1>2, Induction
<1>4. i + (Len(path) - i) = Len(path)
  OBVIOUS
<1>5. PICK f : Walks(f, node, path, i)
  BY <1>3, <1>4 DEF Good, Walks
<1> DEFINE at == CHOOSE at : Walks(at, node, path, i)
<1>6. Walks(at, node, path, i)
  BY <1>5
<1>7. NodeFrom(node, path, i) = at[Len(path)]
  BY DEF NodeFrom, Walks
<1> QED
  BY <1>6, <1>7

\* The walk of a path passes through those of its prefixes.
LEMMA WalkPrefixes ==
  ASSUME NEW node, NEW path \in Seq(PathWords), NEW i \in 0 .. Len(path)
  PROVE  /\ NodeFrom(node, SubSeq(path, 1, i), i) = node
         /\ \A n \in i + 1 .. Len(path) :
              NodeFrom(node, SubSeq(path, 1, n), i) = Child(NodeFrom(node, SubSeq(path, 1, n - 1), i), path[n])
<1>1. PICK at : Walks(at, node, path, i)
  BY WalkExists
<1>2. ASSUME NEW n \in i .. Len(path)
      PROVE  NodeFrom(node, SubSeq(path, 1, n), i) = at[n]
  <2> DEFINE p == SubSeq(path, 1, n)
  <2>1. p \in Seq(PathWords) /\ Len(p) = n /\ i \in 0 .. Len(p) /\ \A k \in 1 .. n : p[k] = path[k]
    OBVIOUS
  <2> HIDE DEF p
  <2>2. PICK to : Walks(to, node, p, i) /\ NodeFrom(node, p, i) = to[Len(p)]
    BY <2>1, WalkExists
  <2> DEFINE Good == {k \in Nat : i + k <= n => to[i + k] = at[i + k]}
  <2>3. 0 \in Good
    BY <1>1, <2>1, <2>2 DEF Walks
  <2>4. ASSUME NEW k \in Nat, k \in Good PROVE k + 1 \in Good
    <3>1. SUFFICES ASSUME i + (k + 1) <= n PROVE to[i + (k + 1)] = at[i + (k + 1)]
      OBVIOUS
    <3>2. to[i + k] = at[i + k] /\ i + (k + 1) \in i .. n /\ i + (k + 1) # i /\ (i + (k + 1)) - 1 = i + k
          /\ p[i + (k + 1)] = path[i + (k + 1)]
      BY <2>1, <2>4, <3>1
    <3>3. to[i + (k + 1)] = Child(to[i + k], p[i + (k + 1)])
      BY <2>1, <2>2, <3>2 DEF Walks
    <3>4. at[i + (k + 1)] = Child(at[i + k], path[i + (k + 1)])
      <4>1. i + (k + 1) \in i .. Len(path)
        BY <3>1
      <4> QED
        BY <1>1, <3>2, <4>1 DEF Walks
    <3> QED
      BY <3>2, <3>3, <3>4
  <2> HIDE DEF Good
  <2>5. n - i \in Good
    BY <2>3, <2>4, Induction
  <2>6. i + (n - i) = n
    OBVIOUS
  <2> QED
    BY <2>1, <2>2, <2>5, <2>6 DEF Good, p
<1>3. at[i] = node
  BY <1>1 DEF Walks
<1>4. ASSUME NEW n \in i + 1 .. Len(path) PROVE at[n] = Child(at[n - 1], path[n])
  BY <1>1 DEF Walks
<1>5. ASSUME NEW n \in i + 1 .. Len(path)
      PROVE  NodeFrom(node, SubSeq(path, 1, n), i) = Child(NodeFrom(node, SubSeq(path, 1, n - 1), i), path[n])
  <2>1. n \in i .. Len(path) /\ n - 1 \in i .. Len(path)
    OBVIOUS
  <2> QED
    BY <1>2, <1>4, <2>1
<1> QED
  BY <1>2, <1>3, <1>5

LEMMA WalkStep ==
  ASSUME NEW node, NEW path \in Seq(PathWords), NEW i \in 0 .. Len(path), NEW k \in Nat, i + (k + 1) <= Len(path)
  PROVE  NodeFrom(node, SubSeq(path, 1, i + (k + 1)), i)
           = Child(NodeFrom(node, SubSeq(path, 1, i + k), i), path[i + (k + 1)])
<1>1. i + (k + 1) \in i + 1 .. Len(path) /\ (i + (k + 1)) - 1 = i + k
  OBVIOUS
<1>2. PICK n \in i + 1 .. Len(path) : n = i + (k + 1) /\ n - 1 = i + k
  BY <1>1
<1>3. NodeFrom(node, SubSeq(path, 1, n), i) = Child(NodeFrom(node, SubSeq(path, 1, n - 1), i), path[n])
  BY WalkPrefixes
<1> QED
  BY <1>2, <1>3

LEMMA WholePath == ASSUME NEW path \in Seq(PathWords) PROVE SubSeq(path, 1, Len(path)) = path
  OBVIOUS

\* A walk may stop on the way and go on from the node it reached.
LEMMA WalkGoesOn ==
  ASSUME NEW node, NEW path \in Seq(PathWords), NEW i \in 0 .. Len(path)
  PROVE  NodeAt(node, path) = NodeFrom(NodeAt(node, SubSeq(path, 1, i)), path, i)
<1> DEFINE on == NodeAt(node, SubSeq(path, 1, i))
           Good == {k \in Nat : i + k <= Len(path) =>
                      NodeAt(node, SubSeq(path, 1, i + k)) = NodeFrom(on, SubSeq(path, 1, i + k), i)}
<1>1. 0 \in Good
  BY WalkPrefixes
<1>2. ASSUME NEW k \in Nat, k \in Good PROVE k + 1 \in Good
  <2>1. SUFFICES ASSUME i + (k + 1) <= Len(path)
                 PROVE  NodeAt(node, SubSeq(path, 1, i + (k + 1))) = NodeFrom(on, SubSeq(path, 1, i + (k + 1)), i)
    OBVIOUS
  <2>2. NodeAt(node, SubSeq(path, 1, i + k)) = NodeFrom(on, SubSeq(path, 1, i + k), i)
    BY <1>2, <2>1
  <2> HIDE DEF on
  <2>3. 0 \in 0 .. Len(path) /\ i + k \in Nat /\ 0 + ((i + k) + 1) = i + (k + 1) /\ 0 + (i + k) = i + k
    BY <2>1
  <2>4. NodeFrom(node, SubSeq(path, 1, i + (k + 1)), 0)
          = Child(NodeFrom(node, SubSeq(path, 1, i + k), 0), path[i + (k + 1)])
    <3>1. 0 + ((i + k) + 1) <= Len(path)
      BY <2>1
    <3>2. NodeFrom(node, SubSeq(path, 1, 0 + ((i + k) + 1)), 0)
            = Child(NodeFrom(node, SubSeq(path, 1, 0 + (i + k)), 0), path[0 + ((i + k) + 1)])
      BY <2>3, <3>1, WalkStep
    <3> QED
      BY <2>3, <3>2
  <2>5. NodeFrom(on, SubSeq(path, 1, i + (k + 1)), i)
          = Child(NodeFrom(on, SubSeq(path, 1, i + k), i), path[i + (k + 1)])
    BY <2>1, WalkStep
  <2> QED
    BY <2>2, <2>4, <2>5 DEF NodeAt
<1> HIDE DEF Good
<1>3. Len(path) - i \in Good
  BY <1>1, <1>2, Induction
<1>4. i + (Len(path) - i) = Len(path)
  OBVIOUS
<1>5. NodeAt(node, SubSeq(path, 1, Len(path))) = NodeFrom(on, SubSeq(path, 1, Len(path)), i)
  BY <1>3, <1>4 DEF Good
<1> QED
  BY <1>5, WholePath

\* Nothing is below a null.
LEMMA NullWalk ==
  ASSUME NEW node, node.kind = "null", NEW path \in Seq(PathWords), NEW i \in 0 .. Len(path)
  PROVE  NodeFrom(node, path, i).kind = "null"
<1> DEFINE Good == {k \in Nat : i + k <= Len(path) => NodeFrom(node, SubSeq(path, 1, i + k), i).kind = "null"}
<1>1. 0 \in Good
  <2>1. NodeFrom(node, SubSeq(path, 1, i), i) = node
    BY WalkPrefixes, Zenon
  <2>2. i + 0 = i
    OBVIOUS
  <2>3. NodeFrom(node, SubSeq(path, 1, i + 0), i).kind = "null"
    BY <2>1, <2>2
  <2> QED
    BY <2>3
<1>2. ASSUME NEW k \in Nat, k \in Good PROVE k + 1 \in Good
  <2>1. SUFFICES ASSUME i + (k + 1) <= Len(path)
                 PROVE  NodeFrom(node, SubSeq(path, 1, i + (k + 1)), i).kind = "null"
    OBVIOUS
  <2>3. NodeFrom(node, SubSeq(path, 1, i + (k + 1)), i)
          = Child(NodeFrom(node, SubSeq(path, 1, i + k), i), path[i + (k + 1)])
    BY <2>1, WalkStep
  <2>4. NodeFrom(node, SubSeq(path, 1, i + k), i).kind = "null"
    BY <1>2, <2>1
  <2> QED
    BY <2>3, <2>4 DEF Child, HasKey, Null
<1> HIDE DEF Good
<1>3. Len(path) - i \in Good
  BY <1>1, <1>2, Induction
<1>4. i + (Len(path) - i) = Len(path)
  OBVIOUS
<1>5. NodeFrom(node, SubSeq(path, 1, Len(path)), i).kind = "null"
  BY <1>3, <1>4 DEF Good
<1> QED
  BY <1>5, WholePath

-----------------------------------------------------------------------------
(* A dotted key *)

\* step opens the steps of path below m, and put builds what Put returns from value up.
Opens(step, m, path) ==
  step = [n \in 0 .. Len(path) - 1 |-> IF n = 0 THEN m ELSE Opened(step[n - 1], path[n])]

Builds(put, step, path, value) ==
  put = [n \in 0 .. Len(path) |->
           IF n = 0 THEN value ELSE Assoc(step[Len(path) - n], path[Len(path) - n + 1], put[n - 1])]

LEMMA OpensExists ==
  ASSUME NEW m, NEW path \in Seq(PathWords), path # <<>>
  PROVE  \E step : Opens(step, m, path)
<1> DEFINE To(k, f) == f = [n \in 0 .. k |-> IF n = 0 THEN m ELSE Opened(f[n - 1], path[n])]
           Good == {k \in Nat : \E f : To(k, f)}
<1>1. 0 \in Good
  <2>1. To(0, [n \in 0 .. 0 |-> m])
    OBVIOUS
  <2> QED
    BY <2>1
<1>2. ASSUME NEW k \in Nat, k \in Good PROVE k + 1 \in Good
  <2>1. PICK f : To(k, f)
    BY <1>2
  <2> DEFINE h == [n \in 0 .. k + 1 |-> IF n <= k THEN f[n] ELSE Opened(f[k], path[n])]
  <2>2. \A n \in 0 .. k + 1 : h[n] = IF n = 0 THEN m ELSE Opened(h[n - 1], path[n])
    <3>1. TAKE n \in 0 .. k + 1
    <3>2. CASE n <= k
      <4>1. n \in 0 .. k /\ h[n] = f[n] /\ (n # 0 => h[n - 1] = f[n - 1])
        BY <3>2
      <4>2. f[n] = IF n = 0 THEN m ELSE Opened(f[n - 1], path[n])
        BY <2>1, <4>1
      <4> QED
        BY <4>1, <4>2
    <3>3. CASE n = k + 1
      BY <3>3
    <3> QED
      BY <3>2, <3>3
  <2>3. h = [n \in 0 .. k + 1 |-> h[n]]
    OBVIOUS
  <2> HIDE DEF h
  <2>4. To(k + 1, h)
    BY <2>2, <2>3
  <2> HIDE DEF To
  <2> QED
    BY <2>4
<1> HIDE DEF Good
<1>3. Len(path) - 1 \in Good
  <2>1. Len(path) - 1 \in Nat
    OBVIOUS
  <2> QED
    BY <1>1, <1>2, <2>1, Induction
<1> QED
  BY <1>3 DEF Good, Opens

LEMMA BuildsExists ==
  ASSUME NEW step, NEW path \in Seq(PathWords), NEW value
  PROVE  \E put : Builds(put, step, path, value)
<1> DEFINE last == Len(path)
           To(k, f) == f = [n \in 0 .. k |->
                              IF n = 0 THEN value ELSE Assoc(step[last - n], path[last - n + 1], f[n - 1])]
           Good == {k \in Nat : \E f : To(k, f)}
<1>1. 0 \in Good
  <2>1. To(0, [n \in 0 .. 0 |-> value])
    OBVIOUS
  <2> QED
    BY <2>1
<1> HIDE DEF last
<1>2. ASSUME NEW k \in Nat, k \in Good PROVE k + 1 \in Good
  <2>1. PICK f : To(k, f)
    BY <1>2
  <2> DEFINE h == [n \in 0 .. k + 1 |->
                     IF n <= k THEN f[n] ELSE Assoc(step[last - n], path[last - n + 1], f[k])]
  <2>2. \A n \in 0 .. k + 1 : h[n] = IF n = 0 THEN value ELSE Assoc(step[last - n], path[last - n + 1], h[n - 1])
    <3>1. TAKE n \in 0 .. k + 1
    <3>2. CASE n <= k
      <4>1. n \in 0 .. k /\ h[n] = f[n] /\ (n # 0 => h[n - 1] = f[n - 1])
        BY <3>2
      <4>2. f[n] = IF n = 0 THEN value ELSE Assoc(step[last - n], path[last - n + 1], f[n - 1])
        BY <2>1, <4>1
      <4> QED
        BY <4>1, <4>2
    <3>3. CASE n = k + 1
      BY <3>3
    <3> QED
      BY <3>2, <3>3
  <2>3. h = [n \in 0 .. k + 1 |-> h[n]]
    OBVIOUS
  <2> HIDE DEF h
  <2>4. To(k + 1, h)
    BY <2>2, <2>3
  <2> HIDE DEF To
  <2> QED
    BY <2>4
<1> HIDE DEF Good
<1>3. last \in Good
  <2>1. last \in Nat
    BY DEF last
  <2> QED
    BY <1>1, <1>2, <2>1, Induction
<1> QED
  BY <1>3 DEF Good, Builds, last

\* Put, its recursions named.
LEMMA PutSteps ==
  ASSUME NEW m, NEW path \in Seq(PathWords), path # <<>>, NEW value
  PROVE  \E step, put :
           /\ Opens(step, m, path) /\ Builds(put, step, path, value)
           /\ Put(m, path, value)
                = IF \E n \in 1 .. Len(path) - 1 : step[n].kind # "mapping" THEN Broken ELSE put[Len(path)]
<1> DEFINE step == CHOOSE step : Opens(step, m, path)
           put == CHOOSE put : Builds(put, step, path, value)
<1>1. Opens(step, m, path)
  BY OpensExists
<1>2. Builds(put, step, path, value)
  BY BuildsExists
<1>3. Put(m, path, value)
        = IF \E n \in 1 .. Len(path) - 1 : step[n].kind # "mapping" THEN Broken ELSE put[Len(path)]
  BY DEF Put, Opens, Builds
<1> QED
  BY <1>1, <1>2, <1>3

LEMMA AssocChild ==
  ASSUME NEW m, NEW key, NEW node
  PROVE  /\ Assoc(m, key, node).kind = "mapping"
         /\ Child(Assoc(m, key, node), key) = node
         /\ m.kind = "mapping" => \A k : k # key => Child(Assoc(m, key, node), k) = Child(m, k)
  BY DEF Assoc, Mapping, Child, HasKey

\* A step stands for the node at its path, an empty mapping for none.
StandsFor(s, node) == \/ s = node
                      \/ s = Mapping(NoKeys) /\ node.kind = "null"

LEMMA StandsForChild ==
  ASSUME NEW s, NEW node, StandsFor(s, node), NEW k
  PROVE  Child(s, k) = Child(node, k)
  BY DEF StandsFor, Child, HasKey, Mapping, NoKeys

LEMMA StepsStandFor ==
  ASSUME NEW m, NEW path \in Seq(PathWords), path # <<>>, NEW step, Opens(step, m, path),
         NEW n \in 0 .. Len(path) - 1
  PROVE  /\ StandsFor(step[n], NodeAt(m, SubSeq(path, 1, n)))
         /\ n # 0 => step[n].kind # "null"
<1> DEFINE Good == {k \in Nat : k <= Len(path) - 1 =>
                      /\ StandsFor(step[k], NodeAt(m, SubSeq(path, 1, k)))
                      /\ k # 0 => step[k].kind # "null"}
<1>1. 0 \in Good
  <2>1. NodeAt(m, SubSeq(path, 1, 0)) = m
    <3>1. 0 \in 0 .. Len(path)
      OBVIOUS
    <3> QED
      BY <3>1, WalkPrefixes, Zenon DEF NodeAt
  <2>2. step[0] = m
    BY DEF Opens
  <2> QED
    BY <2>1, <2>2 DEF StandsFor
<1>2. ASSUME NEW k \in Nat, k \in Good PROVE k + 1 \in Good
  <2>1. SUFFICES ASSUME k + 1 <= Len(path) - 1
                 PROVE  /\ StandsFor(step[k + 1], NodeAt(m, SubSeq(path, 1, k + 1)))
                        /\ step[k + 1].kind # "null"
    OBVIOUS
  <2>2. StandsFor(step[k], NodeAt(m, SubSeq(path, 1, k)))
    BY <1>2, <2>1
  <2>3. NodeAt(m, SubSeq(path, 1, k + 1)) = Child(NodeAt(m, SubSeq(path, 1, k)), path[k + 1])
    <3>1. 0 \in 0 .. Len(path) /\ 0 + (k + 1) <= Len(path) /\ 0 + (k + 1) = k + 1 /\ 0 + k = k
      BY <2>1
    <3>2. NodeFrom(m, SubSeq(path, 1, 0 + (k + 1)), 0) = Child(NodeFrom(m, SubSeq(path, 1, 0 + k), 0), path[0 + (k + 1)])
      BY <3>1, WalkStep
    <3> QED
      BY <3>1, <3>2 DEF NodeAt
  <2>4. step[k + 1] = Opened(step[k], path[k + 1])
    BY <2>1 DEF Opens
  <2>5. Child(step[k], path[k + 1]) = NodeAt(m, SubSeq(path, 1, k + 1))
    BY <2>2, <2>3, StandsForChild
  <2> QED
    BY <2>4, <2>5 DEF Opened, StandsFor, Mapping
<1> HIDE DEF Good
<1>3. n \in Good
  BY <1>1, <1>2, Induction
<1> QED
  BY <1>3 DEF Good

LEMMA WalkNowhere ==
  ASSUME NEW node, NEW path \in Seq(PathWords)
  PROVE  NodeAt(node, SubSeq(path, 1, 0)) = node
<1>1. 0 \in 0 .. Len(path)
  OBVIOUS
<1> QED
  BY <1>1, WalkPrefixes, Zenon DEF NodeAt

LEMMA NextStep ==
  ASSUME NEW node, NEW path \in Seq(PathWords), NEW k \in Nat, k + 1 <= Len(path)
  PROVE  NodeAt(node, SubSeq(path, 1, k + 1)) = Child(NodeAt(node, SubSeq(path, 1, k)), path[k + 1])
<1>1. 0 \in 0 .. Len(path) /\ 0 + (k + 1) <= Len(path) /\ 0 + (k + 1) = k + 1 /\ 0 + k = k
  OBVIOUS
<1>2. NodeFrom(node, SubSeq(path, 1, 0 + (k + 1)), 0)
        = Child(NodeFrom(node, SubSeq(path, 1, 0 + k), 0), path[0 + (k + 1)])
  BY <1>1, WalkStep
<1> QED
  BY <1>1, <1>2 DEF NodeAt

\* Two paths, neither of which goes on from the other, part somewhere.
LEMMA Parting ==
  ASSUME NEW p \in Seq(PathWords), NEW q \in Seq(PathWords), ~IsPrefix(p, q), ~IsPrefix(q, p)
  PROVE  \E c \in 0 .. Len(p) - 1 : c + 1 <= Len(q) /\ SubSeq(q, 1, c) = SubSeq(p, 1, c) /\ q[c + 1] # p[c + 1]
<1>1. SUFFICES ASSUME \A c \in 0 .. Len(p) - 1 :
                        c + 1 <= Len(q) /\ SubSeq(q, 1, c) = SubSeq(p, 1, c) => q[c + 1] = p[c + 1]
               PROVE  FALSE
  OBVIOUS
<1> DEFINE Good == {k \in Nat : k <= Len(p) /\ k <= Len(q) => SubSeq(q, 1, k) = SubSeq(p, 1, k)}
<1>2. 0 \in Good
  OBVIOUS
<1>3. ASSUME NEW k \in Nat, k \in Good PROVE k + 1 \in Good
  <2>1. SUFFICES ASSUME k + 1 <= Len(p), k + 1 <= Len(q) PROVE SubSeq(q, 1, k + 1) = SubSeq(p, 1, k + 1)
    OBVIOUS
  <2>2. SubSeq(q, 1, k) = SubSeq(p, 1, k)
    BY <1>3, <2>1
  <2>3. q[k + 1] = p[k + 1]
    BY <1>1, <2>1, <2>2
  <2>4. \A i \in 1 .. k : q[i] = p[i]
    <3>1. TAKE i \in 1 .. k
    <3>2. SubSeq(q, 1, k)[i] = q[i] /\ SubSeq(p, 1, k)[i] = p[i]
      BY <2>1
    <3> QED
      BY <2>2, <3>2
  <2>5. \A i \in 1 .. k + 1 : q[i] = p[i]
    BY <2>3, <2>4
  <2> QED
    BY <2>1, <2>5
<1> HIDE DEF Good
<1>4. Len(p) \in Good /\ Len(q) \in Good
  BY <1>2, <1>3, Induction
<1> QED
  BY <1>4 DEF Good, IsPrefix

\* A dotted key breaks a block only where a step of its path is neither a mapping nor
\* absent; else it leads to its value, the steps to it are mappings, and what is not on
\* its path stays.
LEMMA PutSets ==
  ASSUME NEW m, m.kind = "mapping", NEW path \in Seq(PathWords), path # <<>>, NEW value
  PROVE  IF Put(m, path, value) = Broken
         THEN \E n \in 1 .. Len(path) - 1 : NodeAt(m, SubSeq(path, 1, n)).kind \notin {"mapping", "null"}
         ELSE /\ Put(m, path, value).kind = "mapping"
              /\ \A q \in Seq(PathWords) :
                   IF IsPrefix(path, q) THEN NodeAt(Put(m, path, value), q) = NodeFrom(value, q, Len(path))
                   ELSE IF IsPrefix(q, path) THEN NodeAt(Put(m, path, value), q).kind = "mapping"
                   ELSE NodeAt(Put(m, path, value), q) = NodeAt(m, q)
<1> DEFINE last == Len(path)
           new == Put(m, path, value)
<1>1. PICK step, put : /\ Opens(step, m, path) /\ Builds(put, step, path, value)
                       /\ new = IF \E n \in 1 .. last - 1 : step[n].kind # "mapping" THEN Broken ELSE put[last]
  BY PutSteps
<1>2. last \in Nat /\ last >= 1
  OBVIOUS
<1>3. \A n \in 0 .. last - 1 : /\ StandsFor(step[n], NodeAt(m, SubSeq(path, 1, n)))
                               /\ n # 0 => step[n].kind # "null"
  BY <1>1, StepsStandFor
\* What put holds, from the outside in.
<1> DEFINE T(j) == put[last - j]
<1>4. T(last) = value
  BY <1>1, <1>2 DEF Builds
<1>5. ASSUME NEW j \in 0 .. last - 1 PROVE T(j) = Assoc(step[j], path[j + 1], T(j + 1))
  <2> DEFINE n == last - j
  <2>1. n \in 1 .. last /\ n # 0 /\ last - n = j /\ last - n + 1 = j + 1 /\ n - 1 = last - (j + 1)
    BY <1>2
  <2>2. put[n] = IF n = 0 THEN value ELSE Assoc(step[last - n], path[last - n + 1], put[n - 1])
    <3> HIDE DEF n
    <3> QED
      BY <1>1, <2>1 DEF Builds
  <2> HIDE DEF n
  <2>3. put[n] = Assoc(step[j], path[j + 1], put[last - (j + 1)])
    BY <2>1, <2>2
  <2> QED
    BY <2>3 DEF n
<1>6. T(0) = put[last]
  BY <1>2
<1> HIDE DEF T
<1>7. ASSUME NEW j \in 0 .. last - 1 PROVE T(j).kind = "mapping"
  BY <1>5, AssocChild
<1>8. CASE \E n \in 1 .. last - 1 : step[n].kind # "mapping"
  <2>1. PICK n \in 1 .. last - 1 : step[n].kind # "mapping"
    BY <1>8
  <2>2. StandsFor(step[n], NodeAt(m, SubSeq(path, 1, n))) /\ step[n].kind # "null"
    BY <1>3, <2>1
  <2>3. NodeAt(m, SubSeq(path, 1, n)).kind \notin {"mapping", "null"}
    BY <2>1, <2>2 DEF StandsFor, Mapping
  <2> QED
    BY <1>1, <1>8, <2>3
<1>9. CASE \A n \in 1 .. last - 1 : step[n].kind = "mapping"
  <2>1. new = T(0) /\ new.kind = "mapping"
    <3>1. 0 \in 0 .. last - 1
      BY <1>2
    <3> QED
      BY <1>1, <1>6, <1>7, <1>9, <3>1
  <2>2. new # Broken
    BY <2>1 DEF Broken
  <2> HIDE DEF new
  <2>3. \A n \in 0 .. last - 1 : step[n].kind = "mapping"
    <3>1. step[0] = m
      BY <1>1, <1>2 DEF Opens
    <3> QED
      BY <1>9, <3>1
  \* On path, a walk of the new block meets what put built.
  <2>4. ASSUME NEW q \in Seq(PathWords), NEW c \in 0 .. last, c <= Len(q), SubSeq(q, 1, c) = SubSeq(path, 1, c)
        PROVE  NodeAt(new, SubSeq(q, 1, c)) = T(c)
    <3> DEFINE Good == {k \in Nat : k <= c => NodeAt(new, SubSeq(q, 1, k)) = T(k)}
    <3>1. 0 \in Good
      BY <2>1, WalkNowhere
    <3>2. ASSUME NEW k \in Nat, k \in Good PROVE k + 1 \in Good
      <4>1. SUFFICES ASSUME k + 1 <= c PROVE NodeAt(new, SubSeq(q, 1, k + 1)) = T(k + 1)
        OBVIOUS
      <4>2. NodeAt(new, SubSeq(q, 1, k)) = T(k)
        BY <3>2, <4>1
      <4>3. q[k + 1] = path[k + 1]
        <5>1. SubSeq(q, 1, c)[k + 1] = q[k + 1] /\ SubSeq(path, 1, c)[k + 1] = path[k + 1]
          BY <4>1
        <5> QED
          BY <2>4, <5>1
      <4>4. NodeAt(new, SubSeq(q, 1, k + 1)) = Child(T(k), q[k + 1])
        BY <2>4, <4>1, <4>2, NextStep
      <4>5. T(k) = Assoc(step[k], path[k + 1], T(k + 1))
        BY <1>5, <4>1
      <4> QED
        BY <4>3, <4>4, <4>5, AssocChild
    <3> HIDE DEF Good
    <3>3. c \in Good
      BY <3>1, <3>2, Induction
    <3> QED
      BY <3>3 DEF Good
  <2>5. SUFFICES ASSUME NEW q \in Seq(PathWords)
                 PROVE  IF IsPrefix(path, q) THEN NodeAt(new, q) = NodeFrom(value, q, last)
                        ELSE IF IsPrefix(q, path) THEN NodeAt(new, q).kind = "mapping"
                        ELSE NodeAt(new, q) = NodeAt(m, q)
    BY <2>1, <2>2 DEF new
  <2>6. CASE IsPrefix(path, q)
    <3>1. last \in 0 .. last /\ last <= Len(q) /\ SubSeq(q, 1, last) = SubSeq(path, 1, last)
      BY <1>2, <2>6 DEF IsPrefix
    <3>2. NodeAt(new, SubSeq(q, 1, last)) = value
      BY <1>4, <2>4, <3>1
    <3>3. NodeAt(new, q) = NodeFrom(NodeAt(new, SubSeq(q, 1, last)), q, last)
      BY <3>1, WalkGoesOn
    <3> QED
      BY <2>6, <3>2, <3>3
  <2>7. CASE ~IsPrefix(path, q) /\ IsPrefix(q, path)
    <3> DEFINE c == Len(q)
    <3>1. c \in 0 .. last /\ c <= Len(q) /\ SubSeq(q, 1, c) = SubSeq(path, 1, c)
      BY <2>7 DEF IsPrefix
    <3>2. c # last
      BY <2>7, <3>1 DEF IsPrefix
    <3>3. SubSeq(q, 1, c) = q
      BY WholePath
    <3>4. NodeAt(new, SubSeq(q, 1, c)) = T(c)
      BY <2>4, <3>1
    <3>5. c \in 0 .. last - 1
      BY <1>2, <3>1, <3>2
    <3> QED
      BY <1>7, <2>7, <3>3, <3>4, <3>5
  <2>8. CASE ~IsPrefix(path, q) /\ ~IsPrefix(q, path)
    \* Where q leaves path.
    <3>1. PICK c \in 0 .. last - 1 : /\ c + 1 <= Len(q) /\ SubSeq(q, 1, c) = SubSeq(path, 1, c)
                                     /\ q[c + 1] # path[c + 1]
      BY <2>8, Parting
    <3>2. NodeAt(new, SubSeq(q, 1, c)) = T(c)
      BY <2>4, <3>1
    <3>3. NodeAt(new, SubSeq(q, 1, c + 1)) = Child(T(c), q[c + 1])
      BY <3>1, <3>2, NextStep
    <3>4. NodeAt(m, SubSeq(q, 1, c + 1)) = Child(NodeAt(m, SubSeq(path, 1, c)), q[c + 1])
      <4>1. c \in Nat /\ c + 1 <= Len(q)
        BY <1>2, <3>1
      <4>2. NodeAt(m, SubSeq(q, 1, c + 1)) = Child(NodeAt(m, SubSeq(q, 1, c)), q[c + 1])
        BY <4>1, NextStep
      <4>3. SubSeq(q, 1, c) = SubSeq(path, 1, c)
        BY <3>1
      <4> QED
        BY <4>2, <4>3, Zenon
    <3>5. Child(T(c), q[c + 1]) = Child(step[c], q[c + 1])
      <4>1. T(c) = Assoc(step[c], path[c + 1], T(c + 1)) /\ step[c].kind = "mapping"
        BY <1>5, <2>3
      <4> QED
        BY <3>1, <4>1, AssocChild
    <3>6. Child(step[c], q[c + 1]) = Child(NodeAt(m, SubSeq(path, 1, c)), q[c + 1])
      BY <1>3, StandsForChild
    <3>7. NodeAt(new, SubSeq(q, 1, c + 1)) = NodeAt(m, SubSeq(q, 1, c + 1))
      BY <3>3, <3>4, <3>5, <3>6
    <3>8. c + 1 \in 0 .. Len(q)
      BY <3>1
    <3>9. NodeAt(new, q) = NodeFrom(NodeAt(new, SubSeq(q, 1, c + 1)), q, c + 1)
      BY <3>8, WalkGoesOn
    <3>10. NodeAt(m, q) = NodeFrom(NodeAt(m, SubSeq(q, 1, c + 1)), q, c + 1)
      BY <3>8, WalkGoesOn
    <3> QED
      BY <2>8, <3>7, <3>9, <3>10
  <2> QED
    BY <2>6, <2>7, <2>8
<1> QED
  BY <1>8, <1>9

-----------------------------------------------------------------------------
(* A block *)

\* at[n] is the block after the dotted keys among its first n entries.
Grows(at, entries) ==
  at = [n \in 0 .. Len(entries) |->
          IF n = 0 THEN Unexpanded(Root(entries))
          ELSE IF Dotted(entries[n]) THEN Expand(at[n - 1], entries[n]) ELSE at[n - 1]]

LEMMA GrowsExists ==
  ASSUME NEW entries \in Seq(Entries)
  PROVE  \E at : Grows(at, entries) /\ expandDottedKeys(entries) = at[Len(entries)]
<1> DEFINE Next_(n, s) == IF Dotted(entries[n]) THEN Expand(s, entries[n]) ELSE s
           To(k, f) == f = [n \in 0 .. k |-> IF n = 0 THEN Unexpanded(Root(entries)) ELSE Next_(n, f[n - 1])]
           Good == {k \in Nat : \E f : To(k, f)}
<1> HIDE DEF Next_
<1>1. 0 \in Good
  <2>1. To(0, [n \in 0 .. 0 |-> Unexpanded(Root(entries))])
    OBVIOUS
  <2> QED
    BY <2>1
<1>2. ASSUME NEW k \in Nat, k \in Good PROVE k + 1 \in Good
  <2>1. PICK f : To(k, f)
    BY <1>2
  <2> DEFINE h == [n \in 0 .. k + 1 |-> IF n <= k THEN f[n] ELSE Next_(n, f[k])]
  <2>2. \A n \in 0 .. k + 1 : h[n] = IF n = 0 THEN Unexpanded(Root(entries)) ELSE Next_(n, h[n - 1])
    <3>1. TAKE n \in 0 .. k + 1
    <3>2. CASE n <= k
      <4>1. n \in 0 .. k /\ h[n] = f[n] /\ (n # 0 => h[n - 1] = f[n - 1])
        BY <3>2
      <4>2. f[n] = IF n = 0 THEN Unexpanded(Root(entries)) ELSE Next_(n, f[n - 1])
        BY <2>1, <4>1
      <4> QED
        BY <4>1, <4>2
    <3>3. CASE n = k + 1
      BY <3>3
    <3> QED
      BY <3>2, <3>3
  <2>3. h = [n \in 0 .. k + 1 |-> h[n]]
    OBVIOUS
  <2> HIDE DEF h
  <2>4. To(k + 1, h)
    BY <2>2, <2>3
  <2> HIDE DEF To
  <2> QED
    BY <2>4
<1> HIDE DEF Good
<1>3. Len(entries) \in Good
  <2>1. Len(entries) \in Nat
    OBVIOUS
  <2> QED
    BY <1>1, <1>2, <2>1, Induction
<1>4. \E at : Grows(at, entries)
  BY <1>3 DEF Good, Next_, Grows
<1> DEFINE at == CHOOSE at : Grows(at, entries)
<1>5. Grows(at, entries)
  BY <1>4
<1>6. expandDottedKeys(entries) = at[Len(entries)]
  BY DEF expandDottedKeys, Grows
<1> QED
  BY <1>5, <1>6

\* What the first n dotted keys, or a nested value, say of a path.
Given(entries, n, path) == {k \in 1 .. n : Dotted(entries[k]) /\ entries[k].path = path}

SaidBy(entries, n, path) ==
  IF Given(entries, n, path) # {} THEN entries[Max(Given(entries, n, path))].node ELSE NodeAt(Root(entries), path)

\* An entry that counts by then and that node at q is part of.
Provides(entries, n, j, q, node) ==
  /\ j \in DOMAIN entries /\ (j <= n \/ ~Dotted(entries[j]))
  /\ IsPrefix(entries[j].path, q) /\ node = NodeFrom(entries[j].node, q, Len(entries[j].path))

Paths == Seq(PathWords) \ {<<>>}

\* Nothing is in a block but what an entry put there, or opened on its way.
Sourced(entries, n, root) ==
  \A q \in Paths :
    \/ NodeAt(root, q).kind = "null"
    \/ NodeAt(root, q).kind = "mapping" /\ \E j \in 1 .. n : Dotted(entries[j]) /\ IsStrictPrefix(q, entries[j].path)
    \/ \E j \in DOMAIN entries : Provides(entries, n, j, q, NodeAt(root, q))

\* A setting is what was last said of it, unless a dotted key went on below it.
Says(entries, n, root) ==
  \A p \in Paths : Len(p) <= 2 => NodeAt(root, p) = SaidBy(entries, n, p) \/ NodeAt(root, p).kind = "mapping"

Grown(entries, n, root) ==
  root.kind = "mapping" /\ Sourced(entries, n, root) /\ Says(entries, n, root)

LEMMA SeqIn == ASSUME NEW S, NEW T, S \subseteq T, NEW s \in Seq(S) PROVE s \in Seq(T)
  OBVIOUS

LEMMA EntriesTyped ==
  ASSUME NEW entries \in Seq(Entries), NEW n \in DOMAIN entries
  PROVE  /\ n \in 1 .. Len(entries) /\ entries[n].path \in Paths /\ Len(entries[n].path) \in Nat
         /\ IF Dotted(entries[n]) THEN Len(entries[n].path) >= 2 ELSE Len(entries[n].path) = 1
<1>1. entries[n] \in Entries /\ n \in 1 .. Len(entries)
  OBVIOUS
<1> DEFINE p == entries[n].path
<1>2. p \in Seq(PathWords) /\ p # <<>>
  <2>1. p \in Seq(STRING) /\ p # <<>>
    BY <1>1, EntriesAssumption
  <2>2. STRING \subseteq PathWords
    BY DEF PathWords
  <2> HIDE DEF p
  <2>3. \A s \in Seq(STRING) : s \in Seq(PathWords)
    BY <2>2, SeqIn, Zenon
  <2> QED
    BY <2>1, <2>3, Zenon
<1> HIDE DEF p
<1> DEFINE l == Len(p)
<1>3. l \in Nat /\ l >= 1
  BY <1>2
<1> HIDE DEF l
<1>4. IF l > 1 THEN l >= 2 ELSE l = 1
  BY <1>3
<1> QED
  BY <1>1, <1>2, <1>3, <1>4 DEF l, p, Dotted, Paths

LEMMA RootGrown ==
  ASSUME NEW entries \in Seq(Entries)
  PROVE  Grown(entries, 0, Root(entries))
<1> DEFINE root == Root(entries)
           plain == {e \in ToSet(entries) : ~Dotted(e)}
           at == [k \in {e.path[1] : e \in plain} |-> (CHOOSE e \in plain : e.path[1] = k).node]
<1>1. root = Mapping(at)
  BY DEF Root
<1>2. root.kind = "mapping" /\ root.at = at
  BY <1>1 DEF Mapping
<1>3. Sourced(entries, 0, root)
  <2>1. SUFFICES ASSUME NEW q \in Paths
                 PROVE  \/ NodeAt(root, q).kind = "null"
                        \/ \E j \in DOMAIN entries : Provides(entries, 0, j, q, NodeAt(root, q))
    BY DEF Sourced
  <2>2. q \in Seq(PathWords) /\ Len(q) >= 1 /\ 1 \in 0 .. Len(q) /\ 0 + 1 <= Len(q)
    BY DEF Paths
  <2>3. NodeAt(root, SubSeq(q, 1, 1)) = Child(root, q[1])
    <3>1. NodeAt(root, SubSeq(q, 1, 0 + 1)) = Child(NodeAt(root, SubSeq(q, 1, 0)), q[0 + 1])
      BY <2>2, NextStep
    <3>2. NodeAt(root, SubSeq(q, 1, 0)) = root
      BY <2>2, WalkNowhere
    <3> QED
      BY <3>1, <3>2
  <2>4. NodeAt(root, q) = NodeFrom(Child(root, q[1]), q, 1)
    BY <2>2, <2>3, WalkGoesOn
  <2>5. CASE q[1] \notin DOMAIN at
    <3>1. Child(root, q[1]).kind = "null"
      BY <1>2, <2>5 DEF Child, HasKey, Null
    <3> QED
      BY <2>2, <2>4, <3>1, NullWalk
  <2>6. CASE q[1] \in DOMAIN at
    <3> DEFINE e == CHOOSE e \in plain : e.path[1] = q[1]
    <3>1. \E x \in plain : x.path[1] = q[1]
      BY <2>6
    <3>2. e \in plain /\ e.path[1] = q[1]
      BY <3>1
    <3>3. at[q[1]] = e.node
      BY <2>6
    <3>4. Child(root, q[1]) = e.node
      BY <1>2, <2>6, <3>3 DEF Child, HasKey
    <3>5. PICK j \in DOMAIN entries : entries[j] = e
      BY <3>2 DEF ToSet
    <3> HIDE DEF e
    <3>6. e.path \in Paths /\ Len(e.path) = 1
      <4>1. ~Dotted(entries[j])
        BY <3>2, <3>5
      <4>2. entries[j].path \in Paths /\ Len(entries[j].path) = 1
        BY <4>1, EntriesTyped
      <4> QED
        BY <3>5, <4>2
    <3>7. IsPrefix(e.path, q)
      BY <2>2, <3>2, <3>6 DEF IsPrefix, Paths
    <3>8. Provides(entries, 0, j, q, NodeAt(root, q))
      BY <2>4, <3>2, <3>4, <3>5, <3>6, <3>7 DEF Provides
    <3> QED
      BY <3>8
  <2> QED
    BY <2>5, <2>6
<1>4. Says(entries, 0, root)
  <2>1. \A p \in Paths : Given(entries, 0, p) = {}
    BY DEF Given
  <2> QED
    BY <2>1 DEF Says, SaidBy
<1> QED
  BY <1>2, <1>3, <1>4 DEF Grown

\* What is said of a path changes only at a dotted key for it.
LEMMA SaidChanges ==
  ASSUME NEW entries \in Seq(Entries), NEW n \in 1 .. Len(entries), NEW path
  PROVE  SaidBy(entries, n, path)
           = IF Dotted(entries[n]) /\ entries[n].path = path THEN entries[n].node ELSE SaidBy(entries, n - 1, path)
<1>1. CASE Dotted(entries[n]) /\ entries[n].path = path
  <2> DEFINE given == Given(entries, n, path)
  <2>1. n \in given /\ \A k \in given : k \in 1 .. n
    BY <1>1 DEF Given
  <2> HIDE DEF given
  <2> DEFINE max == CHOOSE x \in given : \A y \in given : x >= y
  <2>2. max \in given /\ max >= n
    <3>1. \A y \in given : n >= y
      BY <2>1
    <3> QED
      BY <2>1, <3>1
  <2>3. Max(given) = max
    BY DEF Max
  <2> HIDE DEF max
  <2>4. max = n
    BY <2>1, <2>2
  <2> QED
    BY <1>1, <2>1, <2>3, <2>4 DEF SaidBy, given
<1>2. CASE ~(Dotted(entries[n]) /\ entries[n].path = path)
  <2>1. Given(entries, n, path) = Given(entries, n - 1, path)
    BY <1>2 DEF Given
  <2> QED
    BY <1>2, <2>1 DEF SaidBy
<1> QED
  BY <1>1, <1>2

LEMMA PlainGrown ==
  ASSUME NEW entries \in Seq(Entries), NEW n \in 1 .. Len(entries), ~Dotted(entries[n]), NEW root,
         Grown(entries, n - 1, root)
  PROVE  Grown(entries, n, root)
<1>1. Sourced(entries, n, root)
  <2>1. SUFFICES ASSUME NEW q \in Paths
                 PROVE  \/ NodeAt(root, q).kind = "null"
                        \/ NodeAt(root, q).kind = "mapping"
                           /\ \E j \in 1 .. n : Dotted(entries[j]) /\ IsStrictPrefix(q, entries[j].path)
                        \/ \E j \in DOMAIN entries : Provides(entries, n, j, q, NodeAt(root, q))
    BY DEF Sourced
  <2>2. 1 .. n - 1 \subseteq 1 .. n
    OBVIOUS
  <2>3. \A j \in DOMAIN entries :
          Provides(entries, n - 1, j, q, NodeAt(root, q)) => Provides(entries, n, j, q, NodeAt(root, q))
    <3>1. \A j \in DOMAIN entries : j <= n - 1 => j <= n
      OBVIOUS
    <3> QED
      BY <3>1 DEF Provides
  <2> QED
    BY <2>2, <2>3 DEF Grown, Sourced
<1>2. Says(entries, n, root)
  <2>1. \A p \in Paths : SaidBy(entries, n, p) = SaidBy(entries, n - 1, p)
    BY SaidChanges
  <2> QED
    BY <2>1 DEF Grown, Says
<1> QED
  BY <1>1, <1>2 DEF Grown

LEMMA PutBreaks ==
  ASSUME NEW entries \in Seq(Entries), NEW n \in 1 .. Len(entries), Dotted(entries[n]), NEW root,
         Grown(entries, n - 1, root), Put(root, entries[n].path, entries[n].node) = Broken
  PROVE  Clash(entries)
<1> DEFINE path == entries[n].path
<1>1. n \in DOMAIN entries /\ path \in Seq(PathWords) /\ path # <<>>
  BY EntriesTyped DEF Paths
<1>2. Put(root, path, entries[n].node) = Broken /\ root.kind = "mapping"
  BY DEF Grown
<1> HIDE DEF path
<1>3. PICK k \in 1 .. Len(path) - 1 : NodeAt(root, SubSeq(path, 1, k)).kind \notin {"mapping", "null"}
  BY <1>1, <1>2, PutSets
<1> DEFINE step == SubSeq(path, 1, k)
<1>4. step \in Paths /\ Len(step) = k
  BY <1>1, <1>3 DEF Paths
<1> HIDE DEF step
<1>5. PICK j \in DOMAIN entries : Provides(entries, n - 1, j, step, NodeAt(root, step))
  BY <1>3, <1>4 DEF Grown, Sourced, step
<1>6. j < n \/ ~Dotted(entries[j])
  BY <1>5 DEF Provides
<1>7. IsPrefix(entries[j].path, step) /\ Len(entries[j].path) <= k
  BY <1>4, <1>5 DEF Provides, IsPrefix
<1>8. k \in Len(entries[j].path) .. Len(path) - 1
  <2>1. Len(entries[j].path) \in Nat
    BY EntriesTyped
  <2> QED
    BY <1>7, <2>1
<1>9. NodeFrom(entries[j].node, step, Len(entries[j].path)).kind \notin {"mapping", "null"}
  BY <1>3, <1>5 DEF Provides, step
<1> QED
  BY <1>1, <1>6, <1>7, <1>8, <1>9 DEF Clash, path, step

LEMMA PutGrown ==
  ASSUME NEW entries \in Seq(Entries), NEW n \in 1 .. Len(entries), Dotted(entries[n]), NEW root,
         Grown(entries, n - 1, root), Put(root, entries[n].path, entries[n].node) # Broken
  PROVE  Grown(entries, n, Put(root, entries[n].path, entries[n].node))
<1> DEFINE path == entries[n].path
           new == Put(root, entries[n].path, entries[n].node)
<1>1. n \in DOMAIN entries /\ path \in Paths /\ path \in Seq(PathWords) /\ path # <<>> /\ Len(path) >= 2
  BY EntriesTyped DEF Paths
<1>2. new = Put(root, path, entries[n].node) /\ new # Broken /\ root.kind = "mapping"
  BY DEF Grown
<1> HIDE DEF path, new
<1>3. new.kind = "mapping"
  BY <1>1, <1>2, PutSets
<1>4. ASSUME NEW q \in Paths
      PROVE  IF IsPrefix(path, q) THEN NodeAt(new, q) = NodeFrom(entries[n].node, q, Len(path))
             ELSE IF IsPrefix(q, path) THEN NodeAt(new, q).kind = "mapping"
             ELSE NodeAt(new, q) = NodeAt(root, q)
  <2>1. q \in Seq(PathWords)
    BY DEF Paths
  <2> QED
    BY <1>1, <1>2, <2>1, PutSets
<1>5. Sourced(entries, n, new)
  <2>1. SUFFICES ASSUME NEW q \in Paths
                 PROVE  \/ NodeAt(new, q).kind = "null"
                        \/ NodeAt(new, q).kind = "mapping"
                           /\ \E j \in 1 .. n : Dotted(entries[j]) /\ IsStrictPrefix(q, entries[j].path)
                        \/ \E j \in DOMAIN entries : Provides(entries, n, j, q, NodeAt(new, q))
    BY DEF Sourced
  <2>2. CASE IsPrefix(path, q)
    <3>1. n <= n
      OBVIOUS
    <3>2. Provides(entries, n, n, q, NodeAt(new, q))
      BY <1>1, <1>4, <2>2, <3>1 DEF Provides, path
    <3> QED
      BY <1>1, <3>2
  <2>3. CASE ~IsPrefix(path, q) /\ IsPrefix(q, path)
    <3>1. NodeAt(new, q).kind = "mapping"
      BY <1>4, <2>3
    <3>2. IsStrictPrefix(q, path)
      BY <2>3 DEF IsStrictPrefix
    <3>3. n \in 1 .. n
      OBVIOUS
    <3> QED
      BY <3>1, <3>2, <3>3 DEF path
  <2>4. CASE ~IsPrefix(path, q) /\ ~IsPrefix(q, path)
    <3>1. NodeAt(new, q) = NodeAt(root, q)
      BY <1>4, <2>4
    <3>2. \/ NodeAt(root, q).kind = "null"
          \/ NodeAt(root, q).kind = "mapping"
             /\ \E j \in 1 .. n - 1 : Dotted(entries[j]) /\ IsStrictPrefix(q, entries[j].path)
          \/ \E j \in DOMAIN entries : Provides(entries, n - 1, j, q, NodeAt(root, q))
      BY DEF Grown, Sourced
    <3>3. 1 .. n - 1 \subseteq 1 .. n /\ \A j \in DOMAIN entries : j <= n - 1 => j <= n
      OBVIOUS
    <3>4. \A j \in DOMAIN entries :
            Provides(entries, n - 1, j, q, NodeAt(root, q)) => Provides(entries, n, j, q, NodeAt(root, q))
      BY <3>3 DEF Provides
    <3> QED
      BY <3>1, <3>2, <3>3, <3>4
  <2> QED
    BY <2>2, <2>3, <2>4
<1>6. Says(entries, n, new)
  <2>1. SUFFICES ASSUME NEW p \in Paths, Len(p) <= 2
                 PROVE  NodeAt(new, p) = SaidBy(entries, n, p) \/ NodeAt(new, p).kind = "mapping"
    BY DEF Says
  <2>2. p \in Seq(PathWords)
    BY DEF Paths
  <2>3. CASE path = p
    <3>1. IsPrefix(path, p)
      BY <2>2, <2>3 DEF IsPrefix
    <3>2. NodeAt(new, p) = NodeFrom(entries[n].node, p, Len(p))
      BY <1>4, <2>3, <3>1
    <3>3. NodeFrom(entries[n].node, SubSeq(p, 1, Len(p)), Len(p)) = entries[n].node
      <4>1. Len(p) \in 0 .. Len(p)
        BY <2>2
      <4> QED
        BY <2>2, <4>1, WalkPrefixes, Zenon
    <3>4. SubSeq(p, 1, Len(p)) = p
      BY <2>2
    <3>5. SaidBy(entries, n, p) = entries[n].node
      BY <2>3, SaidChanges DEF path
    <3> QED
      BY <3>2, <3>3, <3>4, <3>5
  <2>4. CASE path # p /\ IsPrefix(p, path)
    <3>1. ~IsPrefix(path, p)
      BY <1>1, <2>2, <2>4 DEF IsPrefix
    <3> QED
      BY <1>4, <2>4, <3>1
  <2>5. CASE path # p /\ ~IsPrefix(p, path)
    <3>1. ~IsPrefix(path, p)
      <4>1. SUFFICES ASSUME IsPrefix(path, p) PROVE FALSE
        OBVIOUS
      <4>2. Len(path) = Len(p)
        BY <1>1, <2>1, <2>2, <4>1 DEF IsPrefix
      <4> QED
        BY <1>1, <2>2, <2>5, <4>1, <4>2 DEF IsPrefix
    <3>2. NodeAt(new, p) = NodeAt(root, p)
      BY <1>4, <2>5, <3>1
    <3>3. SaidBy(entries, n, p) = SaidBy(entries, n - 1, p)
      BY <2>5, SaidChanges DEF path
    <3>4. NodeAt(root, p) = SaidBy(entries, n - 1, p) \/ NodeAt(root, p).kind = "mapping"
      BY <2>1 DEF Grown, Says
    <3> QED
      BY <3>2, <3>3, <3>4
  <2> QED
    BY <2>3, <2>4, <2>5
<1> QED
  BY <1>3, <1>5, <1>6 DEF Grown, new

\* What the dotted keys of a block leave of it.
LEMMA BlockGrown ==
  ASSUME NEW entries \in Seq(Entries)
  PROVE  LET root == expandDottedKeys(entries).root
         IN  IF root = Broken THEN Clash(entries) ELSE Grown(entries, Len(entries), root)
<1>1. PICK at : Grows(at, entries) /\ expandDottedKeys(entries) = at[Len(entries)]
  BY GrowsExists
<1> DEFINE Holds(n) == IF at[n].root = Broken THEN Clash(entries) ELSE Grown(entries, n, at[n].root)
           Good == {k \in Nat : k <= Len(entries) => Holds(k)}
<1>2. 0 \in Good
  <2>1. at[0].root = Root(entries)
    BY <1>1 DEF Grows, Unexpanded
  <2>2. Grown(entries, 0, Root(entries))
    BY RootGrown
  <2>3. Root(entries) # Broken
    BY DEF Root, Mapping, Broken
  <2> QED
    BY <2>1, <2>2, <2>3
<1>3. ASSUME NEW k \in Nat, k \in Good PROVE k + 1 \in Good
  <2>1. SUFFICES ASSUME k + 1 <= Len(entries) PROVE Holds(k + 1)
    OBVIOUS
  <2>2. Holds(k)
    BY <1>3, <2>1
  <2> DEFINE n == k + 1
  <2>3. n \in 1 .. Len(entries) /\ n # 0 /\ n - 1 = k /\ n \in 0 .. Len(entries)
    BY <2>1
  <2> HIDE DEF n, Good
  <2>4. at[n] = IF Dotted(entries[n]) THEN Expand(at[k], entries[n]) ELSE at[k]
    BY <1>1, <2>3 DEF Grows
  <2>5. Holds(n)
    <3>1. CASE ~Dotted(entries[n])
      <4>1. at[n] = at[k]
        BY <2>4, <3>1
      <4>2. Grown(entries, k, at[k].root) => Grown(entries, n, at[k].root)
        BY <2>3, <3>1, PlainGrown
      <4> QED
        BY <2>2, <4>1, <4>2
    <3>2. CASE Dotted(entries[n]) /\ at[k].root = Broken
      <4>1. at[n] = at[k]
        BY <2>4, <3>2 DEF Expand
      <4> QED
        BY <2>2, <3>2, <4>1
    <3>3. CASE Dotted(entries[n]) /\ at[k].root # Broken
      <4>1. at[n].root = Put(at[k].root, entries[n].path, entries[n].node)
        BY <2>4, <3>3 DEF Expand
      <4>2. Grown(entries, n - 1, at[k].root)
        BY <2>2, <2>3, <3>3
      <4>3. CASE Put(at[k].root, entries[n].path, entries[n].node) = Broken
        BY <2>3, <3>3, <4>1, <4>2, <4>3, PutBreaks
      <4>4. CASE Put(at[k].root, entries[n].path, entries[n].node) # Broken
        BY <2>3, <3>3, <4>1, <4>2, <4>4, PutGrown
      <4> QED
        BY <4>3, <4>4
    <3> QED
      BY <3>1, <3>2, <3>3
  <2> QED
    BY <2>5 DEF n
<1> HIDE DEF Good
<1>4. Len(entries) \in Good
  <2>1. Len(entries) \in Nat
    OBVIOUS
  <2> QED
    BY <1>2, <1>3, <2>1, Induction
<1>5. Holds(Len(entries))
  BY <1>4 DEF Good
<1> QED
  BY <1>1, <1>5

-----------------------------------------------------------------------------
(* The settings of a block *)

LEMMA ShortSequences ==
  ASSUME NEW S, NEW a \in S, NEW b \in S
  PROVE  /\ <<a>> \in Seq(S) /\ <<a>> # <<>> /\ Len(<<a>>) = 1
         /\ <<a, b>> \in Seq(S) /\ <<a, b>> # <<>> /\ Len(<<a, b>>) = 2
  OBVIOUS

LEMMA SettingsTyped ==
  \A f \in DOMAIN Settings :
    /\ Settings[f] \in Paths /\ Len(Settings[f]) \in {1, 2} /\ KindOf(f) \notin {"mapping", "null"}
<1> DEFINE Short(p) == p \in Paths /\ Len(p) \in {1, 2}
<1>1. Short(<<"enabled">>)
  <2>1. "enabled" \in PathWords
    BY DEF PathWords, SettingWords
  <2> QED
    BY <2>1, ShortSequences DEF Paths
<1>2. ASSUME NEW section \in SettingWords, NEW key \in SettingWords PROVE Short(<<section, key>>)
  <2>1. section \in PathWords /\ key \in PathWords
    BY DEF PathWords
  <2> QED
    BY <2>1, ShortSequences DEF Paths
<1> HIDE DEF Short
<1>3. \A f \in DOMAIN Settings : Short(Settings[f])
  <2>1. DOMAIN Settings = {"enabled", "ttl", "maxSessions", "shape", "exponent", "steepness", "landing", "weekly",
                           "session", "scoped", "poll", "timeout", "staleness", "url", "limit"}
    BY DEF Settings
  <2>2. Short(Settings["enabled"])
    <3>1. Settings["enabled"] = <<"enabled">>
      BY DEF Settings
    <3> QED
      BY <1>1, <3>1
  <2>3. Short(Settings["ttl"])
    <3>1. Settings["ttl"] = <<"affinity", "ttl">>
      BY DEF Settings
    <3>2. Short(<<"affinity", "ttl">>)
      BY <1>2 DEF SettingWords
    <3> QED
      BY <3>1, <3>2, Zenon
  <2>4. Short(Settings["maxSessions"])
    <3>1. Settings["maxSessions"] = <<"affinity", "max-sessions">>
      BY DEF Settings
    <3>2. Short(<<"affinity", "max-sessions">>)
      BY <1>2 DEF SettingWords
    <3> QED
      BY <3>1, <3>2, Zenon
  <2>5. Short(Settings["shape"])
    <3>1. Settings["shape"] = <<"pace", "shape">>
      BY DEF Settings
    <3>2. Short(<<"pace", "shape">>)
      BY <1>2 DEF SettingWords
    <3> QED
      BY <3>1, <3>2, Zenon
  <2>6. Short(Settings["exponent"])
    <3>1. Settings["exponent"] = <<"pace", "curve-exponent">>
      BY DEF Settings
    <3>2. Short(<<"pace", "curve-exponent">>)
      BY <1>2 DEF SettingWords
    <3> QED
      BY <3>1, <3>2, Zenon
  <2>7. Short(Settings["steepness"])
    <3>1. Settings["steepness"] = <<"pace", "steepness">>
      BY DEF Settings
    <3>2. Short(<<"pace", "steepness">>)
      BY <1>2 DEF SettingWords
    <3> QED
      BY <3>1, <3>2, Zenon
  <2>8. Short(Settings["landing"])
    <3>1. Settings["landing"] = <<"pace", "landing-target">>
      BY DEF Settings
    <3>2. Short(<<"pace", "landing-target">>)
      BY <1>2 DEF SettingWords
    <3> QED
      BY <3>1, <3>2, Zenon
  <2>9. Short(Settings["weekly"])
    <3>1. Settings["weekly"] = <<"pace", "weekly-weight">>
      BY DEF Settings
    <3>2. Short(<<"pace", "weekly-weight">>)
      BY <1>2 DEF SettingWords
    <3> QED
      BY <3>1, <3>2, Zenon
  <2>10. Short(Settings["session"])
    <3>1. Settings["session"] = <<"pace", "session-weight">>
      BY DEF Settings
    <3>2. Short(<<"pace", "session-weight">>)
      BY <1>2 DEF SettingWords
    <3> QED
      BY <3>1, <3>2, Zenon
  <2>11. Short(Settings["scoped"])
    <3>1. Settings["scoped"] = <<"pace", "scoped-weight">>
      BY DEF Settings
    <3>2. Short(<<"pace", "scoped-weight">>)
      BY <1>2 DEF SettingWords
    <3> QED
      BY <3>1, <3>2, Zenon
  <2>12. Short(Settings["poll"])
    <3>1. Settings["poll"] = <<"quota", "poll-interval">>
      BY DEF Settings
    <3>2. Short(<<"quota", "poll-interval">>)
      BY <1>2 DEF SettingWords
    <3> QED
      BY <3>1, <3>2, Zenon
  <2>13. Short(Settings["timeout"])
    <3>1. Settings["timeout"] = <<"quota", "request-timeout">>
      BY DEF Settings
    <3>2. Short(<<"quota", "request-timeout">>)
      BY <1>2 DEF SettingWords
    <3> QED
      BY <3>1, <3>2, Zenon
  <2>14. Short(Settings["staleness"])
    <3>1. Settings["staleness"] = <<"quota", "max-staleness">>
      BY DEF Settings
    <3>2. Short(<<"quota", "max-staleness">>)
      BY <1>2 DEF SettingWords
    <3> QED
      BY <3>1, <3>2, Zenon
  <2>15. Short(Settings["url"])
    <3>1. Settings["url"] = <<"quota", "usage-url">>
      BY DEF Settings
    <3>2. Short(<<"quota", "usage-url">>)
      BY <1>2 DEF SettingWords
    <3> QED
      BY <3>1, <3>2, Zenon
  <2>16. Short(Settings["limit"])
    <3>1. Settings["limit"] = <<"web", "history-limit">>
      BY DEF Settings
    <3>2. Short(<<"web", "history-limit">>)
      BY <1>2 DEF SettingWords
    <3> QED
      BY <3>1, <3>2, Zenon
  <2> QED
    BY <2>1, <2>2, <2>3, <2>4, <2>5, <2>6, <2>7, <2>8, <2>9, <2>10, <2>11, <2>12, <2>13, <2>14, <2>15, <2>16
<1>4. \A f \in DOMAIN Settings : KindOf(f) \notin {"mapping", "null"}
  BY DEF KindOf
<1> QED
  BY <1>3, <1>4 DEF Short

\* Every path of an undecodable kind is some entry's fault.
LEMMA UndecodedFaulty ==
  ASSUME NEW entries \in Seq(Entries), NEW root, Grown(entries, Len(entries), root), ~Decodes(root)
  PROVE  \E e \in ToSet(entries) : Faulty(e)
<1>1. PICK f \in DOMAIN Settings :
        \/ NodeAt(root, Front(Settings[f])).kind \notin {"mapping", "null"}
        \/ NodeAt(root, Settings[f]).kind \notin {KindOf(f), "null"}
  BY DEF Decodes
<1> DEFINE path == Settings[f]
<1>2. path \in Seq(PathWords) /\ path # <<>> /\ Len(path) \in {1, 2} /\ path \in Paths /\ KindOf(f) # "mapping"
  BY SettingsTyped DEF Paths
<1> DEFINE kinds(n) == {"null", IF n = Len(path) THEN KindOf(f) ELSE "mapping"}
<1>3. \A e : \/ /\ IsPrefix(e.path, path)
                /\ \E n \in Len(e.path) .. Len(path) :
                     NodeFrom(e.node, SubSeq(path, 1, n), Len(e.path)).kind \notin kinds(n)
             \/ IsStrictPrefix(path, e.path)
             => Faulty(e)
  BY DEF Faulty
<1> HIDE DEF path, kinds
<1>4. ASSUME NEW n \in 1 .. Len(path), NEW q \in Paths, q = SubSeq(path, 1, n), NodeAt(root, q).kind \notin kinds(n),
             n = Len(path) \/ NodeAt(root, q).kind # "mapping"
      PROVE  \E e \in ToSet(entries) : Faulty(e)
  <2>0. Len(q) = n /\ q \in Seq(PathWords)
    BY <1>2, <1>4 DEF Paths
  <2>1. NodeAt(root, q).kind # "null"
    BY <1>4 DEF kinds
  <2>2. CASE NodeAt(root, q).kind = "mapping"
            /\ \E j \in 1 .. Len(entries) : Dotted(entries[j]) /\ IsStrictPrefix(q, entries[j].path)
    <3>1. PICK j \in 1 .. Len(entries) : IsStrictPrefix(q, entries[j].path)
      BY <2>2
    <3>2. q = path
      BY <1>2, <1>4, <2>2
    <3>3. Faulty(entries[j]) /\ entries[j] \in ToSet(entries)
      BY <1>3, <3>1, <3>2 DEF ToSet
    <3> QED
      BY <3>3
  <2>3. CASE \E j \in DOMAIN entries : Provides(entries, Len(entries), j, q, NodeAt(root, q))
    <3>1. PICK j \in DOMAIN entries : Provides(entries, Len(entries), j, q, NodeAt(root, q))
      BY <2>3
    <3> DEFINE e == entries[j]
    <3>2. e.path \in Paths /\ Len(e.path) \in Nat /\ e \in ToSet(entries)
      BY EntriesTyped DEF ToSet
    <3>3. IsPrefix(e.path, q) /\ NodeFrom(e.node, q, Len(e.path)).kind \notin kinds(n)
      BY <1>4, <3>1 DEF Provides
    <3>4. n \in Len(e.path) .. Len(path)
      BY <2>0, <3>2, <3>3 DEF IsPrefix
    <3>5. IsPrefix(e.path, path)
      <4> HIDE DEF e
      <4>1. e.path \in Seq(PathWords)
        BY <3>2 DEF Paths
      <4>2. PICK p \in Seq(PathWords) : p = e.path
        BY <4>1
      <4>3. IsPrefix(p, q)
        BY <3>3, <4>2
      <4>4. IsPrefix(p, path)
        BY <1>2, <1>4, <2>0, <4>3 DEF IsPrefix
      <4> QED
        BY <4>2, <4>4
    <3>6. Faulty(e)
      BY <1>3, <1>4, <3>3, <3>4, <3>5
    <3> QED
      BY <3>2, <3>6
  <2>4. \/ NodeAt(root, q).kind = "null"
        \/ NodeAt(root, q).kind = "mapping"
           /\ \E j \in 1 .. Len(entries) : Dotted(entries[j]) /\ IsStrictPrefix(q, entries[j].path)
        \/ \E j \in DOMAIN entries : Provides(entries, Len(entries), j, q, NodeAt(root, q))
    BY DEF Grown, Sourced
  <2> QED
    BY <2>1, <2>2, <2>3, <2>4
<1>5. CASE NodeAt(root, path).kind \notin {KindOf(f), "null"}
  <2>1. Len(path) \in 1 .. Len(path) /\ path = SubSeq(path, 1, Len(path))
    BY <1>2
  <2>2. NodeAt(root, path).kind \notin kinds(Len(path))
    BY <1>5 DEF kinds
  <2> QED
    BY <1>2, <1>4, <2>1, <2>2
<1>6. CASE NodeAt(root, Front(path)).kind \notin {"mapping", "null"}
  <2>1. CASE Len(path) = 1
    <3>1. Front(path) = SubSeq(path, 1, 0)
      BY <2>1 DEF Front
    <3>2. NodeAt(root, Front(path)) = root
      BY <1>2, <3>1, WalkNowhere
    <3>3. root.kind = "mapping"
      BY DEF Grown
    <3> QED
      BY <1>6, <3>2, <3>3
  <2>2. CASE Len(path) = 2
    <3>1. Front(path) = SubSeq(path, 1, 1)
      BY <2>2 DEF Front
    <3>2. Front(path) \in Paths /\ 1 \in 1 .. Len(path)
      BY <1>2, <2>2, <3>1 DEF Paths
    <3>3. NodeAt(root, Front(path)).kind \notin kinds(1)
      BY <1>6, <2>2 DEF kinds
    <3> QED
      BY <1>4, <1>6, <3>1, <3>2, <3>3
  <2> QED
    BY <1>2, <2>1, <2>2
<1> QED
  BY <1>1, <1>5, <1>6 DEF path

LEMMA DecodedSaid ==
  ASSUME NEW entries \in Seq(Entries), NEW root, Grown(entries, Len(entries), root), Decodes(root)
  PROVE  \A f \in DOMAIN Settings : NodeAt(root, Settings[f]) = Said(entries, Settings[f])
<1>1. SUFFICES ASSUME NEW f \in DOMAIN Settings PROVE NodeAt(root, Settings[f]) = Said(entries, Settings[f])
  OBVIOUS
<1> DEFINE path == Settings[f]
<1>2. path \in Paths /\ Len(path) \in {1, 2} /\ KindOf(f) \notin {"mapping", "null"}
  BY SettingsTyped, Zenon
<1>3. NodeAt(root, path).kind \in {KindOf(f), "null"}
  BY DEF Decodes
<1> HIDE DEF path
<1>0. Len(path) <= 2
  <2> DEFINE l == Len(path)
  <2>1. l \in {1, 2}
    BY <1>2
  <2> HIDE DEF l
  <2>2. l <= 2
    BY <2>1
  <2> QED
    BY <2>2 DEF l
<1>4. NodeAt(root, path) = SaidBy(entries, Len(entries), path)
  BY <1>0, <1>2, <1>3 DEF Grown, Says
<1>5. Given(entries, Len(entries), path) = {n \in DOMAIN entries : Dotted(entries[n]) /\ entries[n].path = path}
  BY DEF Given
<1>6. SaidBy(entries, Len(entries), path) = Said(entries, path)
  BY <1>5, Zenon DEF SaidBy, Said
<1> QED
  BY <1>4, <1>6 DEF path

BlockTyped == block \in Seq(Entries)

LEMMA ConfigureRight ==
  ASSUME block \in Seq(Entries), Configure
  PROVE  \/ config' = Defaults /\ ((\E e \in ToSet(block) : Faulty(e)) \/ Clash(block))
         \/ config' = Normalize([f \in DOMAIN Defaults |->
              IF f \in DOMAIN Settings /\ Said(block, Settings[f]).kind # "null"
                THEN ValueOf(Said(block, Settings[f])) ELSE Defaults[f]])
<1> DEFINE root == expandDottedKeys(block).root
<1>1. config' = decodeConfig(block).config
  BY DEF Configure
<1>2. decodeConfig(block).config
        = IF root = Broken \/ ~Decodes(root) THEN Defaults ELSE Normalize(Decoded(root))
  BY DEF decodeConfig, inert
<1>3. IF root = Broken THEN Clash(block) ELSE Grown(block, Len(block), root)
  BY BlockGrown
<1> HIDE DEF root
<1>4. CASE root = Broken
  BY <1>1, <1>2, <1>3, <1>4
<1>5. CASE root # Broken /\ ~Decodes(root)
  <2>1. \E e \in ToSet(block) : Faulty(e)
    BY <1>3, <1>5, UndecodedFaulty
  <2> QED
    BY <1>1, <1>2, <1>5, <2>1
<1>6. CASE root # Broken /\ Decodes(root)
  <2>1. \A f \in DOMAIN Settings : NodeAt(root, Settings[f]) = Said(block, Settings[f])
    BY <1>3, <1>6, DecodedSaid
  <2>2. Decoded(root) = [f \in DOMAIN Defaults |->
          IF f \in DOMAIN Settings /\ Said(block, Settings[f]).kind # "null"
            THEN ValueOf(Said(block, Settings[f])) ELSE Defaults[f]]
    BY <2>1, Zenon DEF Decoded
  <2> QED
    BY <1>1, <1>2, <1>6, <2>2
<1> QED
  BY <1>4, <1>5, <1>6

\* DottedWins: whatever the entries and their order, a reconfigure takes of each setting
\* the last dotted key for it, else what is written nested, else its default, and leaves
\* the plugin inert only for an entry at fault or two that clash (expandDottedKeys,
\* decodeConfig).
THEOREM DottedAlwaysWins == ConfigSpec => DottedWins
<1> DEFINE Right ==
      config' # config \/ warnings' # warnings =>
        \/ config' = Defaults /\ ((\E e \in ToSet(block) : Faulty(e)) \/ Clash(block))
        \/ config' = Normalize([f \in DOMAIN Defaults |->
             IF f \in DOMAIN Settings /\ Said(block, Settings[f]).kind # "null"
               THEN ValueOf(Said(block, Settings[f])) ELSE Defaults[f]])
<1>1. ConfigInit => BlockTyped
  BY DEF ConfigInit, BlockTyped
<1>2. BlockTyped /\ [ConfigNext]_configVars => BlockTyped'
  BY DEF ConfigNext, Configure, Edit, configVars, BlockTyped
<1>3. BlockTyped /\ [ConfigNext]_configVars => [Right]_configVars
  <2>1. SUFFICES ASSUME BlockTyped, [ConfigNext]_configVars, config' # config \/ warnings' # warnings
                 PROVE  Right
    OBVIOUS
  <2>2. Configure
    BY <2>1 DEF ConfigNext, Edit, configVars
  <2> QED
    BY <2>1, <2>2, ConfigureRight DEF BlockTyped
<1> QED
  BY <1>1, <1>2, <1>3, PTL DEF ConfigSpec, DottedWins
=============================================================================
