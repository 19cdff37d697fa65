---------------------------- MODULE RefusalSpans ----------------------------
(***************************************************************************)
(* The refusal spans one window's ring keeps (internal/quota/history.go),  *)
(* as RecordRefusals, MarkServed and the readings of internal/quota/       *)
(* store.go change them over one life of the ring.  Usage records arrive   *)
(* in any order: a record carries the instant its request was admitted and *)
(* the instant its response began, and a long request is delivered after   *)
(* shorter ones admitted later.                                            *)
(*                                                                         *)
(* Instants are ticks, Second ticks to the second: admissions are compared *)
(* at full precision, spans hold whole seconds.  A span is                 *)
(* [from, to, end, expected]: the code's empty end is "ongoing" here, and  *)
(* expected is Never unless the span ended before the reset it was running *)
(* to.                                                                     *)
(*                                                                         *)
(* Every method runs under the store's lock, so each is one step.  The     *)
(* cycles of utilization samples are abstracted to what they do to spans:  *)
(* a reading may end the newest one (a roll, a close, a clearing, or a     *)
(* usage read that omits the window), and compaction fixes the oldest      *)
(* sample that trimLocks measures against.                                 *)
(***************************************************************************)
EXTENDS Integers, Sequences

CONSTANTS
  Second,    \* ticks in a second
  MaxTick,   \* bound on instants
  MaxLocks   \* historyMaxLocks

ASSUME SpanAssumption ==
  /\ Second \in Nat \ {0}
  /\ MaxTick \in Nat
  /\ MaxLocks \in Nat \ {0}

VARIABLE ring   \* [locks, refused, served]

Never == -1     \* the zero time

Ticks == 0 .. MaxTick
Truncate(t) == t - (t % Second)
Seconds == {t \in Ticks : t % Second = 0}

Ends == {"ongoing", "reset", "served", "cleared"}
Spans == [from : Int, to : Int, end : Ends, expected : Int]

EmptyRing == [locks |-> <<>>, refused |-> Never, served |-> Never]

Newest(locks) == locks[Len(locks)]
Later(a, b) == IF a > b THEN a ELSE b

\* locks with the newest span replaced.
WithLast(locks, l) == [locks EXCEPT ![Len(locks)] = l]

\* push: a newest span still ongoing ends as reset behind the new one.
Push(locks, l) ==
  IF locks # <<>> /\ Newest(locks).end = "ongoing"
    THEN Append(WithLast(locks, [Newest(locks) EXCEPT !.end = "reset"]), l)
    ELSE Append(locks, l)

(***************************************************************************)
(* trimLocks: the spans that ended before the oldest sample go from the    *)
(* front, up to the first that did not, and the oldest past MaxLocks.      *)
(***************************************************************************)
TrimCounts(locks, oldest) ==
  {n \in 0 .. Len(locks) :
     /\ n >= Len(locks) - MaxLocks
     /\ \A i \in 1 .. n : i <= Len(locks) - MaxLocks \/ locks[i].to < oldest}

TrimLocks(locks, oldest) ==
  LET drop == CHOOSE n \in TrimCounts(locks, oldest) :
                \A m \in TrimCounts(locks, oldest) : m <= n
  IN  SubSeq(locks, drop + 1, Len(locks))

(***************************************************************************)
(* refuse                                                                  *)
(***************************************************************************)
\* The refusals refuse drops at once: no end after at, or stale.
RefuseDropped(r, admitted, at, until) ==
  \/ at >= until
  \/ admitted <= r.served

\* A refusal before the newest span's start that reaches into the one before.
ReachesBack(locks, at) ==
  /\ at < Newest(locks).from
  /\ Len(locks) > 1
  /\ at < locks[Len(locks) - 1].to

\* The newest span runs on under a refusal inside it.
Reopens(l) == l.end \in {"ongoing", "served"}

\* The newest span under a refusal that begins before its end.
Extend(l, at, until) ==
  IF at < l.from THEN [l EXCEPT !.from = at]
  ELSE IF Reopens(l) THEN [from |-> l.from, to |-> until, end |-> "ongoing", expected |-> Never]
  ELSE l

Opened(at, until) == [from |-> at, to |-> until, end |-> "ongoing", expected |-> Never]

Refuse(r, admitted, at0, until0, oldest) ==
  LET at == Truncate(at0)
      until == Truncate(until0)
  IN  IF RefuseDropped(r, admitted, at, until) THEN r
      ELSE IF r.locks = <<>> \/ at >= Newest(r.locks).to
        THEN [locks   |-> TrimLocks(Push(r.locks, Opened(at, until)), oldest),
              refused |-> admitted,
              served  |-> r.served]
      ELSE IF ReachesBack(r.locks, at) THEN r
      ELSE [locks   |-> WithLast(r.locks, Extend(Newest(r.locks), at, until)),
            refused |-> Later(admitted, r.refused),
            served  |-> r.served]

(***************************************************************************)
(* end: the newest span ends at `at`, or keeps its expected reset when `at`*)
(* has reached it.                                                         *)
(***************************************************************************)
EndsSpan(locks, at) ==
  locks # <<>> /\ Newest(locks).end = "ongoing" /\ at > Newest(locks).from

End(locks, at0, cause) ==
  LET at == Truncate(at0)
      l == Newest(locks)
  IN  IF ~EndsSpan(locks, at) THEN locks
      ELSE IF at < l.to
        THEN WithLast(locks, [from |-> l.from, to |-> at, end |-> cause, expected |-> l.to])
        ELSE WithLast(locks, [l EXCEPT !.end = "reset"])

(***************************************************************************)
(* serve                                                                   *)
(***************************************************************************)
\* The spans serve leaves, when the request was admitted after the newest
\* span's latest refusal.
EndServed(locks, at) ==
  IF Truncate(at) <= Newest(locks).from
    THEN SubSeq(locks, 1, Len(locks) - 1)
    ELSE End(locks, at, "served")

Serve(r, admitted, at) ==
  [locks   |-> IF r.locks = <<>> \/ Newest(r.locks).end # "ongoing" \/ admitted <= r.refused
                 THEN r.locks
                 ELSE EndServed(r.locks, at),
   refused |-> r.refused,
   served  |-> Later(admitted, r.served)]

-----------------------------------------------------------------------------
vars == ring

Init == ring = EmptyRing

\* A refused usage record: RecordRefusals for this window.
RecordRefusal(admitted, at, until, oldest) ==
  ring' = Refuse(ring, admitted, at, until, oldest)

\* A served usage record whose model the window caps: MarkServed.
MarkServed(admitted, at) == ring' = Serve(ring, admitted, at)

(***************************************************************************)
(* A reading that opens a cycle (record) or a usage read without the       *)
(* window (Put) ends the span at `at`; then compact trims what is left.    *)
(* The span may also stand: at is then an instant before it began.         *)
(***************************************************************************)
Reading(at, cause, oldest) ==
  ring' = [locks   |-> TrimLocks(End(ring.locks, at, cause), oldest),
           refused |-> ring.refused,
           served  |-> ring.served]

Next ==
  \/ \E at \in Ticks, until \in Ticks, oldest \in Seconds :
       \E admitted \in 0 .. at : RecordRefusal(admitted, at, until, oldest)
  \/ \E at \in Ticks : \E admitted \in 0 .. at : MarkServed(admitted, at)
  \/ \E at \in Ticks, cause \in {"reset", "cleared"}, oldest \in Seconds :
       Reading(at, cause, oldest)

Spec == Init /\ [][Next]_vars

-----------------------------------------------------------------------------
(* Properties *)

\* Type invariant of the ring.
TypeOK ==
  /\ ring.locks \in Seq(Spans)
  /\ ring.refused \in Int
  /\ ring.served \in Int

\* The spans are "oldest first and disjoint", none is empty, only the newest
\* can be ongoing, and one that ended early ended before the reset it expected.
Disjoint(locks) ==
  /\ \A i \in DOMAIN locks : locks[i].from < locks[i].to
  /\ \A i \in DOMAIN locks : locks[i].expected # Never => locks[i].to < locks[i].expected
  /\ \A i, j \in DOMAIN locks : i < j => locks[i].to <= locks[j].from /\ locks[i].end # "ongoing"

SpansDisjoint == Disjoint(ring.locks)

\* Nothing served outlives a refusal: while a span is ongoing no request the
\* window caps was served that was admitted after the span's latest refusal,
\* whichever of the two records was delivered first.
OngoingNotOutlived ==
  ring.locks # <<>> /\ Newest(ring.locks).end = "ongoing" => ring.served <= ring.refused

\* A ring keeps at most historyMaxLocks spans.
LocksBounded == Len(ring.locks) <= MaxLocks

\* What a reset or a clearing ended stays ended: no later or late record
\* reopens such a span, moves its end or opens another over it.
EndedStands(before, after) ==
  \A i \in DOMAIN before, j \in DOMAIN after :
    /\ before[i].end \in {"reset", "cleared"}
    /\ after[j].from < before[i].to
    /\ before[i].from < after[j].to
    => after[j].to = before[i].to /\ after[j].end = before[i].end

EndedForGood == [][EndedStands(ring.locks, ring'.locks)]_vars
=============================================================================
