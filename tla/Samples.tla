------------------------------ MODULE Samples ------------------------------
(***************************************************************************)
(* The utilization samples one window's ring keeps (internal/quota/        *)
(* history.go): cycles of samples, the reading held back as a possible     *)
(* clearing, compaction, the thinned copy for the status page, and the     *)
(* replay of a saved history.                                              *)
(*                                                                         *)
(* The quota store hands a ring its readings in the order of their         *)
(* instants (QuotaStore, LatestHeld).  Instants are the whole seconds and  *)
(* levels the rounded utilizations a sample holds; a reading without an    *)
(* instant or a finite utilization is dropped before anything else and     *)
(* left out.  Refusal spans are the subject of RefusalSpans.               *)
(***************************************************************************)
EXTENDS Times, SequencesExt

CONSTANTS
  FineSpan, FineStep, CoarseStep, MaxSamples,  \* historyFineSpan, ...
  ClearDrop, CarrySpan, CarryDrift,
  Tolerance,     \* resetTolerance
  PublishSteps,  \* publishSteps, finest first; 0 keeps every sample
  Length,        \* the window's duration
  Levels,        \* utilizations
  Resets,        \* reset instants the provider names
  Gaps,          \* time between two readings
  Estimates,     \* cycles a file may start with
  Start,         \* the first build starts after every sample of its file
  MaxReadings    \* bound on readings; nothing is saved after the last

ASSUME SamplesAssumption ==
  /\ {FineSpan, FineStep, ClearDrop, CarrySpan, CarryDrift, Tolerance, Length} \subseteq Nat
  /\ CarryDrift <= ClearDrop
  /\ CoarseStep \in Nat \ {0} /\ MaxSamples \in Nat \ {0}
  /\ PublishSteps \in Seq(Nat) /\ Len(PublishSteps) >= 2 /\ PublishSteps[1] = 0
  /\ Levels \subseteq Int /\ Resets \subseteq Int /\ Gaps \subseteq Nat /\ Start \in Int

VARIABLES
  ring,      \* [cycles, fall]
  stored,    \* the cycles in the history file
  joined,    \* the file has been read into the ring
  taken      \* [count, at]: readings so far, instant of the newest

samplesVars == <<ring, stored, joined, taken>>

NoFall == [sample |-> <<Never, 0>>, resetsAt |-> Never]
EmptyRing == [cycles |-> <<>>, fall |-> NoFall]

At(s) == s[1]
Level(s) == s[2]

Sample == Int \X Int
CycleSet == [resetsAt : Int, samples : Seq(Sample), estimated : BOOLEAN, until : Int]

\* What the chart draws: a cycle only rises, and the next begins where it ends or later.
Climbs(samples) ==
  \A i, j \in DOMAIN samples :
    i < j => At(samples[i]) < At(samples[j]) /\ Level(samples[i]) <= Level(samples[j])

WellFormed(c) == c.samples # <<>> /\ Climbs(c.samples) /\ (c.estimated => c.until = Never)

InOrder(c, d) ==
  \A i \in DOMAIN c.samples, j \in DOMAIN d.samples : At(c.samples[i]) <= At(d.samples[j])

Rises(cycles) ==
  /\ \A n \in DOMAIN cycles : WellFormed(cycles[n])
  /\ \A m, n \in DOMAIN cycles : m < n => InOrder(cycles[m], cycles[n])

UpTo(cycles, at) == \A n \in DOMAIN cycles : \A i \in DOMAIN cycles[n].samples : At(cycles[n].samples[i]) <= at

\* A file is written by a build that keeps what this one does, and before this one starts.
ASSUME EstimatesAssumption ==
  Estimates \in Seq(CycleSet) /\ Rises(Estimates) /\ UpTo(Estimates, Start)

-----------------------------------------------------------------------------
(* What a reading means for the newest cycle *)

\* A mutation: the last estimated sample counts as observed.
SampleEstimatedBefore(c, s) == c.estimated \/ (c.until # Never /\ At(s) < c.until)

SampleEstimated(c, s) == c.estimated \/ (c.until # Never /\ At(s) <= c.until)

Cycle(resetsAt, s, estimated) ==
  [resetsAt |-> resetsAt, samples |-> <<s>>, estimated |-> estimated, until |-> Never]

Distance(a, b) == IF a > b THEN a - b ELSE b - a

rolled(cycle, reading) ==
  cycle # Never /\ reading # Never /\ Distance(reading, cycle) > Tolerance

endedBefore(cycle, reading, at) ==
  cycle # Never /\ reading # Never /\ cycle - reading > Tolerance /\ reading <= at

closed(c, at) ==
  c.resetsAt # Never /\ at > c.resetsAt + Tolerance
  /\ At(Last(c.samples)) <= c.resetsAt + Tolerance

cleared(c, s, estimated) ==
  LET last == Last(c.samples)
  IN  ~estimated /\ ~SampleEstimated(c, last) /\ At(s) > At(last)
      /\ Level(last) - Level(s) > ClearDrop

nearRoll(cycles, at) ==
  Len(cycles) >= 2 /\
  LET prev == cycles[Len(cycles) - 1]
      opened == At(Last(cycles).samples[1]) - prev.resetsAt
  IN  prev.resetsAt # Never /\ ~Last(cycles).estimated
      /\ opened >= -Tolerance /\ opened <= CarrySpan /\ at - prev.resetsAt <= CarrySpan

carriedOver(cycles, s) ==
  nearRoll(cycles, At(s)) /\
  LET under == Level(Last(cycles[Len(cycles) - 1].samples)) - Level(s)
  IN  Level(s) - Level(Last(Last(cycles).samples)) > ClearDrop /\ under \in 0 .. CarryDrift

-----------------------------------------------------------------------------
(* add *)

WithLast(seq, x) == [seq EXCEPT ![Len(seq)] = x]

Open(r, cycle) == [cycles |-> Append(r.cycles, cycle), fall |-> NoFall]

\* A mutation: a reading under the last sample is kept as it came.
ExtendFalling(c, s, estimated) == [c EXCEPT !.samples = Append(@, s)]

\* The newest cycle with an accepted reading: the coarser source lags the finer,
\* the first observed reading ends an estimate, a reading within a step replaces
\* the last, and a flat run only moves its end.
Extend(c, reading, estimated) ==
  LET last == Last(c.samples)
      s == IF Level(reading) < Level(last) /\ ~estimated /\ ~SampleEstimated(c, last)
             THEN <<At(reading), Level(last)>> ELSE reading
      flat == Len(c.samples) >= 2 /\ Level(last) = Level(s)
              /\ Level(c.samples[Len(c.samples) - 1]) = Level(s)
  IN  IF At(s) <= At(last) \/ Level(s) < Level(last) THEN c
      ELSE IF c.estimated /\ ~estimated
        THEN [c EXCEPT !.estimated = FALSE, !.until = At(last), !.samples = Append(@, s)]
      ELSE IF At(s) - At(last) < FineStep THEN [c EXCEPT !.samples = WithLast(@, s)]
      ELSE IF flat THEN [c EXCEPT !.samples = WithLast(@, <<At(s), Level(last)>>)]
      ELSE [c EXCEPT !.samples = Append(@, s)]

\* A reading that stays in the newest cycle of r.
Continue(r, s, reset, estimated, replaying) ==
  LET cur == Last(r.cycles)
      c == IF cur.resetsAt = Never THEN [cur EXCEPT !.resetsAt = reset] ELSE cur
      cycles == WithLast(r.cycles, c)
  IN  IF ~estimated /\ ~replaying /\ carriedOver(cycles, s)
        THEN [r EXCEPT !.cycles = cycles]
        ELSE [r EXCEPT !.cycles = WithLast(cycles, Extend(c, s, estimated))]

\* A mutation: one low reading opens a cycle.
fallNow(r, s, reset) == Open(r, Cycle(reset, s, FALSE))

\* A reading that falls ClearDrop under the level: the first is held back, the
\* next one confirms it, at the lower of the two when they differ.
fall(r, s, reset) ==
  IF r.fall = NoFall THEN [r EXCEPT !.fall = [sample |-> s, resetsAt |-> reset]]
  ELSE IF At(s) <= At(r.fall.sample) THEN r
  ELSE IF Level(r.fall.sample) - Level(s) > ClearDrop THEN Open(r, Cycle(reset, s, FALSE))
  ELSE Continue(Open(r, Cycle(r.fall.resetsAt, r.fall.sample, FALSE)), s, reset, FALSE, FALSE)

add(r, s, reset, estimated, replaying) ==
  IF r.cycles # <<>> /\ endedBefore(Last(r.cycles).resetsAt, reset, At(s)) THEN r
  ELSE IF \/ r.cycles = <<>> \/ rolled(Last(r.cycles).resetsAt, reset)
          \/ closed(Last(r.cycles), At(s))
    THEN Open(r, Cycle(reset, s, estimated))
  ELSE IF cleared(Last(r.cycles), s, estimated) THEN fall(r, s, reset)
  ELSE Continue([r EXCEPT !.fall = NoFall], s, reset, estimated, replaying)

-----------------------------------------------------------------------------
(* compact *)

\* The k-th of a set of indices, and seq at the indices in keep.
Nth(keep, k) == CHOOSE i \in keep : Cardinality({j \in keep : j <= i}) = k
Kept(seq, keep) == [k \in 1 .. Cardinality(keep) |-> seq[Nth(keep, k)]]

\* coarsen: before the edge, the last sample of each step.
Coarse(samples, edge) ==
  {i \in DOMAIN samples :
     \/ At(samples[i]) >= edge \/ i = Len(samples) \/ At(samples[i + 1]) >= edge
     \/ At(samples[i]) \div CoarseStep # At(samples[i + 1]) \div CoarseStep}
coarsen(samples, edge) == Kept(samples, Coarse(samples, edge))

\* The samples of the cycles numbered in ns.
Places(cycles, ns) == UNION {{n} \X DOMAIN cycles[n].samples : n \in ns}
Count(cycles) == Cardinality(Places(cycles, DOMAIN cycles))

\* The oldest samples past the cap go, and the cycles emptied that way.
dropOldest(cycles) ==
  LET left(n) == Cardinality(Places(cycles, 1 .. n)) + MaxSamples - Count(cycles)
      first == Min({n \in DOMAIN cycles : left(n) > 0})
      c == cycles[first]
      rest == SubSeq(c.samples, Len(c.samples) + 1 - left(first), Len(c.samples))
      until == IF At(rest[1]) > c.until THEN Never ELSE c.until
  IN  IF Count(cycles) <= MaxSamples THEN cycles
      ELSE [i \in 1 .. Len(cycles) + 1 - first |->
             IF i > 1 \/ left(first) >= Len(c.samples) THEN cycles[first - 1 + i]
             ELSE [c EXCEPT !.samples = rest, !.until = until]]

compact(r) ==
  IF r.cycles = <<>> THEN r ELSE
  LET edge == At(Last(Last(r.cycles).samples)) - FineSpan
      tiered == [i \in DOMAIN r.cycles |->
                   [r.cycles[i] EXCEPT !.samples = coarsen(@, edge)]]
  IN  [r EXCEPT !.cycles = dropOldest(tiered)]

put(r, s, reset, estimated) == compact(add(r, s, reset, estimated, FALSE))

-----------------------------------------------------------------------------
(* export *)

keeps(samples, i, step) ==
  step = 0 \/ i = 1 \/ i = Len(samples) \/ At(samples[i + 1]) \div step # At(samples[i]) \div step

thin(samples, step) == Kept(samples, {i \in DOMAIN samples : keeps(samples, i, step)})

keptCount(cycles, step) ==
  Cardinality({p \in Places(cycles, DOMAIN cycles) : keeps(cycles[p[1]].samples, p[2], step)})

Coarsest == Last(PublishSteps)

finestStep(cycles, budget) ==
  LET fits == {i \in DOMAIN PublishSteps : keptCount(cycles, PublishSteps[i]) <= budget}
  IN  IF fits = {} THEN Coarsest ELSE PublishSteps[Min(fits)]

\* A mutation: the newest cycle leaves the older ones no room.
newestStepGreedy(cycles, max) == finestStep(<<Last(cycles)>>, max)

\* The step of the newest cycle: the older ones keep room at the coarsest step,
\* down to the floor of the second step.
newestStep(cycles, max) ==
  LET cur == <<Last(cycles)>>
      room == max - keptCount(Front(cycles), Coarsest)
      floor == keptCount(cur, PublishSteps[2])
  IN  finestStep(cur, IF room < floor /\ floor <= max THEN floor ELSE room)

export(cycles, max) ==
  IF max <= 0 \/ cycles = <<>> THEN cycles ELSE
  LET newest == newestStep(cycles, max)
      older == finestStep(Front(cycles), max - keptCount(<<Last(cycles)>>, newest))
  IN  [i \in DOMAIN cycles |->
        [cycles[i] EXCEPT !.samples = thin(@, IF i = Len(cycles) THEN newest ELSE older)]]

-----------------------------------------------------------------------------
(* Replay *)

\* A stored cycle's first sample, behind another cycle: dropped with the whole
\* cycle, folded into the newest cycle near a roll, or the start of its own.
Drops(r, c) ==
  r.cycles # <<>> /\ (\/ At(c.samples[1]) <= At(Last(Last(r.cycles).samples))
                      \/ endedBefore(Last(r.cycles).resetsAt, c.resetsAt, At(c.samples[1])))

Folds(r, c) ==
  LET s == c.samples[1]
  IN  /\ r.cycles # <<>> /\ ~SampleEstimated(c, s) /\ Len(c.samples) = 1
      /\ nearRoll(r.cycles, At(s)) /\ ~rolled(Last(r.cycles).resetsAt, c.resetsAt)
      /\ ~closed(Last(r.cycles), At(s)) /\ ~cleared(Last(r.cycles), s, FALSE)

addSample(r, c, n) == add(r, c.samples[n], c.resetsAt, SampleEstimated(c, c.samples[n]), TRUE)

addSamples(r, c, from) ==
  LET acc[n \in 0 .. Len(c.samples)] == IF n < from THEN r ELSE addSample(acc[n - 1], c, n)
  IN  acc[Len(c.samples)]

addLater(r, c) ==
  IF Drops(r, c) THEN r
  ELSE IF Folds(r, c)
    THEN IF carriedOver(r.cycles, c.samples[1]) THEN r ELSE addSamples(r, c, 1)
  ELSE addSamples(Open(r, Cycle(c.resetsAt, c.samples[1], SampleEstimated(c, c.samples[1]))), c, 2)

addCycle(r, cycles, n) == IF n = 1 THEN addSamples(r, cycles[1], 1) ELSE addLater(r, cycles[n])

addCycles(r, cycles) ==
  LET acc[n \in 0 .. Len(cycles)] == IF n = 0 THEN r ELSE addCycle(acc[n - 1], cycles, n)
  IN  acc[Len(cycles)]

replay(cycles) == compact(addCycles(EmptyRing, cycles))

\* ImportHistory: the live samples follow the stored ones, and a live fall stands
\* while it is newer than all of them.
after(f, r) ==
  IF r.cycles = <<>> \/ At(f.sample) > At(Last(Last(r.cycles).samples)) THEN f ELSE NoFall

import(live) ==
  LET r == addCycles(replay(stored), live.cycles)
  IN  compact([r EXCEPT !.fall = IF @ = NoFall THEN after(live.fall, r) ELSE @])

-----------------------------------------------------------------------------
\* windowReset: a reset outside the window it claims to describe is dropped.
windowReset(t, at) == IF t < at - Tolerance \/ t > at + Length + Tolerance THEN Never ELSE t

\* record: the store's next reading.
Record(gap, level, reset) ==
  LET at == taken.at + gap
  IN  /\ taken.count < MaxReadings
      /\ taken' = [count |-> taken.count + 1, at |-> at]
      /\ ring' = put(ring, <<at, level>>, windowReset(reset, at), FALSE)
      /\ UNCHANGED <<stored, joined>>

SaveCycles ==
  /\ joined /\ stored # ring.cycles /\ taken.count < MaxReadings
  /\ stored' = export(ring.cycles, 0)
  /\ UNCHANGED <<ring, joined, taken>>

Restart ==
  /\ joined /\ ring # EmptyRing /\ taken.count < MaxReadings
  /\ ring' = EmptyRing /\ joined' = FALSE
  /\ UNCHANGED <<stored, taken>>

\* A window the file has nothing of keeps its ring.
LoadCycles ==
  /\ ~joined
  /\ joined' = TRUE
  /\ ring' = IF stored = <<>> THEN ring ELSE import(ring)
  /\ UNCHANGED <<stored, taken>>

SamplesInit ==
  /\ ring = EmptyRing /\ joined = FALSE /\ taken = [count |-> 0, at |-> Start]
  /\ stored \in {<<>>, Estimates}

SamplesNext ==
  \/ \E gap \in Gaps, level \in Levels, reset \in Resets : Record(gap, level, reset)
  \/ SaveCycles \/ Restart \/ LoadCycles

SamplesSpec == SamplesInit /\ [][SamplesNext]_samplesVars

-----------------------------------------------------------------------------
(* Properties *)

\* However readings from the two sources, clearings, rolls and reloads mix, the
\* chart's samples only move right, and within a cycle only up, an estimate is
\* only ever a prefix, and the ring stays within its cap (record, compact).
CyclesRise == Rises(ring.cycles) /\ Count(ring.cycles) <= MaxSamples

\* A single low reading, followed by one that is not, leaves the cycles as if it
\* had never come ("is stale and is dropped").
StaleLowDropped ==
  ring.cycles # <<>> /\ ring.fall = NoFall =>
    LET c == Last(ring.cycles) IN
    \A low, next \in Levels, wait \in Gaps :
      LET s == <<taken.at + 1, low>>
          t == <<taken.at + 1 + wait, next>>
      IN  cleared(c, s, FALSE) /\ ~closed(c, At(s)) /\ ~cleared(c, t, FALSE)
            => put(put(ring, s, c.resetsAt, FALSE), t, c.resetsAt, FALSE).cycles
                 = put(ring, t, c.resetsAt, FALSE).cycles

\* A restart that reads back what it saved reads it the same way ever after.
ReplayStable ==
  LET once == replay(export(ring.cycles, 0)) IN replay(export(once.cycles, 0)) = once

\* The copy for the status page exceeds max only where export says it does, and
\* keeps the ends of every cycle.
ExportWithinMax ==
  ring.cycles # <<>> =>
    \A max \in 1 .. Count(ring.cycles) :
      LET out == export(ring.cycles, max)
      IN  /\ \/ Count(out) <= max
             \/ keptCount(ring.cycles, Coarsest) > max
             \/ Len(Last(out).samples) = keptCount(<<Last(ring.cycles)>>, PublishSteps[2])
          /\ \A i \in DOMAIN out :
               /\ out[i].samples[1] = ring.cycles[i].samples[1]
               /\ Last(out[i].samples) = Last(ring.cycles[i].samples)
=============================================================================
