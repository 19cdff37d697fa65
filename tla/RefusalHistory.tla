--------------------------- MODULE RefusalHistory ---------------------------
(***************************************************************************)
(* The refusal spans of one window across runs of the plugin: a save       *)
(* exports them to the history file (ring.export, Store.SaveHistory), a    *)
(* restart forgets the ring with its admissions, records may reach the new *)
(* ring before the file is loaded, and the load replays the file and       *)
(* merges the live spans behind it (ring.replay, Store.ImportHistory).     *)
(***************************************************************************)
EXTENDS RefusalSpans

CONSTANT
  ReloadLate   \* TRUE when the host replaces the plugin under live requests,
               \* whose records then reach a run that began after them

VARIABLES
  clock,   \* wall clock, in ticks
  boot,    \* when this run began
  file,    \* the spans of the history file
  loaded   \* Plugin.historyLoaded

hvars == <<ring, clock, boot, file, loaded>>

\* export: an ongoing span whose expected reset has passed reads as ended by it.
ExportLock(l, now) ==
  IF l.end = "ongoing" /\ l.to <= now THEN [l EXCEPT !.end = "reset"] ELSE l

Export(locks, now) == [i \in DOMAIN locks |-> ExportLock(locks[i], now)]

\* A mutation: a span is pushed when it begins after the newest begins.
MergeAgainstStart(locks, l) ==
  IF l.to <= l.from THEN locks
  ELSE IF locks = <<>> \/ l.from >= Newest(locks).from THEN Push(locks, l)
  ELSE IF l.to > Newest(locks).from THEN WithLast(locks, l)
  ELSE locks

\* A mutation: an overlapping span only moves the start.
MergeStartOnly(locks, l) ==
  IF l.to <= l.from THEN locks
  ELSE IF locks = <<>> \/ l.from >= Newest(locks).to THEN Push(locks, l)
  ELSE IF l.to > Newest(locks).from
    THEN WithLast(locks, [Newest(locks) EXCEPT !.from =
           IF l.from < Newest(locks).from THEN l.from ELSE Newest(locks).from])
  ELSE locks

\* mergeLock: an overlapping span takes the newest over from the earlier start
\* to its own end; one that ends at or before the newest starts is dropped.
MergeLock(locks, l) ==
  IF l.to <= l.from THEN locks
  ELSE IF locks = <<>> \/ l.from >= Newest(locks).to THEN Push(locks, l)
  ELSE IF l.to > Newest(locks).from
    THEN WithLast(locks, [l EXCEPT !.from = IF l.from < Newest(locks).from
                                              THEN l.from ELSE Newest(locks).from])
  ELSE locks

\* Spans merged behind others, oldest first.
MergeAll(locks, spans) ==
  LET merged[n \in 0 .. Len(spans)] ==
        IF n = 0 THEN locks ELSE MergeLock(merged[n - 1], spans[n])
  IN  merged[Len(spans)]

\* replay: the stored spans, with the load standing in for their admissions.
Replay(stored, now, oldest) ==
  LET locks == MergeAll(<<>>, stored)
  IN  [locks |-> TrimLocks(locks, oldest),
       refused |-> IF locks # <<>> THEN now ELSE Never,
       served |-> Never]

\* A mutation: the live ring's served admission is forgotten.
ImportForgetful(live, stored, now, oldest, at, cause) ==
  LET r == Replay(stored, now, oldest)
  IN  [locks |-> TrimLocks(MergeAll(End(r.locks, at, cause), live.locks), oldest),
       refused |-> r.refused,
       served |-> live.served]

\* ImportHistory, for a window the live ring may already hold: the live readings follow
\* the stored ones, and one that opens a cycle (addCycles) ends the newest stored span at
\* `at`, as a Reading does; then the live spans are merged.
Import(live, stored, now, oldest, at, cause) ==
  LET r == Replay(stored, now, oldest)
  IN  [locks |-> TrimLocks(MergeAll(End(r.locks, at, cause), live.locks), oldest),
       refused |-> IF live.locks # <<>> THEN live.refused ELSE r.refused,
       served |-> live.served]

-----------------------------------------------------------------------------
HInit ==
  /\ Init
  /\ clock = 0
  /\ boot = 0
  /\ file = <<>>
  /\ loaded = FALSE

\* The instants a record delivered now may carry.
Delivered == (IF ReloadLate THEN 0 ELSE boot) .. clock

Tick ==
  /\ clock < MaxTick
  /\ clock' = clock + 1
  /\ UNCHANGED <<ring, boot, file, loaded>>

\* A usage record or a reading, as in one life of the ring.
Live ==
  /\ \/ \E at \in Delivered, until \in Ticks, oldest \in Seconds :
          \E admitted \in Delivered :
            /\ admitted <= at
            /\ oldest <= clock
            /\ RecordRefusal(admitted, at, until, oldest)
     \/ \E at \in Delivered :
          \E admitted \in Delivered : admitted <= at /\ MarkServed(admitted, at)
     \/ \E at \in Delivered, cause \in {"reset", "cleared"}, oldest \in Seconds :
          oldest <= clock /\ Reading(at, cause, oldest)
  /\ UNCHANGED <<clock, boot, file, loaded>>

\* saveHistory, after a poll and at stop: never before the load.
SaveHistory ==
  /\ loaded
  /\ file' = Export(ring.locks, clock)
  /\ UNCHANGED <<ring, clock, boot, loaded>>

\* The process ends, with or without a last save, and another run begins.
Restart ==
  /\ ring' = EmptyRing
  /\ boot' = clock
  /\ loaded' = FALSE
  /\ UNCHANGED <<clock, file>>

LoadHistory ==
  /\ ~loaded
  /\ \E oldest \in Seconds, at \in {0} \cup Delivered, cause \in {"reset", "cleared"} :
       oldest <= clock /\ ring' = Import(ring, file, clock, oldest, at, cause)
  /\ loaded' = TRUE
  /\ UNCHANGED <<clock, boot, file>>

HNext == Tick \/ Live \/ SaveHistory \/ Restart \/ LoadHistory

HSpec == HInit /\ [][HNext]_hvars

-----------------------------------------------------------------------------
(* Properties *)

\* A load never loses what this run has already seen: the newest span ends
\* when and how the live ring's newest does ("as the newer evidence").
LoadKeepsLive ==
  [][loaded' /\ ~loaded /\ ring.locks # <<>> /\ ring'.locks # <<>> =>
       /\ Newest(ring'.locks).to = Newest(ring.locks).to
       /\ Newest(ring'.locks).end = Newest(ring.locks).end]_hvars

\* EndedForGood across saves, restarts and loads: a load reopens neither what
\* ended in this run nor what had ended when the file was written.
EndedForGoodAcross ==
  [][/\ EndedStands(ring.locks, ring'.locks)
     /\ loaded' /\ ~loaded => EndedStands(file, ring'.locks)]_hvars
=============================================================================
