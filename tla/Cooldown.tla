------------------------------ MODULE Cooldown ------------------------------
(***************************************************************************)
(* The release of one seat's stale host cooldown, which ends a complete    *)
(* sweep: findStaleHold, releaseHolds and resetHold of                     *)
(* internal/runtime/cooldown.go.                                           *)
(*                                                                         *)
(* What is really so of the provider's windows (shut) and of the host's    *)
(* cooldown is external; the plugin judges by its own record: the listing  *)
(* taken as the sweep began, the usage read taken later, and the refusal   *)
(* spans and cycles of the moment it judges.  A read may show room in a    *)
(* window the provider still refuses on, since utilization is rounded and  *)
(* lags, but it stops reporting a window only when that one refuses        *)
(* nothing.  The spans are RefusalSpans'.  Of the samples, Samples has the *)
(* levels; here a window's newest cycle is the instants of its readings,   *)
(* since the judgement asks only when it starts.  Resets within            *)
(* resetTolerance are one instant, the two readings a clearing takes are   *)
(* one, and a reading dropped beside a roll (carriedOver) is left out.     *)
(***************************************************************************)
EXTENDS Times, Sequences, FiniteSets

CONSTANTS
  AllRequest,     \* the 5-hour and the weekly window: capsEveryRequest
  Caps,           \* the family caps
  HoldMargin, DeadlineSlack, RepeatWindow,
  FineSpan, FineStep, CoarseStep, MaxSamples,   \* historyFineSpan, ...
  Plans,          \* the windows a seat's plan may have
  Lengths,        \* how far ahead the reset of a window that fills may be
  MaxNow, MaxSpans

\* A plan has windows the seat may have, a window that fills has its reset ahead, and a
\* ring keeps a span.
ASSUME CooldownAssumption ==
  /\ Plans \subseteq SUBSET (AllRequest \cup Caps)
  /\ DeadlineSlack \in Nat /\ RepeatWindow \in Nat \ {0}
  /\ FineSpan \in Nat /\ {FineStep, CoarseStep, MaxSamples} \subseteq Nat \ {0}
  /\ Lengths \subseteq Nat \ {0}
  /\ MaxNow \in Nat /\ MaxSpans \in Nat \ {0}

VARIABLES
  now, plan,
  shut,           \* per window the provider refuses on, its reset; Never otherwise
  cooled,         \* the end of the host's cooldown of the seat; Never without one
  rings, cycle,   \* per window, its refusal spans, and the readings and reset of its newest cycle
  reported,       \* the windows capping every request that the last read with one carried
  stage, entry, snap,   \* the sweep under way: its listing, its usage read
  hold,           \* the hold being judged or cleared
  holdResets,     \* the last reset the host answered
  resetUnsupported,
  settled         \* history: the cooldown a reset was last answered of, with no 429 since

cooldownVars == <<now, plan, shut, cooled, rings, cycle, reported, stage, entry, snap, hold,
                  holdResets, resetUnsupported, settled>>
provider == <<shut, cooled>>
record == <<rings, cycle, reported>>
sweepState == <<stage, entry, snap, hold>>
memory == <<holdResets, resetUnsupported, settled>>

R == INSTANCE RefusalSpans WITH Second <- 1, MaxTick <- MaxNow, MaxLocks <- MaxSpans, ring <- rings

Windows == AllRequest \cup Caps
NoRead == [observedAt |-> Never, seen |-> [w \in Windows |-> "absent"]]
NoHold == [span |-> Never, until |-> Never]
NoReset == [span |-> Never, until |-> Never, asked |-> Never]

-----------------------------------------------------------------------------
(* cooldown.go: the judgement *)

\* The spans as History reads them: one past its expected reset has ended by it.
Spans(w) ==
  {IF l.end = "ongoing" /\ l.to <= now THEN [l EXCEPT !.end = "reset"] ELSE l :
     l \in {rings[w].locks[i] : i \in DOMAIN rings[w].locks}}

ExpectedEnd(l) == IF l.expected = Never THEN l.to ELSE l.expected

Near(a, b) == a - b <= DeadlineSlack /\ b - a <= DeadlineSlack
within(until, l) == Near(until, ExpectedEnd(l))

\* A mutation: any reading since the span's end will do.
StartsAfterAny(c, l) == \E t \in c.samples : t >= l.to

\* The newest cycle starts last, at its first sample: at or after the span's end when
\* every sample is.
StartsAfter(c, l) == c.samples # {} /\ \A t \in c.samples : t >= l.to

reopened(w, l) ==
  StartsAfter(cycle[w], l) \/ (snap.seen[w] = "absent" /\ l.end = "cleared")

explains(c, until) ==
  \E w \in Windows : \E l \in Spans(w) :
    l.from <= c.from /\ (l.end = "ongoing" \/ l.to >= c.from) /\ within(until, l)

\* The read shows quota left in each window that caps every request, and carries one.
Room(seen) ==
  /\ \A w \in AllRequest : seen[w] # "full"
  /\ \E w \in AllRequest : seen[w] # "absent"

Candidates ==
  {l \in UNION {{x \in Spans(w) : reopened(w, x)} : w \in AllRequest} :
     explains(l, entry)}

\* A window open since before the cause expects the cooldown's end and never reopened.
StillShut(cause) ==
  \E w \in AllRequest : \E l \in Spans(w) :
    l.to >= cause.from /\ within(entry, l) /\ ~reopened(w, l)

\* A later refusal of a family cap alone may have set the cooldown.
CapsOwn(cause) ==
  \E w \in Caps : \E l \in Spans(w) : l.from >= cause.to /\ within(entry, l)

\* findStaleHold, of a listing and a read that rule nothing out: the causes it may settle
\* on (the first of those to end last).
Causes ==
  {c \in Candidates :
     /\ entry > now
     /\ \A w \in AllRequest : \A l \in Spans(w) : l.end # "ongoing"
     /\ \A l \in Candidates : l.to <= c.to
     /\ ~StillShut(c) /\ ~CapsOwn(c)
     /\ snap.observedAt >= c.to     \* spans are whole seconds, a read is not
     /\ entry - c.to > HoldMargin}

-----------------------------------------------------------------------------
(* The sweep *)

\* releaseHolds returns.
Done == stage' = "idle" /\ entry' = Never /\ snap' = NoRead /\ hold' = NoHold

ListCooldown ==
  /\ stage = "idle"
  /\ stage' = "listed" /\ entry' = cooled
  /\ UNCHANGED <<now, provider, record, snap, hold, memory>>

\* A complete sweep that does not list the seat.
DropSeat ==
  /\ stage = "idle"
  /\ holdResets' = NoReset
  /\ settled' = Never
  /\ UNCHANGED <<now, provider, record, sweepState, resetUnsupported>>

\* A reading now rolls the cycle c onto another reset, or comes after it closed.
Turns(c, reset) ==
  \/ reset # Never /\ c.reset \notin {Never, reset}
  \/ c.reset # Never /\ now > c.reset /\ \A t \in c.samples : t <= c.reset

\* The ring of a window behind a reading now: opening a cycle after another, as quota given
\* back does too, ends the span.
RingRead(w, reset, back) ==
  IF cycle[w].samples # {} /\ (back \/ Turns(cycle[w], reset))
    THEN [rings[w] EXCEPT !.locks =
            R!End(@, now, IF Turns(cycle[w], reset) THEN "reset" ELSE "cleared")]
    ELSE rings[w]

\* A reading now among the samples S of a cycle: it takes the place of the last one within
\* historyFineStep, or behind a flat run.
Joined(S, flat) ==
  {now} \cup IF flat \/ \E t \in S : now - t < FineStep
                THEN {t \in S : \E u \in S : u > t}
                ELSE S

\* coarsen: of the samples more than historyFineSpan old, the last of each step.
Coarsened(S) ==
  LET old == {t \in S : t < now - FineSpan}
  IN  {t \in S : t \in old => \A u \in old : u > t => u \div CoarseStep # t \div CoarseStep}

\* The cap, which takes the newest cycle's samples last.
Capped(S) == {t \in S : Cardinality({u \in S : u >= t}) <= MaxSamples}

\* The newest cycle of a window behind a reading now.
CycleRead(w, reset, back, flat) ==
  LET c == cycle[w]
  IN  IF c.samples = {} \/ back \/ Turns(c, reset) THEN [samples |-> {now}, reset |-> reset]
      ELSE [samples |-> Capped(Coarsened(Joined(c.samples, flat))),
            reset |-> IF c.reset = Never THEN reset ELSE c.reset]

\* The windows a reading may find in a flat run, which takes two samples.
Flat == {w \in Windows : Cardinality(cycle[w].samples) >= 2}

\* A read that carries a window capping every request no longer carries this one, which
\* the last such read did.
Gone(w, seen) ==
  /\ w \in reported /\ seen[w] = "absent"
  /\ \E other \in AllRequest : seen[other] # "absent"

\* The usage read: quota a window got back opens a cycle once the read shows it ("back"),
\* and a window reported no more ends its span as cleared.  What the listing or the read
\* already rules out is judged at once.
ReadUsage(seen, flat) ==
  /\ stage = "listed"
  /\ \A w \in Windows : seen[w] \in {"absent", "back"} => shut[w] = Never
  /\ \A w \in Windows : seen[w] = "full" => shut[w] # Never
  /\ \A w \in Windows : seen[w] = "back" => cycle[w].samples # {}
  /\ IF entry > now /\ Room(seen)
       THEN /\ stage' = "read" /\ snap' = [observedAt |-> now, seen |-> seen]
            /\ UNCHANGED <<entry, hold>>
       ELSE Done
  /\ rings' = [w \in Windows |->
                  IF seen[w] # "absent" THEN RingRead(w, shut[w], seen[w] = "back")
                  ELSE IF Gone(w, seen) THEN [rings[w] EXCEPT !.locks = R!End(@, now, "cleared")]
                  ELSE rings[w]]
  /\ cycle' = [w \in Windows |->
                  IF seen[w] # "absent" THEN CycleRead(w, shut[w], seen[w] = "back", w \in flat)
                  ELSE cycle[w]]
  /\ LET carried == {w \in AllRequest : seen[w] # "absent"}
     IN  reported' = IF carried # {} THEN carried ELSE reported
  /\ UNCHANGED <<now, provider, memory>>

\* A reading that failed: releaseHolds does not look at the seat.
ReadFails ==
  /\ stage = "listed"
  /\ Done
  /\ UNCHANGED <<now, provider, record, memory>>

NotStale ==
  /\ stage = "read" /\ Causes = {}
  /\ Done
  /\ UNCHANGED <<now, provider, record, memory>>

Tried(c) ==
  /\ holdResets # NoReset
  /\ \/ holdResets.span = c.from
     \/ Near(entry, holdResets.until) /\ c.from - holdResets.asked < RepeatWindow

\* The hold is left to the operator, whom the status view warns.
LeftStanding ==
  \E c \in Causes :
    /\ stage = "read"
    /\ Tried(c) \/ resetUnsupported
    /\ Done
    /\ UNCHANGED <<now, provider, record, memory>>

\* The sweep's context is done before the host is asked.
NoTime ==
  \E c \in Causes :
    /\ stage = "read" /\ ~Tried(c) /\ ~resetUnsupported
    /\ Done
    /\ UNCHANGED <<now, provider, record, memory>>

AskReset ==
  \E c \in Causes :
    /\ stage = "read" /\ ~Tried(c) /\ ~resetUnsupported
    /\ stage' = "asking" /\ hold' = [span |-> c.from, until |-> entry]
    /\ UNCHANGED <<now, provider, record, entry, snap, memory>>

\* A mutation: only a reset the host accepted counts as tried.
RecordedAccepted(problem) == problem = "none"

Recorded(problem) == problem \in {"none", "failed"}

\* The host answers resetHold's call.  One it did not answer in time may act all the same.
AnswerReset(problem) ==
  /\ stage = "asking"
  /\ Done
  /\ cooled' \in CASE problem = "none" -> {Never}
                   [] problem = "late" -> {Never, cooled}
                   [] OTHER -> {cooled}
  /\ resetUnsupported' = (resetUnsupported \/ problem = "unsupported")
  /\ holdResets' = IF Recorded(problem)
                     THEN [span |-> hold.span, until |-> hold.until, asked |-> now]
                     ELSE holdResets
  /\ settled' = IF problem = "late" THEN settled ELSE entry
  /\ UNCHANGED <<now, shut, record>>

-----------------------------------------------------------------------------
(* The provider, the host and time: external *)

\* A 429 naming the windows ws, those that fill now with a reset len ahead: the host
\* cools the seat to the latest reset named, and the plugin records the 429's windows
\* as readings, then as refusals.  No two requests are admitted at one instant.
Refuse429(ws, len, flat) ==
  LET full == {w \in Windows : shut[w] # Never}
      shutNow == [w \in Windows |-> IF w \in ws \ full THEN now + len ELSE shut[w]]
  IN  /\ ws # {} /\ full \cap AllRequest \subseteq ws
      /\ \A w \in ws : rings[w].served < now
      /\ shut' = shutNow
      /\ cooled' \in {shutNow[w] : w \in ws} /\ \A w \in ws : shutNow[w] <= cooled'
      /\ rings' = [w \in Windows |->
                     IF w \in ws
                       THEN R!Refuse(RingRead(w, shutNow[w], FALSE), now, now, shutNow[w], 0)
                       ELSE rings[w]]
      /\ cycle' = [w \in Windows |->
                     IF w \in ws THEN CycleRead(w, shutNow[w], FALSE, w \in flat) ELSE cycle[w]]
      /\ settled' = Never
      /\ UNCHANGED <<now, reported, sweepState, holdResets, resetUnsupported>>

\* A request gets through, which shows no more than that.  usage records it: its headers are
\* readings of the windows they carry, of which other families' caps may refuse, and then
\* the windows that bear on its family are served, own among the caps.
Serve(own, carried, back, rejected, flat) ==
  LET bearing == AllRequest \cup own
      read(w) == IF w \in carried THEN RingRead(w, shut[w], w \in back) ELSE rings[w]
  IN  /\ \E w \in bearing : rings[w].refused # Never
      /\ \A w \in bearing : rings[w].refused < now /\ rings[w].served < now
      /\ back \cup rejected \subseteq carried /\ own \cap rejected = {}
      /\ \A w \in back : shut[w] = Never /\ cycle[w].samples # {}
      /\ \A w \in rejected : shut[w] # Never
      /\ rings' = [w \in Windows |->
                     IF w \in bearing THEN R!Serve(read(w), now, now)
                     ELSE IF w \in rejected THEN R!Refuse(read(w), now, now, shut[w], 0)
                     ELSE read(w)]
      /\ cycle' = [w \in Windows |->
                     IF w \in carried THEN CycleRead(w, shut[w], w \in back, w \in flat)
                     ELSE cycle[w]]
      /\ UNCHANGED <<now, provider, reported, sweepState, memory>>

\* The provider gives a window's quota back, at its reset or before.
GiveBack(w) ==
  /\ shut[w] # Never
  /\ shut' = [shut EXCEPT ![w] = Never]
  /\ UNCHANGED <<now, cooled, record, sweepState, memory>>

PassTime ==
  /\ now < MaxNow
  /\ \A w \in Windows : shut[w] # Never => shut[w] > now
  /\ now' = now + 1
  /\ UNCHANGED <<provider, record, sweepState, memory>>

\* What a read may show: nothing of a window the plan lacks.
Seen ==
  {seen \in [Windows -> {"absent", "room", "back", "full"}] :
     \A w \in Windows \ plan : seen[w] = "absent"}

CooldownInit ==
  /\ now = 1 /\ plan \in Plans
  /\ shut = [w \in Windows |-> Never] /\ cooled = Never
  /\ rings = [w \in Windows |-> R!EmptyRing]
  /\ cycle = [w \in Windows |-> [samples |-> {}, reset |-> Never]]
  /\ stage = "idle" /\ entry = Never /\ hold = NoHold
  /\ snap = NoRead
  /\ holdResets = NoReset /\ resetUnsupported = FALSE
  /\ reported = {} /\ settled = Never

CooldownNext ==
  /\ UNCHANGED plan
  /\ \/ ListCooldown \/ DropSeat \/ ReadFails \/ NotStale \/ LeftStanding \/ NoTime \/ AskReset
     \/ \E seen \in Seen, flat \in SUBSET Flat : ReadUsage(seen, flat)
     \/ \E problem \in {"none", "failed", "unsupported", "late"} : AnswerReset(problem)
     \/ \E ws \in SUBSET plan, len \in Lengths, flat \in SUBSET Flat : Refuse429(ws, len, flat)
     \/ \E w \in plan : GiveBack(w)
     \/ \E carried \in SUBSET plan, back \in SUBSET plan, flat \in SUBSET Flat :
          \E own \in SUBSET (plan \cap Caps), rejected \in SUBSET (plan \cap Caps) :
            Serve(own, carried, back, rejected, flat)
     \/ PassTime

CooldownSpec == CooldownInit /\ [][CooldownNext]_cooldownVars

-----------------------------------------------------------------------------
(* Properties *)

\* The host is never asked to lift a cooldown that runs to the reset of a window that caps
\* every request and refuses still, whatever else reopened ("None of them still open when
\* the cause began expected the reset the cooldown ends at", cooldown.go:117), nor on the
\* word of a served request ("shows only that one request got through", cooldown.go:71).
DeservedKept ==
  [][stage # "asking" /\ stage' = "asking" =>
       \A w \in AllRequest : shut[w] # entry]_cooldownVars

\* It is not, whatever the read shows and whatever else reopened, while the window's newest
\* cycle keeps a reading no later than the window's last 429.  Only the loss of all of
\* them, each replaced within a minute, coarsened or past the cap, makes a cycle open since
\* before the refusal pass for one opened after it.
DatedHoldKept ==
  [][stage # "asking" /\ stage' = "asking" =>
       \A w \in AllRequest :
         shut[w] = entry => \A t \in cycle[w].samples : t > rings[w].refused]_cooldownVars

\* The host is asked at most once to lift a cooldown it has answered for, whatever spans
\* the plugin finds reopened since: while no request is refused anew, a reset that failed
\* is "left to the operator rather than retried every poll".
AskedOncePerCooldown ==
  [][stage # "asking" /\ stage' = "asking" => entry # settled]_cooldownVars
=============================================================================
