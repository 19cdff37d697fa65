-------------------------------- MODULE Pace --------------------------------
(***************************************************************************)
(* Pace scores and the ranking of seats: internal/pace/pace.go, with the   *)
(* windows of internal/model/types.go, under a config Normalize made.      *)
(*                                                                         *)
(* Utilization and elapsed are quarters of a window, the curve sixteenths, *)
(* a target and a slack sixty-fourths.  A utilization may be NaN, which    *)
(* stands for what is not finite.  The sigmoid is its table at these       *)
(* points.                                                                 *)
(***************************************************************************)
EXTENDS ConfigLimits, SequencesExt

CONSTANTS
  Seats,     \* credential ids, numbers: the lower ranks first on a tie
  RawPaces,  \* the settings Normalize starts from
  Snapshots  \* what a seat's reading may be by the pick, with its age in half minutes

\* What decodes, whatever it says; and readings with one window of each kind and scope,
\* which is how windowSet and the store key them.
ASSUME PaceAssumption ==
  /\ Seats \subseteq Int /\ IsFiniteSet(Seats)
  /\ \A raw \in RawPaces :
       /\ DOMAIN raw = DOMAIN Defaults
       /\ \A f \in {"exponent", "landing", "weekly", "session", "scoped"} : raw[f] \in Int \cup {NaN}
  /\ \A snap \in Snapshots :
       /\ IsFiniteSet(snap.windows)
       /\ \A w \in snap.windows :
            w.util \in Int \cup {NaN} /\ w.elapsed \in 0 .. 4 /\ w.open \in BOOLEAN
       /\ \A v, w \in snap.windows : v.kind = w.kind /\ v.scope = w.scope => v = w

VARIABLES
  pace,      \* the config in force
  snaps,     \* the reading of each seat
  family     \* of the model requested, or "none"

paceVars == <<pace, snaps, family>>

Min2(a, b) == IF a < b THEN a ELSE b

-----------------------------------------------------------------------------
(* Windows *)

Blocking(w) == w.status = "rejected"
BearsOn(w, fam) == w.kind \in {"session", "weekly"} \/ (fam # "none" /\ w.scope = fam)
Elapsed(w) == IF w.open THEN w.elapsed ELSE 0
Stale(snap, maxAge) == snap.age > maxAge

-----------------------------------------------------------------------------
(* The curve *)

Sigmoid == <<0, 2, 8, 14, 16>>

\* The unit curve, 0 at a window's open and 16 at its close.
shape(c, elapsed) ==
  CASE c.shape = "power" /\ c.exponent = 2 -> elapsed * elapsed
    [] c.shape = "sigmoid" -> Sigmoid[elapsed + 1]
    [] OTHER -> 4 * elapsed

Target(c, elapsed) == Min2(c.landing * shape(c, elapsed), 64)

-----------------------------------------------------------------------------
(* ScoreAuth *)

\* A usage reading with a 5-hour window and no weekly one that bears on the model.
sessionOnly(windows, fam) ==
  /\ \E w \in windows : w.kind = "session"
  /\ \A w \in windows : w.kind # "session" => ~BearsOn(w, fam)

weightOf(c, w, only) ==
  CASE w.kind = "session" -> IF only THEN 2 ELSE c.session
    [] w.kind = "weekly" -> c.weekly
    [] OTHER -> c.scoped

\* The terms of the cost: the open windows that bear and weigh.
Weighing(c, snap, fam, only) ==
  {w \in snap.windows : BearsOn(w, fam) /\ w.open /\ weightOf(c, w, only) # 0}

\* The sum of what a function says of the members of its domain.
Total(term) ==
  LET total[S \in SUBSET DOMAIN term] ==
        IF S = {} THEN 0 ELSE LET w == CHOOSE w \in S : TRUE IN term[w] + total[S \ {w}]
  IN  total[DOMAIN term]

Cost(c, snap, fam, only) ==
  LET terms == Weighing(c, snap, fam, only)
  IN  IF \E w \in terms : w.util = NaN THEN NaN
      ELSE Total([w \in terms |-> weightOf(c, w, only) * (16 * w.util - Target(c, Elapsed(w)))])

\* Why a reading makes its seat ineligible: the first that holds, "" when none does.
Reason(snap, fam) ==
  LET bearing == {w \in snap.windows : BearsOn(w, fam)}
  IN  IF bearing = {} THEN "no-window"
      ELSE IF \E w \in bearing : Blocking(w) THEN "rejected"
      ELSE IF \E w \in bearing : w.util = NaN THEN "bad-reading"
      ELSE IF \E w \in bearing : w.util >= 4 THEN "spent" ELSE ""

Unscored(id, reason) == [id |-> id, eligible |-> FALSE, only |-> FALSE, cost |-> 0, reason |-> reason]

ScoreAuth(c, snap, id, fam) ==
  LET only == snap.source = "usage" /\ sessionOnly(snap.windows, fam)
      reason == Reason(snap, fam)
  IN  IF snap.windows = {} THEN Unscored(id, "no-window")
      ELSE [id |-> id, eligible |-> reason = "", only |-> only,
            cost |-> Cost(c, snap, fam, only), reason |-> reason]

\* A seat never read, or read too long ago, is not scored.
ScoreWithStaleness(c, snap, id, fam) ==
  IF snap.source = "none" THEN Unscored(id, "no-snapshot")
  ELSE IF Stale(snap, c.staleness) THEN Unscored(id, "stale")
  ELSE ScoreAuth(c, snap, id, fam)

-----------------------------------------------------------------------------
(* The ranking *)

better(a, b) ==
  IF a.eligible # b.eligible THEN a.eligible
  ELSE IF a.only # b.only THEN a.only
  ELSE IF (a.cost = NaN) # (b.cost = NaN) THEN b.cost = NaN
  ELSE IF a.cost # NaN /\ a.cost # b.cost THEN a.cost < b.cost
  ELSE a.id < b.id

\* Ranked best first, each id once: a score goes before the first it is better than, as
\* an insertion sort, which is what sort.Slice runs on a handful.
Ranked(ranking, s) ==
  IF \E i \in DOMAIN ranking : ranking[i].id = s.id THEN ranking
  ELSE LET ahead == {i \in DOMAIN ranking : better(s, ranking[i])}
           at == IF ahead = {} THEN Len(ranking) + 1 ELSE CHOOSE i \in ahead : \A j \in ahead : i <= j
       IN  InsertAt(ranking, at, s)

Rank(scores) ==
  LET rank[n \in 0 .. Len(scores)] == IF n = 0 THEN <<>> ELSE Ranked(rank[n - 1], scores[n])
  IN  rank[Len(scores)]

Scores(c, offered, fam) ==
  [i \in DOMAIN offered |-> ScoreWithStaleness(c, snaps[offered[i]], offered[i], fam)]

RankWithStaleness(c, offered, fam) == Rank(Scores(c, offered, fam))

Nobody == Unscored(0, "")

Better(best, s) == IF s.eligible /\ (best = Nobody \/ better(s, best)) THEN s ELSE best

\* The eligible score none is better than, in one pass; Nobody when none is eligible.
Best(scores) ==
  LET best[n \in 0 .. Len(scores)] == IF n = 0 THEN Nobody ELSE Better(best[n - 1], scores[n])
  IN  best[Len(scores)]

-----------------------------------------------------------------------------

NeverRead == [source |-> "none", windows |-> {}, age |-> 0]

PaceInit ==
  /\ pace \in {Normalize(raw) : raw \in RawPaces}
  /\ snaps = [a \in Seats |-> NeverRead]
  /\ family \in {"none", "Opus"}

\* A poll or a response leaves a reading (QuotaStore); bound: one a seat.
Read(a, snap) ==
  /\ snaps[a] = NeverRead
  /\ snaps' = [snaps EXCEPT ![a] = snap]
  /\ UNCHANGED <<pace, family>>

PaceNext == \E a \in Seats, snap \in Snapshots : Read(a, snap)

PaceSpec == PaceInit /\ [][PaceNext]_paceVars

-----------------------------------------------------------------------------
(* Properties *)

\* b has left at least what a has of every cap a has, and every one is at least as near
\* its reset.
Dominates(b, a) ==
  /\ snaps[a].source = snaps[b].source
  /\ {<<w.kind, w.scope>> : w \in snaps[a].windows} = {<<w.kind, w.scope>> : w \in snaps[b].windows}
  /\ \A w \in snaps[a].windows, v \in snaps[b].windows :
       <<v.kind, v.scope>> = <<w.kind, w.scope>> =>
         /\ (w.util = NaN) = (v.util = NaN) /\ w.open = v.open
         /\ w.util # NaN => v.util <= w.util
         /\ Elapsed(v) >= Elapsed(w)

\* Whatever the config block said, the seat a new conversation goes to is never one
\* another eligible seat beats on every cap, in budget left and in nearness to its
\* reset, unless the two cost the same; and it is the same seat, at the head of the same
\* ranking, whatever order the host offers them in.
NearerResetFirst ==
  \A order \in SetToSeqs(Seats) :
    LET ranking == RankWithStaleness(pace, order, family)
        best == Best(ranking)
    IN  /\ ranking = RankWithStaleness(pace, SetToSeq(Seats), family)
        /\ best = Best(Scores(pace, order, family))
        /\ best # Nobody => ranking[1] = best
        /\ \A s \in ToSet(ranking) :
             best # Nobody /\ s.eligible /\ Dominates(s.id, best.id) => s.cost = best.cost
=============================================================================
