-------------------------------- MODULE Pick --------------------------------
(***************************************************************************)
(* The routing decision: pick of internal/runtime/scheduler.go, run by     *)
(* concurrent workers on the binding tables of SessionTable.               *)
(*                                                                         *)
(* The host does not serialize picks.  A pick takes the plugin's lock to   *)
(* get the live table, then the table's own lock for each operation, so    *)
(* getting the table, each Lookup, CountByAuth and Bind is a step of its   *)
(* own; the rest of a pick works on its own copies and belongs to the step *)
(* before.  A reconfigure may replace the table between any two of them:   *)
(* the pick then works on a table nobody else will read.                   *)
(*                                                                         *)
(* A credential's reading is abstracted to what the pick tells apart: the  *)
(* reason pace.RankWithStaleness gives and whether a window the provider   *)
(* refused bears on the model.  A credential id is a number; the lowest id *)
(* breaks ties.  Polls and response headers change the readings all the    *)
(* time, so a pick finds any of them.  The decision's note, the window     *)
(* breakdown, lastModel and singleCandidates, which a pick writes for the  *)
(* status page and a warning, are left out.                                *)
(***************************************************************************)
EXTENDS SessionTable, FiniteSetsExt

CONSTANTS
  Workers,     \* picks in flight
  Requests,    \* the pick requests of the host
  Configs,     \* the configs of the operator, the first ConfigZero
  ConfigZero,
  PoolStates,  \* the readings a pick may find
  MaxTables,   \* bound on the binding tables one run creates
  MaxClock     \* bound on the clock

NoAuth == 0
NoKey == "nokey"

(***************************************************************************)
(* A request names the conversation key, its parent's when it is a         *)
(* subagent with a parent key, the candidates of its provider, the         *)
(* credential that already failed it and whether it is pinned.  A route    *)
(* the config does not govern has governed FALSE.                          *)
(***************************************************************************)
AllRequests ==
  [governed : BOOLEAN, key : Keys \cup {NoKey}, parent : Keys \cup {NoKey},
   offered : SUBSET Auths, retryOf : Auths \cup {NoAuth}, pinned : BOOLEAN]

\* A config: shape stands for the TTL and cap the table is built with.
AllConfigs == [enabled : BOOLEAN, affinity : BOOLEAN, subagents : BOOLEAN, shape : Nat]

Readings == {"none", "stale", "staleRefused", "refused", "full", "unreadable", "first", "second"}

ASSUME PickAssumption ==
  /\ Auths \subseteq Nat \ {NoAuth}
  /\ NoKey \notin Keys
  /\ Requests \subseteq AllRequests
  /\ Configs \subseteq AllConfigs /\ ConfigZero \in Configs
  /\ PoolStates \subseteq [Auths -> Readings]
  /\ MaxTables \in Nat \ {0} /\ MaxClock \in Nat

VARIABLES
  tables,  \* every binding table of the run, as [shape, table]
  live,    \* the index of Plugin.bindings, 0 while it is nil
  cfg,     \* Plugin.cfg
  clock,
  picks    \* the picks in flight

vars == <<tables, live, cfg, clock, picks>>

Idle == [pc |-> "idle"]

-----------------------------------------------------------------------------
(* Readings and scores *)

Usable(r) == r \notin {"none", "stale", "staleRefused"}

\* blockedFor reads the snapshot, however old it is.
BlockedFor(r) == r \in {"refused", "staleRefused"}

\* refused: the score's reason is provider-rejected or spent.
Refused(r) == r \in {"refused", "full"}

Eligible(r) == r \in {"first", "second"}

\* better and Best of pace, over eligible credentials.
PaceBetter(snaps, a, b) ==
  IF snaps[a] # snaps[b] THEN snaps[a] = "first" ELSE a < b

PaceBest(snaps, cands) ==
  CHOOSE a \in cands :
    /\ Eligible(snaps[a])
    /\ \A b \in cands \ {a} : Eligible(snaps[b]) => PaceBetter(snaps, a, b)

HasEligible(p) == \E a \in p.cands : Eligible(p.snaps[a])

HasAlternativeHome(p, auth) == \E a \in p.cands \ {auth} : ~Refused(p.snaps[a])

\* A mutation: the fallback looks at the counts alone.
LeastBoundCountsOnly(p, counts) ==
  CHOOSE a \in p.cands :
    \A b \in p.cands \ {a} : counts[a] < counts[b] \/ (counts[a] = counts[b] /\ a < b)

\* leastBound: not refused first, then the fewest bindings, then the lowest id.
LeastBound(p, counts) ==
  CHOOSE a \in p.cands :
    \A b \in p.cands \ {a} :
      \/ ~Refused(p.snaps[a]) /\ Refused(p.snaps[b])
      \/ /\ Refused(p.snaps[a]) = Refused(p.snaps[b])
         /\ counts[a] < counts[b] \/ (counts[a] = counts[b] /\ a < b)

-----------------------------------------------------------------------------
(***************************************************************************)
(* What a pick does between two steps, as functions from its local state.  *)
(* p.pc names the table operation next; p.ref is the table it has got for  *)
(* it, 0 before.                                                           *)
(***************************************************************************)
Decided(p, kind, auth) == [p EXCEPT !.pc = "done", !.ref = 0, !.kind = kind, !.chosen = auth]

\* The table operation op, on a table not yet got.
Wants(p, op) == [p EXCEPT !.pc = op, !.ref = 0]

ColdKind(p) == IF p.previous # NoAuth /\ ~p.req.pinned THEN "failover" ELSE "cold-pick"

\* A mutation: a pinned request binds its conversation.
BindsPinned(p) == p.req.key # NoKey /\ p.cfg.affinity

\* A cold pick binds unless it is keyless, pinned or affinity is off.
Binds(p) == p.req.key # NoKey /\ ~p.req.pinned /\ p.cfg.affinity

Placed(p, auth) ==
  IF Binds(p)
    THEN [Wants(p, "bind") EXCEPT !.chosen = auth]
    ELSE Decided(p, ColdKind(p), auth)

\* pickCold, up to its first table operation.
Cold(p, previous) ==
  LET q == [p EXCEPT !.previous = previous]
  IN  IF HasEligible(q) THEN Placed(q, PaceBest(q.snaps, q.cands))
      ELSE IF q.req.key = NoKey THEN Decided(q, "declined", NoAuth)
      ELSE Wants(q, "count")

\* A mutation: a bound conversation is placed afresh.
JudgedAfresh(p) == Cold(p, p.bound)

\* pickByAffinity once its own binding is found.
Judged(p) ==
  IF \/ p.bound \notin p.cands
     \/ BlockedFor(p.snaps[p.bound]) /\ HasAlternativeHome(p, p.bound)
    THEN Cold(p, p.bound)
    ELSE Decided(p, "affinity-hit", p.bound)

FollowsParent(p) == p.cfg.subagents /\ p.req.parent # NoKey

-----------------------------------------------------------------------------
(* A pick's steps *)

\* pick, once it has its config, its clock and a reading of each candidate.
NewPick(req, snaps) ==
  [pc |-> "new", req |-> req, cfg |-> cfg, now |-> clock,
   cands |-> req.offered \ {req.retryOf}, snaps |-> snaps,
   ref |-> 0, bound |-> NoAuth, previous |-> NoAuth, kind |-> "", chosen |-> NoAuth]

\* The declines before a reading is looked at.
Ungoverned(p) == ~p.cfg.enabled \/ ~p.req.governed \/ p.cands = {}

Start(w, req, snaps) ==
  LET p == NewPick(req, snaps)
  IN  /\ picks[w] = Idle
      /\ picks' = [picks EXCEPT ![w] =
           IF Ungoverned(p) THEN Decided(p, "declined", NoAuth)
           ELSE IF req.key = NoKey /\ ~(\E a \in p.cands : Usable(p.snaps[a]))
             THEN Decided(p, "declined", NoAuth)
           ELSE IF p.cfg.affinity /\ req.key # NoKey THEN Wants(p, "own")
           ELSE Cold(p, NoAuth)]
      /\ UNCHANGED <<tables, live, cfg, clock>>

\* The tables, less what is in those no pick can reach any more.
Reachable(ts, l, ps) ==
  [g \in DOMAIN ts |->
     IF g = l \/ \E w \in Workers : ps[w] # Idle /\ ps[w].ref = g
       THEN ts[g] ELSE [ts[g] EXCEPT !.table = NewStore]]

\* A new empty table for a config.
Built(c) == Append(tables, [shape |-> c.shape, table |-> NewStore])

\* bindingStore: the live table, built if there is none yet.
GetTable(w) ==
  /\ picks[w].pc \in {"own", "parent", "count", "bind"}
  /\ picks[w].ref = 0
  /\ tables' = IF live = 0 THEN Built(cfg) ELSE tables
  /\ live' = IF live = 0 THEN Len(tables) + 1 ELSE live
  /\ picks' = [picks EXCEPT ![w].ref = live']
  /\ UNCHANGED <<cfg, clock>>

\* Worker w's operation on the table it got leaves t there and p in flight.
Operates(w, t, p) ==
  /\ picks' = [picks EXCEPT ![w] = p]
  /\ tables' = Reachable([tables EXCEPT ![picks[w].ref].table = t], live, picks')
  /\ UNCHANGED <<live, cfg, clock>>

At(w, op) == picks[w].pc = op /\ picks[w].ref # 0
TableOf(w) == tables[picks[w].ref].table

LookupOwn(w) ==
  LET p == picks[w]
      t == TableOf(w)
      q == [p EXCEPT !.bound = t.index[p.req.key].auth]
  IN  /\ At(w, "own")
      /\ Operates(w, Looked(t, p.req.key, p.now),
           IF ~Hit(t, p.req.key, p.now)
             THEN IF FollowsParent(p) THEN Wants(p, "parent") ELSE Cold(p, NoAuth)
           ELSE IF FollowsParent(p) THEN [q EXCEPT !.pc = "refresh"]
           ELSE Judged(q))

\* A mutation: a subagent's own hit leaves the parent's binding alone.
RefreshParentSkipped(w) ==
  /\ At(w, "refresh")
  /\ Operates(w, TableOf(w), Judged(picks[w]))

\* A subagent's request keeps its parent's binding alive, on the same table.
RefreshParent(w) ==
  /\ At(w, "refresh")
  /\ Operates(w, Looked(TableOf(w), picks[w].req.parent, picks[w].now), Judged(picks[w]))

\* pickByParent, up to its Bind.
LookupParent(w) ==
  LET p == picks[w]
      t == TableOf(w)
      auth == t.index[p.req.parent].auth
  IN  /\ At(w, "parent")
      /\ Operates(w, Looked(t, p.req.parent, p.now),
           IF \/ ~Hit(t, p.req.parent, p.now)
              \/ auth \notin p.cands
              \/ BlockedFor(p.snaps[auth])
             THEN Cold(p, NoAuth)
           ELSE IF p.req.pinned THEN Decided(p, "affinity-hit", auth)
           ELSE [p EXCEPT !.pc = "inherit", !.chosen = auth])

Inherit(w) ==
  LET p == picks[w]
  IN  /\ At(w, "inherit")
      /\ Operates(w, Bound(TableOf(w), p.req.key, p.chosen, p.now),
                  Decided(p, "affinity-hit", p.chosen))

Count(w) ==
  LET p == picks[w]
  IN  /\ At(w, "count")
      /\ Operates(w, TableOf(w), Placed(p, LeastBound(p, CountByAuth(TableOf(w), p.now))))

\* A mutation: the binding names the seat the conversation leaves.
BindColdPrevious(w) ==
  LET p == picks[w]
      auth == IF p.previous # NoAuth THEN p.previous ELSE p.chosen
  IN  /\ At(w, "bind")
      /\ Operates(w, Bound(TableOf(w), p.req.key, auth, p.now),
                  Decided(p, ColdKind(p), p.chosen))

BindCold(w) ==
  LET p == picks[w]
  IN  /\ At(w, "bind")
      /\ Operates(w, Bound(TableOf(w), p.req.key, p.chosen, p.now),
                  Decided(p, ColdKind(p), p.chosen))

\* The decision is recorded and the host has its answer.
Return(w) ==
  /\ picks[w].pc = "done"
  /\ picks' = [picks EXCEPT ![w] = Idle]
  /\ UNCHANGED <<tables, live, cfg, clock>>

Step(w) ==
  \/ GetTable(w) \/ LookupOwn(w) \/ RefreshParent(w) \/ LookupParent(w)
  \/ Inherit(w) \/ Count(w) \/ BindCold(w) \/ Return(w)

-----------------------------------------------------------------------------
(* What goes on beside the picks *)

\* applyConfig: the table is rebuilt only when its TTL or cap changes.
ApplyConfig(c) ==
  LET rebuilt == live = 0 \/ tables[live].shape # c.shape
  IN  /\ cfg' = c
      /\ rebuilt => Len(tables) < MaxTables
      /\ live' = IF rebuilt THEN Len(tables) + 1 ELSE live
      /\ tables' = IF rebuilt THEN Reachable(Built(c), live', picks) ELSE tables
      /\ UNCHANGED <<clock, picks>>

OnLive(t) ==
  /\ live # 0
  /\ tables' = [tables EXCEPT ![live].table = t]
  /\ UNCHANGED <<live, cfg, clock, picks>>

\* The sweep after a poll, and the management routes.
SweepLive == OnLive(Swept(tables[live].table, clock))
DropSeat(a) == OnLive(DropAuth(tables[live].table, a))

Tick ==
  /\ clock < MaxClock
  /\ clock' = clock + 1
  /\ UNCHANGED <<tables, live, cfg, picks>>

Init ==
  /\ tables = <<>> /\ live = 0
  /\ cfg = ConfigZero
  /\ clock = 0
  /\ picks = [w \in Workers |-> Idle]

Next ==
  \/ \E w \in Workers : Step(w)
                        \/ \E req \in Requests, snaps \in PoolStates : Start(w, req, snaps)
  \/ \E c \in Configs : ApplyConfig(c)
  \/ SweepLive
  \/ \E a \in Auths : DropSeat(a)
  \/ Tick

Spec == Init /\ [][Next]_vars

-----------------------------------------------------------------------------
(* Properties *)

InFlight == {w \in Workers : picks[w].pc # "idle"}
Answered == {w \in Workers : picks[w].pc = "done" /\ picks[w].kind # "declined"}

\* A pick answers a seat its own reading shows refused only when every other
\* seat it was offered is refused or full (hasAlternativeHome, leastBound).
RefusedOnlyWhenAllAre ==
  \A w \in Answered :
    picks[w].snaps[picks[w].chosen] = "refused" =>
      \A a \in picks[w].cands : Refused(picks[w].snaps[a])

\* What docs/how-it-picks.md says of the fallback: "first one Anthropic has
\* neither refused nor reported full".
RefusedSeatLast ==
  \A w \in Answered :
    picks[w].kind # "affinity-hit" /\ BlockedFor(picks[w].snaps[picks[w].chosen]) =>
      \A a \in picks[w].cands : BlockedFor(picks[w].snaps[a]) \/ Refused(picks[w].snaps[a])

\* The seat a key is bound to in the live table.
Home(k) ==
  IF live # 0 /\ k \in Held(tables[live].table) THEN tables[live].table.index[k].auth ELSE NoAuth

\* A conversation's home moves to another seat only under a pick of its own,
\* unpinned, that was not offered the home or saw it refused with another seat
\* open, or that had looked before the home was made or after it expired.
HomeMovesForCause ==
  [][\A k \in Keys :
       live' = live /\ Home(k) # NoAuth /\ Home(k)' \notin {NoAuth, Home(k)} =>
         \E w \in Workers :
           LET p == picks[w]
           IN  /\ p # picks'[w]
               /\ p.req.key = k /\ ~p.req.pinned /\ p.cfg.affinity
               /\ \/ Home(k) # p.previous
                  \/ Home(k) \notin p.cands
                  \/ BlockedFor(p.snaps[Home(k)]) /\ HasAlternativeHome(p, Home(k))]_vars

\* With no other pick in between, the seat a bound pick answers is the home it
\* leaves: what the host is told and what the table remembers agree.
AnswerIsHome ==
  \A w \in Answered :
    LET p == picks[w]
    IN  InFlight = {w} /\ Binds(p) /\ Home(p.req.key) # NoAuth => Home(p.req.key) = p.chosen

\* A pinned request binds nothing, so the conversation's own home outlives it.
PinnedLeavesHomes ==
  [][\A w \in Workers : picks[w] # picks'[w] /\ picks[w] # Idle /\ picks[w].req.pinned =>
       \A k \in Keys : live' = live => Home(k)' \in {Home(k), NoAuth}]_vars

\* A subagent's request keeps its parent's binding alive: once it is answered,
\* its parent's binding, if there is one, was seen no earlier than the request.
ParentKeptAlive ==
  \A w \in Answered :
    LET p == picks[w]
    IN  /\ p.cfg.affinity /\ FollowsParent(p) /\ p.req.key # NoKey
        /\ live # 0 /\ InFlight = {w}
        /\ p.req.parent \in Held(tables[live].table)
        => tables[live].table.index[p.req.parent].lastSeen >= p.now
=============================================================================
