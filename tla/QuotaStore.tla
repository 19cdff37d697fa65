----------------------------- MODULE QuotaStore -----------------------------
(***************************************************************************)
(* One credential in the quota store (internal/quota/store.go): its live   *)
(* entry, its pending one, and the readings that reach it.  A poll lists   *)
(* the host's credentials, restores a pending reading, fetches, puts what  *)
(* it read and prunes what the host no longer lists; usage records         *)
(* (internal/runtime/usage.go) merge the headers of responses in between,  *)
(* late and out of order.  A reload loses the memory and reads the history *)
(* file back at the first poll.                                            *)
(*                                                                         *)
(* Every method of the store runs under its lock and is one step.  A       *)
(* window's value is abstracted to the instant it was observed at, which   *)
(* is what the store compares; the fields that travel with it (severity,   *)
(* reset, Active, Err) are left out.  What readings do to refusal spans is *)
(* the subject of RefusalSpans, and what they do to samples of Samples.    *)
(***************************************************************************)
EXTENDS Times, FiniteSetsExt

CONSTANTS
  Unscoped,    \* the 5-hour and weekly windows
  Scoped,      \* family caps
  Reads,       \* the window sets a usage read may report
  Responses,   \* the response headers traffic brings, see ParseResponseHeaders
  Workers,     \* usage records handled at the same time
  NoEntry,     \* the absent entry
  MaxTick,     \* bound on instants
  MaxReloads   \* bound on reloads

Windows == Unscoped \cup Scoped

ASSUME StoreAssumption ==
  /\ MaxTick \in Nat /\ MaxReloads \in Nat /\ Unscoped \cap Scoped = {}
  /\ Reads \subseteq SUBSET Windows
  /\ \A r \in Responses : r.carried \subseteq Windows /\ r.refused \subseteq Windows
  /\ NoEntry \notin [held : [Windows -> Int], seen : [Windows -> Int], order : SUBSET Windows,
                     observed : Int]

VARIABLES
  clock,
  entry,     \* entries[id]
  pending,   \* pending[id]
  sweep,     \* the poll: [at, listed, snap]
  records,   \* usage records being handled, by worker
  file,      \* what the history file holds of the credential
  loaded,    \* the file has been read since the build started
  reloads,
  \* What the properties are about, read by no action:
  latest,    \* newest reading of each window delivered since it was last dropped
  restored,  \* when the reading taken from the file was made
  omitted,   \* newest usage read that no longer reports the window; a read that
             \* reports family caps only says nothing about the others
  absent     \* complete listings without the credential since its entry was live,
             \* at most 2; 1 for a history that waits for its first entry

memory == <<entry, pending>>
seenByProperties == <<latest, restored, omitted, absent>>
storeVars == <<clock, memory, sweep, records, file, loaded, reloads, seenByProperties>>

Nothing == [w \in Windows |-> Never]

\* newEntry: an entry holding no window; held is the instant each stored window
\* was observed at, seen is seenAt, order the windows with a history.
newEntry(order) == [held |-> Nothing, seen |-> Nothing, order |-> order, observed |-> Never]

OrderOf(e) == IF e = NoEntry THEN {} ELSE e.order

\* The history the store holds for the credential, live or pending.
Recorded == OrderOf(entry) \cup OrderOf(pending)

-----------------------------------------------------------------------------
(* Reading a response *)

\* ParseResponseHeaders: a response carries the windows traffic touched, and a
\* claim naming the binding one.  markRepresentative derives a family cap the
\* headers refuse without reporting.
Derives(r) == r.rejected /\ r.claim \in Scoped \ r.carried
ParseResponseHeaders(r) == r.carried \cup (IF Derives(r) THEN {r.claim} ELSE {})

\* The windows whose reading says rejected: the ones whose own status does, and
\* the claimed one under the response's verdict when it has no status.
Blocking(r) == r.refused \cup
  {w \in ParseResponseHeaders(r) \ r.stated : r.rejected /\ w = r.claim}

\* BearsOn: a window caps a request for a family.
BearsOn(w, family) == w \in Unscoped \/ w = family

\* What usage hands RecordRefusals: every rejected window of a 429, and of any
\* other response only those that do not bear on the model.
Refused(r, outcome, family) ==
  IF outcome = "429" THEN Blocking(r) ELSE {w \in Blocking(r) : ~BearsOn(w, family)}

-----------------------------------------------------------------------------
(* The store's methods *)

\* adopt: a new entry takes over the pending history.
adopt == newEntry(OrderOf(pending))

\* restore: a pending reading becomes live again.
Restorable == pending # NoEntry /\ pending.observed # Never

\* A mutation: the snapshot replaces every window it carries.
FresherNever(prior, w, at) == FALSE

\* A window the store saw after the read keeps its value.
Fresher(prior, w, at) == prior.seen[w] > at /\ prior.held[w] # Never

KeptWindows(prior, at, ws) == {w \in ws : Fresher(prior, w, at)}

\* A mutation: an omitted window leaves no trace.
OmitsNone(order, ws) == {}

\* The windows a read that reports a 5-hour or weekly window shows are gone.
Omits(order, ws) == IF ws \cap Unscoped = {} THEN {} ELSE (order \cap Unscoped) \ ws

\* Put of a snapshot that carries windows, or of a failed one for a credential
\* without an entry.
PutEntry(prior, at, ws) ==
  LET kept == KeptWindows(prior, at, ws)
      order == prior.order \cup (ws \ kept)
      seen == [w \in Windows |->
                 IF w \in kept THEN prior.seen[w]
                 ELSE IF w \in ws THEN at
                 ELSE IF w \in Omits(order, ws) THEN Later(at, prior.seen[w])
                 ELSE Never]
  IN  [held |-> [w \in Windows |->
                   IF w \in kept THEN prior.held[w] ELSE IF w \in ws THEN at ELSE Never],
       seen |-> seen,
       order |-> order,
       observed |-> Max({at} \cup {seen[w] : w \in kept})]

\* MergeHeaders drops a reading older than the one it holds.
Accepts(e, w, at) == e.seen[w] <= at

\* The entry MergeHeaders folds a reading into.
MergeTarget == IF entry # NoEntry THEN entry ELSE IF Restorable THEN pending ELSE adopt

MergeEntry(e, r, at) ==
  LET ws == {w \in ParseResponseHeaders(r) : Accepts(e, w, at)}
      observe == IF Derives(r) THEN ws \ {r.claim} ELSE ws
  IN  [held |-> [w \in Windows |-> IF w \in ws THEN at ELSE e.held[w]],
       seen |-> [w \in Windows |-> IF w \in ws THEN at ELSE e.seen[w]],
       order |-> e.order \cup observe,
       observed |-> Later(at, e.observed)]

-----------------------------------------------------------------------------
(* The poll *)

Idle == [at |-> "idle", listed |-> FALSE, snap |-> {}, stamp |-> Never]

\* The listing: Restore makes a listed credential's pending reading live.
List(listed) ==
  /\ sweep = Idle
  /\ sweep' = [Idle EXCEPT !.at = "listed", !.listed = listed]
  /\ IF listed /\ entry = NoEntry /\ Restorable
       THEN entry' = pending /\ pending' = NoEntry
       ELSE UNCHANGED memory
  /\ UNCHANGED <<clock, records, file, loaded, reloads, seenByProperties>>

\* A usage read of the windows ws is answered and stamped; {} is a failure.
Fetched(ws) ==
  /\ sweep.at = "listed" /\ sweep.listed
  /\ sweep' = [sweep EXCEPT !.at = "fetched", !.snap = ws, !.stamp = clock]
  /\ UNCHANGED <<clock, memory, records, file, loaded, reloads, seenByProperties>>

\* Put: a failed fetch keeps the prior readings.
Put ==
  LET ws == sweep.snap
      at == sweep.stamp
      prior == IF entry = NoEntry THEN adopt ELSE entry
  IN  /\ sweep.at = "fetched"
      /\ sweep' = [Idle EXCEPT !.at = "put", !.listed = TRUE]
      /\ IF ws = {} /\ entry # NoEntry
           THEN UNCHANGED <<memory, latest, omitted>>
           ELSE /\ entry' = PutEntry(prior, at, ws)
                /\ pending' = IF entry = NoEntry THEN NoEntry ELSE pending
                /\ latest' = [w \in Windows |-> IF w \in ws THEN Later(at, latest[w]) ELSE Never]
                /\ omitted' = [w \in Windows |->
                     IF ws \cap Unscoped = {} THEN Never
                     ELSE IF w \in (prior.order \cap Unscoped) \ ws THEN at ELSE omitted[w]]
      /\ UNCHANGED <<clock, records, file, loaded, reloads, restored, absent>>

\* A mutation: a credential missing from one listing is forgotten at once.
PrunedAtOnce == NoEntry

\* What Prune keeps of a credential the host does not list: the history of its
\* entry waits for one more listing, a history already waiting goes.
PrunedPending == IF entry # NoEntry /\ entry.order # {} THEN entry ELSE NoEntry

\* The end of a complete sweep.
Prune ==
  /\ sweep.at \in {"listed", "put"}
  /\ sweep' = Idle
  /\ IF sweep.listed
       THEN UNCHANGED <<memory, latest, omitted>> /\ absent' = IF entry = NoEntry THEN 1 ELSE 0
       ELSE /\ entry' = NoEntry
            /\ pending' = PrunedPending
            /\ absent' = Min({2, absent + 1})
            /\ latest' = IF PrunedPending = NoEntry THEN Nothing ELSE latest
            /\ omitted' = IF PrunedPending = NoEntry THEN Nothing ELSE omitted
  /\ UNCHANGED <<clock, records, file, loaded, reloads, restored>>

\* A sweep cut short prunes nothing.
CutShort ==
  /\ sweep # Idle
  /\ sweep' = Idle
  /\ UNCHANGED <<clock, memory, records, file, loaded, reloads, seenByProperties>>

-----------------------------------------------------------------------------
(* Usage records *)

NoRecord == [at |-> "none"]

\* usage is called with a response first answered at `at`, whenever it ended.
Deliver(u, at, r, outcome, family) ==
  /\ records[u] = NoRecord
  /\ records' = [records EXCEPT ![u] =
       [at |-> "merge", stamp |-> at, resp |-> r, refused |-> Refused(r, outcome, family)]]
  /\ UNCHANGED <<clock, memory, sweep, file, loaded, reloads, seenByProperties>>

MergeHeaders(u) ==
  LET rec == records[u]
      ws == ParseResponseHeaders(rec.resp)
  IN  /\ rec.at = "merge"
      /\ records' = [records EXCEPT ![u] = [at |-> "refuse", refused |-> rec.refused]]
      /\ IF ws = {}
           THEN UNCHANGED <<memory, latest>>
           ELSE /\ entry' = MergeEntry(MergeTarget, rec.resp, rec.stamp)
                /\ pending' = IF entry = NoEntry THEN NoEntry ELSE pending
                /\ latest' = [w \in Windows |->
                     IF w \in ws /\ rec.stamp >= restored
                       THEN Later(rec.stamp, latest[w]) ELSE latest[w]]
      /\ UNCHANGED <<clock, sweep, file, loaded, reloads, restored, omitted, absent>>

\* RecordRefusals opens a history for a refused window without one; whether a
\* refusal changes the spans is RefusalSpans' question.  MarkServed, which
\* follows for a served request, changes spans only.
RecordRefusals(u) ==
  /\ records[u].at = "refuse"
  /\ records' = [records EXCEPT ![u] = NoRecord]
  /\ IF entry = NoEntry
       THEN UNCHANGED entry
       ELSE \E changed \in SUBSET records[u].refused :
              entry' = [entry EXCEPT !.order = @ \cup changed]
  /\ UNCHANGED <<clock, pending, sweep, file, loaded, reloads, seenByProperties>>

-----------------------------------------------------------------------------
(* The history file *)

\* SaveHistory: ExportHistory and exportReadings take the live entry, else the
\* pending one; a reading without windows is left out.
Exported ==
  LET e == IF entry # NoEntry THEN entry ELSE pending
  IN  IF e = NoEntry THEN NoEntry
      ELSE [e EXCEPT !.seen = Nothing, !.observed = IF e.held = Nothing THEN Never ELSE @]

\* After a poll and at a stop.  A save no later build would read is left out.
Save ==
  /\ loaded /\ sweep = Idle /\ reloads < MaxReloads
  /\ file' = Exported
  /\ UNCHANGED <<clock, memory, sweep, records, loaded, reloads, seenByProperties>>

\* ImportHistory: the stored histories join the entry's, else the pending one's.
Imported(e) == IF e = NoEntry THEN newEntry(file.order) ELSE [e EXCEPT !.order = @ \cup file.order]

\* importReadings: the saved reading waits as pending unless the store has one;
\* restore will count every window of it as seen when it was taken.
ReadingTaken == entry = NoEntry /\ file.observed > Imported(pending).observed
WithReading(p) ==
  [p EXCEPT !.held = file.held, !.observed = file.observed,
            !.seen = [w \in Windows |-> IF file.held[w] = Never THEN Never ELSE file.observed]]

\* LoadHistory, ahead of a poll.  What no later build would read is forgotten.
Load ==
  /\ ~loaded /\ sweep = Idle
  /\ loaded' = TRUE
  /\ IF file = NoEntry
       THEN UNCHANGED <<memory, latest, restored>>
       ELSE /\ entry' = IF entry = NoEntry THEN NoEntry ELSE Imported(entry)
            /\ pending' = IF entry # NoEntry THEN pending
                          ELSE IF ReadingTaken THEN WithReading(Imported(pending))
                          ELSE Imported(pending)
            /\ latest' = IF ReadingTaken THEN file.held ELSE latest
            /\ restored' = IF ReadingTaken THEN file.observed ELSE restored
  /\ absent' = IF entry = NoEntry THEN Max({1, absent}) ELSE absent
  /\ file' = IF reloads < MaxReloads THEN file ELSE NoEntry
  /\ UNCHANGED <<clock, sweep, records, reloads, omitted>>

\* The process ends and another starts with the file.
Reload ==
  /\ reloads < MaxReloads
  /\ reloads' = reloads + 1
  /\ entry' = NoEntry /\ pending' = NoEntry /\ sweep' = Idle
  /\ records' = [u \in Workers |-> NoRecord]
  /\ loaded' = FALSE
  /\ latest' = Nothing /\ omitted' = Nothing /\ restored' = Never /\ absent' = 1
  /\ UNCHANGED <<clock, file>>

Tick ==
  /\ clock < MaxTick
  /\ clock' = clock + 1
  /\ UNCHANGED <<memory, sweep, records, file, loaded, reloads, seenByProperties>>

-----------------------------------------------------------------------------
StoreInit ==
  /\ clock = 0 /\ reloads = 0 /\ loaded = FALSE /\ file = NoEntry
  /\ entry = NoEntry /\ pending = NoEntry /\ sweep = Idle
  /\ records = [u \in Workers |-> NoRecord]
  /\ latest = Nothing /\ omitted = Nothing /\ restored = Never /\ absent = 1

StoreNext ==
  \/ \E listed \in BOOLEAN : List(listed)
  \/ \E ws \in Reads \cup {{}} : Fetched(ws)
  \/ Put \/ Prune \/ CutShort
  \/ \E u \in Workers, at \in 0 .. clock, r \in Responses,
        outcome \in {"429", "other"}, family \in Scoped \cup {"other"} :
       Deliver(u, at, r, outcome, family)
  \/ \E u \in Workers : MergeHeaders(u) \/ RecordRefusals(u)
  \/ Save \/ Load \/ Reload \/ Tick

StoreSpec == StoreInit /\ [][StoreNext]_storeVars

-----------------------------------------------------------------------------
(* Properties *)

\* However polls and responses interleave and however late a response is
\* delivered, a window the store shows is never older than a reading of it that
\* was delivered before (Put's per-window recency, MergeHeaders' drop).
LatestHeld ==
  entry # NoEntry => \A w \in Windows : entry.held[w] # Never => entry.held[w] >= latest[w]

\* A 5-hour or weekly window the usage endpoint stopped reporting is not brought
\* back by a response answered before that read, across prunes and restores.
GoneStaysGone ==
  entry # NoEntry =>
    \A w \in Unscoped : entry.held[w] # Never => entry.held[w] >= omitted[w]

\* While the build runs, the history of a live entry outlasts one complete listing
\* that misses the credential, one that waits for an entry lasts until the first
\* such listing, and a load adds the file's history to what is there.
HistoryKept ==
  [][ \/ reloads' # reloads \/ absent' = 2
      \/ Recorded \cup (IF loaded' # loaded THEN OrderOf(file) ELSE {}) \subseteq Recorded'
    ]_storeVars
=============================================================================
