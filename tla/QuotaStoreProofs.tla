-------------------------- MODULE QuotaStoreProofs --------------------------
(***************************************************************************)
(* Proofs about QuotaStore and about Samples, the ring it keeps for each   *)
(* window, for any windows, responses, workers, readings and steps and     *)
(* without their bounds.                                                   *)
(*                                                                         *)
(* QuotaStore: the invariant Dated relates the instants an entry keeps to  *)
(* what has been delivered: what a window shows, when the store last saw   *)
(* it, the newest reading of it, and the read that no longer reported it.  *)
(* It holds of the live entry and of the pending one alike, since restore  *)
(* and adopt turn one into the other.  FetchedOK is about the gap between  *)
(* a usage read's stamp and its Put, in which responses may be merged, and *)
(* FiledOK about the file another process wrote.                           *)
(*                                                                         *)
(* Samples: RingOK says that a ring's cycles climb and follow one another  *)
(* and that a fall is held back only from the newest sample; Compacted,    *)
(* that compact has nothing left to do, which is why a second one changes  *)
(* nothing.  Spans says of which instants a ring may hold samples: the     *)
(* readings come in order, so what a restart reads back is older than what *)
(* was read since, and the replayed cycles can go in front.                *)
(***************************************************************************)
EXTENDS QuotaStore, Samples, FiniteSetTheorems, SequenceTheorems, WellFoundedInduction, TLAPS

Instants == {t \in Int : t >= Never}

Entries ==
  [held : [Windows -> Instants], seen : [Windows -> Instants], order : SUBSET Windows,
   observed : Instants]

Records ==
  {NoRecord}
    \cup [at : {"merge"}, stamp : Nat, resp : Responses, refused : SUBSET Windows]
    \cup [at : {"refuse"}, refused : SUBSET Windows]

Sweeps ==
  [at : {"idle", "listed", "fetched", "put"}, listed : BOOLEAN, snap : SUBSET Windows,
   stamp : Instants]

StoreTypeOK ==
  /\ clock \in Nat /\ loaded \in BOOLEAN /\ reloads \in Nat
  /\ entry \in {NoEntry} \cup Entries /\ pending \in {NoEntry} \cup Entries
  /\ file \in {NoEntry} \cup Entries
  /\ sweep \in Sweeps
  /\ records \in [Workers -> Records]
  /\ \A u \in Workers : records[u].at = "merge" => records[u].stamp <= clock
  /\ latest \in [Windows -> Instants] /\ omitted \in [Windows -> Instants]
  /\ restored \in Instants /\ restored <= clock
  /\ absent \in {0, 1, 2}

\* What the instants of an entry stand for: of a window the store shows, the reading it
\* was seen with, unless the file brought it back; of any window, nothing newer than what
\* the store has seen of it.
Dated(e) ==
  /\ e.observed <= clock
  /\ e.observed = Never => e.seen = Nothing
  /\ \A w \in Windows :
       /\ e.seen[w] <= clock /\ e.held[w] <= e.observed
       /\ latest[w] <= e.seen[w]
       /\ omitted[w] <= e.seen[w] /\ omitted[w] <= e.observed
       /\ omitted[w] # Never => w \in e.order \cap Unscoped
       /\ e.held[w] # Never => /\ e.held[w] <= e.seen[w]
                               /\ e.held[w] = e.seen[w] \/ e.seen[w] <= restored
                               /\ latest[w] <= e.held[w]
                               /\ omitted[w] <= e.held[w]

\* One of the entries at most is there; what neither holds has left no trace.
EntriesOK ==
  /\ entry # NoEntry => pending = NoEntry /\ Dated(entry)
  /\ pending # NoEntry => Dated(pending)
  /\ entry = NoEntry /\ pending = NoEntry => latest = Nothing /\ omitted = Nothing
  /\ entry = NoEntry => absent # 0

\* While a usage read waits for its Put, what is newer than the read has been merged.
FetchedOK ==
  sweep.at = "fetched" =>
    /\ 0 <= sweep.stamp /\ sweep.stamp <= clock /\ restored <= sweep.stamp
    /\ \A w \in Windows :
         /\ omitted[w] <= sweep.stamp
         /\ entry = NoEntry /\ pending # NoEntry => pending.seen[w] <= sweep.stamp
         /\ entry # NoEntry /\ entry.seen[w] > sweep.stamp => entry.held[w] # Never
    /\ ~loaded /\ file # NoEntry => file.observed <= sweep.stamp

\* Until the file is read, every usage read is newer than what it holds.
FiledOK ==
  /\ file # NoEntry => /\ file.observed <= clock
                       /\ \A w \in Windows : file.held[w] <= file.observed
  /\ ~loaded => restored = Never
  /\ ~loaded /\ file # NoEntry =>
       \A w \in Windows : omitted[w] # Never => file.observed <= omitted[w]

IInv == StoreTypeOK /\ EntriesOK /\ FetchedOK /\ FiledOK

-----------------------------------------------------------------------------
(* The operators *)

\* A set of instants with an upper bound has a largest one.
LEMMA MaxOf ==
  ASSUME NEW S, S \subseteq Instants, S # {}, NEW b \in Int, \A x \in S : x <= b
  PROVE  Max(S) \in S /\ \A y \in S : y <= Max(S)
<1> DEFINE T == {b - x : x \in S}
           R == {r \in Nat \X Nat : r[1] < r[2]}
<1>1. T \subseteq Nat /\ T # {}
  <2>1. \A x \in S : b - x \in Nat
    BY DEF Instants
  <2> QED
    BY <2>1
<1>2. IsWellFoundedOn(R, Nat)
  BY NatLessThanWellFounded, Zenon DEF OpToRel
<1>3. PICK t \in T : \A u \in T : ~ (<<u, t>> \in R)
  <2> HIDE DEF T, R
  <2> QED
    BY <1>1, <1>2, WFMin
<1>4. PICK x \in S : t = b - x
  BY <1>3
<1>5. \A y \in S : x >= y
  <2> SUFFICES ASSUME NEW y \in S PROVE x >= y
    OBVIOUS
  <2>1. b - y \in T /\ b - y \in Nat /\ t \in Nat
    BY <1>1, <1>3
  <2>2. ~ (b - y < t)
    BY <1>3, <2>1
  <2>3. x \in Int /\ y \in Int
    BY DEF Instants
  <2> QED
    BY <1>4, <2>2, <2>3
<1>6. Max(S) \in S /\ \A y \in S : Max(S) >= y
  BY <1>5 DEF Max
<1> QED
  BY <1>6 DEF Instants

LEMMA NothingType == Nothing \in [Windows -> Instants] /\ \A w \in Windows : Nothing[w] = Never
  BY DEF Nothing, Instants, Never

LEMMA InstantsType == Never \in Instants /\ Nat \subseteq Instants /\ Instants \subseteq Int
  BY DEF Never, Instants

LEMMA NoEntryApart == NoEntry \notin Entries
<1>1. Entries \subseteq [held : [Windows -> Int], seen : [Windows -> Int], order : SUBSET Windows,
                         observed : Int]
  <2> SUFFICES ASSUME NEW e \in Entries
               PROVE  e \in [held : [Windows -> Int], seen : [Windows -> Int],
                             order : SUBSET Windows, observed : Int]
    OBVIOUS
  <2>1. Instants \subseteq Int
    BY DEF Instants
  <2> QED
    BY <2>1 DEF Entries
<1> QED
  BY <1>1, StoreAssumption

LEMMA NewEntryType ==
  ASSUME NEW order \in SUBSET Windows
  PROVE  /\ newEntry(order) \in Entries
         /\ newEntry(order).held = Nothing /\ newEntry(order).seen = Nothing
         /\ newEntry(order).order = order /\ newEntry(order).observed = Never
  BY NothingType DEF newEntry, Entries, Instants, Never

LEMMA LaterType ==
  ASSUME NEW a \in Instants, NEW b \in Instants
  PROVE  Later(a, b) \in Instants /\ a <= Later(a, b) /\ b <= Later(a, b) /\ Later(a, b) \in {a, b}
  BY DEF Later, Instants

\* Put, window by window.
LEMMA PutFields ==
  ASSUME NEW prior \in Entries, NEW at \in Nat, NEW ws \in SUBSET Windows,
         NEW last \in Int, at <= last, \A w \in Windows : prior.seen[w] <= last
  PROVE  LET e == PutEntry(prior, at, ws)
             kept == KeptWindows(prior, at, ws)
         IN  /\ e \in Entries
             /\ e.order = prior.order \cup (ws \ kept)
             /\ at <= e.observed /\ e.observed <= last
             /\ \A w \in kept : /\ e.held[w] = prior.held[w] /\ e.seen[w] = prior.seen[w]
                                /\ e.seen[w] <= e.observed
             /\ \A w \in ws \ kept : e.held[w] = at /\ e.seen[w] = at
             /\ \A w \in Windows \ ws :
                  /\ e.held[w] = Never
                  /\ e.seen[w] = IF w \in Omits(e.order, ws) THEN Later(at, prior.seen[w]) ELSE Never
<1> DEFINE kept == KeptWindows(prior, at, ws)
           order == prior.order \cup (ws \ kept)
           seen == [w \in Windows |->
                      IF w \in kept THEN prior.seen[w]
                      ELSE IF w \in ws THEN at
                      ELSE IF w \in Omits(order, ws) THEN Later(at, prior.seen[w])
                      ELSE Never]
           held == [w \in Windows |->
                      IF w \in kept THEN prior.held[w] ELSE IF w \in ws THEN at ELSE Never]
           S == {at} \cup {seen[w] : w \in kept}
<1>1. PutEntry(prior, at, ws) = [held |-> held, seen |-> seen, order |-> order, observed |-> Max(S)]
  BY DEF PutEntry
<1>2. kept \subseteq ws /\ kept \subseteq Windows /\ order \in SUBSET Windows
  BY DEF KeptWindows, Entries
<1>3. at \in Instants /\ Never \in Instants
  BY DEF Instants, Never
<1>4. \A w \in Windows : prior.seen[w] \in Instants /\ prior.held[w] \in Instants
  BY DEF Entries
<1>5. seen \in [Windows -> Instants] /\ held \in [Windows -> Instants]
  <2>1. \A w \in Windows : Later(at, prior.seen[w]) \in Instants
    BY <1>3, <1>4, LaterType
  <2> QED
    BY <1>3, <1>4, <2>1
<1>6. S \subseteq Instants /\ S # {} /\ (\A x \in S : x <= last)
  <2>1. \A w \in kept : seen[w] = prior.seen[w]
    BY <1>2
  <2> HIDE DEF seen, kept
  <2> QED
    BY <1>2, <1>3, <1>4, <2>1
<1>7. Max(S) \in S /\ \A y \in S : y <= Max(S)
  <2> HIDE DEF S
  <2> QED
    BY <1>6, MaxOf
<1>8. Max(S) \in Instants /\ at <= Max(S) /\ Max(S) <= last /\ \A w \in kept : seen[w] <= Max(S)
  <2> HIDE DEF seen, kept
  <2> QED
    BY <1>6, <1>7
<1>9. /\ \A w \in kept : held[w] = prior.held[w] /\ seen[w] = prior.seen[w]
      /\ \A w \in ws \ kept : held[w] = at /\ seen[w] = at
      /\ \A w \in Windows \ ws :
           /\ held[w] = Never
           /\ seen[w] = IF w \in Omits(order, ws) THEN Later(at, prior.seen[w]) ELSE Never
  BY <1>2
<1> HIDE DEF kept, order, seen, held, S
<1>10. PutEntry(prior, at, ws) \in Entries
  BY <1>1, <1>2, <1>5, <1>8 DEF Entries
<1> QED
  BY <1>1, <1>8, <1>9, <1>10 DEF kept, order

\* MergeHeaders, window by window.
LEMMA MergeFields ==
  ASSUME NEW e \in Entries, NEW r \in Responses, NEW at \in Nat
  PROVE  LET m == MergeEntry(e, r, at)
             ws == ParseResponseHeaders(r)
         IN  /\ m \in Entries /\ ws \subseteq Windows
             /\ e.order \subseteq m.order
             /\ m.observed = Later(at, e.observed)
             /\ \A w \in Windows :
                  IF w \in ws /\ e.seen[w] <= at
                    THEN m.held[w] = at /\ m.seen[w] = at
                    ELSE m.held[w] = e.held[w] /\ m.seen[w] = e.seen[w]
<1> DEFINE ws == {w \in ParseResponseHeaders(r) : Accepts(e, w, at)}
           observe == IF Derives(r) THEN ws \ {r.claim} ELSE ws
           held == [w \in Windows |-> IF w \in ws THEN at ELSE e.held[w]]
           seen == [w \in Windows |-> IF w \in ws THEN at ELSE e.seen[w]]
<1>1. MergeEntry(e, r, at) = [held |-> held, seen |-> seen, order |-> e.order \cup observe,
                              observed |-> Later(at, e.observed)]
  BY DEF MergeEntry
<1>2. ParseResponseHeaders(r) \subseteq Windows
  BY StoreAssumption DEF ParseResponseHeaders, Derives, Windows
<1>3. at \in Instants
  BY DEF Instants, Never
<1>4. e.held \in [Windows -> Instants] /\ e.seen \in [Windows -> Instants]
      /\ e.order \in SUBSET Windows /\ e.observed \in Instants
  BY DEF Entries
<1>5. held \in [Windows -> Instants] /\ seen \in [Windows -> Instants]
  BY <1>3, <1>4
<1>6. e.order \cup observe \in SUBSET Windows
  BY <1>2, <1>4
<1>7. Later(at, e.observed) \in Instants
  BY <1>3, <1>4, LaterType
<1>8. \A w \in Windows :
        IF w \in ParseResponseHeaders(r) /\ e.seen[w] <= at
          THEN held[w] = at /\ seen[w] = at
          ELSE held[w] = e.held[w] /\ seen[w] = e.seen[w]
  BY DEF Accepts
<1> HIDE DEF held, seen, observe
<1>9. MergeEntry(e, r, at) \in Entries
  BY <1>1, <1>5, <1>6, <1>7 DEF Entries
<1> QED
  BY <1>1, <1>2, <1>8, <1>9

-----------------------------------------------------------------------------
(* The invariant *)

LEMMA InitOK == StoreInit => IInv
<1> SUFFICES ASSUME StoreInit PROVE IInv
  OBVIOUS
<1>1. StoreTypeOK
  <2>1. sweep \in Sweeps
    BY DEF StoreInit, Idle, Sweeps, Instants, Never
  <2>2. records \in [Workers -> Records] /\ \A u \in Workers : records[u].at = "none"
    BY DEF StoreInit, Records, NoRecord
  <2>3. restored \in Instants /\ restored <= clock
    BY DEF StoreInit, Instants, Never
  <2> QED
    BY <2>1, <2>2, <2>3, NothingType DEF StoreInit, StoreTypeOK
<1>2. EntriesOK /\ FetchedOK /\ FiledOK
  BY DEF StoreInit, EntriesOK, FetchedOK, FiledOK, Idle
<1> QED
  BY <1>1, <1>2 DEF IInv

\* What Dated says of an entry does not depend on the clock having gone on.
LEMMA MemoryKept ==
  ASSUME IInv, UNCHANGED <<memory, latest, omitted, restored>>, clock' \in Nat, clock <= clock',
         entry = NoEntry => absent' # 0
  PROVE  EntriesOK'
<1>1. ASSUME NEW e \in Entries, Dated(e)
      PROVE  /\ e.observed <= clock'
             /\ e.observed = Never => e.seen = Nothing
             /\ \A w \in Windows :
                  /\ e.seen[w] <= clock' /\ e.held[w] <= e.observed
                  /\ latest'[w] <= e.seen[w]
                  /\ omitted'[w] <= e.seen[w] /\ omitted'[w] <= e.observed
                  /\ omitted'[w] # Never => w \in e.order \cap Unscoped
                  /\ e.held[w] # Never => /\ e.held[w] <= e.seen[w]
                                          /\ e.held[w] = e.seen[w] \/ e.seen[w] <= restored'
                                          /\ latest'[w] <= e.held[w]
                                          /\ omitted'[w] <= e.held[w]
  <2>1. clock \in Nat /\ e.observed \in Int /\ \A w \in Windows : e.seen[w] \in Int
    BY DEF IInv, StoreTypeOK, Entries, Instants
  <2>2. e.observed <= clock'
    BY <1>1, <2>1 DEF Dated
  <2>3. \A w \in Windows : e.seen[w] <= clock'
    BY <1>1, <2>1 DEF Dated
  <2> QED
    BY <1>1, <2>2, <2>3 DEF Dated
<1>2. entry # NoEntry => Dated(entry)'
  BY <1>1 DEF IInv, StoreTypeOK, EntriesOK, Dated, memory
<1>3. pending # NoEntry => Dated(pending)'
  BY <1>1 DEF IInv, StoreTypeOK, EntriesOK, Dated, memory
<1> QED
  BY <1>2, <1>3 DEF IInv, EntriesOK, memory

\* List: a pending entry that is restored has what a live one needs.
LEMMA ListOK ==
  ASSUME IInv, NEW listed \in BOOLEAN, List(listed)
  PROVE  IInv'
<1>1. sweep' \in Sweeps /\ sweep'.at = "listed"
  BY InstantsType DEF List, Idle, Sweeps
<1>2. UNCHANGED <<clock, records, file, loaded, reloads, latest, restored, omitted, absent>>
  BY DEF List, seenByProperties
<1>3. CASE listed /\ entry = NoEntry /\ Restorable
  <2>1. entry' = pending /\ pending' = NoEntry /\ pending # NoEntry /\ Dated(pending)
    BY <1>3 DEF List, Restorable, IInv, EntriesOK
  <2>2. StoreTypeOK'
    BY <1>1, <1>2, <2>1 DEF IInv, StoreTypeOK
  <2>3. EntriesOK'
    BY <1>2, <2>1 DEF EntriesOK, Dated
  <2>4. FetchedOK' /\ FiledOK'
    BY <1>1, <1>2 DEF IInv, FetchedOK, FiledOK
  <2> QED
    BY <2>2, <2>3, <2>4 DEF IInv
<1>4. CASE ~(listed /\ entry = NoEntry /\ Restorable)
  <2>1. UNCHANGED memory
    BY <1>4 DEF List
  <2>2. StoreTypeOK'
    BY <1>1, <1>2, <2>1 DEF IInv, StoreTypeOK, memory
  <2>3. EntriesOK'
    BY <1>2, <2>1, MemoryKept DEF IInv, StoreTypeOK, EntriesOK
  <2>4. FetchedOK' /\ FiledOK'
    BY <1>1, <1>2 DEF IInv, FetchedOK, FiledOK
  <2> QED
    BY <2>2, <2>3, <2>4 DEF IInv
<1> QED
  BY <1>3, <1>4

\* The read is stamped now, and nothing is newer than now.
LEMMA FetchedStep ==
  ASSUME IInv, NEW ws \in Reads \cup {{}}, Fetched(ws)
  PROVE  IInv'
<1>1. ws \in SUBSET Windows
  BY StoreAssumption
<1>2. UNCHANGED <<clock, memory, records, file, loaded, reloads, latest, restored, omitted, absent>>
  BY DEF Fetched, seenByProperties
<1>3. sweep' \in Sweeps /\ sweep'.stamp = clock
  <2>1. clock \in Instants
    BY InstantsType DEF IInv, StoreTypeOK
  <2>2. sweep \in Sweeps /\ sweep' = [sweep EXCEPT !.at = "fetched", !.snap = ws, !.stamp = clock]
    BY DEF Fetched, IInv, StoreTypeOK
  <2> QED
    BY <1>1, <2>1, <2>2 DEF Sweeps
<1>4. StoreTypeOK'
  BY <1>2, <1>3 DEF IInv, StoreTypeOK, memory
<1>5. EntriesOK'
  BY <1>2, MemoryKept DEF IInv, StoreTypeOK, EntriesOK
<1>6. FiledOK'
  BY <1>2 DEF IInv, FiledOK
<1>7. FetchedOK'
  <2>1. 0 <= clock /\ restored <= clock
    BY DEF IInv, StoreTypeOK
  <2>2. ASSUME NEW w \in Windows
        PROVE  /\ omitted[w] <= clock
               /\ entry = NoEntry /\ pending # NoEntry => pending.seen[w] <= clock
               /\ entry # NoEntry /\ entry.seen[w] > clock => entry.held[w] # Never
    <3>1. clock \in Nat /\ omitted[w] \in Int /\ latest[w] \in Int
      BY DEF IInv, StoreTypeOK, Instants
    <3>2. CASE entry # NoEntry
      <4>1. entry.seen[w] \in Int /\ entry.seen[w] <= clock /\ omitted[w] <= entry.seen[w]
        BY <3>2 DEF IInv, StoreTypeOK, EntriesOK, Dated, Entries, Instants
      <4> QED
        BY <3>1, <3>2, <4>1
    <3>3. CASE entry = NoEntry /\ pending # NoEntry
      <4>1. pending.seen[w] \in Int /\ pending.seen[w] <= clock /\ omitted[w] <= pending.seen[w]
            /\ latest[w] <= pending.seen[w]
        BY <3>3 DEF IInv, StoreTypeOK, EntriesOK, Dated, Entries, Instants
      <4> QED
        BY <3>1, <3>3, <4>1
    <3>4. CASE entry = NoEntry /\ pending = NoEntry
      <4>1. omitted[w] = -1 /\ latest[w] = -1
        BY <3>4, NothingType DEF IInv, EntriesOK, Never
      <4> QED
        BY <3>1, <3>4, <4>1
    <3> QED
      BY <3>2, <3>3, <3>4
  <2>3. file # NoEntry => file.observed <= clock
    BY DEF IInv, FiledOK
  <2>4. sweep'.stamp = clock /\ clock' = clock /\ entry' = entry /\ pending' = pending /\ file' = file
        /\ restored' = restored /\ latest' = latest /\ omitted' = omitted /\ clock <= clock
    BY <1>2, <1>3 DEF memory, IInv, StoreTypeOK
  <2> QED
    BY <2>1, <2>2, <2>3, <2>4 DEF FetchedOK
<1> QED
  BY <1>4, <1>5, <1>6, <1>7 DEF IInv

\* What a usage read meets when it is put.
LEMMA PriorFacts ==
  ASSUME IInv, sweep.at = "fetched",
         NEW prior, prior = IF entry = NoEntry THEN adopt ELSE entry
  PROVE  /\ sweep.stamp \in Nat /\ prior \in Entries
         /\ entry = NoEntry => prior.order = OrderOf(pending)
         /\ \A w \in Windows :
              /\ prior.seen[w] <= clock
              /\ omitted[w] # Never => w \in prior.order \cap Unscoped
              /\ omitted[w] <= sweep.stamp
              /\ Fresher(prior, w, sweep.stamp) =>
                   /\ prior.held[w] = prior.seen[w]
                   /\ latest[w] <= prior.held[w] /\ omitted[w] <= prior.held[w]
              /\ ~ Fresher(prior, w, sweep.stamp) => latest[w] <= sweep.stamp
<1>1. sweep.stamp \in Nat
  BY DEF IInv, StoreTypeOK, FetchedOK, Sweeps, Instants
<1>2. CASE entry # NoEntry
  <2>1. prior = entry /\ entry \in Entries /\ Dated(entry)
    BY <1>2 DEF IInv, StoreTypeOK, EntriesOK
  <2>2. ASSUME NEW w \in Windows
        PROVE  /\ prior.seen[w] <= clock
               /\ omitted[w] # Never => w \in prior.order \cap Unscoped
               /\ omitted[w] <= sweep.stamp
               /\ Fresher(prior, w, sweep.stamp) =>
                    /\ prior.held[w] = prior.seen[w]
                    /\ latest[w] <= prior.held[w] /\ omitted[w] <= prior.held[w]
               /\ ~ Fresher(prior, w, sweep.stamp) => latest[w] <= sweep.stamp
    <3>1. clock \in Int /\ restored \in Int /\ latest[w] \in Int /\ omitted[w] \in Int
          /\ entry.seen[w] \in Int /\ entry.held[w] \in Int
      BY <2>1, InstantsType DEF IInv, StoreTypeOK, Entries
    <3>2. restored <= sweep.stamp /\ omitted[w] <= sweep.stamp
          /\ (entry.seen[w] > sweep.stamp => entry.held[w] # Never)
      BY <1>2 DEF IInv, FetchedOK
    <3>3. /\ entry.seen[w] <= clock /\ latest[w] <= entry.seen[w]
          /\ omitted[w] # Never => w \in entry.order \cap Unscoped
          /\ entry.held[w] # Never => /\ entry.held[w] = entry.seen[w] \/ entry.seen[w] <= restored
                                      /\ latest[w] <= entry.held[w]
                                      /\ omitted[w] <= entry.held[w]
      BY <2>1 DEF Dated
    <3> QED
      BY <1>1, <2>1, <3>1, <3>2, <3>3 DEF Fresher
  <2> QED
    BY <1>1, <1>2, <2>1, <2>2
<1>3. CASE entry = NoEntry
  <2>1. OrderOf(pending) \in SUBSET Windows
    BY DEF OrderOf, IInv, StoreTypeOK, Entries
  <2>2. prior \in Entries /\ prior.held = Nothing /\ prior.seen = Nothing /\ prior.order = OrderOf(pending)
    BY <1>3, <2>1, NewEntryType DEF adopt
  <2>3. ASSUME NEW w \in Windows
        PROVE  /\ prior.seen[w] <= clock
               /\ omitted[w] # Never => w \in prior.order \cap Unscoped
               /\ omitted[w] <= sweep.stamp /\ latest[w] <= sweep.stamp
               /\ ~ Fresher(prior, w, sweep.stamp)
    <3>1. prior.held[w] = Never /\ prior.seen[w] = Never
      BY <2>2, NothingType
    <3>2. prior.seen[w] <= clock
      BY <3>1 DEF IInv, StoreTypeOK, Never
    <3>3. omitted[w] # Never => w \in prior.order \cap Unscoped
      <4>1. CASE pending = NoEntry
        BY <1>3, <4>1, NothingType DEF IInv, EntriesOK
      <4>2. CASE pending # NoEntry
        BY <2>2, <4>2 DEF IInv, EntriesOK, Dated, OrderOf
      <4> QED
        BY <4>1, <4>2
    <3> QED
      <4>1. CASE pending = NoEntry
        <5>1. latest[w] = Never
          BY <1>3, <4>1, NothingType DEF IInv, EntriesOK
        <5> QED
          BY <1>1, <3>1, <3>2, <3>3, <5>1 DEF Fresher, IInv, FetchedOK, Never
      <4>2. CASE pending # NoEntry
        <5>1. latest[w] <= pending.seen[w] /\ pending.seen[w] <= sweep.stamp
          BY <1>3, <4>2 DEF IInv, EntriesOK, FetchedOK, Dated
        <5>2. latest[w] \in Int /\ pending.seen[w] \in Int
          BY <4>2, InstantsType DEF IInv, StoreTypeOK, Entries
        <5>3. latest[w] <= sweep.stamp
          BY <1>1, <5>1, <5>2
        <5> QED
          BY <3>1, <3>2, <3>3, <5>3 DEF Fresher, IInv, FetchedOK
      <4> QED
        BY <4>1, <4>2
  <2> QED
    BY <1>1, <2>2, <2>3
<1> QED
  BY <1>2, <1>3

\* Put keeps, of each window, the newer of its own reading and the store's.
LEMMA PutOK ==
  ASSUME IInv, Put
  PROVE  IInv'
<1> DEFINE ws == sweep.snap
           at == sweep.stamp
           prior == IF entry = NoEntry THEN adopt ELSE entry
           kept == KeptWindows(prior, at, ws)
<1>1. sweep.at = "fetched" /\ ws \in SUBSET Windows /\ sweep \in Sweeps /\ at <= clock
  BY DEF Put, IInv, StoreTypeOK, Sweeps, FetchedOK
<1>2. UNCHANGED <<clock, records, file, loaded, reloads, restored, absent>>
  BY DEF Put
<1>3. sweep' \in Sweeps /\ sweep'.at = "put"
  BY InstantsType DEF Put, Idle, Sweeps
<1>4. FetchedOK'
  BY <1>3 DEF FetchedOK
<1>5. CASE ws = {} /\ entry # NoEntry
  <2>1. UNCHANGED <<memory, latest, omitted>>
    BY <1>5 DEF Put
  <2>2. StoreTypeOK'
    BY <1>2, <1>3, <2>1 DEF IInv, StoreTypeOK, memory
  <2>3. EntriesOK'
    BY <1>2, <2>1, MemoryKept DEF IInv, StoreTypeOK, EntriesOK
  <2>4. FiledOK'
    BY <1>2, <2>1 DEF IInv, FiledOK
  <2> QED
    BY <1>4, <2>2, <2>3, <2>4 DEF IInv
<1>6. CASE ~(ws = {} /\ entry # NoEntry)
  <2>1. /\ entry' = PutEntry(prior, at, ws)
        /\ pending' = IF entry = NoEntry THEN NoEntry ELSE pending
        /\ latest' = [w \in Windows |-> IF w \in ws THEN Later(at, latest[w]) ELSE Never]
        /\ omitted' = [w \in Windows |->
             IF ws \cap Unscoped = {} THEN Never
             ELSE IF w \in (prior.order \cap Unscoped) \ ws THEN at ELSE omitted[w]]
    BY <1>6 DEF Put
  <2>2. /\ at \in Nat /\ prior \in Entries
        /\ \A w \in Windows :
             /\ prior.seen[w] <= clock
             /\ omitted[w] # Never => w \in prior.order \cap Unscoped
             /\ omitted[w] <= at
             /\ Fresher(prior, w, at) =>
                  /\ prior.held[w] = prior.seen[w]
                  /\ latest[w] <= prior.held[w] /\ omitted[w] <= prior.held[w]
             /\ ~ Fresher(prior, w, at) => latest[w] <= at
    BY <1>1, PriorFacts
  <2>3. clock \in Int
    BY DEF IInv, StoreTypeOK
  <2> DEFINE e == PutEntry(prior, at, ws)
  <2>4. /\ e \in Entries
        /\ e.order = prior.order \cup (ws \ kept)
        /\ at <= e.observed /\ e.observed <= clock
        /\ \A w \in kept : /\ e.held[w] = prior.held[w] /\ e.seen[w] = prior.seen[w]
                           /\ e.seen[w] <= e.observed
        /\ \A w \in ws \ kept : e.held[w] = at /\ e.seen[w] = at
        /\ \A w \in Windows \ ws :
             /\ e.held[w] = Never
             /\ e.seen[w] = IF w \in Omits(e.order, ws) THEN Later(at, prior.seen[w]) ELSE Never
    <3> HIDE DEF ws, at, prior
    <3> QED
      BY <1>1, <2>2, <2>3, PutFields
  <2>5. kept = {w \in ws : Fresher(prior, w, at)}
    BY DEF KeptWindows
  <2>6. latest' \in [Windows -> Instants] /\ omitted' \in [Windows -> Instants]
    <3>1. latest \in [Windows -> Instants] /\ omitted \in [Windows -> Instants] /\ at \in Instants
      BY <2>2, InstantsType DEF IInv, StoreTypeOK
    <3>2. \A w \in Windows : Later(at, latest[w]) \in Instants
      BY <3>1, LaterType
    <3> HIDE DEF ws, at, prior
    <3> QED
      BY <2>1, <3>1, <3>2, InstantsType
  <2> HIDE DEF ws, at, prior, kept, e
  <2>7. ASSUME NEW w \in Windows
        PROVE  /\ e.seen[w] <= clock /\ e.held[w] <= e.observed
               /\ latest'[w] <= e.seen[w]
               /\ omitted'[w] <= e.seen[w] /\ omitted'[w] <= e.observed
               /\ omitted'[w] # Never => w \in e.order \cap Unscoped
               /\ e.held[w] # Never => /\ e.held[w] <= e.seen[w]
                                       /\ e.held[w] = e.seen[w] \/ e.seen[w] <= restored
                                       /\ latest'[w] <= e.held[w]
                                       /\ omitted'[w] <= e.held[w]
    <3>1. /\ latest[w] \in Int /\ omitted[w] \in Int /\ e.observed \in Int /\ prior.seen[w] \in Instants
          /\ Never <= at /\ Never \in Int
      <4>1. latest[w] \in Instants /\ omitted[w] \in Instants
        BY DEF IInv, StoreTypeOK
      <4>2. e.observed \in Instants /\ prior.seen[w] \in Instants
        BY <2>2, <2>4 DEF Entries
      <4>3. Never <= at
        BY <2>2 DEF Never
      <4> QED
        BY <4>1, <4>2, <4>3, InstantsType
    <3>2. /\ latest'[w] = IF w \in ws THEN Later(at, latest[w]) ELSE Never
          /\ omitted'[w] = IF ws \cap Unscoped = {} THEN Never
                           ELSE IF w \in (prior.order \cap Unscoped) \ ws THEN at ELSE omitted[w]
      BY <2>1
    <3>3. CASE w \in kept
      <4>1. w \in ws /\ Fresher(prior, w, at)
        BY <2>5, <3>3
      <4>2. latest'[w] = Later(at, latest[w]) /\ (omitted'[w] = Never \/ omitted'[w] = omitted[w])
        BY <3>2, <4>1
      <4>3. /\ e.held[w] = prior.held[w] /\ e.seen[w] = prior.seen[w] /\ e.seen[w] <= e.observed
            /\ prior.held[w] = prior.seen[w] /\ prior.seen[w] > at
            /\ latest[w] <= prior.held[w] /\ omitted[w] <= prior.held[w]
            /\ prior.seen[w] <= clock
        BY <2>2, <2>4, <3>3, <4>1 DEF Fresher
      <4>4. omitted'[w] # Never => w \in e.order \cap Unscoped
        BY <2>2, <2>4, <4>2
      <4>5. prior.seen[w] \in Int
        BY <3>1, InstantsType
      <4>6. latest'[w] <= e.held[w]
        BY <2>2, <3>1, <4>2, <4>3, <4>5 DEF Later
      <4>7. omitted'[w] <= e.held[w] /\ omitted'[w] <= e.observed
        BY <2>2, <3>1, <4>2, <4>3, <4>5
      <4> QED
        BY <4>3, <4>4, <4>5, <4>6, <4>7
    <3>4. CASE w \in ws \ kept
      <4>1. ~ Fresher(prior, w, at)
        BY <2>5, <3>4
      <4>2. latest'[w] = at
        BY <2>2, <3>1, <3>2, <3>4, <4>1 DEF Later
      <4>3. omitted'[w] = Never \/ omitted'[w] = omitted[w]
        BY <3>2, <3>4
      <4>4. e.held[w] = at /\ e.seen[w] = at
        BY <2>4, <3>4
      <4>5. omitted'[w] # Never => w \in e.order \cap Unscoped
        BY <2>2, <2>4, <4>3
      <4> QED
        BY <1>1, <2>2, <2>3, <2>4, <3>1, <4>2, <4>3, <4>4, <4>5
    <3>5. CASE w \notin ws
      <4>1. e.held[w] = Never /\ latest'[w] = Never
        BY <2>4, <3>2, <3>5
      <4>2. e.seen[w] = Never \/ e.seen[w] = Later(at, prior.seen[w])
        BY <2>4, <3>5
      <4>3. e.seen[w] <= clock /\ Never <= e.seen[w]
        <5>1. prior.seen[w] \in Int /\ prior.seen[w] <= clock /\ prior.seen[w] >= Never
          BY <2>2, <3>1 DEF Instants
        <5> QED
          BY <1>1, <2>2, <2>3, <4>2, <5>1 DEF Later, Never
      <4>4. omitted'[w] # Never => w \in prior.order \cap Unscoped /\ ws \cap Unscoped # {}
        BY <2>2, <3>2
      <4>5. omitted'[w] # Never => e.seen[w] = Later(at, prior.seen[w])
        BY <2>4, <3>5, <4>4 DEF Omits
      <4>6. omitted'[w] = Never \/ omitted'[w] = at
        BY <2>2, <3>2, <3>5
      <4>7. omitted'[w] <= e.seen[w]
        <5>1. CASE omitted'[w] = Never
          BY <4>3, <5>1
        <5>2. CASE omitted'[w] = at /\ omitted'[w] # Never
          <6>1. prior.seen[w] \in Int /\ at \in Int
            BY <2>2, <3>1, InstantsType
          <6>2. at <= Later(at, prior.seen[w])
            BY <6>1 DEF Later
          <6> QED
            BY <4>5, <5>2, <6>2
        <5> QED
          BY <4>6, <5>1, <5>2
      <4>8. omitted'[w] <= e.observed /\ Never <= e.observed
        BY <2>2, <2>4, <3>1, <4>6
      <4> QED
        BY <2>4, <4>1, <4>3, <4>4, <4>7, <4>8
    <3> QED
      BY <3>3, <3>4, <3>5
  <2>8. e.observed <= clock /\ e.observed # Never
    BY <2>2, <2>4 DEF Never
  <2>9. entry' = e /\ e # NoEntry
    BY <2>1, <2>4, NoEntryApart DEF e, ws, at, prior
  <2>10. StoreTypeOK'
    BY <1>2, <1>3, <2>1, <2>4, <2>6, <2>9 DEF IInv, StoreTypeOK
  <2>11. EntriesOK'
    <3>1. Dated(entry)'
      BY <1>2, <2>7, <2>8, <2>9 DEF Dated
    <3>2. pending' = NoEntry
      BY <2>1 DEF IInv, EntriesOK
    <3> QED
      BY <2>9, <3>1, <3>2 DEF EntriesOK
  <2>12. FiledOK'
    <3>1. ~loaded /\ file # NoEntry => file.observed <= at
      BY <1>1 DEF IInv, FetchedOK, at
    <3>2. \A w \in Windows : omitted'[w] \in {Never, at, omitted[w]}
      BY <2>1
    <3> QED
      BY <1>2, <3>1, <3>2 DEF IInv, FiledOK
  <2> QED
    BY <1>4, <2>10, <2>11, <2>12 DEF IInv
<1> QED
  BY <1>5, <1>6

LEMMA AbsentCounts ==
  ASSUME absent \in {0, 1, 2}
  PROVE  /\ Min({2, absent + 1}) \in {1, 2}
         /\ absent # 0 => Min({2, absent + 1}) = 2
         /\ Max({1, absent}) \in {1, 2}
<1>1. \E x \in {2, absent + 1} : \A y \in {2, absent + 1} : x <= y
  OBVIOUS
<1>2. Min({2, absent + 1}) \in {2, absent + 1} /\ \A y \in {2, absent + 1} : Min({2, absent + 1}) <= y
  BY <1>1 DEF Min
<1>3. \E x \in {1, absent} : \A y \in {1, absent} : x >= y
  OBVIOUS
<1>4. Max({1, absent}) \in {1, absent} /\ \A y \in {1, absent} : Max({1, absent}) >= y
  BY <1>3 DEF Max
<1> QED
  BY <1>2, <1>4

\* Prune moves the history of an entry to pending, or drops what no entry holds.
LEMMA PruneOK ==
  ASSUME IInv, Prune
  PROVE  IInv'
<1>1. sweep' \in Sweeps /\ sweep'.at = "idle"
  BY InstantsType DEF Prune, Idle, Sweeps
<1>2. UNCHANGED <<clock, records, file, loaded, reloads, restored>>
  BY DEF Prune
<1>3. FetchedOK'
  BY <1>1 DEF FetchedOK
<1>4. absent \in {0, 1, 2}
  BY DEF IInv, StoreTypeOK
<1>5. CASE sweep.listed
  <2>1. UNCHANGED <<memory, latest, omitted>> /\ absent' = IF entry = NoEntry THEN 1 ELSE 0
    BY <1>5 DEF Prune
  <2>2. StoreTypeOK'
    BY <1>1, <1>2, <2>1 DEF IInv, StoreTypeOK, memory
  <2>3. EntriesOK'
    BY <1>2, <2>1, MemoryKept DEF IInv, StoreTypeOK
  <2>4. FiledOK'
    BY <1>2, <2>1 DEF IInv, FiledOK
  <2> QED
    BY <1>3, <2>2, <2>3, <2>4 DEF IInv
<1>6. CASE ~ sweep.listed
  <2>1. /\ entry' = NoEntry /\ pending' = PrunedPending /\ absent' = Min({2, absent + 1})
        /\ latest' = IF PrunedPending = NoEntry THEN Nothing ELSE latest
        /\ omitted' = IF PrunedPending = NoEntry THEN Nothing ELSE omitted
    BY <1>6 DEF Prune
  <2>2. PrunedPending \in {NoEntry, entry}
    BY DEF PrunedPending
  <2>3. StoreTypeOK'
    <3>1. absent' \in {0, 1, 2}
      BY <1>4, <2>1, AbsentCounts
    <3>2. latest' \in [Windows -> Instants] /\ omitted' \in [Windows -> Instants]
      BY <2>1, NothingType DEF IInv, StoreTypeOK
    <3>3. entry' \in {NoEntry} \cup Entries /\ pending' \in {NoEntry} \cup Entries
      BY <2>1, <2>2 DEF IInv, StoreTypeOK
    <3> QED
      BY <1>1, <1>2, <3>1, <3>2, <3>3 DEF IInv, StoreTypeOK
  <2>4. EntriesOK'
    <3>1. absent' # 0
      BY <1>4, <2>1, AbsentCounts
    <3>2. CASE PrunedPending = NoEntry
      BY <2>1, <3>1, <3>2 DEF EntriesOK
    <3>3. CASE PrunedPending # NoEntry
      <4>1. entry # NoEntry /\ Dated(entry) /\ pending' = entry /\ UNCHANGED <<latest, omitted, restored, clock>>
        BY <1>2, <2>1, <2>2, <3>3 DEF IInv, EntriesOK
      <4>2. Dated(pending)'
        BY <4>1 DEF Dated
      <4> QED
        BY <2>1, <3>1, <3>3, <4>2 DEF EntriesOK
    <3> QED
      BY <3>2, <3>3
  <2>5. FiledOK'
    <3>1. \A w \in Windows : omitted'[w] \in {Never, omitted[w]}
      BY <2>1, NothingType
    <3> QED
      BY <1>2, <3>1 DEF IInv, FiledOK
  <2> QED
    BY <1>3, <2>3, <2>4, <2>5 DEF IInv
<1> QED
  BY <1>5, <1>6

LEMMA CutShortOK ==
  ASSUME IInv, CutShort
  PROVE  IInv'
<1>1. sweep' \in Sweeps /\ sweep'.at = "idle"
  BY InstantsType DEF CutShort, Idle, Sweeps
<1>2. UNCHANGED <<clock, memory, records, file, loaded, reloads, latest, restored, omitted, absent>>
  BY DEF CutShort, seenByProperties
<1>3. StoreTypeOK'
  BY <1>1, <1>2 DEF IInv, StoreTypeOK, memory
<1>4. EntriesOK'
  BY <1>2, MemoryKept DEF IInv, StoreTypeOK, EntriesOK
<1>5. FetchedOK' /\ FiledOK'
  BY <1>1, <1>2 DEF IInv, FetchedOK, FiledOK
<1> QED
  BY <1>3, <1>4, <1>5 DEF IInv

\* The steps that leave the store alone: a record begins, the clock goes on, the file is
\* written.
LEMMA DeliverOK ==
  ASSUME IInv, NEW u \in Workers, NEW at \in 0 .. clock, NEW r \in Responses, NEW outcome, NEW family,
         Deliver(u, at, r, outcome, family)
  PROVE  IInv'
<1>1. UNCHANGED <<clock, memory, sweep, file, loaded, reloads, latest, restored, omitted, absent>>
  BY DEF Deliver, seenByProperties
<1>2. Refused(r, outcome, family) \in SUBSET Windows
  <2>1. r.carried \subseteq Windows /\ r.refused \subseteq Windows
    BY StoreAssumption
  <2>2. ParseResponseHeaders(r) \subseteq Windows
    BY <2>1 DEF ParseResponseHeaders, Derives, Windows
  <2>3. Blocking(r) \subseteq Windows
    BY <2>1, <2>2 DEF Blocking
  <2> QED
    BY <2>3 DEF Refused
<1> DEFINE rec == [at |-> "merge", stamp |-> at, resp |-> r, refused |-> Refused(r, outcome, family)]
<1>3. records' = [records EXCEPT ![u] = rec]
  BY DEF Deliver
<1>4. at \in Nat /\ at <= clock
  BY DEF IInv, StoreTypeOK
<1>5. rec \in Records /\ rec.stamp <= clock
  <2>1. rec \in [at : {"merge"}, stamp : Nat, resp : Responses, refused : SUBSET Windows]
    BY <1>2, <1>4
  <2> QED
    BY <1>4, <2>1 DEF Records
<1> HIDE DEF rec
<1>6. StoreTypeOK'
  <2>1. records' \in [Workers -> Records]
    BY <1>3, <1>5 DEF IInv, StoreTypeOK
  <2>2. \A v \in Workers : records'[v].at = "merge" => records'[v].stamp <= clock
    BY <1>3, <1>5 DEF IInv, StoreTypeOK
  <2> QED
    BY <1>1, <2>1, <2>2 DEF IInv, StoreTypeOK, memory
<1>7. EntriesOK'
  BY <1>1, MemoryKept DEF IInv, StoreTypeOK, EntriesOK
<1>8. FetchedOK' /\ FiledOK'
  BY <1>1 DEF IInv, FetchedOK, FiledOK, memory
<1> QED
  BY <1>6, <1>7, <1>8 DEF IInv

LEMMA TickOK ==
  ASSUME IInv, Tick
  PROVE  IInv'
<1>1. UNCHANGED <<memory, sweep, records, file, loaded, reloads, latest, restored, omitted, absent>>
  BY DEF Tick, seenByProperties
<1>2. clock \in Nat /\ clock' = clock + 1 /\ clock' \in Nat /\ clock <= clock'
  BY DEF Tick, IInv, StoreTypeOK
<1>3. StoreTypeOK'
  <2>1. \A v \in Workers : records'[v].at = "merge" => records'[v].stamp <= clock'
    <3> SUFFICES ASSUME NEW v \in Workers, records[v].at = "merge" PROVE records[v].stamp <= clock'
      BY <1>1
    <3>1. records[v] \in Records /\ records[v].stamp <= clock
      BY DEF IInv, StoreTypeOK
    <3>2. records[v].stamp \in Nat
      BY <3>1 DEF Records, NoRecord
    <3> QED
      BY <1>2, <3>1, <3>2
  <2>2. restored \in Int /\ restored <= clock'
    BY <1>2, InstantsType DEF IInv, StoreTypeOK
  <2> QED
    BY <1>1, <1>2, <2>1, <2>2 DEF IInv, StoreTypeOK, memory
<1>4. EntriesOK'
  BY <1>1, <1>2, MemoryKept DEF IInv, EntriesOK
<1>5. FetchedOK'
  <2>1. sweep.stamp \in Int
    BY InstantsType DEF IInv, StoreTypeOK, Sweeps
  <2>2. sweep.at = "fetched" => sweep.stamp <= clock'
    BY <1>2, <2>1 DEF IInv, FetchedOK
  <2> QED
    BY <1>1, <2>2 DEF IInv, FetchedOK, memory
<1>6. FiledOK'
  <2>1. file # NoEntry => file.observed <= clock'
    <3>1. file # NoEntry => file.observed \in Int
      BY InstantsType DEF IInv, StoreTypeOK, Entries
    <3> QED
      BY <1>2, <3>1 DEF IInv, FiledOK
  <2> QED
    BY <1>1, <2>1 DEF IInv, FiledOK
<1> QED
  BY <1>3, <1>4, <1>5, <1>6 DEF IInv

LEMMA SaveOK ==
  ASSUME IInv, Save
  PROVE  IInv'
<1>1. UNCHANGED <<clock, memory, sweep, records, loaded, reloads, latest, restored, omitted, absent>>
  BY DEF Save, seenByProperties
<1>2. file' = Exported /\ loaded /\ sweep.at = "idle"
  BY DEF Save, Idle
<1>3. Exported # NoEntry =>
        /\ Exported \in Entries /\ Exported.observed <= clock
        /\ \A w \in Windows : Exported.held[w] <= Exported.observed
  <2> DEFINE e == IF entry # NoEntry THEN entry ELSE pending
  <2> SUFFICES ASSUME Exported # NoEntry
               PROVE  /\ Exported \in Entries /\ Exported.observed <= clock
                      /\ \A w \in Windows : Exported.held[w] <= Exported.observed
    OBVIOUS
  <2>1. e # NoEntry /\ e \in Entries /\ Dated(e)
    BY DEF Exported, IInv, StoreTypeOK, EntriesOK
  <2>2. Exported = [e EXCEPT !.seen = Nothing, !.observed = IF e.held = Nothing THEN Never ELSE @]
    BY <2>1 DEF Exported
  <2> HIDE DEF e
  <2>3. CASE e.held = Nothing
    <3>1. Exported = [e EXCEPT !.seen = Nothing, !.observed = Never]
      BY <2>2, <2>3
    <3>2. Exported \in Entries /\ Exported.observed = Never /\ Exported.held = Nothing
      BY <2>1, <2>3, <3>1, NothingType, InstantsType DEF Entries
    <3>3. Never <= clock /\ Never <= Never
      BY DEF IInv, StoreTypeOK, Never
    <3> QED
      BY <3>2, <3>3, NothingType
  <2>4. CASE e.held # Nothing
    <3>1. Exported = [e EXCEPT !.seen = Nothing]
      BY <2>1, <2>2, <2>4 DEF Entries
    <3>2. Exported \in Entries /\ Exported.observed = e.observed /\ Exported.held = e.held
      BY <2>1, <3>1, NothingType DEF Entries
    <3> QED
      BY <2>1, <3>2 DEF Dated
  <2> QED
    BY <2>3, <2>4
<1>4. StoreTypeOK'
  BY <1>1, <1>2, <1>3 DEF IInv, StoreTypeOK, memory
<1>5. EntriesOK'
  BY <1>1, MemoryKept DEF IInv, StoreTypeOK, EntriesOK
<1>6. FetchedOK' /\ FiledOK'
  BY <1>1, <1>2, <1>3 DEF FetchedOK, FiledOK
<1> QED
  BY <1>4, <1>5, <1>6 DEF IInv

\* What a response is merged into is dated, an entry without readings included.
LEMMA TargetDated ==
  ASSUME IInv
  PROVE  /\ MergeTarget \in Entries /\ Dated(MergeTarget)
         /\ Recorded \subseteq MergeTarget.order
<1>1. CASE entry # NoEntry
  BY <1>1 DEF MergeTarget, IInv, StoreTypeOK, EntriesOK, Recorded, OrderOf
<1>2. CASE entry = NoEntry /\ Restorable
  BY <1>2 DEF MergeTarget, Restorable, IInv, StoreTypeOK, EntriesOK, Recorded, OrderOf
<1>3. CASE entry = NoEntry /\ ~Restorable
  <2>1. MergeTarget = newEntry(OrderOf(pending))
    BY <1>3 DEF MergeTarget, adopt
  <2>2. OrderOf(pending) \in SUBSET Windows
    BY DEF OrderOf, IInv, StoreTypeOK, Entries
  <2>3. /\ MergeTarget \in Entries /\ MergeTarget.held = Nothing /\ MergeTarget.seen = Nothing
        /\ MergeTarget.order = OrderOf(pending) /\ MergeTarget.observed = Never
    BY <2>1, <2>2, NewEntryType
  <2>4. \A w \in Windows : latest[w] = Never /\ omitted[w] = Never
    <3>1. CASE pending = NoEntry
      BY <1>3, <3>1, NothingType DEF IInv, EntriesOK
    <3>2. CASE pending # NoEntry
      <4>1. pending.observed = Never /\ Dated(pending)
        BY <1>3, <3>2 DEF Restorable, IInv, EntriesOK
      <4>2. \A w \in Windows : latest[w] <= Never /\ omitted[w] <= Never
        BY <4>1, NothingType DEF Dated
      <4> QED
        BY <4>2 DEF IInv, StoreTypeOK, Instants, Never
    <3> QED
      BY <3>1, <3>2
  <2>5. Never <= clock /\ Never <= Never
    BY DEF IInv, StoreTypeOK, Never
  <2>6. Dated(MergeTarget)
    BY <2>3, <2>4, <2>5, NothingType DEF Dated
  <2> QED
    BY <1>3, <2>3, <2>6 DEF Recorded, OrderOf
<1> QED
  BY <1>1, <1>2, <1>3

\* MergeHeaders takes what is not older than the store's own, however late it comes.
LEMMA MergeOK ==
  ASSUME IInv, NEW u \in Workers, MergeHeaders(u)
  PROVE  IInv'
<1> DEFINE rec == records[u]
           at == rec.stamp
           ws == ParseResponseHeaders(rec.resp)
           e == MergeTarget
           m == MergeEntry(e, rec.resp, at)
<1>1. at \in Nat /\ rec.resp \in Responses /\ at <= clock /\ rec.refused \in SUBSET Windows
  <2>1. rec \in Records /\ rec.at = "merge" /\ rec.stamp <= clock
    BY DEF MergeHeaders, IInv, StoreTypeOK
  <2>2. rec \in [at : {"merge"}, stamp : Nat, resp : Responses, refused : SUBSET Windows]
    BY <2>1 DEF Records, NoRecord
  <2> QED
    BY <2>1, <2>2
<1>2. UNCHANGED <<clock, sweep, file, loaded, reloads, restored, omitted, absent>>
  BY DEF MergeHeaders
<1>3. /\ records' \in [Workers -> Records]
      /\ \A v \in Workers : records'[v].at = "merge" => records'[v].stamp <= clock
  <2>1. records' = [records EXCEPT ![u] = [at |-> "refuse", refused |-> rec.refused]]
    BY DEF MergeHeaders
  <2>2. [at |-> "refuse", refused |-> rec.refused] \in Records
    BY <1>1 DEF Records
  <2> HIDE DEF rec
  <2>3. records' \in [Workers -> Records]
    BY <2>1, <2>2 DEF IInv, StoreTypeOK
  <2>4. \A v \in Workers : records'[v].at = "merge" => records'[v].stamp <= clock
    BY <2>1 DEF IInv, StoreTypeOK
  <2> QED
    BY <2>3, <2>4
<1>4. CASE ws = {}
  <2>1. UNCHANGED <<memory, latest>>
    BY <1>4 DEF MergeHeaders
  <2>2. StoreTypeOK'
    BY <1>2, <1>3, <2>1 DEF IInv, StoreTypeOK, memory
  <2>3. EntriesOK'
    BY <1>2, <2>1, MemoryKept DEF IInv, StoreTypeOK, EntriesOK
  <2>4. FetchedOK' /\ FiledOK'
    BY <1>2, <2>1 DEF IInv, FetchedOK, FiledOK, memory
  <2> QED
    BY <2>2, <2>3, <2>4 DEF IInv
<1>5. CASE ws # {}
  <2>1. /\ entry' = m
        /\ pending' = IF entry = NoEntry THEN NoEntry ELSE pending
        /\ latest' = [w \in Windows |->
             IF w \in ws /\ at >= restored THEN Later(at, latest[w]) ELSE latest[w]]
    BY <1>5 DEF MergeHeaders
  <2>2. e \in Entries /\ Dated(e)
    BY TargetDated
  <2>3. /\ m \in Entries /\ ws \subseteq Windows /\ e.order \subseteq m.order
        /\ m.observed = Later(at, e.observed)
        /\ \A w \in Windows :
             IF w \in ws /\ e.seen[w] <= at
               THEN m.held[w] = at /\ m.seen[w] = at
               ELSE m.held[w] = e.held[w] /\ m.seen[w] = e.seen[w]
    <3> HIDE DEF rec, e
    <3> QED
      BY <1>1, <2>2, MergeFields
  <2> HIDE DEF rec, at, ws, e, m
  <2>4. clock \in Nat /\ restored \in Int /\ e.observed \in Int /\ at \in Instants
    BY <1>1, <2>2, InstantsType DEF IInv, StoreTypeOK, Entries
  <2>5. m.observed <= clock /\ at <= m.observed /\ e.observed <= m.observed /\ m.observed # Never
    <3>1. e.observed <= clock
      BY <2>2 DEF Dated
    <3> QED
      BY <1>1, <2>3, <2>4, <3>1 DEF Later, Never
  <2>6. latest' \in [Windows -> Instants]
    <3>1. latest \in [Windows -> Instants]
      BY DEF IInv, StoreTypeOK
    <3>2. \A w \in Windows : Later(at, latest[w]) \in Instants
      BY <2>4, <3>1, LaterType
    <3> QED
      BY <2>1, <3>1, <3>2
  <2>7. ASSUME NEW w \in Windows
        PROVE  /\ m.seen[w] <= clock /\ m.held[w] <= m.observed
               /\ latest'[w] <= m.seen[w]
               /\ omitted[w] <= m.seen[w] /\ omitted[w] <= m.observed
               /\ omitted[w] # Never => w \in m.order \cap Unscoped
               /\ m.held[w] # Never => /\ m.held[w] <= m.seen[w]
                                       /\ m.held[w] = m.seen[w] \/ m.seen[w] <= restored
                                       /\ latest'[w] <= m.held[w]
                                       /\ omitted[w] <= m.held[w]
    <3>1. latest[w] \in Int /\ omitted[w] \in Int /\ e.seen[w] \in Int /\ e.held[w] \in Int
          /\ m.observed \in Int
      BY <2>2, <2>3, InstantsType DEF IInv, StoreTypeOK, Entries
    <3>2. /\ e.seen[w] <= clock /\ e.held[w] <= e.observed
          /\ latest[w] <= e.seen[w]
          /\ omitted[w] <= e.seen[w] /\ omitted[w] <= e.observed
          /\ omitted[w] # Never => w \in e.order \cap Unscoped
          /\ e.held[w] # Never => /\ e.held[w] <= e.seen[w]
                                  /\ e.held[w] = e.seen[w] \/ e.seen[w] <= restored
                                  /\ latest[w] <= e.held[w]
                                  /\ omitted[w] <= e.held[w]
      BY <2>2 DEF Dated
    <3>3. latest'[w] = IF w \in ws /\ at >= restored THEN Later(at, latest[w]) ELSE latest[w]
      BY <2>1
    <3>4. omitted[w] <= m.observed /\ (omitted[w] # Never => w \in m.order \cap Unscoped)
      BY <2>3, <2>4, <2>5, <3>1, <3>2
    <3>5. CASE w \in ws /\ e.seen[w] <= at
      <4>1. m.held[w] = at /\ m.seen[w] = at
        BY <2>3, <3>5
      <4>2. latest'[w] <= at
        BY <1>1, <3>1, <3>2, <3>3, <3>5 DEF Later
      <4>3. omitted[w] <= at
        BY <1>1, <3>1, <3>2, <3>5
      <4> QED
        BY <1>1, <2>5, <3>4, <4>1, <4>2, <4>3
    <3>6. CASE w \in ws /\ ~(e.seen[w] <= at)
      <4>1. m.held[w] = e.held[w] /\ m.seen[w] = e.seen[w]
        BY <2>3, <3>6
      <4>2. latest'[w] <= e.seen[w]
        BY <1>1, <3>1, <3>2, <3>3, <3>6 DEF Later
      <4>3. e.held[w] # Never => latest'[w] <= e.held[w]
        BY <1>1, <2>4, <3>1, <3>2, <3>3, <3>6 DEF Later
      <4>4. e.held[w] <= m.observed
        BY <2>4, <2>5, <3>1, <3>2
      <4> QED
        BY <3>2, <3>4, <4>1, <4>2, <4>3, <4>4
    <3>7. CASE w \notin ws
      <4>1. m.held[w] = e.held[w] /\ m.seen[w] = e.seen[w] /\ latest'[w] = latest[w]
        BY <2>3, <3>3, <3>7
      <4>2. e.held[w] <= m.observed
        BY <2>4, <2>5, <3>1, <3>2
      <4> QED
        BY <3>2, <3>4, <4>1, <4>2
    <3> QED
      BY <3>5, <3>6, <3>7
  <2>8. m # NoEntry
    BY <2>3, NoEntryApart
  <2>9. pending' = NoEntry
    BY <2>1 DEF IInv, EntriesOK
  <2>10. StoreTypeOK'
    BY <1>2, <1>3, <2>1, <2>3, <2>6, <2>9 DEF IInv, StoreTypeOK
  <2>11. EntriesOK'
    <3>1. Dated(entry)'
      BY <1>2, <2>1, <2>5, <2>7 DEF Dated
    <3> QED
      BY <2>1, <2>8, <2>9, <3>1 DEF EntriesOK
  <2>12. FetchedOK'
    <3>1. ASSUME sweep.at = "fetched", NEW w \in Windows, m.seen[w] > sweep.stamp
          PROVE  m.held[w] # Never
      <4>1. CASE w \in ws /\ e.seen[w] <= at
        BY <1>1, <2>3, <4>1 DEF Never
      <4>2. CASE ~(w \in ws /\ e.seen[w] <= at)
        <5>1. m.held[w] = e.held[w] /\ m.seen[w] = e.seen[w]
          BY <2>3, <4>2
        <5>2. CASE entry # NoEntry
          BY <3>1, <5>1, <5>2 DEF e, MergeTarget, IInv, FetchedOK
        <5>3. CASE entry = NoEntry
          <6>1. e.seen[w] <= sweep.stamp
            <7>1. CASE Restorable
              BY <3>1, <5>3, <7>1 DEF e, MergeTarget, Restorable, IInv, FetchedOK
            <7>2. CASE ~Restorable
              <8>1. e.seen = Nothing
                <9>1. OrderOf(pending) \in SUBSET Windows
                  BY DEF OrderOf, IInv, StoreTypeOK, Entries
                <9> QED
                  BY <5>3, <7>2, <9>1, NewEntryType DEF e, MergeTarget, adopt
              <8>2. 0 <= sweep.stamp /\ sweep.stamp \in Int
                BY <3>1, InstantsType DEF IInv, FetchedOK, StoreTypeOK, Sweeps
              <8> QED
                BY <8>1, <8>2, NothingType DEF Never
            <7> QED
              BY <7>1, <7>2
          <6>2. e.seen[w] \in Int /\ sweep.stamp \in Int
            BY <2>2, InstantsType DEF Entries, IInv, StoreTypeOK, Sweeps
          <6> QED
            BY <3>1, <5>1, <6>1, <6>2
        <5> QED
          BY <5>2, <5>3
      <4> QED
        BY <4>1, <4>2
    <3> QED
      BY <1>2, <2>1, <2>8, <3>1 DEF IInv, FetchedOK
  <2>13. FiledOK'
    BY <1>2 DEF IInv, FiledOK
  <2> QED
    BY <2>10, <2>11, <2>12, <2>13 DEF IInv
<1> QED
  BY <1>4, <1>5

LEMMA RecordRefusalsOK ==
  ASSUME IInv, NEW u \in Workers, RecordRefusals(u)
  PROVE  IInv'
<1>1. UNCHANGED <<clock, pending, sweep, file, loaded, reloads, latest, restored, omitted, absent>>
  BY DEF RecordRefusals, seenByProperties
<1>2. records[u].refused \in SUBSET Windows
  <2>1. records[u] \in Records /\ records[u].at = "refuse"
    BY DEF RecordRefusals, IInv, StoreTypeOK
  <2> QED
    BY <2>1 DEF Records, NoRecord
<1>3. /\ records' \in [Workers -> Records]
      /\ \A v \in Workers : records'[v].at = "merge" => records'[v].stamp <= clock
  <2>1. records' = [records EXCEPT ![u] = NoRecord]
    BY DEF RecordRefusals
  <2>2. NoRecord \in Records /\ NoRecord.at = "none"
    BY DEF Records, NoRecord
  <2>3. records' \in [Workers -> Records]
    BY <2>1, <2>2 DEF IInv, StoreTypeOK
  <2>4. \A v \in Workers : records'[v].at = "merge" => records'[v].stamp <= clock
    BY <2>1, <2>2 DEF IInv, StoreTypeOK
  <2> QED
    BY <2>3, <2>4
<1>4. CASE entry = NoEntry
  <2>1. entry' = entry
    BY <1>4 DEF RecordRefusals
  <2>2. StoreTypeOK'
    BY <1>1, <1>3, <2>1 DEF IInv, StoreTypeOK
  <2>3. EntriesOK'
    BY <1>1, <2>1, MemoryKept DEF IInv, StoreTypeOK, EntriesOK, memory
  <2>4. FetchedOK' /\ FiledOK'
    BY <1>1, <2>1 DEF IInv, FetchedOK, FiledOK
  <2> QED
    BY <2>2, <2>3, <2>4 DEF IInv
<1>5. CASE entry # NoEntry
  <2>1. PICK changed \in SUBSET records[u].refused : entry' = [entry EXCEPT !.order = @ \cup changed]
    BY <1>5 DEF RecordRefusals
  <2>2. entry \in Entries /\ Dated(entry) /\ pending = NoEntry
    BY <1>5 DEF IInv, StoreTypeOK, EntriesOK
  <2>3. /\ entry' \in Entries /\ entry'.held = entry.held /\ entry'.seen = entry.seen
        /\ entry'.observed = entry.observed /\ entry.order \subseteq entry'.order
    BY <1>2, <2>1, <2>2 DEF Entries
  <2>4. StoreTypeOK'
    BY <1>1, <1>3, <2>3 DEF IInv, StoreTypeOK
  <2>5. Dated(entry)'
    BY <1>1, <2>2, <2>3 DEF Dated
  <2>6. EntriesOK'
    BY <1>1, <2>2, <2>3, <2>5, NoEntryApart DEF EntriesOK
  <2>7. FetchedOK' /\ FiledOK'
    BY <1>1, <1>5, <2>3, NoEntryApart DEF IInv, FetchedOK, FiledOK
  <2> QED
    BY <2>4, <2>6, <2>7 DEF IInv
<1> QED
  BY <1>4, <1>5

\* A load's reading is older than anything this process read, and taken only when the
\* store has none as new; then nothing it knows to be gone is in it.
LEMMA LoadOK ==
  ASSUME IInv, Load
  PROVE  IInv'
<1>1. UNCHANGED <<clock, sweep, records, reloads, omitted>> /\ loaded' = TRUE /\ file' \in {file, NoEntry}
  BY DEF Load
<1>2. sweep.at = "idle" /\ restored = Never /\ ~loaded
  BY DEF Load, Idle, IInv, FiledOK
<1>3. absent' \in {0, 1, 2} /\ (entry = NoEntry => absent' # 0)
  BY AbsentCounts DEF Load, IInv, StoreTypeOK
<1>4. FetchedOK'
  BY <1>1, <1>2 DEF FetchedOK
<1>5. FiledOK'
  BY <1>1 DEF IInv, FiledOK
<1>6. CASE file = NoEntry
  <2>1. UNCHANGED <<memory, latest, restored>>
    BY <1>6 DEF Load
  <2>2. StoreTypeOK'
    BY <1>1, <1>3, <2>1 DEF IInv, StoreTypeOK, memory
  <2>3. EntriesOK'
    BY <1>1, <1>3, <2>1, MemoryKept DEF IInv, StoreTypeOK
  <2> QED
    BY <1>4, <1>5, <2>2, <2>3 DEF IInv
<1>7. CASE file # NoEntry
  <2>1. /\ entry' = IF entry = NoEntry THEN NoEntry ELSE Imported(entry)
        /\ pending' = IF entry # NoEntry THEN pending
                      ELSE IF ReadingTaken THEN WithReading(Imported(pending))
                      ELSE Imported(pending)
        /\ latest' = IF ReadingTaken THEN file.held ELSE latest
        /\ restored' = IF ReadingTaken THEN file.observed ELSE restored
    BY <1>7 DEF Load
  <2>2. file \in Entries /\ file.order \in SUBSET Windows /\ file.held \in [Windows -> Instants]
        /\ file.observed \in Instants /\ file.observed <= clock
        /\ (\A w \in Windows : file.held[w] <= file.observed)
    BY <1>7 DEF IInv, StoreTypeOK, FiledOK, Entries
  <2>3. ASSUME NEW e \in Entries
        PROVE  /\ Imported(e) \in Entries /\ Imported(e).held = e.held /\ Imported(e).seen = e.seen
               /\ Imported(e).observed = e.observed /\ e.order \subseteq Imported(e).order
    <3>1. Imported(e) = [e EXCEPT !.order = @ \cup file.order]
      BY NoEntryApart DEF Imported
    <3> QED
      BY <2>2, <3>1 DEF Entries
  <2>4. CASE entry # NoEntry
    <3>1. entry' = Imported(entry) /\ pending' = pending /\ pending = NoEntry
          /\ latest' = latest /\ restored' = restored
      BY <2>1, <2>4 DEF ReadingTaken, IInv, EntriesOK
    <3>2. entry \in Entries /\ Dated(entry)
      BY <2>4 DEF IInv, StoreTypeOK, EntriesOK
    <3>3. StoreTypeOK'
      BY <1>1, <1>3, <2>3, <3>1, <3>2 DEF IInv, StoreTypeOK
    <3>4. Dated(entry)'
      BY <1>1, <2>3, <3>1, <3>2 DEF Dated
    <3>5. EntriesOK'
      BY <2>3, <3>1, <3>2, <3>4, NoEntryApart DEF EntriesOK
    <3> QED
      BY <1>4, <1>5, <3>3, <3>5 DEF IInv
  <2>5. CASE entry = NoEntry
    <3> DEFINE p == Imported(pending)
    <3>1. /\ p \in Entries
          /\ pending = NoEntry => p.held = Nothing /\ p.seen = Nothing /\ p.observed = Never
          /\ pending # NoEntry => /\ p.held = pending.held /\ p.seen = pending.seen
                                  /\ p.observed = pending.observed
                                  /\ pending.order \subseteq p.order
      <4>1. CASE pending = NoEntry
        BY <2>2, <4>1, NewEntryType DEF Imported
      <4>2. CASE pending # NoEntry
        <5>1. pending \in Entries
          BY <4>2 DEF IInv, StoreTypeOK
        <5> QED
          BY <2>3, <4>2, <5>1
      <4> QED
        BY <4>1, <4>2
    <3> HIDE DEF p
    <3>2. CASE ~ReadingTaken
      <4>1. entry' = NoEntry /\ pending' = p /\ latest' = latest /\ restored' = restored
        BY <2>1, <2>5, <3>2 DEF p
      <4>2. StoreTypeOK'
        BY <1>1, <1>3, <3>1, <4>1 DEF IInv, StoreTypeOK
      <4>3. Dated(pending)'
        <5>1. CASE pending = NoEntry
          <6>1. latest = Nothing /\ omitted = Nothing
            BY <2>5, <5>1 DEF IInv, EntriesOK
          <6>2. Never <= clock /\ Never <= Never
            BY DEF IInv, StoreTypeOK, Never
          <6> QED
            BY <1>1, <3>1, <4>1, <5>1, <6>1, <6>2, NothingType DEF Dated
        <5>2. CASE pending # NoEntry
          BY <1>1, <3>1, <4>1, <5>2 DEF IInv, EntriesOK, Dated
        <5> QED
          BY <5>1, <5>2
      <4>4. EntriesOK'
        BY <1>3, <2>5, <3>1, <4>1, <4>3, NoEntryApart DEF EntriesOK
      <4> QED
        BY <1>4, <1>5, <4>2, <4>4 DEF IInv
    <3>3. CASE ReadingTaken
      <4>1. entry' = NoEntry /\ pending' = WithReading(p) /\ latest' = file.held /\ restored' = file.observed
        BY <2>1, <2>5, <3>3 DEF p
      <4>2. file.observed > p.observed /\ file.observed \in Int /\ p.observed \in Instants
        BY <2>2, <3>1, <3>3, InstantsType DEF ReadingTaken, p, Entries
      <4> DEFINE seen == [w \in Windows |-> IF file.held[w] = Never THEN Never ELSE file.observed]
      <4>3. /\ WithReading(p) = [p EXCEPT !.held = file.held, !.observed = file.observed, !.seen = seen]
            /\ seen \in [Windows -> Instants]
        BY <2>2, InstantsType DEF WithReading
      <4>4. /\ pending' \in Entries /\ pending'.held = file.held /\ pending'.seen = seen
            /\ pending'.observed = file.observed
        BY <2>2, <3>1, <4>1, <4>3 DEF Entries
      <4>5. \A w \in Windows : omitted[w] = Never
        <5>1. SUFFICES ASSUME NEW w \in Windows, omitted[w] # Never PROVE FALSE
          OBVIOUS
        <5>2. file.observed <= omitted[w] /\ omitted[w] \in Int
          BY <1>2, <1>7, <5>1, InstantsType DEF IInv, StoreTypeOK, FiledOK
        <5>3. pending # NoEntry
          BY <2>5, <5>1, NothingType DEF IInv, EntriesOK
        <5>4. omitted[w] <= p.observed
          BY <3>1, <5>3 DEF IInv, EntriesOK, Dated
        <5>5. p.observed \in Int
          BY <4>2, InstantsType
        <5> QED
          BY <4>2, <5>2, <5>4, <5>5
      <4>6. file.observed # Never /\ Never <= file.observed /\ Never <= Never /\ Never <= clock
        <5>1. p.observed >= -1 /\ p.observed \in Int
          BY <4>2 DEF Instants, Never
        <5>2. clock \in Nat
          BY DEF IInv, StoreTypeOK
        <5> QED
          BY <4>2, <5>1, <5>2 DEF Never
      <4>7. \A w \in Windows : seen[w] = IF file.held[w] = Never THEN Never ELSE file.observed
        OBVIOUS
      <4> HIDE DEF seen
      <4>8. StoreTypeOK'
        BY <1>1, <1>3, <2>2, <4>1, <4>4 DEF IInv, StoreTypeOK
      <4>9. Dated(pending)'
        <5>1. ASSUME NEW w \in Windows
              PROVE  /\ seen[w] <= clock /\ file.held[w] <= file.observed
                     /\ file.held[w] <= seen[w]
                     /\ omitted[w] <= seen[w] /\ omitted[w] <= file.observed
                     /\ omitted[w] # Never => w \in pending'.order \cap Unscoped
                     /\ file.held[w] # Never => /\ file.held[w] = seen[w] \/ seen[w] <= file.observed
                                                /\ file.held[w] <= file.held[w]
                                                /\ omitted[w] <= file.held[w]
          <6>1. file.held[w] \in Int /\ file.held[w] >= Never
            BY <2>2, InstantsType DEF Instants
          <6>2. CASE file.held[w] = Never
            BY <2>2, <4>5, <4>6, <4>7, <6>2
          <6>3. CASE file.held[w] # Never
            BY <2>2, <4>2, <4>5, <4>6, <4>7, <6>1, <6>3
          <6> QED
            BY <6>2, <6>3
        <5>2. pending'.observed <= clock' /\ pending'.observed # Never
          BY <1>1, <2>2, <4>4, <4>6
        <5> QED
          BY <1>1, <4>1, <4>4, <5>1, <5>2 DEF Dated
      <4>10. EntriesOK'
        BY <1>3, <2>5, <4>1, <4>4, <4>9, NoEntryApart DEF EntriesOK
      <4> QED
        BY <1>4, <1>5, <4>8, <4>10 DEF IInv
    <3> QED
      BY <3>2, <3>3
  <2> QED
    BY <2>4, <2>5
<1> QED
  BY <1>6, <1>7

LEMMA ReloadOK ==
  ASSUME IInv, Reload
  PROVE  IInv'
<1>1. sweep' \in Sweeps /\ sweep'.at = "idle"
  BY InstantsType DEF Reload, Idle, Sweeps
<1>2. records' \in [Workers -> Records] /\ \A v \in Workers : records'[v].at = "none"
  BY DEF Reload, Records, NoRecord
<1>3. restored' \in Instants /\ restored' <= clock
  <2>1. restored' = Never /\ Never <= clock
    BY DEF Reload, IInv, StoreTypeOK, Never
  <2> QED
    BY <2>1, InstantsType
<1>4. /\ entry' = NoEntry /\ pending' = NoEntry /\ loaded' = FALSE
      /\ latest' = Nothing /\ omitted' = Nothing /\ restored' = Never /\ absent' = 1
      /\ clock' = clock /\ file' = file /\ reloads' \in Nat
  BY DEF Reload, IInv, StoreTypeOK
<1>5. StoreTypeOK'
  BY <1>1, <1>2, <1>3, <1>4, NothingType DEF IInv, StoreTypeOK
<1>6. EntriesOK' /\ FetchedOK'
  BY <1>1, <1>4 DEF EntriesOK, FetchedOK
<1>7. FiledOK'
  BY <1>4, NothingType DEF IInv, FiledOK
<1> QED
  BY <1>5, <1>6, <1>7 DEF IInv

LEMMA StepOK == IInv /\ [StoreNext]_storeVars => IInv'
<1> SUFFICES ASSUME IInv, [StoreNext]_storeVars PROVE IInv'
  OBVIOUS
<1>1. CASE UNCHANGED storeVars
  <2>1. UNCHANGED <<clock, memory, sweep, records, file, loaded, reloads, latest, restored, omitted, absent>>
    BY <1>1 DEF storeVars, seenByProperties
  <2>2. StoreTypeOK'
    BY <2>1 DEF IInv, StoreTypeOK, memory
  <2>3. EntriesOK'
    BY <2>1, MemoryKept DEF IInv, StoreTypeOK, EntriesOK
  <2>4. FetchedOK' /\ FiledOK'
    BY <2>1 DEF IInv, FetchedOK, FiledOK, memory
  <2> QED
    BY <2>2, <2>3, <2>4 DEF IInv
<1> QED
  BY <1>1, ListOK, FetchedStep, PutOK, PruneOK, CutShortOK, DeliverOK, MergeOK, RecordRefusalsOK,
     SaveOK, LoadOK, ReloadOK, TickOK
  DEF StoreNext

LEMMA Invariance == StoreSpec => []IInv
  BY InitOK, StepOK, PTL DEF StoreSpec

-----------------------------------------------------------------------------
(* What it gives *)

\* However late responses come and whatever poll, prune, restore or load they meet, a
\* window shows no reading older than one of it that was delivered before.
THEOREM LatestIsHeld == StoreSpec => []LatestHeld
<1>1. IInv => LatestHeld
  <2> SUFFICES ASSUME IInv, entry # NoEntry, NEW w \in Windows, entry.held[w] # Never
               PROVE  entry.held[w] >= latest[w]
    BY DEF LatestHeld
  <2>1. latest[w] <= entry.held[w]
    BY DEF IInv, EntriesOK, Dated
  <2>2. latest[w] \in Int /\ entry.held[w] \in Int
    BY InstantsType DEF IInv, StoreTypeOK, Entries
  <2> QED
    BY <2>1, <2>2
<1> QED
  BY <1>1, Invariance, PTL

\* A window the usage endpoint stopped reporting is not brought back by a response
\* answered before, nor by the file another build left.
THEOREM GoneStays == StoreSpec => []GoneStaysGone
<1>1. IInv => GoneStaysGone
  <2> SUFFICES ASSUME IInv, entry # NoEntry, NEW w \in Unscoped, entry.held[w] # Never
               PROVE  entry.held[w] >= omitted[w]
    BY DEF GoneStaysGone
  <2>1. w \in Windows
    BY DEF Windows
  <2>2. omitted[w] <= entry.held[w]
    BY <2>1 DEF IInv, EntriesOK, Dated
  <2>3. omitted[w] \in Int /\ entry.held[w] \in Int
    BY <2>1, InstantsType DEF IInv, StoreTypeOK, Entries
  <2> QED
    BY <2>2, <2>3
<1> QED
  BY <1>1, Invariance, PTL

\* The history of a credential outlasts everything but a second listing without it, or the
\* end of the build, and a load adds the file's to it.
THEOREM HistoryIsKept == StoreSpec => HistoryKept
<1>1. IInv /\ [StoreNext]_storeVars =>
        [\/ reloads' # reloads \/ absent' = 2
         \/ Recorded \cup (IF loaded' # loaded THEN OrderOf(file) ELSE {}) \subseteq Recorded']_storeVars
  <2> SUFFICES ASSUME IInv, StoreNext, reloads' = reloads, absent' # 2
               PROVE  Recorded \cup (IF loaded' # loaded THEN OrderOf(file) ELSE {}) \subseteq Recorded'
    OBVIOUS
  <2> DEFINE Goal == Recorded \cup (IF loaded' # loaded THEN OrderOf(file) ELSE {}) \subseteq Recorded'
  <2>1. ASSUME UNCHANGED <<memory, loaded>> PROVE Goal
    BY <2>1 DEF memory, Recorded, OrderOf
  <2>2. ASSUME NEW listed \in BOOLEAN, List(listed) PROVE Goal
    <3>1. loaded' = loaded
      BY <2>2 DEF List
    <3> QED
      BY <2>1, <2>2, <3>1 DEF List, Recorded, OrderOf, memory
  <2>3. ASSUME Put PROVE Goal
    <3> DEFINE prior == IF entry = NoEntry THEN adopt ELSE entry
    <3>1. loaded' = loaded /\ sweep.at = "fetched"
      BY <2>3 DEF Put
    <3>2. CASE sweep.snap = {} /\ entry # NoEntry
      BY <2>1, <2>3, <3>1, <3>2 DEF Put
    <3>3. CASE ~(sweep.snap = {} /\ entry # NoEntry)
      <4>1. entry' = PutEntry(prior, sweep.stamp, sweep.snap)
        BY <2>3, <3>3 DEF Put
      <4>2. prior.order \subseteq entry'.order
        BY <4>1 DEF PutEntry
      <4>3. prior \in Entries /\ (entry = NoEntry => prior.order = OrderOf(pending))
        BY <3>1, PriorFacts
      <4>4. Recorded \subseteq prior.order
        BY <4>3 DEF Recorded, OrderOf, IInv, EntriesOK
      <4>5. entry' # NoEntry
        <5>1. sweep.stamp \in Nat /\ (\A w \in Windows : prior.seen[w] <= clock)
          BY <3>1, PriorFacts
        <5>2. sweep.snap \in SUBSET Windows /\ clock \in Int /\ sweep.stamp <= clock
          BY <3>1 DEF IInv, StoreTypeOK, Sweeps, FetchedOK
        <5> HIDE DEF prior
        <5>3. entry' \in Entries
          BY <4>1, <4>3, <5>1, <5>2, PutFields
        <5> QED
          BY <5>3, NoEntryApart
      <4> QED
        BY <3>1, <4>2, <4>4, <4>5 DEF Recorded, OrderOf
    <3> QED
      BY <3>2, <3>3
  <2>4. ASSUME Prune PROVE Goal
    <3>1. loaded' = loaded /\ absent \in {0, 1, 2}
      BY <2>4 DEF Prune, IInv, StoreTypeOK
    <3>2. CASE sweep.listed
      BY <2>1, <2>4, <3>1, <3>2 DEF Prune
    <3>3. CASE ~sweep.listed
      <4>1. entry' = NoEntry /\ pending' = PrunedPending /\ absent' = Min({2, absent + 1})
        BY <2>4, <3>3 DEF Prune
      <4>2. absent = 0
        BY <3>1, <4>1, AbsentCounts
      <4>3. entry # NoEntry /\ pending = NoEntry
        BY <4>2 DEF IInv, EntriesOK
      <4> QED
        BY <3>1, <4>1, <4>3 DEF PrunedPending, Recorded, OrderOf
    <3> QED
      BY <3>2, <3>3
  <2>5. ASSUME NEW u \in Workers, MergeHeaders(u) PROVE Goal
    <3>1. loaded' = loaded
      BY <2>5 DEF MergeHeaders
    <3>2. CASE ParseResponseHeaders(records[u].resp) = {}
      BY <2>1, <2>5, <3>1, <3>2 DEF MergeHeaders
    <3>3. CASE ParseResponseHeaders(records[u].resp) # {}
      <4>1. entry' = MergeEntry(MergeTarget, records[u].resp, records[u].stamp)
        BY <2>5, <3>3 DEF MergeHeaders
      <4>2. MergeTarget.order \subseteq entry'.order
        BY <4>1 DEF MergeEntry
      <4>3. entry' # NoEntry
        <5>1. records[u] \in Records /\ records[u].at = "merge"
          BY <2>5 DEF MergeHeaders, IInv, StoreTypeOK
        <5>2. records[u].stamp \in Nat /\ records[u].resp \in Responses
          BY <5>1 DEF Records, NoRecord
        <5>3. entry' \in Entries
          BY <4>1, <5>2, TargetDated, MergeFields
        <5> QED
          BY <5>3, NoEntryApart
      <4> QED
        BY <3>1, <4>2, <4>3, TargetDated DEF Recorded, OrderOf
    <3> QED
      BY <3>2, <3>3
  <2>6. ASSUME NEW u \in Workers, RecordRefusals(u) PROVE Goal
    <3>1. loaded' = loaded /\ pending' = pending
      BY <2>6 DEF RecordRefusals
    <3>2. CASE entry = NoEntry
      BY <2>1, <2>6, <3>1, <3>2 DEF RecordRefusals, memory
    <3>3. CASE entry # NoEntry
      <4>1. PICK changed \in SUBSET records[u].refused : entry' = [entry EXCEPT !.order = @ \cup changed]
        BY <2>6, <3>3 DEF RecordRefusals
      <4>2. entry \in Entries
        BY <3>3 DEF IInv, StoreTypeOK
      <4>3. entry.order \subseteq entry'.order
        BY <4>1, <4>2 DEF Entries
      <4>4. entry' # NoEntry
        <5>1. records[u].refused \in SUBSET Windows
          BY <2>6 DEF RecordRefusals, IInv, StoreTypeOK, Records, NoRecord
        <5>2. entry' \in Entries
          BY <4>1, <4>2, <5>1 DEF Entries
        <5> QED
          BY <5>2, NoEntryApart
      <4> QED
        BY <3>1, <3>3, <4>3, <4>4 DEF Recorded, OrderOf, IInv, EntriesOK
    <3> QED
      BY <3>2, <3>3
  <2>7. ASSUME Load PROVE Goal
    <3>1. CASE file = NoEntry
      BY <2>7, <3>1 DEF Load, memory, Recorded, OrderOf
    <3>2. CASE file # NoEntry
      <4>1. /\ entry' = IF entry = NoEntry THEN NoEntry ELSE Imported(entry)
            /\ pending' = IF entry # NoEntry THEN pending
                          ELSE IF ReadingTaken THEN WithReading(Imported(pending))
                          ELSE Imported(pending)
        BY <2>7, <3>2 DEF Load
      <4>2. /\ file.order \in SUBSET Windows /\ file.held \in [Windows -> Instants]
            /\ file.observed \in Instants
        BY <3>2 DEF IInv, StoreTypeOK, Entries
      <4>3. ASSUME NEW e \in {NoEntry} \cup Entries
            PROVE  Imported(e) \in Entries /\ OrderOf(e) \cup file.order \subseteq Imported(e).order
        <5>1. CASE e = NoEntry
          BY <4>2, <5>1, NewEntryType DEF Imported, OrderOf
        <5>2. CASE e # NoEntry
          <6>1. Imported(e) = [e EXCEPT !.order = @ \cup file.order] /\ e \in Entries
            BY <5>2 DEF Imported
          <6>2. Imported(e) \in Entries /\ Imported(e).order = e.order \cup file.order
            BY <4>2, <6>1 DEF Entries
          <6> QED
            BY <5>2, <6>2 DEF OrderOf
        <5> QED
          BY <5>1, <5>2
      <4>4. CASE entry # NoEntry
        <5>1. entry' = Imported(entry) /\ entry' # NoEntry
          BY <4>1, <4>3, <4>4, NoEntryApart DEF IInv, StoreTypeOK
        <5>2. OrderOf(entry) \cup file.order \subseteq OrderOf(entry')
          BY <4>3, <5>1 DEF OrderOf, IInv, StoreTypeOK
        <5>3. OrderOf(pending) = {}
          BY <4>4 DEF IInv, EntriesOK, OrderOf
        <5> QED
          BY <3>2, <5>2, <5>3 DEF Recorded, OrderOf
      <4>5. CASE entry = NoEntry
        <5> DEFINE p == Imported(pending)
        <5>1. p \in Entries /\ OrderOf(pending) \cup file.order \subseteq p.order
          BY <4>3 DEF IInv, StoreTypeOK
        <5> HIDE DEF p
        <5>2. pending' = p \/ pending' = WithReading(p)
          BY <4>1, <4>5 DEF p
        <5>3. WithReading(p).order = p.order /\ WithReading(p) \in Entries
          <6>1. [w \in Windows |-> IF file.held[w] = Never THEN Never ELSE file.observed]
                  \in [Windows -> Instants]
            BY <4>2, InstantsType
          <6> QED
            BY <4>2, <5>1, <6>1 DEF WithReading, Entries
        <5>4. pending' # NoEntry /\ pending'.order = p.order
          BY <5>1, <5>2, <5>3, NoEntryApart
        <5> QED
          BY <3>2, <4>5, <5>1, <5>4 DEF Recorded, OrderOf
      <4> QED
        BY <4>4, <4>5
    <3> QED
      BY <3>1, <3>2
  <2>8. ~Reload
    BY DEF Reload, IInv, StoreTypeOK
  <2> QED
    BY <2>1, <2>2, <2>3, <2>4, <2>5, <2>6, <2>7, <2>8
    DEF StoreNext, Fetched, CutShort, Deliver, Save, Tick
<1> QED
  BY <1>1, Invariance, PTL DEF StoreSpec, HistoryKept

-----------------------------------------------------------------------------
(* Samples: the samples at kept indices *)

\* The k-th index kept has k kept up to it, so the order is kept too.
LEMMA NthIs ==
  ASSUME NEW n \in Nat, NEW keep \in SUBSET (1 .. n)
  PROVE  /\ Cardinality(keep) \in Nat /\ Cardinality(keep) <= n
         /\ \A k \in 1 .. Cardinality(keep) :
              Nth(keep, k) \in keep /\ Cardinality({j \in keep : j <= Nth(keep, k)}) = k
         /\ \A k, l \in 1 .. Cardinality(keep) : k < l => Nth(keep, k) < Nth(keep, l)
         /\ \A i \in keep : \E k \in 1 .. Cardinality(keep) : Nth(keep, k) = i
<1> DEFINE N == Cardinality(keep)
           upto(i) == {j \in keep : j <= i}
           rank == [i \in keep |-> Cardinality(upto(i))]
<1>1. IsFiniteSet(keep) /\ N \in Nat /\ N <= n
  <2>1. IsFiniteSet(1 .. n) /\ Cardinality(1 .. n) = n
    BY FS_Interval
  <2> QED
    BY <2>1, FS_Subset, FS_CardinalityType
<1>2. \A i \in keep : IsFiniteSet(upto(i)) /\ Cardinality(upto(i)) \in 1 .. N
  <2>1. SUFFICES ASSUME NEW i \in keep PROVE IsFiniteSet(upto(i)) /\ Cardinality(upto(i)) \in 1 .. N
    OBVIOUS
  <2>2. upto(i) \in SUBSET keep /\ i \in upto(i)
    OBVIOUS
  <2>3. IsFiniteSet(upto(i)) /\ Cardinality(upto(i)) <= N
    BY <1>1, <2>2, FS_Subset
  <2>4. Cardinality(upto(i)) \in Nat /\ Cardinality(upto(i)) # 0
    BY <2>2, <2>3, FS_CardinalityType, FS_EmptySet
  <2> QED
    BY <1>1, <2>3, <2>4
<1>3. \A i, j \in keep : i < j => rank[i] < rank[j]
  <2>1. SUFFICES ASSUME NEW i \in keep, NEW j \in keep, i < j PROVE rank[i] < rank[j]
    OBVIOUS
  <2>2. upto(i) \in SUBSET (upto(j) \ {j}) /\ j \in upto(j)
    <3>1. i \in Int /\ j \in Int /\ \A x \in keep : x \in Int
      OBVIOUS
    <3>2. \A x \in upto(i) : x \in upto(j) /\ x # j
      BY <2>1, <3>1
    <3>3. j \in upto(j)
      BY <3>1
    <3> HIDE DEF upto
    <3> QED
      BY <3>2, <3>3
  <2>3. IsFiniteSet(upto(j) \ {j}) /\ Cardinality(upto(j) \ {j}) = Cardinality(upto(j)) - 1
    BY <1>2, <2>2, FS_RemoveElement
  <2>4. Cardinality(upto(i)) <= Cardinality(upto(j) \ {j})
    BY <2>2, <2>3, FS_Subset
  <2>5. Cardinality(upto(i)) \in Nat /\ Cardinality(upto(j)) \in Nat
    BY <1>2
  <2> HIDE DEF upto
  <2> QED
    BY <2>3, <2>4, <2>5
<1>4. rank \in [keep -> 1 .. N]
  BY <1>2
<1>5. \A i, j \in keep : rank[i] = rank[j] => i = j
  <2> HIDE DEF rank
  <2>1. \A i \in keep : rank[i] \in Int /\ i \in Int
    BY <1>1, <1>4
  <2> QED
    BY <1>3, <2>1
<1>6. \A k \in 1 .. N : \E i \in keep : rank[i] = k
  <2>1. rank \in Injection(keep, 1 .. N)
    BY <1>4, <1>5 DEF Injection, IsInjective
  <2>2. IsFiniteSet(1 .. N) /\ Cardinality(1 .. N) = N
    BY <1>1, FS_Interval
  <2>3. rank \in Surjection(keep, 1 .. N)
    BY <2>1, <2>2, FS_Injection
  <2> QED
    BY <2>3 DEF Surjection
<1>7. \A k \in 1 .. N : Nth(keep, k) \in keep /\ rank[Nth(keep, k)] = k
  BY <1>6 DEF Nth
<1>8. \A k, l \in 1 .. N : k < l => Nth(keep, k) < Nth(keep, l)
  <2>1. SUFFICES ASSUME NEW k \in 1 .. N, NEW l \in 1 .. N, k < l PROVE Nth(keep, k) < Nth(keep, l)
    OBVIOUS
  <2>2. PICK a, b : a = Nth(keep, k) /\ b = Nth(keep, l)
    OBVIOUS
  <2>3. a \in keep /\ b \in keep /\ rank[a] = k /\ rank[b] = l
    BY <1>7, <2>2
  <2>4. a \in Int /\ b \in Int
    BY <2>3
  <2> HIDE DEF rank
  <2>5. ~ (b < a) /\ a # b
    BY <1>1, <1>3, <2>1, <2>3
  <2> QED
    BY <2>2, <2>4, <2>5
<1>9. \A i \in keep : \E k \in 1 .. N : Nth(keep, k) = i
  <2> HIDE DEF rank
  <2> QED
    BY <1>4, <1>5, <1>7
<1>10. \A k \in 1 .. N : Cardinality({j \in keep : j <= Nth(keep, k)}) = k
  BY <1>7
<1> HIDE DEF rank
<1> QED
  BY <1>1, <1>7, <1>8, <1>9, <1>10

LEMMA KeptIs ==
  ASSUME NEW S, NEW seq \in Seq(S), NEW keep \in SUBSET DOMAIN seq
  PROVE  /\ Kept(seq, keep) \in Seq(S)
         /\ Len(Kept(seq, keep)) = Cardinality(keep) /\ Cardinality(keep) \in Nat
         /\ Cardinality(keep) <= Len(seq)
         /\ \A k \in DOMAIN Kept(seq, keep) :
              Kept(seq, keep)[k] = seq[Nth(keep, k)] /\ Nth(keep, k) \in keep
         /\ \A k, l \in DOMAIN Kept(seq, keep) : k < l => Nth(keep, k) < Nth(keep, l)
         /\ Len(seq) \in keep => Kept(seq, keep) # <<>> /\ Last(Kept(seq, keep)) = Last(seq)
         /\ 1 \in keep => Kept(seq, keep) # <<>> /\ Kept(seq, keep)[1] = seq[1]
         /\ keep = DOMAIN seq => Kept(seq, keep) = seq
<1> DEFINE N == Cardinality(keep)
           n == Len(seq)
           out == Kept(seq, keep)
<1>1. n \in Nat /\ DOMAIN seq = 1 .. n /\ keep \in SUBSET (1 .. n) /\ \A i \in keep : seq[i] \in S
  OBVIOUS
<1>2. /\ N \in Nat /\ N <= n
      /\ \A k \in 1 .. N : Nth(keep, k) \in keep /\ Cardinality({j \in keep : j <= Nth(keep, k)}) = k
      /\ \A k, l \in 1 .. N : k < l => Nth(keep, k) < Nth(keep, l)
      /\ \A i \in keep : \E k \in 1 .. N : Nth(keep, k) = i
  BY <1>1, NthIs, Zenon
<1>3. out = [k \in 1 .. N |-> seq[Nth(keep, k)]]
  BY DEF Kept
<1> HIDE DEF N, n
<1>4. \A k \in 1 .. N : seq[Nth(keep, k)] \in S /\ Nth(keep, k) \in 1 .. n
  BY <1>1, <1>2
<1>5. out \in Seq(S) /\ Len(out) = N /\ DOMAIN out = 1 .. N
  <2> HIDE DEF out
  <2> QED
    BY <1>2, <1>3, <1>4
<1>6. \A k \in 1 .. N : out[k] = seq[Nth(keep, k)]
  BY <1>3
<1> HIDE DEF out
<1>7. ASSUME n \in keep PROVE out # <<>> /\ Last(out) = Last(seq)
  <2>1. PICK k \in 1 .. N : Nth(keep, k) = n
    BY <1>2, <1>7
  <2>2. N \in 1 .. N /\ Nth(keep, N) \in 1 .. n
    BY <1>2, <1>4, <2>1
  <2>3. k = N
    BY <1>1, <1>2, <2>1, <2>2
  <2> QED
    BY <1>5, <1>6, <2>1, <2>2, <2>3 DEF Last, n
<1>8. ASSUME 1 \in keep PROVE out # <<>> /\ out[1] = seq[1]
  <2>1. PICK k \in 1 .. N : Nth(keep, k) = 1
    BY <1>2, <1>8
  <2>2. 1 \in 1 .. N /\ Nth(keep, 1) \in 1 .. n
    BY <1>2, <1>4, <2>1
  <2>3. k = 1
    BY <1>1, <1>2, <2>1, <2>2
  <2> QED
    BY <1>5, <1>6, <2>1, <2>2, <2>3
<1>9. ASSUME keep = DOMAIN seq PROVE out = seq
  <2>1. keep = 1 .. n /\ N = n
    BY <1>1, <1>9, FS_Interval DEF N
  <2>2. \A k \in 1 .. N : Nth(keep, k) = k
    <3>1. SUFFICES ASSUME NEW k \in 1 .. N PROVE Nth(keep, k) = k
      OBVIOUS
    <3>2. PICK i : i = Nth(keep, k)
      OBVIOUS
    <3>3. i \in 1 .. n /\ Cardinality({j \in keep : j <= i}) = k
      BY <1>2, <2>1, <3>2
    <3>4. {j \in keep : j <= i} = 1 .. i
      BY <1>1, <2>1, <3>3
    <3>5. Cardinality(1 .. i) = i
      BY <1>1, <3>3, FS_Interval
    <3> QED
      BY <3>2, <3>3, <3>4, <3>5
  <2>3. \A k \in 1 .. n : out[k] = seq[k]
    BY <1>6, <2>1, <2>2
  <2> QED
    BY <1>5, <2>1, <2>3 DEF n
<1> QED
  BY <1>2, <1>5, <1>6, <1>7, <1>8, <1>9 DEF N, n, out

LEMMA KeptClimbs ==
  ASSUME NEW seq \in Seq(Sample), NEW keep \in SUBSET DOMAIN seq, Climbs(seq)
  PROVE  Climbs(Kept(seq, keep))
<1>1. SUFFICES ASSUME NEW k \in DOMAIN Kept(seq, keep), NEW l \in DOMAIN Kept(seq, keep), k < l
               PROVE  /\ At(Kept(seq, keep)[k]) < At(Kept(seq, keep)[l])
                      /\ Level(Kept(seq, keep)[k]) <= Level(Kept(seq, keep)[l])
  BY DEF Climbs
<1>2. /\ Kept(seq, keep)[k] = seq[Nth(keep, k)] /\ Kept(seq, keep)[l] = seq[Nth(keep, l)]
      /\ Nth(keep, k) \in DOMAIN seq /\ Nth(keep, l) \in DOMAIN seq /\ Nth(keep, k) < Nth(keep, l)
  BY <1>1, KeptIs
<1> QED
  BY <1>2 DEF Climbs

LEMMA DivMono ==
  ASSUME NEW d \in Nat \ {0}, NEW a \in Int, NEW b \in Int, a <= b
  PROVE  a \div d \in Int /\ b \div d \in Int /\ a \div d <= b \div d
<1> DEFINE p == a \div d
           q == b \div d
<1>1. p \in Int /\ q \in Int
  OBVIOUS
<1>2. d * p <= a /\ b < d * q + d
  OBVIOUS
<1>3. ASSUME q < p PROVE FALSE
  <2>1. p - q - 1 \in Nat
    BY <1>1, <1>3
  <2> HIDE DEF p, q
  <2>2. d * (p - q - 1) >= 0
    BY <2>1
  <2>3. d * (p - q - 1) = d * p - d * q - d
    BY <1>1
  <2>4. d * p \in Int /\ d * q \in Int
    BY <1>1
  <2> QED
    BY <1>2, <2>2, <2>3, <2>4
<1> QED
  BY <1>1, <1>3

-----------------------------------------------------------------------------
(* A reading in the newest cycle *)

LEMMA SampleFields ==
  ASSUME NEW s \in Sample
  PROVE  At(s) \in Int /\ Level(s) \in Int
BY DEF Sample, At, Level

LEMMA CycleFields ==
  ASSUME NEW c \in CycleSet, WellFormed(c)
  PROVE  /\ c.samples \in Seq(Sample) /\ Len(c.samples) \in Nat \ {0}
         /\ DOMAIN c.samples = 1 .. Len(c.samples)
         /\ \A i \in DOMAIN c.samples :
              c.samples[i] \in Sample /\ At(c.samples[i]) \in Int /\ Level(c.samples[i]) \in Int
         /\ Last(c.samples) = c.samples[Len(c.samples)]
         /\ Last(c.samples) \in Sample /\ At(Last(c.samples)) \in Int /\ Level(Last(c.samples)) \in Int
         /\ c.resetsAt \in Int /\ c.estimated \in BOOLEAN /\ c.until \in Int
<1>1. /\ c.samples \in Seq(Sample) /\ c.samples # <<>>
      /\ c.resetsAt \in Int /\ c.estimated \in BOOLEAN /\ c.until \in Int
  BY DEF CycleSet, WellFormed
<1> DEFINE s == c.samples
<1> HIDE DEF s
<1>2. Len(s) \in Nat \ {0} /\ DOMAIN s = 1 .. Len(s) /\ \A i \in DOMAIN s : s[i] \in Sample
  BY <1>1 DEF s
<1>3. Last(s) = s[Len(s)] /\ Len(s) \in DOMAIN s
  BY <1>2 DEF Last
<1>4. \A i \in DOMAIN s : At(s[i]) \in Int /\ Level(s[i]) \in Int
  BY <1>2, SampleFields
<1> QED
  BY <1>1, <1>2, <1>3, <1>4 DEF s

LEMMA AppendClimbs ==
  ASSUME NEW seq \in Seq(Sample), seq # <<>>, Climbs(seq), NEW s \in Sample,
         At(Last(seq)) < At(s), Level(Last(seq)) <= Level(s)
  PROVE  /\ Append(seq, s) \in Seq(Sample) /\ Append(seq, s) # <<>> /\ Climbs(Append(seq, s))
         /\ \A i \in DOMAIN Append(seq, s) : Append(seq, s)[i] \in {seq[j] : j \in DOMAIN seq} \cup {s}
<1> DEFINE new == Append(seq, s)
<1>1. /\ Len(seq) \in Nat \ {0} /\ DOMAIN seq = 1 .. Len(seq) /\ \A i \in DOMAIN seq : seq[i] \in Sample
      /\ new \in Seq(Sample) /\ Len(new) = Len(seq) + 1 /\ DOMAIN new = 1 .. Len(seq) + 1
      /\ \A i \in DOMAIN seq : new[i] = seq[i]
      /\ new[Len(seq) + 1] = s
      /\ Last(seq) = seq[Len(seq)]
  BY DEF Last
<1> HIDE DEF new
<1>2. \A i \in DOMAIN seq : At(seq[i]) \in Int /\ Level(seq[i]) \in Int
  BY <1>1, SampleFields
<1>3. At(s) \in Int /\ Level(s) \in Int
  BY SampleFields
<1>4. \A i \in DOMAIN seq : At(seq[i]) <= At(Last(seq)) /\ Level(seq[i]) <= Level(Last(seq))
  BY <1>1, <1>2 DEF Climbs
<1>5. \A i \in DOMAIN seq : At(seq[i]) < At(s) /\ Level(seq[i]) <= Level(s)
  <2>1. Len(seq) \in DOMAIN seq
    BY <1>1
  <2> QED
    BY <1>1, <1>2, <1>3, <1>4, <2>1
<1>6. Climbs(new)
  <2>1. SUFFICES ASSUME NEW i \in DOMAIN new, NEW j \in DOMAIN new, i < j
                 PROVE  At(new[i]) < At(new[j]) /\ Level(new[i]) <= Level(new[j])
    BY DEF Climbs
  <2>2. i \in DOMAIN seq
    BY <1>1, <2>1
  <2>3. CASE j \in DOMAIN seq
    BY <1>1, <2>1, <2>2, <2>3 DEF Climbs
  <2>4. CASE j = Len(seq) + 1
    BY <1>1, <1>5, <2>2, <2>4
  <2> QED
    BY <1>1, <2>3, <2>4
<1>7. \A i \in DOMAIN new : new[i] \in {seq[j] : j \in DOMAIN seq} \cup {s}
  <2>1. SUFFICES ASSUME NEW i \in DOMAIN new PROVE (\E j \in DOMAIN seq : new[i] = seq[j]) \/ new[i] = s
    OBVIOUS
  <2> QED
    BY <1>1
<1> QED
  BY <1>1, <1>6, <1>7 DEF new

LEMMA WithLastClimbs ==
  ASSUME NEW seq \in Seq(Sample), seq # <<>>, Climbs(seq), NEW s \in Sample,
         At(Last(seq)) < At(s), Level(Last(seq)) <= Level(s)
  PROVE  /\ WithLast(seq, s) \in Seq(Sample) /\ WithLast(seq, s) # <<>> /\ Climbs(WithLast(seq, s))
         /\ \A i \in DOMAIN WithLast(seq, s) : WithLast(seq, s)[i] \in {seq[j] : j \in DOMAIN seq} \cup {s}
<1> DEFINE new == WithLast(seq, s)
<1>1. /\ Len(seq) \in Nat \ {0} /\ DOMAIN seq = 1 .. Len(seq) /\ \A i \in DOMAIN seq : seq[i] \in Sample
      /\ new \in Seq(Sample) /\ Len(new) = Len(seq) /\ DOMAIN new = 1 .. Len(seq)
      /\ \A i \in DOMAIN seq : i # Len(seq) => new[i] = seq[i]
      /\ new[Len(seq)] = s
      /\ Last(seq) = seq[Len(seq)]
  BY DEF Last, WithLast
<1> HIDE DEF new
<1>2. \A i \in DOMAIN seq : At(seq[i]) \in Int /\ Level(seq[i]) \in Int
  BY <1>1, SampleFields
<1>3. At(s) \in Int /\ Level(s) \in Int
  BY SampleFields
<1>4. \A i \in DOMAIN seq : At(seq[i]) <= At(Last(seq)) /\ Level(seq[i]) <= Level(Last(seq))
  BY <1>1, <1>2 DEF Climbs
<1>5. \A i \in DOMAIN seq : At(seq[i]) < At(s) /\ Level(seq[i]) <= Level(s)
  <2>1. Len(seq) \in DOMAIN seq
    BY <1>1
  <2> QED
    BY <1>1, <1>2, <1>3, <1>4, <2>1
<1>6. Climbs(new)
  <2>1. SUFFICES ASSUME NEW i \in DOMAIN new, NEW j \in DOMAIN new, i < j
                 PROVE  At(new[i]) < At(new[j]) /\ Level(new[i]) <= Level(new[j])
    BY DEF Climbs
  <2>2. i \in DOMAIN seq /\ i # Len(seq) /\ j \in DOMAIN seq
    BY <1>1, <2>1
  <2>3. CASE j # Len(seq)
    BY <1>1, <2>1, <2>2, <2>3 DEF Climbs
  <2>4. CASE j = Len(seq)
    BY <1>1, <1>5, <2>2, <2>4
  <2> QED
    BY <2>3, <2>4
<1>7. \A i \in DOMAIN new : new[i] \in {seq[j] : j \in DOMAIN seq} \cup {s}
  <2>1. SUFFICES ASSUME NEW i \in DOMAIN new PROVE (\E j \in DOMAIN seq : new[i] = seq[j]) \/ new[i] = s
    OBVIOUS
  <2> QED
    BY <1>1
<1> QED
  BY <1>1, <1>6, <1>7 DEF new

\* Samples of old, or of the instant at.
Drawn(new, old, at) ==
  \A i \in DOMAIN new : (\E j \in DOMAIN old : new[i] = old[j]) \/ At(new[i]) = at

LEMMA ExtendOK ==
  ASSUME NEW c \in CycleSet, WellFormed(c), NEW reading \in Sample, NEW estimated \in BOOLEAN
  PROVE  /\ Extend(c, reading, estimated) \in CycleSet /\ WellFormed(Extend(c, reading, estimated))
         /\ Drawn(Extend(c, reading, estimated).samples, c.samples, At(reading))
<1> DEFINE last == Last(c.samples)
           s == IF Level(reading) < Level(last) /\ ~estimated /\ ~SampleEstimated(c, last)
                  THEN <<At(reading), Level(last)>> ELSE reading
           flat == Len(c.samples) >= 2 /\ Level(last) = Level(s)
                   /\ Level(c.samples[Len(c.samples) - 1]) = Level(s)
           new == Extend(c, reading, estimated)
<1>1. /\ c.samples \in Seq(Sample) /\ c.samples # <<>> /\ Climbs(c.samples)
      /\ At(last) \in Int /\ Level(last) \in Int /\ last \in Sample
  BY CycleFields DEF WellFormed
<1>2. /\ s \in Sample /\ At(s) = At(reading) /\ At(s) \in Int /\ Level(s) \in Int
      /\ <<At(s), Level(last)>> \in Sample /\ At(<<At(s), Level(last)>>) = At(s)
      /\ Level(<<At(s), Level(last)>>) = Level(last)
  BY <1>1, SampleFields DEF Sample, At, Level
<1>3. new = IF At(s) <= At(last) \/ Level(s) < Level(last) THEN c
            ELSE IF c.estimated /\ ~estimated
              THEN [c EXCEPT !.estimated = FALSE, !.until = At(last), !.samples = Append(@, s)]
            ELSE IF At(s) - At(last) < FineStep THEN [c EXCEPT !.samples = WithLast(@, s)]
            ELSE IF flat THEN [c EXCEPT !.samples = WithLast(@, <<At(s), Level(last)>>)]
            ELSE [c EXCEPT !.samples = Append(@, s)]
  BY DEF Extend
<1> HIDE DEF s, last, flat, new
<1>4. Drawn(c.samples, c.samples, At(reading))
  BY DEF Drawn
<1>5. CASE At(s) <= At(last) \/ Level(s) < Level(last)
  BY <1>3, <1>4, <1>5 DEF new
<1>6. CASE ~(At(s) <= At(last) \/ Level(s) < Level(last))
  <2> DEFINE more == Append(c.samples, s)
             moved == WithLast(c.samples, s)
             stretched == WithLast(c.samples, <<At(s), Level(last)>>)
  <2>1. At(last) < At(s) /\ Level(last) <= Level(s)
    BY <1>1, <1>2, <1>6
  <2>2. /\ more \in Seq(Sample) /\ more # <<>> /\ Climbs(more)
        /\ \A i \in DOMAIN more : more[i] \in {c.samples[j] : j \in DOMAIN c.samples} \cup {s}
    BY <1>1, <1>2, <2>1, AppendClimbs DEF last
  <2>3. /\ moved \in Seq(Sample) /\ moved # <<>> /\ Climbs(moved)
        /\ \A i \in DOMAIN moved : moved[i] \in {c.samples[j] : j \in DOMAIN c.samples} \cup {s}
    BY <1>1, <1>2, <2>1, WithLastClimbs DEF last
  <2>4. /\ stretched \in Seq(Sample) /\ stretched # <<>> /\ Climbs(stretched)
        /\ \A i \in DOMAIN stretched :
             stretched[i] \in {c.samples[j] : j \in DOMAIN c.samples} \cup {<<At(s), Level(last)>>}
    <3>1. At(last) < At(<<At(s), Level(last)>>) /\ Level(last) <= Level(<<At(s), Level(last)>>)
      BY <1>1, <1>2, <2>1
    <3> QED
      BY <1>1, <1>2, <3>1, WithLastClimbs DEF last
  <2> HIDE DEF more, moved, stretched
  <2>5. Drawn(more, c.samples, At(reading)) /\ Drawn(moved, c.samples, At(reading))
        /\ Drawn(stretched, c.samples, At(reading))
    BY <1>2, <2>2, <2>3, <2>4 DEF Drawn
  <2>6. /\ c.resetsAt \in Int /\ c.estimated \in BOOLEAN /\ c.until \in Int
        /\ c.estimated => c.until = Never
        /\ c = [resetsAt |-> c.resetsAt, samples |-> c.samples, estimated |-> c.estimated, until |-> c.until]
    BY DEF CycleSet, WellFormed
  <2>7. \/ new = [c EXCEPT !.estimated = FALSE, !.until = At(last), !.samples = more]
        \/ new = [c EXCEPT !.samples = moved]
        \/ new = [c EXCEPT !.samples = stretched]
        \/ new = [c EXCEPT !.samples = more]
    BY <1>3, <1>6 DEF more, moved, stretched
  <2>8. CASE new = [c EXCEPT !.estimated = FALSE, !.until = At(last), !.samples = more]
    <3>1. new.samples = more /\ new.estimated = FALSE /\ new \in CycleSet
      BY <1>1, <2>2, <2>6, <2>8 DEF CycleSet
    <3> QED
      BY <2>2, <2>5, <3>1 DEF WellFormed, new
  <2>9. ASSUME NEW q \in {more, moved, stretched}, new = [c EXCEPT !.samples = q]
        PROVE  new \in CycleSet /\ WellFormed(new) /\ Drawn(new.samples, c.samples, At(reading))
    <3>1. q \in Seq(Sample) /\ q # <<>> /\ Climbs(q) /\ Drawn(q, c.samples, At(reading))
      BY <2>2, <2>3, <2>4, <2>5
    <3>2. new.samples = q /\ new.estimated = c.estimated /\ new.until = c.until /\ new \in CycleSet
      BY <2>6, <2>9, <3>1 DEF CycleSet
    <3> QED
      BY <2>6, <3>1, <3>2 DEF WellFormed
  <2> QED
    BY <2>7, <2>8, <2>9 DEF new
<1> QED
  BY <1>5, <1>6

-----------------------------------------------------------------------------
(* A cycle behind the others *)

LEMMA LastCycle ==
  ASSUME NEW cycles \in Seq(CycleSet), cycles # <<>>, Rises(cycles)
  PROVE  /\ Len(cycles) \in Nat \ {0} /\ DOMAIN cycles = 1 .. Len(cycles) /\ Len(cycles) \in DOMAIN cycles
         /\ \A n \in DOMAIN cycles : cycles[n] \in CycleSet /\ WellFormed(cycles[n])
         /\ Last(cycles) = cycles[Len(cycles)] /\ Last(cycles) \in CycleSet /\ WellFormed(Last(cycles))
         /\ UpTo(cycles, At(Last(Last(cycles).samples)))
<1>1. /\ Len(cycles) \in Nat \ {0} /\ DOMAIN cycles = 1 .. Len(cycles) /\ Len(cycles) \in DOMAIN cycles
      /\ \A n \in DOMAIN cycles : cycles[n] \in CycleSet /\ WellFormed(cycles[n])
      /\ Last(cycles) = cycles[Len(cycles)]
  BY DEF Last, Rises
<1>2. PICK c : c = Last(cycles)
  OBVIOUS
<1>3. /\ c \in CycleSet /\ WellFormed(c)
      /\ Len(c.samples) \in DOMAIN c.samples /\ Last(c.samples) = c.samples[Len(c.samples)]
      /\ DOMAIN c.samples = 1 .. Len(c.samples) /\ Len(c.samples) \in Nat
      /\ \A i \in DOMAIN c.samples : At(c.samples[i]) \in Int
  BY <1>1, <1>2, CycleFields
<1>4. UpTo(cycles, At(Last(c.samples)))
  <2>1. SUFFICES ASSUME NEW n \in DOMAIN cycles, NEW i \in DOMAIN cycles[n].samples
                 PROVE  At(cycles[n].samples[i]) <= At(Last(c.samples))
    BY DEF UpTo
  <2>2. CASE n = Len(cycles)
    <3>1. i \in DOMAIN c.samples /\ cycles[n].samples[i] = c.samples[i] /\ i <= Len(c.samples)
      BY <1>1, <1>2, <1>3, <2>1, <2>2
    <3>2. CASE i = Len(c.samples)
      BY <1>3, <3>1, <3>2
    <3>3. CASE i < Len(c.samples)
      BY <1>3, <3>1, <3>3 DEF WellFormed, Climbs
    <3> QED
      BY <1>3, <3>1, <3>2, <3>3
  <2>3. CASE n # Len(cycles)
    <3>1. n < Len(cycles)
      BY <1>1, <2>3
    <3>2. InOrder(cycles[n], c)
      BY <1>1, <1>2, <3>1 DEF Rises
    <3> QED
      BY <1>3, <2>1, <3>2 DEF InOrder
  <2> QED
    BY <2>2, <2>3
<1> QED
  BY <1>1, <1>2, <1>3, <1>4

LEMMA AppendRises ==
  ASSUME NEW cycles \in Seq(CycleSet), Rises(cycles), NEW c \in CycleSet, WellFormed(c),
         UpTo(cycles, At(c.samples[1]))
  PROVE  /\ Append(cycles, c) \in Seq(CycleSet) /\ Append(cycles, c) # <<>> /\ Rises(Append(cycles, c))
         /\ Last(Append(cycles, c)) = c
         /\ UpTo(Append(cycles, c), At(Last(c.samples)))
<1> DEFINE new == Append(cycles, c)
<1>1. /\ Len(cycles) \in Nat /\ DOMAIN cycles = 1 .. Len(cycles)
      /\ \A n \in DOMAIN cycles : cycles[n] \in CycleSet
      /\ new \in Seq(CycleSet) /\ Len(new) = Len(cycles) + 1 /\ DOMAIN new = 1 .. Len(cycles) + 1
      /\ \A n \in DOMAIN cycles : new[n] = cycles[n]
      /\ new[Len(cycles) + 1] = c
      /\ Last(new) = c /\ new # <<>>
  BY DEF Last
<1> HIDE DEF new
<1>2. \A n \in DOMAIN cycles : WellFormed(cycles[n])
  BY DEF Rises
<1>3. \A n \in DOMAIN new : WellFormed(new[n])
  <2>1. SUFFICES ASSUME NEW n \in DOMAIN new PROVE WellFormed(new[n])
    OBVIOUS
  <2>2. n \in DOMAIN cycles \/ n = Len(cycles) + 1
    BY <1>1
  <2> QED
    BY <1>1, <1>2, <2>2
<1>4. \A n \in DOMAIN cycles : InOrder(cycles[n], c)
  <2>1. SUFFICES ASSUME NEW n \in DOMAIN cycles, NEW i \in DOMAIN cycles[n].samples, NEW j \in DOMAIN c.samples
                 PROVE  At(cycles[n].samples[i]) <= At(c.samples[j])
    BY DEF InOrder
  <2>2. At(cycles[n].samples[i]) <= At(c.samples[1])
    BY <2>1 DEF UpTo
  <2>3. /\ 1 \in DOMAIN c.samples /\ j \in Nat /\ 1 <= j
        /\ At(c.samples[1]) \in Int /\ At(c.samples[j]) \in Int /\ At(cycles[n].samples[i]) \in Int
    <3>1. \A d \in CycleSet : WellFormed(d) => \A k \in DOMAIN d.samples : At(d.samples[k]) \in Int
      BY CycleFields
    <3>2. DOMAIN c.samples = 1 .. Len(c.samples) /\ Len(c.samples) \in Nat \ {0}
      BY CycleFields
    <3>3. cycles[n] \in CycleSet /\ WellFormed(cycles[n])
      BY <1>1, <1>2
    <3> QED
      BY <3>1, <3>2, <3>3
  <2>4. At(c.samples[1]) <= At(c.samples[j])
    <3>1. CASE j = 1
      BY <2>3, <3>1
    <3>2. CASE 1 < j
      BY <2>3, <3>2 DEF WellFormed, Climbs
    <3> QED
      BY <2>3, <3>1, <3>2
  <2> QED
    BY <2>2, <2>3, <2>4
<1>5. Rises(new)
  <2>1. SUFFICES ASSUME NEW m \in DOMAIN new, NEW n \in DOMAIN new, m < n PROVE InOrder(new[m], new[n])
    BY <1>3 DEF Rises
  <2>2. m \in DOMAIN cycles
    BY <1>1, <2>1
  <2>3. CASE n \in DOMAIN cycles
    BY <1>1, <2>1, <2>2, <2>3 DEF Rises
  <2>4. CASE n = Len(cycles) + 1
    BY <1>1, <1>4, <2>2, <2>4
  <2> QED
    BY <1>1, <2>3, <2>4
<1>6. UpTo(new, At(Last(c.samples)))
  BY <1>1, <1>5, LastCycle
<1> QED
  BY <1>1, <1>5, <1>6 DEF new

LEMMA ReplaceRises ==
  ASSUME NEW cycles \in Seq(CycleSet), cycles # <<>>, Rises(cycles), NEW c \in CycleSet, WellFormed(c),
         NEW at \in Int, UpTo(cycles, at), Drawn(c.samples, Last(cycles).samples, at)
  PROVE  /\ WithLast(cycles, c) \in Seq(CycleSet) /\ WithLast(cycles, c) # <<>> /\ Rises(WithLast(cycles, c))
         /\ Last(WithLast(cycles, c)) = c
         /\ UpTo(WithLast(cycles, c), at)
<1> DEFINE new == WithLast(cycles, c)
           z == Len(cycles)
<1>1. /\ z \in Nat \ {0} /\ DOMAIN cycles = 1 .. z
      /\ \A n \in DOMAIN cycles : cycles[n] \in CycleSet /\ WellFormed(cycles[n])
      /\ Last(cycles) = cycles[z]
  BY LastCycle
<1>2. /\ new \in Seq(CycleSet) /\ Len(new) = z /\ DOMAIN new = 1 .. z
      /\ \A n \in DOMAIN cycles : n # z => new[n] = cycles[n]
      /\ new[z] = c
      /\ Last(new) = c /\ new # <<>>
  BY <1>1 DEF Last, WithLast
<1> HIDE DEF new, z
<1>3. \A i \in DOMAIN c.samples : At(c.samples[i]) <= at
  <2>1. SUFFICES ASSUME NEW i \in DOMAIN c.samples PROVE At(c.samples[i]) <= at
    OBVIOUS
  <2>2. CASE At(c.samples[i]) = at
    BY <2>2
  <2>3. CASE \E j \in DOMAIN Last(cycles).samples : c.samples[i] = Last(cycles).samples[j]
    BY <1>1, <2>3 DEF UpTo
  <2> QED
    BY <2>2, <2>3 DEF Drawn
<1>4. \A n \in DOMAIN cycles : n < z => InOrder(cycles[n], c)
  <2>1. SUFFICES ASSUME NEW n \in DOMAIN cycles, n < z,
                        NEW i \in DOMAIN cycles[n].samples, NEW j \in DOMAIN c.samples
                 PROVE  At(cycles[n].samples[i]) <= At(c.samples[j])
    BY DEF InOrder
  <2>2. CASE At(c.samples[j]) = at
    BY <2>2 DEF UpTo
  <2>3. CASE \E k \in DOMAIN Last(cycles).samples : c.samples[j] = Last(cycles).samples[k]
    <3>1. InOrder(cycles[n], Last(cycles))
      BY <1>1, <2>1 DEF Rises
    <3> QED
      BY <2>3, <3>1 DEF InOrder
  <2> QED
    BY <2>2, <2>3 DEF Drawn
<1>5. Rises(new)
  <2>1. \A n \in DOMAIN new : WellFormed(new[n])
    BY <1>1, <1>2
  <2>2. SUFFICES ASSUME NEW m \in DOMAIN new, NEW n \in DOMAIN new, m < n PROVE InOrder(new[m], new[n])
    BY <2>1 DEF Rises
  <2>3. m \in DOMAIN cycles /\ m # z /\ m < z /\ n \in DOMAIN cycles
    BY <1>1, <1>2, <2>2
  <2>4. CASE n # z
    BY <1>2, <2>2, <2>3, <2>4 DEF Rises
  <2>5. CASE n = z
    BY <1>2, <1>4, <2>3, <2>5
  <2> QED
    BY <2>4, <2>5
<1>6. UpTo(new, at)
  <2>1. SUFFICES ASSUME NEW n \in DOMAIN new, NEW i \in DOMAIN new[n].samples
                 PROVE  At(new[n].samples[i]) <= at
    BY DEF UpTo
  <2>2. CASE n = z
    BY <1>2, <1>3, <2>1, <2>2
  <2>3. CASE n # z
    BY <1>1, <1>2, <2>1, <2>3 DEF UpTo
  <2> QED
    BY <2>2, <2>3
<1> QED
  BY <1>2, <1>5, <1>6 DEF new

-----------------------------------------------------------------------------
(* add *)

RingSet == [cycles : Seq(CycleSet), fall : [sample : Sample, resetsAt : Int]]

\* A reading is only held back as a fall from the newest sample.
RingOK(r) ==
  /\ r \in RingSet /\ Rises(r.cycles)
  /\ r.cycles # <<>> /\ r.fall # NoFall => At(Last(Last(r.cycles).samples)) < At(r.fall.sample)

LEMMA NoFallTyped ==
  NoFall \in [sample : Sample, resetsAt : Int]
BY DEF NoFall, Sample, Never

LEMMA CycleOK ==
  ASSUME NEW reset \in Int, NEW s \in Sample, NEW estimated \in BOOLEAN
  PROVE  /\ Cycle(reset, s, estimated) \in CycleSet /\ WellFormed(Cycle(reset, s, estimated))
         /\ Cycle(reset, s, estimated).samples = <<s>>
         /\ Cycle(reset, s, estimated).samples[1] = s /\ Last(Cycle(reset, s, estimated).samples) = s
<1>1. <<s>> \in Seq(Sample) /\ <<s>> # <<>> /\ Climbs(<<s>>) /\ Last(<<s>>) = s /\ <<s>>[1] = s
  BY DEF Climbs, Last
<1>2. Cycle(reset, s, estimated) = [resetsAt |-> reset, samples |-> <<s>>, estimated |-> estimated, until |-> Never]
  BY DEF Cycle
<1>3. Never \in Int
  BY DEF Never
<1> DEFINE one == <<s>>
<1> HIDE DEF one
<1>4. /\ Cycle(reset, s, estimated) \in CycleSet /\ Cycle(reset, s, estimated).samples = one
      /\ Cycle(reset, s, estimated).until = Never
  BY <1>1, <1>2, <1>3 DEF CycleSet, one
<1> QED
  BY <1>1, <1>4 DEF WellFormed, one

LEMMA OpenOK ==
  ASSUME NEW r \in RingSet, Rises(r.cycles), NEW c \in CycleSet, WellFormed(c),
         UpTo(r.cycles, At(c.samples[1]))
  PROVE  /\ RingOK(Open(r, c)) /\ Open(r, c).cycles # <<>> /\ Open(r, c).fall = NoFall
         /\ UpTo(Open(r, c).cycles, At(Last(c.samples)))
         /\ Last(Open(r, c).cycles) = c
<1> DEFINE new == Append(r.cycles, c)
<1>1. r.cycles \in Seq(CycleSet)
  BY DEF RingSet
<1>2. new \in Seq(CycleSet) /\ new # <<>> /\ Rises(new) /\ UpTo(new, At(Last(c.samples))) /\ Last(new) = c
  BY <1>1, AppendRises
<1>3. Open(r, c) = [cycles |-> new, fall |-> NoFall]
  BY DEF Open
<1> HIDE DEF new
<1>4. Open(r, c).cycles = new /\ Open(r, c).fall = NoFall /\ Open(r, c) \in RingSet
  BY <1>2, <1>3, NoFallTyped DEF RingSet
<1> QED
  BY <1>2, <1>4 DEF RingOK

LEMMA ContinueOK ==
  ASSUME NEW r \in RingSet, Rises(r.cycles), r.cycles # <<>>, r.fall = NoFall, NEW s \in Sample,
         UpTo(r.cycles, At(s)), NEW reset \in Int, NEW estimated \in BOOLEAN, NEW replaying
  PROVE  /\ RingOK(Continue(r, s, reset, estimated, replaying))
         /\ Continue(r, s, reset, estimated, replaying).cycles # <<>>
         /\ Continue(r, s, reset, estimated, replaying).fall = NoFall
         /\ UpTo(Continue(r, s, reset, estimated, replaying).cycles, At(s))
<1> DEFINE cur == Last(r.cycles)
           c == IF cur.resetsAt = Never THEN [cur EXCEPT !.resetsAt = reset] ELSE cur
           cycles == WithLast(r.cycles, c)
           out == Continue(r, s, reset, estimated, replaying)
<1>1. r.cycles \in Seq(CycleSet) /\ At(s) \in Int
  BY SampleFields DEF RingSet
<1>2. cur \in CycleSet /\ WellFormed(cur)
  BY <1>1, LastCycle
<1>3. c \in CycleSet /\ WellFormed(c) /\ c.samples = cur.samples
  <2>1. c.samples = cur.samples /\ c.estimated = cur.estimated /\ c.until = cur.until /\ c \in CycleSet
    BY <1>2 DEF CycleSet
  <2> QED
    BY <1>2, <2>1 DEF WellFormed
<1>4. out = IF ~estimated /\ ~replaying /\ carriedOver(cycles, s)
              THEN [r EXCEPT !.cycles = cycles]
              ELSE [r EXCEPT !.cycles = WithLast(cycles, Extend(c, s, estimated))]
  BY DEF Continue
<1> HIDE DEF c, cur, out
<1>5. Drawn(c.samples, cur.samples, At(s))
  BY <1>3 DEF Drawn
<1>6. cycles \in Seq(CycleSet) /\ cycles # <<>> /\ Rises(cycles) /\ Last(cycles) = c /\ UpTo(cycles, At(s))
  BY <1>1, <1>3, <1>5, ReplaceRises DEF cur
<1> DEFINE more == WithLast(cycles, Extend(c, s, estimated))
<1> HIDE DEF cycles
<1>7. more \in Seq(CycleSet) /\ more # <<>> /\ Rises(more) /\ UpTo(more, At(s))
  <2>1. /\ Extend(c, s, estimated) \in CycleSet /\ WellFormed(Extend(c, s, estimated))
        /\ Drawn(Extend(c, s, estimated).samples, c.samples, At(s))
    BY <1>3, ExtendOK
  <2> QED
    BY <1>1, <1>6, <2>1, ReplaceRises
<1> HIDE DEF more
<1>8. \E q \in {cycles, more} : out = [r EXCEPT !.cycles = q]
  BY <1>4 DEF more
<1>9. PICK q \in {cycles, more} : out = [r EXCEPT !.cycles = q]
  BY <1>8
<1>10. out.cycles = q /\ out.fall = NoFall /\ out \in RingSet
  BY <1>6, <1>7, <1>9 DEF RingSet
<1> QED
  BY <1>6, <1>7, <1>9, <1>10 DEF RingOK, out

LEMMA FallOK ==
  ASSUME NEW r, RingOK(r), r.cycles # <<>>, NEW s \in Sample,
         UpTo(r.cycles, At(s)), NEW reset \in Int, At(Last(Last(r.cycles).samples)) < At(s)
  PROVE  /\ RingOK(fall(r, s, reset)) /\ fall(r, s, reset).cycles # <<>>
         /\ UpTo(fall(r, s, reset).cycles, At(s))
<1>1. /\ r \in RingSet /\ r.cycles \in Seq(CycleSet) /\ Rises(r.cycles)
      /\ r.fall.sample \in Sample /\ r.fall.resetsAt \in Int
  BY DEF RingOK, RingSet
<1>2. At(s) \in Int /\ At(r.fall.sample) \in Int /\ FALSE \in BOOLEAN
  BY <1>1, SampleFields
<1>3. CASE r.fall = NoFall
  <2> DEFINE held == [sample |-> s, resetsAt |-> reset]
  <2>1. fall(r, s, reset) = [r EXCEPT !.fall = held]
    BY <1>3 DEF fall
  <2>2. held \in [sample : Sample, resetsAt : Int] /\ held.sample = s
    OBVIOUS
  <2> HIDE DEF held
  <2>3. fall(r, s, reset) \in RingSet /\ fall(r, s, reset).cycles = r.cycles /\ fall(r, s, reset).fall = held
    BY <1>1, <2>1, <2>2 DEF RingSet
  <2> QED
    BY <1>1, <2>2, <2>3 DEF RingOK
<1>4. CASE r.fall # NoFall /\ At(s) <= At(r.fall.sample)
  <2>1. fall(r, s, reset) = r
    BY <1>4 DEF fall
  <2> QED
    BY <2>1
<1>5. CASE r.fall # NoFall /\ ~(At(s) <= At(r.fall.sample))
  <2>1. CASE Level(r.fall.sample) - Level(s) > ClearDrop
    <3>1. fall(r, s, reset) = Open(r, Cycle(reset, s, FALSE))
      BY <1>5, <2>1 DEF fall
    <3>2. /\ Cycle(reset, s, FALSE) \in CycleSet /\ WellFormed(Cycle(reset, s, FALSE))
          /\ Cycle(reset, s, FALSE).samples[1] = s /\ Last(Cycle(reset, s, FALSE).samples) = s
      BY <1>2, CycleOK
    <3> QED
      BY <1>1, <3>1, <3>2, OpenOK
  <2>2. CASE ~(Level(r.fall.sample) - Level(s) > ClearDrop)
    <3> DEFINE c == Cycle(r.fall.resetsAt, r.fall.sample, FALSE)
               opened == Open(r, c)
    <3>1. fall(r, s, reset) = Continue(opened, s, reset, FALSE, FALSE)
      BY <1>5, <2>2 DEF fall
    <3>2. /\ c \in CycleSet /\ WellFormed(c) /\ c.samples[1] = r.fall.sample /\ Last(c.samples) = r.fall.sample
      BY <1>1, <1>2, CycleOK
    <3> HIDE DEF c
    <3>3. UpTo(r.cycles, At(r.fall.sample))
      <4>1. UpTo(r.cycles, At(Last(Last(r.cycles).samples))) /\ At(Last(Last(r.cycles).samples)) < At(r.fall.sample)
        BY <1>1, <1>5, LastCycle DEF RingOK
      <4>2. At(Last(Last(r.cycles).samples)) \in Int
        BY <1>1, LastCycle, CycleFields
      <4>3. \A n \in DOMAIN r.cycles : \A i \in DOMAIN r.cycles[n].samples : At(r.cycles[n].samples[i]) \in Int
        BY <1>1, LastCycle, CycleFields
      <4> QED
        BY <1>2, <4>1, <4>2, <4>3 DEF UpTo
    <3>4. /\ RingOK(opened) /\ opened.cycles # <<>> /\ opened.fall = NoFall
          /\ UpTo(opened.cycles, At(r.fall.sample))
      BY <1>1, <3>2, <3>3, OpenOK
    <3> HIDE DEF opened
    <3>5. opened \in RingSet /\ opened.cycles \in Seq(CycleSet) /\ Rises(opened.cycles)
      BY <3>4 DEF RingOK, RingSet
    <3>6. UpTo(opened.cycles, At(s))
      <4>1. \A n \in DOMAIN opened.cycles : \A i \in DOMAIN opened.cycles[n].samples :
              At(opened.cycles[n].samples[i]) \in Int
        BY <3>4, <3>5, LastCycle, CycleFields
      <4> QED
        BY <1>2, <1>5, <3>4, <4>1 DEF UpTo
    <3> QED
      BY <1>2, <3>1, <3>4, <3>5, <3>6, ContinueOK
  <2> QED
    BY <2>1, <2>2
<1> QED
  BY <1>3, <1>4, <1>5

\* A reading that is no older than what the ring holds keeps it in order.
LEMMA AddOK ==
  ASSUME NEW r, RingOK(r), NEW s \in Sample, UpTo(r.cycles, At(s)),
         NEW reset \in Int, NEW estimated \in BOOLEAN, NEW replaying
  PROVE  /\ RingOK(add(r, s, reset, estimated, replaying))
         /\ add(r, s, reset, estimated, replaying).cycles # <<>>
         /\ UpTo(add(r, s, reset, estimated, replaying).cycles, At(s))
<1> DEFINE last == Last(r.cycles)
           ended == r.cycles # <<>> /\ endedBefore(last.resetsAt, reset, At(s))
           opens == r.cycles = <<>> \/ rolled(last.resetsAt, reset) \/ closed(last, At(s))
           out == add(r, s, reset, estimated, replaying)
<1>1. r \in RingSet /\ r.cycles \in Seq(CycleSet) /\ Rises(r.cycles) /\ At(s) \in Int
  BY SampleFields DEF RingOK, RingSet
<1>2. out = IF ended THEN r
            ELSE IF opens THEN Open(r, Cycle(reset, s, estimated))
            ELSE IF cleared(last, s, estimated) THEN fall(r, s, reset)
            ELSE Continue([r EXCEPT !.fall = NoFall], s, reset, estimated, replaying)
  BY DEF add
<1> HIDE DEF out, opens
<1>3. CASE ended
  BY <1>2, <1>3 DEF out
<1>4. CASE ~ended /\ opens
  <2>1. /\ Cycle(reset, s, estimated) \in CycleSet /\ WellFormed(Cycle(reset, s, estimated))
        /\ Cycle(reset, s, estimated).samples[1] = s /\ Last(Cycle(reset, s, estimated).samples) = s
    BY CycleOK
  <2>2. out = Open(r, Cycle(reset, s, estimated))
    BY <1>2, <1>4
  <2> QED
    BY <1>1, <2>1, <2>2, OpenOK DEF out
<1>5. CASE ~ended /\ ~opens /\ cleared(last, s, estimated)
  <2>1. out = fall(r, s, reset) /\ r.cycles # <<>>
    BY <1>2, <1>5 DEF opens
  <2>2. At(Last(last.samples)) < At(s)
    <3>1. At(s) > At(Last(last.samples))
      BY <1>5 DEF cleared
    <3>2. At(Last(last.samples)) \in Int
      BY <1>1, <2>1, LastCycle, CycleFields
    <3> QED
      BY <1>1, <3>1, <3>2
  <2> QED
    BY <2>1, <2>2, FallOK DEF out
<1>6. CASE ~ended /\ ~opens /\ ~cleared(last, s, estimated)
  <2> DEFINE q == [r EXCEPT !.fall = NoFall]
  <2>1. out = Continue(q, s, reset, estimated, replaying) /\ r.cycles # <<>>
    BY <1>2, <1>6 DEF opens
  <2>2. q \in RingSet /\ q.cycles = r.cycles /\ q.fall = NoFall
    BY <1>1, NoFallTyped DEF RingSet
  <2> HIDE DEF q
  <2> QED
    BY <1>1, <2>1, <2>2, ContinueOK DEF out
<1> QED
  BY <1>3, <1>4, <1>5, <1>6

-----------------------------------------------------------------------------
(* compact *)

\* Before the edge, one sample of each step.
Sparse(samples, edge) ==
  \A i, j \in DOMAIN samples :
    i < j /\ At(samples[j]) < edge =>
      At(samples[i]) \div CoarseStep # At(samples[j]) \div CoarseStep

LEMMA CoarsenOK ==
  ASSUME NEW samples \in Seq(Sample), samples # <<>>, Climbs(samples), NEW edge \in Int
  PROVE  /\ coarsen(samples, edge) \in Seq(Sample) /\ coarsen(samples, edge) # <<>>
         /\ Climbs(coarsen(samples, edge))
         /\ Last(coarsen(samples, edge)) = Last(samples)
         /\ \A i \in DOMAIN coarsen(samples, edge) :
              \E j \in DOMAIN samples : coarsen(samples, edge)[i] = samples[j]
         /\ Sparse(coarsen(samples, edge), edge)
<1> DEFINE keep == Coarse(samples, edge)
           out == Kept(samples, keep)
<1>1. keep \in SUBSET DOMAIN samples /\ Len(samples) \in DOMAIN samples /\ Len(samples) \in keep
  BY DEF Coarse
<1>2. coarsen(samples, edge) = out
  BY DEF coarsen
<1>3. /\ out \in Seq(Sample) /\ out # <<>> /\ Last(out) = Last(samples)
      /\ \A k \in DOMAIN out : out[k] = samples[Nth(keep, k)] /\ Nth(keep, k) \in keep
      /\ \A k, l \in DOMAIN out : k < l => Nth(keep, k) < Nth(keep, l)
  BY <1>1, KeptIs
<1>4. Climbs(out)
  BY <1>1, KeptClimbs
<1> HIDE DEF out
<1>5. \A i \in DOMAIN out : \E j \in DOMAIN samples : out[i] = samples[j]
  BY <1>1, <1>3
<1>6. Sparse(out, edge)
  <2>1. SUFFICES ASSUME NEW k \in DOMAIN out, NEW l \in DOMAIN out, k < l, At(out[l]) < edge
                 PROVE  At(out[k]) \div CoarseStep # At(out[l]) \div CoarseStep
    BY DEF Sparse
  <2>2. PICK i, j : i = Nth(keep, k) /\ j = Nth(keep, l)
    OBVIOUS
  <2>3. i \in keep /\ j \in keep /\ i < j /\ out[k] = samples[i] /\ out[l] = samples[j]
    BY <1>3, <2>1, <2>2
  <2> DEFINE n == i + 1
  <2>4. i \in DOMAIN samples /\ j \in DOMAIN samples /\ n \in DOMAIN samples /\ n <= j /\ i # Len(samples) /\ i < n
    BY <1>1, <2>3
  <2>5. /\ \A m \in DOMAIN samples : At(samples[m]) \in Int
        /\ CoarseStep \in Nat \ {0}
    <3>1. \A m \in DOMAIN samples : samples[m] \in Sample
      OBVIOUS
    <3> QED
      BY <3>1, SampleFields, SamplesAssumption
  <2>6. At(samples[i]) < At(samples[n]) /\ At(samples[n]) <= At(samples[j])
    BY <2>4, <2>5 DEF Climbs
  <2>7. At(samples[j]) < edge
    BY <2>1, <2>3
  <2>8. ~ (At(samples[i]) >= edge) /\ ~ (At(samples[n]) >= edge)
    BY <2>4, <2>5, <2>6, <2>7
  <2>9. At(samples[i]) \div CoarseStep # At(samples[n]) \div CoarseStep
    BY <2>3, <2>4, <2>8 DEF Coarse
  <2>10. PICK a, b, c : a = At(samples[i]) /\ b = At(samples[n]) /\ c = At(samples[j])
    OBVIOUS
  <2>11. a \in Int /\ b \in Int /\ c \in Int /\ a <= b /\ b <= c
    BY <2>4, <2>5, <2>6, <2>10
  <2>12. /\ a \div CoarseStep \in Int /\ b \div CoarseStep \in Int /\ c \div CoarseStep \in Int
         /\ a \div CoarseStep <= b \div CoarseStep /\ b \div CoarseStep <= c \div CoarseStep
    BY <2>5, <2>11, DivMono
  <2>13. a \div CoarseStep # c \div CoarseStep
    <3> DEFINE p == a \div CoarseStep
               q == b \div CoarseStep
               t == c \div CoarseStep
    <3>1. p \in Int /\ q \in Int /\ t \in Int /\ p <= q /\ q <= t /\ p # q
      BY <2>9, <2>10, <2>12
    <3> HIDE DEF p, q, t
    <3>2. p # t
      BY <3>1
    <3> QED
      BY <3>2 DEF p, t
  <2> QED
    BY <2>3, <2>10, <2>13
<1> QED
  BY <1>2, <1>3, <1>4, <1>5, <1>6 DEF out

\* What is sparse already stays as it is.
LEMMA CoarsenIdle ==
  ASSUME NEW samples \in Seq(Sample), NEW edge \in Int, Sparse(samples, edge)
  PROVE  coarsen(samples, edge) = samples
<1>1. Coarse(samples, edge) = DOMAIN samples
  <2>1. SUFFICES ASSUME NEW i \in DOMAIN samples
                 PROVE  \/ At(samples[i]) >= edge \/ i = Len(samples) \/ At(samples[i + 1]) >= edge
                        \/ At(samples[i]) \div CoarseStep # At(samples[i + 1]) \div CoarseStep
    BY DEF Coarse
  <2>2. SUFFICES ASSUME i # Len(samples), ~(At(samples[i + 1]) >= edge)
                 PROVE  At(samples[i]) \div CoarseStep # At(samples[i + 1]) \div CoarseStep
    OBVIOUS
  <2>3. i + 1 \in DOMAIN samples /\ i < i + 1 /\ samples[i + 1] \in Sample
    BY <2>2
  <2>4. At(samples[i + 1]) < edge
    BY <2>2, <2>3, SampleFields
  <2> QED
    BY <2>3, <2>4 DEF Sparse
<1> QED
  BY <1>1, KeptIs DEF coarsen

-----------------------------------------------------------------------------
(* Counting samples *)

LEMMA SeqDomain ==
  ASSUME NEW S, NEW seq \in Seq(S)
  PROVE  /\ DOMAIN seq = 1 .. Len(seq) /\ Len(seq) \in Nat
         /\ IsFiniteSet(DOMAIN seq) /\ Cardinality(DOMAIN seq) = Len(seq)
<1>1. DOMAIN seq = 1 .. Len(seq) /\ Len(seq) \in Nat
  OBVIOUS
<1> DEFINE n == Len(seq)
<1> HIDE DEF n
<1>2. IsFiniteSet(1 .. n) /\ Cardinality(1 .. n) = n
  <2>1. n \in Nat /\ 1 \in Int /\ n \in Int
    BY <1>1 DEF n
  <2>2. Cardinality(1 .. n) = IF 1 > n THEN 0 ELSE n - 1 + 1
    BY <2>1, FS_Interval
  <2>3. IsFiniteSet(1 .. n)
    BY <2>1, FS_Interval
  <2> QED
    BY <2>1, <2>2, <2>3
<1> QED
  BY <1>1, <1>2 DEF n

LEMMA PlacesFinite ==
  ASSUME NEW cycles \in Seq(CycleSet), NEW ns \in SUBSET DOMAIN cycles
  PROVE  IsFiniteSet(Places(cycles, ns)) /\ Cardinality(Places(cycles, ns)) \in Nat
<1> DEFINE part == [n \in ns |-> {n} \X DOMAIN cycles[n].samples]
           parts == {{n} \X DOMAIN cycles[n].samples : n \in ns}
<1>1. IsFiniteSet(ns)
  <2>1. IsFiniteSet(1 .. Len(cycles)) /\ DOMAIN cycles = 1 .. Len(cycles)
    BY FS_Interval
  <2> QED
    BY <2>1, FS_Subset
<1>2. part \in Surjection(ns, parts)
  BY DEF Surjection
<1>3. IsFiniteSet(parts)
  BY <1>1, <1>2, FS_Surjection
<1>4. \A T \in parts : IsFiniteSet(T)
  <2>1. SUFFICES ASSUME NEW n \in ns PROVE IsFiniteSet({n} \X DOMAIN cycles[n].samples)
    OBVIOUS
  <2>2. cycles[n] \in CycleSet
    OBVIOUS
  <2>3. cycles[n].samples \in Seq(Sample)
    BY <2>2 DEF CycleSet
  <2>4. IsFiniteSet(DOMAIN cycles[n].samples) /\ IsFiniteSet({n})
    BY <2>3, SeqDomain, FS_Singleton
  <2> QED
    BY <2>4, FS_Product
<1> HIDE DEF parts
<1>5. IsFiniteSet(UNION parts)
  BY <1>3, <1>4, FS_UNION
<1>6. Places(cycles, ns) = UNION parts
  BY DEF Places, parts
<1> QED
  BY <1>5, <1>6, FS_CardinalityType

LEMMA PlacesOf ==
  ASSUME NEW cycles \in Seq(CycleSet), NEW n \in DOMAIN cycles
  PROVE  /\ Places(cycles, {n}) = {n} \X DOMAIN cycles[n].samples
         /\ Cardinality(Places(cycles, {n})) = Len(cycles[n].samples)
<1>1. Places(cycles, {n}) = {n} \X DOMAIN cycles[n].samples
  BY DEF Places
<1>2. cycles[n] \in CycleSet
  OBVIOUS
<1>3. cycles[n].samples \in Seq(Sample)
  BY <1>2 DEF CycleSet
<1>4. /\ IsFiniteSet(DOMAIN cycles[n].samples) /\ Cardinality(DOMAIN cycles[n].samples) = Len(cycles[n].samples)
      /\ IsFiniteSet({n}) /\ Cardinality({n}) = 1 /\ Len(cycles[n].samples) \in Nat
  BY <1>3, SeqDomain, FS_Singleton
<1>5. PICK l : l = Len(cycles[n].samples)
  OBVIOUS
<1>6. Cardinality({n} \X DOMAIN cycles[n].samples) = 1 * l
  BY <1>4, <1>5, FS_Product
<1>7. 1 * l = l
  BY <1>4, <1>5
<1> QED
  BY <1>1, <1>5, <1>6, <1>7, Zenon

LEMMA PlacesSplit ==
  ASSUME NEW cycles \in Seq(CycleSet), NEW ms \in SUBSET DOMAIN cycles, NEW ns \in SUBSET DOMAIN cycles,
         ms \cap ns = {}
  PROVE  Cardinality(Places(cycles, ms \cup ns))
           = Cardinality(Places(cycles, ms)) + Cardinality(Places(cycles, ns))
<1>1. /\ IsFiniteSet(Places(cycles, ms)) /\ Cardinality(Places(cycles, ms)) \in Nat
      /\ IsFiniteSet(Places(cycles, ns)) /\ Cardinality(Places(cycles, ns)) \in Nat
  BY PlacesFinite
<1>2. \A k \in ms \cup ns : \A p \in {k} \X DOMAIN cycles[k].samples : p[1] = k
  OBVIOUS
<1>3. Places(cycles, ms) \cap Places(cycles, ns) = {}
  BY <1>2 DEF Places
<1>4. Places(cycles, ms \cup ns) = Places(cycles, ms) \cup Places(cycles, ns)
  BY DEF Places
<1>5. Cardinality(Places(cycles, ms) \cap Places(cycles, ns)) = 0
  BY <1>3, FS_EmptySet
<1>6. Cardinality(Places(cycles, ms) \cup Places(cycles, ns))
        = Cardinality(Places(cycles, ms)) + Cardinality(Places(cycles, ns))
          - Cardinality(Places(cycles, ms) \cap Places(cycles, ns))
  BY <1>1, FS_Union
<1>7. \A a, b \in Nat : a + b - 0 = a + b
  OBVIOUS
<1>8. Cardinality(Places(cycles, ms) \cup Places(cycles, ns))
        = Cardinality(Places(cycles, ms)) + Cardinality(Places(cycles, ns)) - 0
  BY <1>5, <1>6
<1> QED
  BY <1>1, <1>4, <1>7, <1>8

-----------------------------------------------------------------------------
(* Cycles that lost samples *)

\* The cycles ds are the last of cs, each with samples of its own only.
Shrunk(ds, cs, k) ==
  /\ Len(ds) + k = Len(cs)
  /\ \A i \in DOMAIN ds : \A j \in DOMAIN ds[i].samples :
       \E l \in DOMAIN cs[i + k].samples : ds[i].samples[j] = cs[i + k].samples[l]

\* Every sample of the ring is of an instant in T.
Within(cycles, T) == \A n \in DOMAIN cycles : \A i \in DOMAIN cycles[n].samples : At(cycles[n].samples[i]) \in T
Spans(r, T) == Within(r.cycles, T) /\ (r.fall # NoFall => At(r.fall.sample) \in T)

LEMMA ShrinkRises ==
  ASSUME NEW cs \in Seq(CycleSet), Rises(cs), NEW ds \in Seq(CycleSet), NEW k \in Nat, Shrunk(ds, cs, k),
         \A i \in DOMAIN ds : WellFormed(ds[i])
  PROVE  Rises(ds) /\ \A T : Within(cs, T) => Within(ds, T)
<1>1. \A i \in DOMAIN ds : i + k \in DOMAIN cs /\ i \in Nat
  BY DEF Shrunk
<1>2. ASSUME NEW m \in DOMAIN ds, NEW n \in DOMAIN ds, m < n PROVE InOrder(ds[m], ds[n])
  <2>1. InOrder(cs[m + k], cs[n + k])
    BY <1>1, <1>2 DEF Rises
  <2> QED
    BY <1>1, <2>1 DEF InOrder, Shrunk
<1>3. ASSUME NEW T, Within(cs, T) PROVE Within(ds, T)
  <2>1. SUFFICES ASSUME NEW n \in DOMAIN ds, NEW i \in DOMAIN ds[n].samples PROVE At(ds[n].samples[i]) \in T
    BY DEF Within
  <2>2. PICK l \in DOMAIN cs[n + k].samples : ds[n].samples[i] = cs[n + k].samples[l]
    BY DEF Shrunk
  <2> QED
    BY <1>1, <1>3, <2>2 DEF Within
<1> QED
  BY <1>2, <1>3 DEF Rises

\* The count of cycles that stand k places further on.
LEMMA PlacesShift ==
  ASSUME NEW cs \in Seq(CycleSet), NEW ds \in Seq(CycleSet), NEW k \in Nat,
         NEW ns \in SUBSET DOMAIN ds,
         \A n \in ns : n + k \in DOMAIN cs /\ Len(ds[n].samples) = Len(cs[n + k].samples)
  PROVE  Cardinality(Places(ds, ns)) = Cardinality(Places(cs, {n + k : n \in ns}))
<1> DEFINE A == Places(ds, ns)
           B == Places(cs, {n + k : n \in ns})
           f == [p \in A |-> <<p[1] + k, p[2]>>]
<1>1. \A n \in ns : n \in Nat /\ DOMAIN ds[n].samples = DOMAIN cs[n + k].samples
  <2>1. SUFFICES ASSUME NEW n \in ns PROVE n \in Nat /\ DOMAIN ds[n].samples = DOMAIN cs[n + k].samples
    OBVIOUS
  <2>2. n \in Nat /\ ds[n] \in CycleSet /\ cs[n + k] \in CycleSet
    OBVIOUS
  <2>3. ds[n].samples \in Seq(Sample) /\ cs[n + k].samples \in Seq(Sample)
    BY <2>2 DEF CycleSet
  <2> QED
    BY <2>2, <2>3, SeqDomain
<1>2. \A p : p \in A <=> \E n \in ns : \E i \in DOMAIN ds[n].samples : p = <<n, i>>
  BY DEF Places
<1>3. \A p : p \in B <=> \E n \in ns : \E i \in DOMAIN cs[n + k].samples : p = <<n + k, i>>
  BY DEF Places
<1>4. IsFiniteSet(A)
  BY PlacesFinite
<1> HIDE DEF A, B
<1>5. \A p \in A : f[p] \in B
  BY <1>1, <1>2, <1>3
<1>6. \A p, q \in A : f[p] = f[q] => p = q
  <2>1. SUFFICES ASSUME NEW p \in A, NEW q \in A, f[p] = f[q] PROVE p = q
    OBVIOUS
  <2>2. PICK m \in ns : \E i \in DOMAIN ds[m].samples : p = <<m, i>>
    BY <1>2
  <2>3. PICK n \in ns : \E i \in DOMAIN ds[n].samples : q = <<n, i>>
    BY <1>2
  <2>4. PICK i \in DOMAIN ds[m].samples : p = <<m, i>>
    BY <2>2
  <2>5. PICK j \in DOMAIN ds[n].samples : q = <<n, j>>
    BY <2>3
  <2>6. m + k = n + k /\ i = j
    BY <2>1, <2>4, <2>5
  <2> QED
    BY <1>1, <2>4, <2>5, <2>6
<1>7. \A y \in B : \E p \in A : f[p] = y
  <2>1. SUFFICES ASSUME NEW y \in B PROVE \E p \in A : f[p] = y
    OBVIOUS
  <2>2. PICK n \in ns : \E i \in DOMAIN cs[n + k].samples : y = <<n + k, i>>
    BY <1>3
  <2>3. PICK i \in DOMAIN cs[n + k].samples : y = <<n + k, i>>
    BY <2>2
  <2>4. <<n, i>> \in A
    BY <1>1, <1>2, <2>3
  <2>5. f[<<n, i>>] = y
    BY <2>3, <2>4
  <2> QED
    BY <2>4, <2>5
<1>8. f \in Bijection(A, B)
  <2>1. f \in [A -> B]
    BY <1>5
  <2> HIDE DEF f
  <2> QED
    BY <1>6, <1>7, <2>1 DEF Bijection, Injection, Surjection, IsInjective
<1>9. ExistsBijection(A, B)
  BY <1>8 DEF ExistsBijection
<1> QED
  BY <1>4, <1>9, FS_Bijection DEF A, B

\* The newest samples of one cycle.
LEMMA SuffixOK ==
  ASSUME NEW samples \in Seq(Sample), Climbs(samples), NEW a \in 1 .. Len(samples)
  PROVE  LET rest == SubSeq(samples, a, Len(samples))
         IN  /\ rest \in Seq(Sample) /\ Len(rest) = Len(samples) + 1 - a /\ rest # <<>>
             /\ Climbs(rest) /\ Last(rest) = Last(samples)
             /\ \A i \in DOMAIN rest : \E j \in DOMAIN samples : rest[i] = samples[j]
             /\ \A edge : Sparse(samples, edge) => Sparse(rest, edge)
<1> DEFINE N == Len(samples)
           rest == SubSeq(samples, a, N)
<1>1. N \in Nat /\ a \in 1 .. N /\ DOMAIN samples = 1 .. N
  OBVIOUS
<1>2. /\ rest \in Seq(Sample) /\ Len(rest) = N + 1 - a
      /\ \A i \in 1 .. N - a + 1 : rest[i] = samples[a + i - 1]
  BY <1>1, SubSeqProperties
<1> HIDE DEF N, rest
<1>3. DOMAIN rest = 1 .. N + 1 - a /\ rest # <<>>
  BY <1>1, <1>2
<1>4. \A i \in DOMAIN rest : rest[i] = samples[a + i - 1] /\ a + i - 1 \in DOMAIN samples /\ i \in Int
  BY <1>1, <1>2, <1>3
<1>5. Last(rest) = Last(samples)
  <2>1. Len(rest) \in DOMAIN rest /\ a + Len(rest) - 1 = N
    BY <1>1, <1>2, <1>3
  <2> QED
    BY <1>4, <2>1 DEF Last, N
<1>6. \A i, j \in DOMAIN rest : i < j => a + i - 1 < a + j - 1
  BY <1>1, <1>4
<1>7. Climbs(rest)
  <2>1. SUFFICES ASSUME NEW i \in DOMAIN rest, NEW j \in DOMAIN rest, i < j
                 PROVE  At(rest[i]) < At(rest[j]) /\ Level(rest[i]) <= Level(rest[j])
    BY DEF Climbs
  <2>2. PICK x, y : x = a + i - 1 /\ y = a + j - 1
    OBVIOUS
  <2>3. x \in DOMAIN samples /\ y \in DOMAIN samples /\ x < y /\ rest[i] = samples[x] /\ rest[j] = samples[y]
    BY <1>4, <1>6, <2>1, <2>2
  <2> QED
    BY <2>3 DEF Climbs
<1>8. ASSUME NEW edge, Sparse(samples, edge) PROVE Sparse(rest, edge)
  <2>1. SUFFICES ASSUME NEW i \in DOMAIN rest, NEW j \in DOMAIN rest, i < j, At(rest[j]) < edge
                 PROVE  At(rest[i]) \div CoarseStep # At(rest[j]) \div CoarseStep
    BY DEF Sparse
  <2>2. PICK x, y : x = a + i - 1 /\ y = a + j - 1
    OBVIOUS
  <2>3. x \in DOMAIN samples /\ y \in DOMAIN samples /\ x < y /\ rest[i] = samples[x] /\ rest[j] = samples[y]
    BY <1>4, <1>6, <2>1, <2>2
  <2> QED
    BY <1>8, <2>1, <2>3 DEF Sparse
<1>9. \A i \in DOMAIN rest : \E j \in DOMAIN samples : rest[i] = samples[j]
  BY <1>4
<1> QED
  BY <1>2, <1>3, <1>5, <1>7, <1>8, <1>9 DEF rest, N

LEMMA LeastOfIndices ==
  ASSUME NEW n \in Nat, NEW S \in SUBSET (1 .. n), S # {}
  PROVE  Min(S) \in S /\ \A i \in S : Min(S) <= i
<1>1. \E i \in S : \A j \in S : i <= j
  <2> DEFINE R == {p \in Nat \X Nat : p[1] < p[2]}
  <2>1. PICK i \in S : \A j \in S : ~(<<j, i>> \in R)
    <3>1. IsWellFoundedOn(R, Nat)
      BY NatLessThanWellFounded, Zenon DEF OpToRel
    <3>2. S \subseteq Nat
      OBVIOUS
    <3> HIDE DEF R
    <3> QED
      BY <3>1, <3>2, WFMin
  <2>2. \A j \in S : j \in Nat /\ i \in Nat
    OBVIOUS
  <2>3. \A j \in S : i <= j
    <3>1. SUFFICES ASSUME NEW j \in S, ~(i <= j) PROVE FALSE
      OBVIOUS
    <3>2. j < i /\ <<j, i>> \in Nat \X Nat
      BY <2>2, <3>1
    <3>3. <<j, i>> \in R
      BY <3>2
    <3> QED
      BY <2>1, <3>3
  <2> QED
    BY <2>3
<1> QED
  BY <1>1 DEF Min

LEMMA DropOK ==
  ASSUME NEW cs \in Seq(CycleSet), cs # <<>>, Rises(cs)
  PROVE  /\ dropOldest(cs) \in Seq(CycleSet) /\ dropOldest(cs) # <<>>
         /\ \A i \in DOMAIN dropOldest(cs) : WellFormed(dropOldest(cs)[i])
         /\ \E k \in Nat : Shrunk(dropOldest(cs), cs, k)
         /\ Count(dropOldest(cs)) <= MaxSamples
         /\ Last(Last(dropOldest(cs)).samples) = Last(Last(cs).samples)
         /\ \A edge : (\A n \in DOMAIN cs : Sparse(cs[n].samples, edge))
                        => \A n \in DOMAIN dropOldest(cs) : Sparse(dropOldest(cs)[n].samples, edge)
         /\ Count(cs) <= MaxSamples => dropOldest(cs) = cs
<1> DEFINE N == Len(cs)
           P(n) == Cardinality(Places(cs, 1 .. n))
           C == Count(cs)
           left(n) == P(n) + MaxSamples - C
           S == {n \in DOMAIN cs : left(n) > 0}
           first == Min(S)
           c == cs[first]
           len == Len(c.samples)
           L == left(first)
           rest == SubSeq(c.samples, len + 1 - L, len)
           until == IF At(rest[1]) > c.until THEN Never ELSE c.until
           cut == [c EXCEPT !.samples = rest, !.until = until]
           d1 == IF L >= len THEN c ELSE cut
           ds == dropOldest(cs)
<1>1. /\ N \in Nat \ {0} /\ DOMAIN cs = 1 .. N /\ MaxSamples \in Nat \ {0}
      /\ \A n \in DOMAIN cs : cs[n] \in CycleSet /\ WellFormed(cs[n])
  BY LastCycle, SamplesAssumption
<1>2. CASE C <= MaxSamples
  <2>1. ds = cs
    BY <1>2 DEF dropOldest
  <2>2. Shrunk(cs, cs, 0)
    <3>1. \A i \in DOMAIN cs : i + 0 = i
      BY <1>1
    <3> QED
      BY <1>1, <3>1 DEF Shrunk
  <2> QED
    BY <1>1, <1>2, <2>1, <2>2
<1>3. CASE ~(C <= MaxSamples)
  <2>1. \A n \in 0 .. N : P(n) \in Nat
    <3>1. \A n \in 0 .. N : 1 .. n \in SUBSET DOMAIN cs
      BY <1>1
    <3> QED
      BY <3>1, PlacesFinite
  <2>2. C = P(N) /\ C \in Nat /\ C > MaxSamples
    <3>1. C = P(N)
      BY <1>1 DEF Count
    <3> QED
      BY <1>1, <1>3, <2>1, <3>1
  <2>3. ds = [i \in 1 .. N + 1 - first |-> IF i > 1 \/ L >= len THEN cs[first - 1 + i] ELSE cut]
    BY <1>3 DEF dropOldest
  <2>4. \A n \in DOMAIN cs : P(n) = P(n - 1) + Len(cs[n].samples)
    <3>1. SUFFICES ASSUME NEW n \in DOMAIN cs PROVE P(n) = P(n - 1) + Len(cs[n].samples)
      OBVIOUS
    <3>2. /\ 1 .. n - 1 \in SUBSET DOMAIN cs /\ {n} \in SUBSET DOMAIN cs /\ (1 .. n - 1) \cap {n} = {}
          /\ (1 .. n - 1) \cup {n} = 1 .. n
      BY <1>1
    <3>3. Cardinality(Places(cs, (1 .. n - 1) \cup {n})) = P(n - 1) + Cardinality(Places(cs, {n}))
      BY <3>2, PlacesSplit
    <3> QED
      BY <3>2, <3>3, PlacesOf
  <2>5. P(0) = 0
    <3>1. Places(cs, 1 .. 0) = {}
      BY DEF Places
    <3> QED
      BY <3>1, FS_EmptySet
  <2>6. P(N) = C
    BY <2>2
  <2> HIDE DEF P, C
  <2>7. left(N) = MaxSamples /\ left(N) > 0
    BY <1>1, <2>2, <2>6
  <2>8. \A n \in 0 .. N : left(n) \in Int
    BY <1>1, <2>1, <2>2
  <2>9. S \in SUBSET (1 .. N) /\ S # {}
    <3>1. N \in S
      BY <1>1, <2>7
    <3> QED
      BY <1>1, <3>1
  <2>10. first \in S /\ \A n \in S : first <= n
    BY <1>1, <2>9, LeastOfIndices
  <2>11. first \in 1 .. N /\ left(first) > 0
    BY <1>1, <2>10
  <2> HIDE DEF first
  <2>12. left(first - 1) <= 0
    <3>1. CASE first = 1
      BY <1>1, <2>2, <2>5, <3>1
    <3>2. CASE first # 1
      <4>1. first - 1 \in 1 .. N /\ first - 1 \in 0 .. N /\ ~(first <= first - 1)
        BY <1>1, <2>11, <3>2
      <4>2. ~(left(first - 1) > 0)
        BY <1>1, <2>10, <4>1
      <4>3. left(first - 1) \in Int
        BY <2>8, <4>1
      <4> HIDE DEF left
      <4> QED
        BY <4>2, <4>3
    <3> QED
      BY <3>1, <3>2
  <2>13. c \in CycleSet /\ WellFormed(c) /\ c.samples \in Seq(Sample) /\ Climbs(c.samples) /\ len \in Nat
    BY <1>1, <2>11, CycleFields DEF WellFormed
  <2>14. P(first) = P(first - 1) + len /\ P(first) \in Nat /\ P(first - 1) \in Nat /\ first - 1 \in 0 .. N
    <3>1. first \in DOMAIN cs /\ first \in 0 .. N /\ first - 1 \in 0 .. N
      BY <1>1, <2>11
    <3>2. P(first) = P(first - 1) + len
      BY <2>4, <3>1
    <3>3. P(first) \in Nat /\ P(first - 1) \in Nat
      BY <2>1, <3>1
    <3> QED
      BY <3>1, <3>2, <3>3
  <2> HIDE DEF len, c
  <2>15. L \in 1 .. len
    BY <1>1, <2>2, <2>11, <2>12, <2>13, <2>14
  <2>16. L = P(first) + MaxSamples - C
    OBVIOUS
  <2> HIDE DEF L, left, S
  <2>17. /\ rest \in Seq(Sample) /\ Len(rest) = L /\ rest # <<>> /\ Climbs(rest) /\ Last(rest) = Last(c.samples)
         /\ \A i \in DOMAIN rest : \E j \in DOMAIN c.samples : rest[i] = c.samples[j]
         /\ \A edge : Sparse(c.samples, edge) => Sparse(rest, edge)
    <3>1. len + 1 - L \in 1 .. len /\ len + 1 - (len + 1 - L) = L
      BY <2>13, <2>15
    <3> QED
      BY <2>13, <3>1, SuffixOK DEF len
  <2>18. until \in Int /\ (c.estimated => until = Never)
    <3>1. c.until \in Int /\ (c.estimated => c.until = Never) /\ Never \in Int
      BY <2>13, CycleFields DEF WellFormed, Never
    <3> QED
      BY <3>1
  <2> HIDE DEF rest, until
  <2>19. /\ cut \in CycleSet /\ cut.samples = rest /\ WellFormed(cut)
    <3>1. cut.samples = rest /\ cut.estimated = c.estimated /\ cut.until = until /\ cut \in CycleSet
      BY <2>13, <2>17, <2>18 DEF CycleSet
    <3> QED
      BY <2>17, <2>18, <3>1 DEF WellFormed
  <2> HIDE DEF cut
  <2>20. /\ d1 \in CycleSet /\ WellFormed(d1) /\ Len(d1.samples) = L /\ Last(d1.samples) = Last(c.samples)
         /\ \A i \in DOMAIN d1.samples : \E j \in DOMAIN c.samples : d1.samples[i] = c.samples[j]
         /\ \A edge : Sparse(c.samples, edge) => Sparse(d1.samples, edge)
    <3>1. CASE L >= len
      <4>1. d1 = c /\ L = Len(c.samples)
        BY <2>13, <2>15, <3>1 DEF len
      <4> QED
        BY <2>13, <4>1
    <3>2. CASE ~(L >= len)
      <4>1. d1 = cut
        BY <3>2
      <4> QED
        BY <2>17, <2>19, <4>1
    <3> QED
      BY <3>1, <3>2
  <2> DEFINE k == first - 1
             M == N + 1 - first
  <2>21. k \in Nat /\ M \in Nat \ {0} /\ M + k = N /\ \A i \in 1 .. M : i + k \in DOMAIN cs /\ first - 1 + i = i + k
    BY <1>1, <2>11
  <2>22. ds = [i \in 1 .. M |-> IF i = 1 THEN d1 ELSE cs[i + k]]
    <3>1. \A i \in 1 .. M : (IF i > 1 \/ L >= len THEN cs[first - 1 + i] ELSE cut) = IF i = 1 THEN d1 ELSE cs[i + k]
      <4>1. SUFFICES ASSUME NEW i \in 1 .. M
                     PROVE (IF i > 1 \/ L >= len THEN cs[first - 1 + i] ELSE cut) = IF i = 1 THEN d1 ELSE cs[i + k]
        OBVIOUS
      <4>2. CASE i = 1
        <5>1. cs[first - 1 + i] = c /\ ~(i > 1)
          BY <2>11, <4>2 DEF c
        <5> QED
          BY <4>2, <5>1
      <4>3. CASE i # 1
        <5>1. i > 1 /\ first - 1 + i = i + k
          BY <2>21, <4>3
        <5> QED
          BY <4>3, <5>1
      <4> QED
        BY <4>2, <4>3
    <3> QED
      BY <2>3, <3>1
  <2>23. c = cs[1 + k]
    BY <2>11 DEF c
  <2> HIDE DEF k, M, d1, ds
  <2>24. \A i \in 1 .. M : (IF i = 1 THEN d1 ELSE cs[i + k]) \in CycleSet
    BY <1>1, <2>20, <2>21
  <2>25. ds \in Seq(CycleSet) /\ Len(ds) = M /\ DOMAIN ds = 1 .. M /\ ds # <<>>
    BY <2>21, <2>22, <2>24
  <2>26. ds[1] = d1 /\ 1 \in DOMAIN ds /\ \A i \in DOMAIN ds : i # 1 => ds[i] = cs[i + k]
    BY <2>21, <2>22, <2>25
  <2>27. \A i \in DOMAIN ds : i + k \in DOMAIN cs /\ WellFormed(ds[i])
    BY <1>1, <2>20, <2>21, <2>25, <2>26
  <2>28. Shrunk(ds, cs, k)
    <3>1. SUFFICES ASSUME NEW i \in DOMAIN ds, NEW j \in DOMAIN ds[i].samples
                   PROVE  \E l \in DOMAIN cs[i + k].samples : ds[i].samples[j] = cs[i + k].samples[l]
      BY <2>21, <2>25 DEF Shrunk
    <3>2. CASE i = 1
      BY <2>20, <2>23, <2>26, <3>1, <3>2
    <3>3. CASE i # 1
      BY <2>26, <3>1, <3>3
    <3> QED
      BY <3>2, <3>3
  <2>29. ASSUME NEW edge, \A n \in DOMAIN cs : Sparse(cs[n].samples, edge)
         PROVE  \A n \in DOMAIN ds : Sparse(ds[n].samples, edge)
    BY <2>20, <2>23, <2>26, <2>27, <2>29
  <2>30. Last(Last(ds).samples) = Last(Last(cs).samples)
    <3>1. Last(ds) = ds[M] /\ Last(cs) = cs[M + k] /\ M \in DOMAIN ds
      BY <2>21, <2>25 DEF Last
    <3>2. CASE M = 1
      BY <2>20, <2>23, <2>26, <3>1, <3>2
    <3>3. CASE M # 1
      BY <2>26, <3>1, <3>3
    <3> QED
      BY <3>2, <3>3
  <2>31. Count(ds) = MaxSamples
    <3> DEFINE later == 2 .. M
               behind == first + 1 .. N
               X == Cardinality(Places(cs, behind))
    <3>1. later \in SUBSET DOMAIN ds /\ {1} \in SUBSET DOMAIN ds /\ {1} \cap later = {} /\ {1} \cup later = DOMAIN ds
      BY <2>21, <2>25
    <3>2. Count(ds) = Cardinality(Places(ds, {1})) + Cardinality(Places(ds, later))
      BY <2>25, <3>1, PlacesSplit DEF Count
    <3>3. Cardinality(Places(ds, {1})) = L
      <4>1. Cardinality(Places(ds, {1})) = Len(ds[1].samples)
        BY <2>25, <2>26, PlacesOf
      <4> QED
        BY <2>20, <2>26, <4>1
    <3>4. Cardinality(Places(ds, later)) = Cardinality(Places(cs, {n + k : n \in later}))
      <4>1. \A n \in later : n + k \in DOMAIN cs /\ Len(ds[n].samples) = Len(cs[n + k].samples)
        <5>1. \A n \in later : n \in DOMAIN ds /\ n # 1
          BY <2>25
        <5> QED
          BY <2>26, <2>27, <5>1
      <4>2. later \in SUBSET DOMAIN ds /\ k \in Nat /\ ds \in Seq(CycleSet)
        BY <2>21, <2>25, <3>1
      <4> HIDE DEF later
      <4> QED
        BY <4>1, <4>2, PlacesShift
    <3>5. {n + k : n \in later} = behind
      <4>1. \A n \in later : n + k \in behind
        BY <1>1, <2>11, <2>21 DEF k, M
      <4>2. \A n \in behind : n - k \in later /\ n = (n - k) + k
        BY <1>1, <2>11, <2>21 DEF k, M
      <4> HIDE DEF later, behind
      <4> QED
        BY <4>1, <4>2
    <3>6. /\ 1 .. first \in SUBSET DOMAIN cs /\ behind \in SUBSET DOMAIN cs /\ (1 .. first) \cap behind = {}
          /\ (1 .. first) \cup behind = DOMAIN cs
      BY <1>1, <2>11
    <3>7. Count(cs) = Cardinality(Places(cs, 1 .. first)) + X
      BY <3>6, PlacesSplit DEF Count
    <3>8. X \in Nat
      BY <3>6, PlacesFinite
    <3> HIDE DEF later, behind, X
    <3>9. C = P(first) + X
      BY <3>7 DEF C, P
    <3>10. Count(ds) = L + X
      <4>1. Cardinality(Places(ds, later)) = X
        BY <3>4, <3>5 DEF X
      <4> QED
        BY <3>2, <3>3, <4>1
    <3>11. P(first) \in Nat /\ MaxSamples \in Nat
      BY <1>1, <2>14
    <3>12. PICK p : p = P(first)
      OBVIOUS
    <3>13. L = p + MaxSamples - (p + X) /\ p \in Nat
      BY <2>16, <3>9, <3>11, <3>12
    <3> QED
      BY <3>8, <3>10, <3>11, <3>13
  <2>32. Count(ds) <= MaxSamples
    BY <1>1, <2>31
  <2>33. ~(Count(cs) <= MaxSamples)
    BY <1>3 DEF C
  <2> QED
    BY <2>21, <2>25, <2>27, <2>28, <2>29, <2>30, <2>32, <2>33 DEF ds
<1> QED
  BY <1>2, <1>3

Edge(cycles) == At(Last(Last(cycles).samples)) - FineSpan

\* What compact leaves: at most MaxSamples, one for each step before the edge.
Compacted(cycles) ==
  cycles # <<>> => /\ Count(cycles) <= MaxSamples
                   /\ \A n \in DOMAIN cycles : Sparse(cycles[n].samples, Edge(cycles))

LEMMA EdgeTyped ==
  ASSUME NEW cycles \in Seq(CycleSet), cycles # <<>>, Rises(cycles)
  PROVE  Edge(cycles) \in Int
<1>1. At(Last(Last(cycles).samples)) \in Int
  BY LastCycle, CycleFields
<1> QED
  BY <1>1, SamplesAssumption DEF Edge

Tiered(cs, edge) == [i \in DOMAIN cs |-> [cs[i] EXCEPT !.samples = coarsen(@, edge)]]

LEMMA TieredOK ==
  ASSUME NEW cs \in Seq(CycleSet), cs # <<>>, Rises(cs), NEW edge \in Int
  PROVE  LET tiered == Tiered(cs, edge)
         IN  /\ tiered \in Seq(CycleSet) /\ tiered # <<>> /\ Rises(tiered)
             /\ Last(Last(tiered).samples) = Last(Last(cs).samples)
             /\ \A T : Within(cs, T) => Within(tiered, T)
             /\ \A n \in DOMAIN tiered : Sparse(tiered[n].samples, edge)
             /\ (\A n \in DOMAIN cs : Sparse(cs[n].samples, edge)) => tiered = cs
<1> DEFINE tiered == Tiered(cs, edge)
           N == Len(cs)
<1>1. /\ N \in Nat \ {0} /\ DOMAIN cs = 1 .. N
      /\ \A n \in DOMAIN cs : cs[n] \in CycleSet /\ WellFormed(cs[n])
  BY LastCycle
<1>2. ASSUME NEW n \in DOMAIN cs
      PROVE  /\ tiered[n] = [cs[n] EXCEPT !.samples = coarsen(cs[n].samples, edge)]
             /\ tiered[n] \in CycleSet /\ WellFormed(tiered[n])
             /\ Last(tiered[n].samples) = Last(cs[n].samples)
             /\ \A i \in DOMAIN tiered[n].samples : \E j \in DOMAIN cs[n].samples : tiered[n].samples[i] = cs[n].samples[j]
             /\ Sparse(tiered[n].samples, edge)
             /\ Sparse(cs[n].samples, edge) => tiered[n] = cs[n]
  <2> DEFINE c == cs[n]
             q == coarsen(c.samples, edge)
  <2>1. c \in CycleSet /\ WellFormed(c) /\ c.samples \in Seq(Sample)
    BY <1>1, CycleFields
  <2>2. tiered[n] = [c EXCEPT !.samples = q]
    BY DEF Tiered
  <2> HIDE DEF c, tiered
  <2>3. /\ q \in Seq(Sample) /\ q # <<>> /\ Climbs(q) /\ Last(q) = Last(c.samples)
        /\ \A i \in DOMAIN q : \E j \in DOMAIN c.samples : q[i] = c.samples[j]
        /\ Sparse(q, edge)
    BY <2>1, CoarsenOK DEF WellFormed
  <2>4. Sparse(c.samples, edge) => q = c.samples
    BY <2>1, CoarsenIdle
  <2> HIDE DEF q
  <2>5. /\ tiered[n].samples = q /\ tiered[n].estimated = c.estimated /\ tiered[n].until = c.until
        /\ tiered[n] \in CycleSet /\ (q = c.samples => tiered[n] = c)
    BY <2>1, <2>2, <2>3 DEF CycleSet
  <2>6. WellFormed(tiered[n])
    BY <2>1, <2>3, <2>5 DEF WellFormed
  <2>7. tiered[n] = [c EXCEPT !.samples = coarsen(c.samples, edge)]
    BY <2>2 DEF q
  <2> QED
    BY <2>3, <2>4, <2>5, <2>6, <2>7 DEF c
<1>3. tiered = [n \in 1 .. N |-> tiered[n]]
  BY <1>1 DEF Tiered
<1> HIDE DEF tiered
<1>4. tiered \in Seq(CycleSet) /\ Len(tiered) = N /\ DOMAIN tiered = 1 .. N /\ tiered # <<>>
  <2>1. \A n \in 1 .. N : tiered[n] \in CycleSet
    BY <1>1, <1>2
  <2> QED
    BY <1>1, <1>3, <2>1
<1>5. Shrunk(tiered, cs, 0)
  <2>1. \A n \in DOMAIN tiered : n + 0 = n /\ n \in DOMAIN cs
    BY <1>1, <1>4
  <2> QED
    BY <1>1, <1>2, <1>4, <2>1 DEF Shrunk
<1>6. Rises(tiered) /\ \A T : Within(cs, T) => Within(tiered, T)
  <2>1. \A n \in DOMAIN tiered : WellFormed(tiered[n])
    BY <1>1, <1>2, <1>4
  <2> QED
    BY <1>4, <1>5, <2>1, ShrinkRises
<1>7. Last(Last(tiered).samples) = Last(Last(cs).samples)
  BY <1>1, <1>2, <1>4 DEF Last
<1>8. (\A n \in DOMAIN cs : Sparse(cs[n].samples, edge)) => tiered = cs
  <2>1. SUFFICES ASSUME \A n \in DOMAIN cs : Sparse(cs[n].samples, edge) PROVE tiered = cs
    OBVIOUS
  <2>2. \A n \in 1 .. N : tiered[n] = cs[n]
    BY <1>1, <1>2, <2>1
  <2>3. cs = [n \in 1 .. N |-> cs[n]]
    BY <1>1
  <2> QED
    BY <1>3, <2>2, <2>3
<1>9. \A n \in DOMAIN tiered : Sparse(tiered[n].samples, edge)
  BY <1>1, <1>2, <1>4
<1> QED
  BY <1>4, <1>6, <1>7, <1>8, <1>9 DEF tiered

\* compact keeps the ring in order and its newest sample, adds no instant, and
\* leaves a ring it has already been through alone.
LEMMA CompactOK ==
  ASSUME NEW r, RingOK(r)
  PROVE  /\ RingOK(compact(r)) /\ Compacted(compact(r).cycles)
         /\ compact(r).fall = r.fall
         /\ compact(r).cycles = <<>> <=> r.cycles = <<>>
         /\ r.cycles # <<>> => Last(Last(compact(r).cycles).samples) = Last(Last(r.cycles).samples)
         /\ \A T : Spans(r, T) => Spans(compact(r), T)
         /\ Compacted(r.cycles) => compact(r) = r
<1> DEFINE cs == r.cycles
           edge == At(Last(Last(cs).samples)) - FineSpan
           tiered == Tiered(cs, edge)
           ds == dropOldest(tiered)
           out == compact(r)
<1>1. r \in RingSet /\ cs \in Seq(CycleSet) /\ Rises(cs)
  BY DEF RingOK, RingSet
<1>2. CASE cs = <<>>
  <2>1. out = r
    BY <1>2 DEF compact
  <2> QED
    BY <1>2, <2>1 DEF Compacted
<1>3. CASE cs # <<>>
  <2>1. edge \in Int /\ edge = Edge(cs)
    BY <1>1, <1>3, EdgeTyped DEF Edge
  <2>2. out = [r EXCEPT !.cycles = ds]
    BY <1>3 DEF compact, Tiered
  <2> HIDE DEF edge
  <2>3. /\ tiered \in Seq(CycleSet) /\ tiered # <<>> /\ Rises(tiered)
        /\ Last(Last(tiered).samples) = Last(Last(cs).samples)
        /\ \A T : Within(cs, T) => Within(tiered, T)
        /\ \A n \in DOMAIN tiered : Sparse(tiered[n].samples, edge)
        /\ (\A n \in DOMAIN cs : Sparse(cs[n].samples, edge)) => tiered = cs
    BY <1>1, <1>3, <2>1, TieredOK
  <2> HIDE DEF tiered
  <2>4. /\ ds \in Seq(CycleSet) /\ ds # <<>> /\ \A i \in DOMAIN ds : WellFormed(ds[i])
        /\ \E k \in Nat : Shrunk(ds, tiered, k)
        /\ Count(ds) <= MaxSamples
        /\ Last(Last(ds).samples) = Last(Last(tiered).samples)
        /\ \A e : (\A n \in DOMAIN tiered : Sparse(tiered[n].samples, e))
                     => \A n \in DOMAIN ds : Sparse(ds[n].samples, e)
        /\ Count(tiered) <= MaxSamples => ds = tiered
    BY <2>3, DropOK
  <2> HIDE DEF ds
  <2>5. Rises(ds) /\ \A T : Within(tiered, T) => Within(ds, T)
    BY <2>3, <2>4, ShrinkRises
  <2>6. out.cycles = ds /\ out.fall = r.fall /\ out \in RingSet /\ (ds = cs => out = r)
    BY <1>1, <2>2, <2>4 DEF RingSet
  <2> HIDE DEF out
  <2>7. Last(Last(out.cycles).samples) = Last(Last(cs).samples)
    BY <2>3, <2>4, <2>6
  <2>8. RingOK(out)
    BY <1>3, <2>5, <2>6, <2>7 DEF RingOK
  <2>9. Edge(out.cycles) = edge
    BY <2>1, <2>7 DEF Edge
  <2>10. Compacted(out.cycles)
    BY <2>3, <2>4, <2>6, <2>9 DEF Compacted
  <2>11. \A T : Spans(r, T) => Spans(out, T)
    BY <2>3, <2>5, <2>6 DEF Spans
  <2>12. Compacted(cs) => out = r
    BY <1>3, <2>1, <2>3, <2>4, <2>6 DEF Compacted
  <2> QED
    BY <1>3, <2>4, <2>6, <2>7, <2>8, <2>10, <2>11, <2>12 DEF out
<1> QED
  BY <1>2, <1>3

-----------------------------------------------------------------------------
(* No instant out of nowhere *)

LEMMA AppendWithin ==
  ASSUME NEW cycles \in Seq(CycleSet), NEW c \in CycleSet, NEW T, Within(cycles, T),
         \A i \in DOMAIN c.samples : At(c.samples[i]) \in T
  PROVE  Within(Append(cycles, c), T)
<1>1. SUFFICES ASSUME NEW n \in DOMAIN Append(cycles, c)
               PROVE  \A i \in DOMAIN Append(cycles, c)[n].samples : At(Append(cycles, c)[n].samples[i]) \in T
  BY DEF Within
<1>2. CASE n \in DOMAIN cycles
  <2>1. Append(cycles, c)[n] = cycles[n]
    BY <1>2
  <2> QED
    BY <1>2, <2>1 DEF Within
<1>3. CASE n \notin DOMAIN cycles
  <2>1. Append(cycles, c)[n] = c
    BY <1>1, <1>3
  <2> QED
    BY <2>1
<1> QED
  BY <1>2, <1>3

LEMMA WithLastWithin ==
  ASSUME NEW cycles \in Seq(CycleSet), cycles # <<>>, NEW c \in CycleSet, NEW T, Within(cycles, T),
         NEW at \in T, Drawn(c.samples, Last(cycles).samples, at)
  PROVE  Within(WithLast(cycles, c), T) /\ \A i \in DOMAIN c.samples : At(c.samples[i]) \in T
<1>1. Last(cycles) = cycles[Len(cycles)] /\ Len(cycles) \in DOMAIN cycles
  BY DEF Last
<1>2. \A i \in DOMAIN c.samples : At(c.samples[i]) \in T
  <2>1. SUFFICES ASSUME NEW i \in DOMAIN c.samples PROVE At(c.samples[i]) \in T
    OBVIOUS
  <2>2. CASE At(c.samples[i]) = at
    BY <2>2
  <2>3. CASE \E j \in DOMAIN Last(cycles).samples : c.samples[i] = Last(cycles).samples[j]
    BY <1>1, <2>3 DEF Within
  <2> QED
    BY <2>2, <2>3 DEF Drawn
<1>3. SUFFICES ASSUME NEW n \in DOMAIN WithLast(cycles, c)
               PROVE  \A i \in DOMAIN WithLast(cycles, c)[n].samples : At(WithLast(cycles, c)[n].samples[i]) \in T
  BY <1>2 DEF Within
<1>4. DOMAIN WithLast(cycles, c) = DOMAIN cycles
  BY DEF WithLast
<1>5. CASE n = Len(cycles)
  <2>1. WithLast(cycles, c)[n] = c
    BY <1>1, <1>5 DEF WithLast
  <2> QED
    BY <1>2, <2>1
<1>6. CASE n # Len(cycles)
  <2>1. WithLast(cycles, c)[n] = cycles[n] /\ n \in DOMAIN cycles
    BY <1>3, <1>4, <1>6 DEF WithLast
  <2> QED
    BY <2>1 DEF Within
<1> QED
  BY <1>5, <1>6

LEMMA OpenSpans ==
  ASSUME NEW r \in RingSet, NEW c \in CycleSet, NEW T, Within(r.cycles, T),
         \A i \in DOMAIN c.samples : At(c.samples[i]) \in T
  PROVE  Spans(Open(r, c), T)
<1>1. r.cycles \in Seq(CycleSet)
  BY DEF RingSet
<1>2. Open(r, c).cycles = Append(r.cycles, c) /\ Open(r, c).fall = NoFall
  BY DEF Open
<1> QED
  BY <1>1, <1>2, AppendWithin DEF Spans

LEMMA ContinueSpans ==
  ASSUME NEW r \in RingSet, Rises(r.cycles), r.cycles # <<>>, r.fall = NoFall, NEW s \in Sample,
         NEW reset \in Int, NEW estimated \in BOOLEAN, NEW replaying,
         NEW T, Within(r.cycles, T), At(s) \in T
  PROVE  Spans(Continue(r, s, reset, estimated, replaying), T)
<1> DEFINE cur == Last(r.cycles)
           c == IF cur.resetsAt = Never THEN [cur EXCEPT !.resetsAt = reset] ELSE cur
           cycles == WithLast(r.cycles, c)
           out == Continue(r, s, reset, estimated, replaying)
<1>1. r.cycles \in Seq(CycleSet)
  BY DEF RingSet
<1>2. cur \in CycleSet /\ WellFormed(cur)
  BY <1>1, LastCycle
<1>3. c \in CycleSet /\ WellFormed(c) /\ c.samples = cur.samples
  <2>1. c.samples = cur.samples /\ c.estimated = cur.estimated /\ c.until = cur.until /\ c \in CycleSet
    BY <1>2 DEF CycleSet
  <2> QED
    BY <1>2, <2>1 DEF WellFormed
<1>4. out = IF ~estimated /\ ~replaying /\ carriedOver(cycles, s)
              THEN [r EXCEPT !.cycles = cycles]
              ELSE [r EXCEPT !.cycles = WithLast(cycles, Extend(c, s, estimated))]
  BY DEF Continue
<1> HIDE DEF c, cur, out
<1>5. Drawn(c.samples, cur.samples, At(s))
  BY <1>3 DEF Drawn
<1>6. Within(cycles, T)
  BY <1>1, <1>3, <1>5, WithLastWithin DEF cur
<1>7. cycles \in Seq(CycleSet) /\ cycles # <<>> /\ Last(cycles) = c
  <2>1. Len(r.cycles) \in Nat \ {0} /\ DOMAIN r.cycles = 1 .. Len(r.cycles)
    BY <1>1, LastCycle
  <2>2. cycles \in Seq(CycleSet) /\ Len(cycles) = Len(r.cycles) /\ cycles[Len(r.cycles)] = c
    BY <1>1, <1>3, <2>1 DEF WithLast
  <2> QED
    BY <2>1, <2>2 DEF Last
<1> DEFINE more == WithLast(cycles, Extend(c, s, estimated))
<1> HIDE DEF cycles
<1>8. Within(more, T)
  <2>1. /\ Extend(c, s, estimated) \in CycleSet
        /\ Drawn(Extend(c, s, estimated).samples, c.samples, At(s))
    BY <1>3, ExtendOK
  <2> QED
    BY <1>6, <1>7, <2>1, WithLastWithin
<1> HIDE DEF more
<1>9. \E q \in {cycles, more} : out = [r EXCEPT !.cycles = q]
  BY <1>4 DEF more
<1>10. PICK q \in {cycles, more} : out = [r EXCEPT !.cycles = q]
  BY <1>9
<1>11. out.cycles = q /\ out.fall = NoFall
  BY <1>10 DEF RingSet
<1> QED
  BY <1>6, <1>8, <1>10, <1>11 DEF Spans, out

LEMMA FallSpans ==
  ASSUME NEW r, RingOK(r), r.cycles # <<>>, NEW s \in Sample, NEW reset \in Int,
         At(Last(Last(r.cycles).samples)) < At(s),
         NEW T, Spans(r, T), At(s) \in T
  PROVE  Spans(fall(r, s, reset), T)
<1>1. /\ r \in RingSet /\ r.cycles \in Seq(CycleSet) /\ Rises(r.cycles)
      /\ r.fall.sample \in Sample /\ r.fall.resetsAt \in Int
  BY DEF RingOK, RingSet
<1>2. Within(r.cycles, T)
  BY DEF Spans
<1>3. CASE r.fall = NoFall
  <2> DEFINE held == [sample |-> s, resetsAt |-> reset]
  <2>1. fall(r, s, reset) = [r EXCEPT !.fall = held]
    BY <1>3 DEF fall
  <2>2. held.sample = s
    OBVIOUS
  <2> HIDE DEF held
  <2>3. fall(r, s, reset).cycles = r.cycles /\ fall(r, s, reset).fall = held
    BY <1>1, <2>1 DEF RingSet
  <2> QED
    BY <1>2, <2>2, <2>3 DEF Spans
<1>4. CASE r.fall # NoFall /\ At(s) <= At(r.fall.sample)
  <2>1. fall(r, s, reset) = r
    BY <1>4 DEF fall
  <2> QED
    BY <2>1
<1>5. CASE r.fall # NoFall /\ ~(At(s) <= At(r.fall.sample))
  <2>1. CASE Level(r.fall.sample) - Level(s) > ClearDrop
    <3> DEFINE c == Cycle(reset, s, FALSE)
    <3>1. fall(r, s, reset) = Open(r, c)
      BY <1>5, <2>1 DEF fall
    <3>2. c \in CycleSet /\ c.samples = <<s>>
      BY CycleOK
    <3> HIDE DEF c
    <3>3. \A i \in DOMAIN c.samples : At(c.samples[i]) \in T
      BY <3>2
    <3> QED
      BY <1>1, <1>2, <3>1, <3>2, <3>3, OpenSpans
  <2>2. CASE ~(Level(r.fall.sample) - Level(s) > ClearDrop)
    <3> DEFINE c == Cycle(r.fall.resetsAt, r.fall.sample, FALSE)
               opened == Open(r, c)
    <3>1. fall(r, s, reset) = Continue(opened, s, reset, FALSE, FALSE)
      BY <1>5, <2>2 DEF fall
    <3>2. /\ c \in CycleSet /\ WellFormed(c) /\ c.samples = <<r.fall.sample>>
          /\ c.samples[1] = r.fall.sample /\ Last(c.samples) = r.fall.sample
      BY <1>1, CycleOK
    <3> HIDE DEF c
    <3>3. UpTo(r.cycles, At(r.fall.sample))
      <4>1. UpTo(r.cycles, At(Last(Last(r.cycles).samples))) /\ At(Last(Last(r.cycles).samples)) < At(r.fall.sample)
        BY <1>1, <1>5, LastCycle DEF RingOK
      <4>2. At(Last(Last(r.cycles).samples)) \in Int /\ At(r.fall.sample) \in Int
        BY <1>1, LastCycle, CycleFields, SampleFields
      <4>3. \A n \in DOMAIN r.cycles : \A i \in DOMAIN r.cycles[n].samples : At(r.cycles[n].samples[i]) \in Int
        BY <1>1, LastCycle, CycleFields
      <4> QED
        BY <4>1, <4>2, <4>3 DEF UpTo
    <3>4. RingOK(opened) /\ opened.cycles # <<>> /\ opened.fall = NoFall
      BY <1>1, <3>2, <3>3, OpenOK
    <3>5. Within(opened.cycles, T)
      <4>1. \A i \in DOMAIN c.samples : At(c.samples[i]) \in T
        BY <1>5, <3>2 DEF Spans
      <4> QED
        BY <1>1, <1>2, <3>2, <4>1, OpenSpans DEF Spans
    <3> HIDE DEF opened
    <3>6. opened \in RingSet /\ Rises(opened.cycles) /\ FALSE \in BOOLEAN
      BY <3>4 DEF RingOK
    <3> QED
      BY <3>1, <3>4, <3>5, <3>6, ContinueSpans
  <2> QED
    BY <2>1, <2>2
<1> QED
  BY <1>3, <1>4, <1>5

LEMMA AddSpans ==
  ASSUME NEW r, RingOK(r), NEW s \in Sample,
         NEW reset \in Int, NEW estimated \in BOOLEAN, NEW replaying,
         NEW T, Spans(r, T), At(s) \in T
  PROVE  Spans(add(r, s, reset, estimated, replaying), T)
<1> DEFINE last == Last(r.cycles)
           ended == r.cycles # <<>> /\ endedBefore(last.resetsAt, reset, At(s))
           opens == r.cycles = <<>> \/ rolled(last.resetsAt, reset) \/ closed(last, At(s))
           out == add(r, s, reset, estimated, replaying)
<1>1. r \in RingSet /\ r.cycles \in Seq(CycleSet) /\ Rises(r.cycles) /\ At(s) \in Int
  BY SampleFields DEF RingOK, RingSet
<1>2. out = IF ended THEN r
            ELSE IF opens THEN Open(r, Cycle(reset, s, estimated))
            ELSE IF cleared(last, s, estimated) THEN fall(r, s, reset)
            ELSE Continue([r EXCEPT !.fall = NoFall], s, reset, estimated, replaying)
  BY DEF add
<1> HIDE DEF out, opens
<1>3. CASE ended
  BY <1>2, <1>3 DEF out
<1>4. CASE ~ended /\ opens
  <2> DEFINE c == Cycle(reset, s, estimated)
  <2>1. c \in CycleSet /\ c.samples = <<s>>
    BY CycleOK
  <2>2. out = Open(r, c)
    BY <1>2, <1>4
  <2> HIDE DEF c
  <2>3. \A i \in DOMAIN c.samples : At(c.samples[i]) \in T
    BY <2>1
  <2> QED
    BY <1>1, <2>1, <2>2, <2>3, OpenSpans DEF out, Spans
<1>5. CASE ~ended /\ ~opens /\ cleared(last, s, estimated)
  <2>1. out = fall(r, s, reset) /\ r.cycles # <<>>
    BY <1>2, <1>5 DEF opens
  <2>2. At(Last(last.samples)) < At(s)
    <3>1. At(s) > At(Last(last.samples))
      BY <1>5 DEF cleared
    <3>2. At(Last(last.samples)) \in Int
      BY <1>1, <2>1, LastCycle, CycleFields
    <3> QED
      BY <1>1, <3>1, <3>2
  <2> QED
    BY <2>1, <2>2, FallSpans DEF out
<1>6. CASE ~ended /\ ~opens /\ ~cleared(last, s, estimated)
  <2> DEFINE q == [r EXCEPT !.fall = NoFall]
  <2>1. out = Continue(q, s, reset, estimated, replaying) /\ r.cycles # <<>>
    BY <1>2, <1>6 DEF opens
  <2>2. q \in RingSet /\ q.cycles = r.cycles /\ q.fall = NoFall
    BY <1>1, NoFallTyped DEF RingSet
  <2> HIDE DEF q
  <2>3. Within(q.cycles, T)
    BY <2>2 DEF Spans
  <2> QED
    BY <1>1, <2>1, <2>2, <2>3, ContinueSpans DEF out
<1> QED
  BY <1>3, <1>4, <1>5, <1>6

-----------------------------------------------------------------------------
(* Replay, one sample and one cycle at a time *)

LEMMA SamplesSteps ==
  ASSUME NEW r, NEW c, NEW from \in Nat \ {0}, Len(c.samples) \in Nat
  PROVE  \E f : /\ addSamples(r, c, from) = f[Len(c.samples)]
                /\ \A n \in 0 .. Len(c.samples) : f[n] = IF n < from THEN r ELSE addSample(f[n - 1], c, n)
<1> DEFINE N == Len(c.samples)
           Step(f, n) == IF n < from THEN r ELSE addSample(f[n - 1], c, n)
           Upto(k, f) == f = [n \in 0 .. k |-> Step(f, n)]
           Bad == {k \in 0 .. N : ~ \E f : Upto(k, f)}
           R == {p \in Nat \X Nat : p[1] < p[2]}
           out[n \in 0 .. N] == IF n < from THEN r ELSE addSample(out[n - 1], c, n)
<1>1. Bad = {}
  <2>1. SUFFICES ASSUME Bad # {} PROVE FALSE
    OBVIOUS
  <2>2. PICK k \in Bad : \A y \in Bad : ~(<<y, k>> \in R)
    <3>1. IsWellFoundedOn(R, Nat)
      BY NatLessThanWellFounded, Zenon DEF OpToRel
    <3>2. Bad \subseteq Nat
      OBVIOUS
    <3> HIDE DEF Bad, R
    <3> QED
      BY <2>1, <3>1, <3>2, WFMin
  <2>3. k # 0
    <3>1. Upto(0, [n \in 0 .. 0 |-> r])
      BY DEF Step
    <3> QED
      BY <3>1
  <2>4. k \in 0 .. N /\ k - 1 \in 0 .. N /\ k \in Nat /\ k - 1 \in Nat
    BY <2>3
  <2>5. k - 1 \notin Bad
    <3>1. <<k - 1, k>> \in R
      BY <2>4
    <3> QED
      BY <2>2, <3>1
  <2>6. PICK f : Upto(k - 1, f)
    BY <2>4, <2>5
  <2> DEFINE g == [n \in 0 .. k |-> IF n = k THEN Step(f, k) ELSE f[n]]
  <2>7. \A n \in 0 .. k - 1 : g[n] = f[n] /\ f[n] = Step(f, n)
    <3>1. \A n \in 0 .. k - 1 : f[n] = Step(f, n)
      <4> HIDE DEF Step
      <4> QED
        BY <2>6
    <3>2. \A n \in 0 .. k - 1 : n \in 0 .. k /\ n # k
      BY <2>4
    <3>3. \A n \in 0 .. k - 1 : g[n] = f[n]
      BY <3>2
    <3> QED
      BY <3>1, <3>3
  <2>8. g[k] = Step(g, k)
    <3>1. g[k - 1] = f[k - 1] /\ g[k] = Step(f, k)
      BY <2>4, <2>7
    <3> HIDE DEF g
    <3> QED
      BY <3>1
  <2>9. \A n \in 0 .. k - 1 : g[n] = Step(g, n)
    <3>1. SUFFICES ASSUME NEW n \in 0 .. k - 1 PROVE g[n] = Step(g, n)
      OBVIOUS
    <3>2. CASE n = 0
      BY <2>4, <2>7, <3>2
    <3>3. CASE n # 0
      <4>1. n - 1 \in 0 .. k - 1
        BY <2>4, <3>3
      <4>2. g[n - 1] = f[n - 1] /\ g[n] = Step(f, n)
        <5> HIDE DEF g, Step
        <5> QED
          BY <2>7, <4>1
      <4> HIDE DEF g
      <4> QED
        BY <4>2
    <3> QED
      BY <3>2, <3>3
  <2>10. Upto(k, g)
    <3>1. g = [n \in 0 .. k |-> g[n]]
      OBVIOUS
    <3> HIDE DEF g, Step
    <3>2. \A n \in 0 .. k : n = k \/ n \in 0 .. k - 1
      BY <2>4
    <3>3. \A n \in 0 .. k : g[n] = Step(g, n)
      BY <2>8, <2>9, <3>2
    <3> QED
      BY <3>1, <3>3
  <2> QED
    BY <2>2, <2>10
<1>2. PICK f : Upto(N, f)
  BY <1>1
<1>3. out = CHOOSE g : Upto(N, g)
  OBVIOUS
<1>4. Upto(N, out)
  BY <1>2, <1>3
<1>5. addSamples(r, c, from) = out[N]
  BY DEF addSamples
<1>6. \A n \in 0 .. N : out[n] = IF n < from THEN r ELSE addSample(out[n - 1], c, n)
  <2> HIDE DEF out, Step
  <2>1. \A n \in 0 .. N : out[n] = Step(out, n)
    BY <1>4
  <2> QED
    BY <2>1 DEF Step
<1> HIDE DEF out
<1> QED
  BY <1>5, <1>6

LEMMA CyclesSteps ==
  ASSUME NEW r, NEW cycles, Len(cycles) \in Nat
  PROVE  \E f : /\ addCycles(r, cycles) = f[Len(cycles)]
                /\ \A n \in 0 .. Len(cycles) : f[n] = IF n = 0 THEN r ELSE addCycle(f[n - 1], cycles, n)
<1> DEFINE N == Len(cycles)
           Step(f, n) == IF n = 0 THEN r ELSE addCycle(f[n - 1], cycles, n)
           Upto(k, f) == f = [n \in 0 .. k |-> Step(f, n)]
           Bad == {k \in 0 .. N : ~ \E f : Upto(k, f)}
           R == {p \in Nat \X Nat : p[1] < p[2]}
           out[n \in 0 .. N] == IF n = 0 THEN r ELSE addCycle(out[n - 1], cycles, n)
<1>1. Bad = {}
  <2>1. SUFFICES ASSUME Bad # {} PROVE FALSE
    OBVIOUS
  <2>2. PICK k \in Bad : \A y \in Bad : ~(<<y, k>> \in R)
    <3>1. IsWellFoundedOn(R, Nat)
      BY NatLessThanWellFounded, Zenon DEF OpToRel
    <3>2. Bad \subseteq Nat
      OBVIOUS
    <3> HIDE DEF Bad, R
    <3> QED
      BY <2>1, <3>1, <3>2, WFMin
  <2>3. k # 0
    <3>1. Upto(0, [n \in 0 .. 0 |-> r])
      BY DEF Step
    <3> QED
      BY <3>1
  <2>4. k \in 0 .. N /\ k - 1 \in 0 .. N /\ k \in Nat /\ k - 1 \in Nat
    BY <2>3
  <2>5. k - 1 \notin Bad
    <3>1. <<k - 1, k>> \in R
      BY <2>4
    <3> QED
      BY <2>2, <3>1
  <2>6. PICK f : Upto(k - 1, f)
    BY <2>4, <2>5
  <2> DEFINE g == [n \in 0 .. k |-> IF n = k THEN Step(f, k) ELSE f[n]]
  <2>7. \A n \in 0 .. k - 1 : g[n] = f[n] /\ f[n] = Step(f, n)
    <3>1. \A n \in 0 .. k - 1 : f[n] = Step(f, n)
      <4> HIDE DEF Step
      <4> QED
        BY <2>6
    <3>2. \A n \in 0 .. k - 1 : n \in 0 .. k /\ n # k
      BY <2>4
    <3>3. \A n \in 0 .. k - 1 : g[n] = f[n]
      BY <3>2
    <3> QED
      BY <3>1, <3>3
  <2>8. g[k] = Step(g, k)
    <3>1. g[k - 1] = f[k - 1] /\ g[k] = Step(f, k)
      BY <2>4, <2>7
    <3> HIDE DEF g
    <3> QED
      BY <3>1
  <2>9. \A n \in 0 .. k - 1 : g[n] = Step(g, n)
    <3>1. SUFFICES ASSUME NEW n \in 0 .. k - 1 PROVE g[n] = Step(g, n)
      OBVIOUS
    <3>2. CASE n = 0
      BY <2>4, <2>7, <3>2
    <3>3. CASE n # 0
      <4>1. n - 1 \in 0 .. k - 1
        BY <2>4, <3>3
      <4>2. g[n - 1] = f[n - 1] /\ g[n] = Step(f, n)
        <5> HIDE DEF g, Step
        <5> QED
          BY <2>7, <4>1
      <4> HIDE DEF g
      <4> QED
        BY <4>2
    <3> QED
      BY <3>2, <3>3
  <2>10. Upto(k, g)
    <3>1. g = [n \in 0 .. k |-> g[n]]
      OBVIOUS
    <3> HIDE DEF g, Step
    <3>2. \A n \in 0 .. k : n = k \/ n \in 0 .. k - 1
      BY <2>4
    <3>3. \A n \in 0 .. k : g[n] = Step(g, n)
      BY <2>8, <2>9, <3>2
    <3> QED
      BY <3>1, <3>3
  <2> QED
    BY <2>2, <2>10
<1>2. PICK f : Upto(N, f)
  BY <1>1
<1>3. out = CHOOSE g : Upto(N, g)
  OBVIOUS
<1>4. Upto(N, out)
  BY <1>2, <1>3
<1>5. addCycles(r, cycles) = out[N]
  BY DEF addCycles
<1>6. \A n \in 0 .. N : out[n] = IF n = 0 THEN r ELSE addCycle(out[n - 1], cycles, n)
  <2> HIDE DEF out, Step
  <2>1. \A n \in 0 .. N : out[n] = Step(out, n)
    BY <1>4
  <2> QED
    BY <2>1 DEF Step
<1> HIDE DEF out
<1> QED
  BY <1>5, <1>6

Until(at) == {t \in Int : t <= at}

LEMMA UntilUpTo ==
  ASSUME NEW r, NEW at \in Int, Spans(r, Until(at))
  PROVE  UpTo(r.cycles, at)
BY DEF Spans, Within, Until, UpTo

LEMMA UntilLater ==
  ASSUME NEW r, NEW a \in Int, NEW b \in Int, a <= b, Spans(r, Until(a))
  PROVE  Spans(r, Until(b))
<1>1. \A t \in Until(a) : t \in Until(b)
  BY DEF Until
<1> QED
  BY <1>1 DEF Spans, Within

LEMMA ReadingOf ==
  ASSUME NEW c \in CycleSet, WellFormed(c)
  PROVE  \A i \in DOMAIN c.samples : SampleEstimated(c, c.samples[i]) \in BOOLEAN
BY CycleFields DEF SampleEstimated

LEMMA AddSamplesOK ==
  ASSUME NEW r, RingOK(r), NEW c \in CycleSet, WellFormed(c), NEW from \in Nat \ {0},
         \A i \in DOMAIN c.samples : from <= i => Spans(r, Until(At(c.samples[i])))
  PROVE  /\ RingOK(addSamples(r, c, from))
         /\ \A T : Spans(r, T) /\ (\A i \in DOMAIN c.samples : from <= i => At(c.samples[i]) \in T)
                     => Spans(addSamples(r, c, from), T)
<1> DEFINE N == Len(c.samples)
<1>1. /\ N \in Nat \ {0} /\ DOMAIN c.samples = 1 .. N /\ c.resetsAt \in Int
      /\ \A i \in DOMAIN c.samples : c.samples[i] \in Sample /\ At(c.samples[i]) \in Int
      /\ \A i \in DOMAIN c.samples : SampleEstimated(c, c.samples[i]) \in BOOLEAN
  BY CycleFields, ReadingOf
<1>2. PICK f : /\ addSamples(r, c, from) = f[N]
               /\ \A n \in 0 .. N : f[n] = IF n < from THEN r ELSE addSample(f[n - 1], c, n)
  BY <1>1, SamplesSteps
<1> HIDE DEF N
<1> DEFINE Read(n, T) == \A i \in DOMAIN c.samples : from <= i /\ i <= n => At(c.samples[i]) \in T
           P(n) == RingOK(f[n]) /\ \A T : Spans(r, T) /\ Read(n, T) => Spans(f[n], T)
           Bad == {n \in 0 .. N : ~P(n)}
           R == {p \in Nat \X Nat : p[1] < p[2]}
<1>3. Bad = {}
  <2>1. SUFFICES ASSUME Bad # {} PROVE FALSE
    OBVIOUS
  <2>2. PICK n \in Bad : \A m \in Bad : ~(<<m, n>> \in R)
    <3>1. IsWellFoundedOn(R, Nat)
      BY NatLessThanWellFounded, Zenon DEF OpToRel
    <3>2. Bad \subseteq Nat
      BY <1>1
    <3> HIDE DEF Bad, R
    <3> QED
      BY <2>1, <3>1, <3>2, WFMin
  <2>3. n \in 0 .. N /\ ~P(n)
    OBVIOUS
  <2>4. ~(n < from)
    <3>1. SUFFICES ASSUME n < from PROVE P(n)
      BY <2>3
    <3>2. f[n] = r
      BY <1>2, <2>3, <3>1
    <3> QED
      BY <3>2
  <2>5. n - 1 \in 0 .. N /\ n \in DOMAIN c.samples /\ from <= n /\ <<n - 1, n>> \in R
    BY <1>1, <2>3, <2>4
  <2>6. P(n - 1)
    <3>1. n - 1 \notin Bad
      BY <2>2, <2>5
    <3> HIDE DEF P
    <3> QED
      BY <2>5, <3>1
  <2> HIDE DEF R, Bad
  <2> DEFINE q == f[n - 1]
             s == c.samples[n]
  <2>7. f[n] = add(q, s, c.resetsAt, SampleEstimated(c, s), TRUE)
    BY <1>2, <2>3, <2>4 DEF addSample
  <2>8. s \in Sample /\ At(s) \in Int /\ SampleEstimated(c, s) \in BOOLEAN
    BY <1>1, <2>5
  <2>9. Spans(q, Until(At(s)))
    <3>1. Spans(r, Until(At(s)))
      BY <2>5
    <3>2. Read(n - 1, Until(At(s)))
      <4>1. SUFFICES ASSUME NEW i \in DOMAIN c.samples, i <= n - 1 PROVE At(c.samples[i]) \in Until(At(s))
        OBVIOUS
      <4>2. i < n
        BY <1>1, <2>3, <4>1
      <4>3. At(c.samples[i]) < At(s)
        BY <2>5, <4>2 DEF WellFormed, Climbs
      <4> QED
        BY <1>1, <2>8, <4>3 DEF Until
    <3> QED
      BY <2>6, <3>1, <3>2
  <2> HIDE DEF s
  <2>10. RingOK(f[n])
    <3>1. RingOK(q) /\ UpTo(q.cycles, At(s))
      BY <2>6, <2>8, <2>9, UntilUpTo
    <3> QED
      BY <1>1, <2>7, <2>8, <3>1, AddOK
  <2>11. ASSUME NEW T, Spans(r, T), Read(n, T) PROVE Spans(f[n], T)
    <3>1. Read(n - 1, T)
      BY <1>1, <2>3, <2>11
    <3>2. Spans(q, T)
      BY <2>6, <2>11, <3>1
    <3>3. At(s) \in T
      BY <1>1, <2>3, <2>5, <2>11 DEF s
    <3>4. RingOK(q)
      BY <2>6
    <3>5. c.resetsAt \in Int
      BY <1>1
    <3>6. Spans(add(q, s, c.resetsAt, SampleEstimated(c, s), TRUE), T)
      <4> HIDE DEF q
      <4> QED
        BY <2>8, <3>2, <3>3, <3>4, <3>5, AddSpans
    <3> QED
      BY <2>7, <3>6
  <2> QED
    BY <2>3, <2>10, <2>11
<1>4. P(N)
  BY <1>1, <1>3
<1>5. ASSUME NEW T, \A i \in DOMAIN c.samples : from <= i => At(c.samples[i]) \in T PROVE Read(N, T)
  BY <1>5
<1> QED
  BY <1>2, <1>4, <1>5

LEMMA AddLaterOK ==
  ASSUME NEW r, RingOK(r), NEW c \in CycleSet, WellFormed(c), Spans(r, Until(At(c.samples[1])))
  PROVE  /\ RingOK(addLater(r, c))
         /\ \A T : Spans(r, T) /\ (\A i \in DOMAIN c.samples : At(c.samples[i]) \in T) => Spans(addLater(r, c), T)
<1> DEFINE s == c.samples[1]
           one == Cycle(c.resetsAt, s, SampleEstimated(c, s))
           q == Open(r, one)
<1>1. /\ Len(c.samples) \in Nat \ {0} /\ DOMAIN c.samples = 1 .. Len(c.samples) /\ c.resetsAt \in Int
      /\ \A i \in DOMAIN c.samples : c.samples[i] \in Sample /\ At(c.samples[i]) \in Int
      /\ \A i \in DOMAIN c.samples : SampleEstimated(c, c.samples[i]) \in BOOLEAN
  BY CycleFields, ReadingOf
<1>2. /\ r \in RingSet /\ Rises(r.cycles) /\ s \in Sample /\ At(s) \in Int /\ 1 \in DOMAIN c.samples
      /\ SampleEstimated(c, s) \in BOOLEAN
  BY <1>1 DEF RingOK
<1>3. \A i \in DOMAIN c.samples : i # 1 => At(s) < At(c.samples[i])
  BY <1>1, <1>2 DEF WellFormed, Climbs
<1>4. \/ addLater(r, c) = r
      \/ addLater(r, c) = addSamples(r, c, 1)
      \/ addLater(r, c) = addSamples(q, c, 2)
  BY DEF addLater
<1>5. CASE addLater(r, c) = r
  BY <1>5
<1>6. CASE addLater(r, c) = addSamples(r, c, 1)
  <2>1. \A i \in DOMAIN c.samples : Spans(r, Until(At(c.samples[i])))
    <3>1. SUFFICES ASSUME NEW i \in DOMAIN c.samples PROVE Spans(r, Until(At(c.samples[i])))
      OBVIOUS
    <3>2. At(s) <= At(c.samples[i]) /\ At(c.samples[i]) \in Int
      BY <1>1, <1>2, <1>3
    <3> QED
      BY <1>2, <3>2, UntilLater
  <2>2. 1 \in Nat \ {0}
    OBVIOUS
  <2> QED
    BY <1>6, <2>1, <2>2, AddSamplesOK
<1>7. CASE addLater(r, c) = addSamples(q, c, 2)
  <2>1. one \in CycleSet /\ WellFormed(one) /\ one.samples = <<s>> /\ one.samples[1] = s /\ Last(one.samples) = s
    BY <1>1, <1>2, CycleOK
  <2> HIDE DEF one
  <2>2. RingOK(q)
    <3>1. UpTo(r.cycles, At(s))
      BY <1>2, UntilUpTo
    <3> QED
      BY <1>2, <2>1, <3>1, OpenOK
  <2>3. ASSUME NEW T, Spans(r, T), At(s) \in T PROVE Spans(q, T)
    <3>1. \A i \in DOMAIN one.samples : At(one.samples[i]) \in T
      BY <2>1, <2>3
    <3> QED
      BY <1>2, <2>1, <2>3, <3>1, OpenSpans DEF Spans
  <2>4. Spans(q, Until(At(s)))
    <3>1. At(s) \in Until(At(s))
      BY <1>2 DEF Until
    <3> QED
      BY <2>3, <3>1
  <2> HIDE DEF q
  <2>5. \A i \in DOMAIN c.samples : 2 <= i => Spans(q, Until(At(c.samples[i])))
    <3>1. SUFFICES ASSUME NEW i \in DOMAIN c.samples, 2 <= i PROVE Spans(q, Until(At(c.samples[i])))
      OBVIOUS
    <3>2. At(s) <= At(c.samples[i]) /\ At(c.samples[i]) \in Int
      BY <1>1, <1>2, <1>3, <3>1
    <3> HIDE DEF s
    <3> QED
      BY <1>2, <2>4, <3>2, UntilLater
  <2>6. 2 \in Nat \ {0}
    OBVIOUS
  <2>7. /\ RingOK(addSamples(q, c, 2))
        /\ \A T : Spans(q, T) /\ (\A i \in DOMAIN c.samples : 2 <= i => At(c.samples[i]) \in T)
                    => Spans(addSamples(q, c, 2), T)
    BY <2>2, <2>5, <2>6, AddSamplesOK
  <2> QED
    BY <1>2, <1>7, <2>3, <2>7
<1> QED
  BY <1>4, <1>5, <1>6, <1>7

\* The cycles of one ring behind those of another that is no newer.
LEMMA AddCyclesOK ==
  ASSUME NEW r, RingOK(r), NEW cycles \in Seq(CycleSet), Rises(cycles),
         \A n \in DOMAIN cycles : Spans(r, Until(At(cycles[n].samples[1])))
  PROVE  /\ RingOK(addCycles(r, cycles))
         /\ \A T : Spans(r, T) /\ Within(cycles, T) => Spans(addCycles(r, cycles), T)
<1> DEFINE N == Len(cycles)
<1>1. /\ N \in Nat /\ DOMAIN cycles = 1 .. N
      /\ \A n \in DOMAIN cycles : cycles[n] \in CycleSet /\ WellFormed(cycles[n])
  BY DEF Rises
<1>2. PICK f : /\ addCycles(r, cycles) = f[N]
               /\ \A n \in 0 .. N : f[n] = IF n = 0 THEN r ELSE addCycle(f[n - 1], cycles, n)
  BY <1>1, CyclesSteps
<1> HIDE DEF N
<1> DEFINE Read(n, T) == \A m \in DOMAIN cycles : m <= n => \A i \in DOMAIN cycles[m].samples : At(cycles[m].samples[i]) \in T
           P(n) == RingOK(f[n]) /\ \A T : Spans(r, T) /\ Read(n, T) => Spans(f[n], T)
           Bad == {n \in 0 .. N : ~P(n)}
           R == {p \in Nat \X Nat : p[1] < p[2]}
<1>3. Bad = {}
  <2>1. SUFFICES ASSUME Bad # {} PROVE FALSE
    OBVIOUS
  <2>2. PICK n \in Bad : \A m \in Bad : ~(<<m, n>> \in R)
    <3>1. IsWellFoundedOn(R, Nat)
      BY NatLessThanWellFounded, Zenon DEF OpToRel
    <3>2. Bad \subseteq Nat
      BY <1>1
    <3> HIDE DEF Bad, R
    <3> QED
      BY <2>1, <3>1, <3>2, WFMin
  <2>3. n \in 0 .. N /\ ~P(n)
    OBVIOUS
  <2>4. n # 0
    <3>1. SUFFICES ASSUME n = 0 PROVE P(n)
      BY <2>3
    <3>2. f[n] = r
      BY <1>2, <2>3, <3>1
    <3> QED
      BY <3>2
  <2>5. n - 1 \in 0 .. N /\ n \in DOMAIN cycles /\ <<n - 1, n>> \in R
    BY <1>1, <2>3, <2>4
  <2>6. P(n - 1)
    <3>1. n - 1 \notin Bad
      BY <2>2, <2>5
    <3> HIDE DEF P
    <3> QED
      BY <2>5, <3>1
  <2> HIDE DEF R, Bad
  <2> DEFINE q == f[n - 1]
             c == cycles[n]
  <2>7. f[n] = IF n = 1 THEN addSamples(q, cycles[1], 1) ELSE addLater(q, c)
    BY <1>2, <2>3, <2>4 DEF addCycle
  <2>8. f[n] = addSamples(q, c, 1) \/ f[n] = addLater(q, c)
    BY <2>7
  <2>9. c \in CycleSet /\ WellFormed(c)
    BY <1>1, <2>5
  <2>10. /\ DOMAIN c.samples = 1 .. Len(c.samples) /\ Len(c.samples) \in Nat \ {0} /\ 1 \in DOMAIN c.samples
         /\ \A i \in DOMAIN c.samples : At(c.samples[i]) \in Int
    BY <2>9, CycleFields
  <2>11. Spans(q, Until(At(c.samples[1])))
    <3>1. Spans(r, Until(At(c.samples[1])))
      BY <2>5
    <3>2. Read(n - 1, Until(At(c.samples[1])))
      <4>1. SUFFICES ASSUME NEW m \in DOMAIN cycles, m <= n - 1, NEW i \in DOMAIN cycles[m].samples
                     PROVE At(cycles[m].samples[i]) \in Until(At(c.samples[1]))
        OBVIOUS
      <4>2. m < n
        BY <1>1, <2>3, <4>1
      <4>3. InOrder(cycles[m], c)
        BY <2>5, <4>2 DEF Rises
      <4>4. At(cycles[m].samples[i]) <= At(c.samples[1])
        BY <2>10, <4>1, <4>3 DEF InOrder
      <4>5. At(cycles[m].samples[i]) \in Int
        BY <1>1, <4>1, CycleFields
      <4> QED
        BY <4>4, <4>5 DEF Until
    <3> QED
      BY <2>6, <3>1, <3>2
  <2> HIDE DEF c
  <2>12. RingOK(q)
    BY <2>6
  <2> HIDE DEF q
  <2>13. \A i \in DOMAIN c.samples : 1 <= i => Spans(q, Until(At(c.samples[i])))
    <3>1. SUFFICES ASSUME NEW i \in DOMAIN c.samples PROVE Spans(q, Until(At(c.samples[i])))
      OBVIOUS
    <3>2. i = 1 \/ At(c.samples[1]) < At(c.samples[i])
      BY <2>9, <2>10 DEF WellFormed, Climbs
    <3>3. At(c.samples[1]) <= At(c.samples[i])
      BY <2>10, <3>2
    <3> QED
      BY <2>10, <2>11, <3>3, UntilLater
  <2>14. 1 \in Nat \ {0}
    OBVIOUS
  <2>15. /\ RingOK(f[n])
         /\ \A T : Spans(q, T) /\ (\A i \in DOMAIN c.samples : At(c.samples[i]) \in T) => Spans(f[n], T)
    <3>1. CASE f[n] = addSamples(q, c, 1)
      BY <2>9, <2>12, <2>13, <2>14, <3>1, AddSamplesOK
    <3>2. CASE f[n] = addLater(q, c)
      BY <2>9, <2>11, <2>12, <3>2, AddLaterOK
    <3> QED
      BY <2>8, <3>1, <3>2
  <2>16. ASSUME NEW T, Spans(r, T), Read(n, T) PROVE Spans(f[n], T)
    <3>1. Read(n - 1, T)
      BY <1>1, <2>3, <2>16
    <3>2. Spans(q, T)
      BY <2>6, <2>16, <3>1 DEF q
    <3>3. \A i \in DOMAIN c.samples : At(c.samples[i]) \in T
      BY <1>1, <2>3, <2>5, <2>16 DEF c
    <3> QED
      BY <2>15, <3>2, <3>3
  <2> QED
    BY <2>3, <2>15, <2>16
<1>4. P(N)
  BY <1>1, <1>3
<1>5. ASSUME NEW T, Within(cycles, T) PROVE Read(N, T)
  BY <1>5 DEF Within
<1> QED
  BY <1>2, <1>4, <1>5

-----------------------------------------------------------------------------
(* The ring of every state *)

LEMMA EmptyOK ==
  /\ RingOK(EmptyRing) /\ Compacted(EmptyRing.cycles) /\ \A T : Spans(EmptyRing, T)
  /\ Count(<<>>) = 0 /\ <<>> \in Seq(CycleSet) /\ Rises(<<>>) /\ \A T : Within(<<>>, T)
<1>1. EmptyRing.cycles = <<>> /\ EmptyRing.fall = NoFall
  BY DEF EmptyRing
<1>2. <<>> \in Seq(CycleSet) /\ DOMAIN <<>> = {}
  OBVIOUS
<1>3. EmptyRing \in RingSet
  BY <1>2, NoFallTyped DEF EmptyRing, RingSet
<1>4. Rises(<<>>) /\ \A T : Within(<<>>, T)
  BY <1>2 DEF Rises, Within
<1>5. Places(<<>>, {}) = {}
  BY DEF Places
<1>6. Count(<<>>) = 0
  BY <1>2, <1>5, FS_EmptySet DEF Count
<1> QED
  BY <1>1, <1>2, <1>3, <1>4, <1>6 DEF RingOK, Spans, Compacted

LEMMA ReplayOK ==
  ASSUME NEW cycles \in Seq(CycleSet), Rises(cycles)
  PROVE  /\ RingOK(replay(cycles)) /\ Compacted(replay(cycles).cycles)
         /\ \A T : Within(cycles, T) => Spans(replay(cycles), T)
<1> DEFINE r == addCycles(EmptyRing, cycles)
<1>1. RingOK(r) /\ \A T : Within(cycles, T) => Spans(r, T)
  BY EmptyOK, AddCyclesOK
<1>2. replay(cycles) = compact(r)
  BY DEF replay
<1> HIDE DEF r
<1> QED
  BY <1>1, <1>2, CompactOK

\* The instants no sample of the file is after.
From(cycles) == {t \in Int : Within(cycles, Until(t))}

LEMMA ImportOK ==
  ASSUME stored \in Seq(CycleSet), Rises(stored), NEW live, RingOK(live), Spans(live, From(stored))
  PROVE  /\ RingOK(import(live)) /\ Compacted(import(live).cycles)
         /\ \A T : Within(stored, T) /\ Spans(live, T) => Spans(import(live), T)
<1> DEFINE old == replay(stored)
           r == addCycles(old, live.cycles)
           held == IF r.fall = NoFall THEN after(live.fall, r) ELSE r.fall
           q == [r EXCEPT !.fall = held]
<1>1. live \in RingSet /\ live.cycles \in Seq(CycleSet) /\ Rises(live.cycles) /\ live.fall \in [sample : Sample, resetsAt : Int]
  BY DEF RingOK, RingSet
<1>2. RingOK(old) /\ \A T : Within(stored, T) => Spans(old, T)
  BY ReplayOK
<1> HIDE DEF old
<1>3. \A n \in DOMAIN live.cycles : Spans(old, Until(At(live.cycles[n].samples[1])))
  <2>1. SUFFICES ASSUME NEW n \in DOMAIN live.cycles PROVE Spans(old, Until(At(live.cycles[n].samples[1])))
    OBVIOUS
  <2>2. 1 \in DOMAIN live.cycles[n].samples
    <3>1. live.cycles[n] \in CycleSet /\ WellFormed(live.cycles[n])
      BY <1>1 DEF Rises
    <3>2. \A c \in CycleSet : WellFormed(c) => 1 \in DOMAIN c.samples
      BY CycleFields
    <3> QED
      BY <3>1, <3>2
  <2>3. Within(stored, Until(At(live.cycles[n].samples[1])))
    BY <2>2 DEF Spans, Within, From
  <2> QED
    BY <1>2, <2>3
<1>4. RingOK(r) /\ \A T : Spans(old, T) /\ Within(live.cycles, T) => Spans(r, T)
  BY <1>1, <1>2, <1>3, AddCyclesOK
<1>5. import(live) = compact(q)
  BY DEF import, old
<1> HIDE DEF r
<1>6. /\ held \in [sample : Sample, resetsAt : Int]
      /\ r.cycles # <<>> /\ held # NoFall => At(Last(Last(r.cycles).samples)) < At(held.sample)
      /\ held \in {r.fall, NoFall, live.fall}
  <2>1. CASE r.fall # NoFall
    BY <1>4, <2>1 DEF RingOK, RingSet
  <2>2. CASE r.fall = NoFall
    <3>1. held = IF r.cycles = <<>> \/ At(live.fall.sample) > At(Last(Last(r.cycles).samples)) THEN live.fall ELSE NoFall
      BY <2>2 DEF after
    <3>2. CASE r.cycles # <<>> /\ At(live.fall.sample) > At(Last(Last(r.cycles).samples))
      <4>1. At(live.fall.sample) \in Int /\ At(Last(Last(r.cycles).samples)) \in Int
        <5>1. r.cycles \in Seq(CycleSet) /\ Rises(r.cycles) /\ live.fall.sample \in Sample
          BY <1>1, <1>4 DEF RingOK, RingSet
        <5> QED
          BY <3>2, <5>1, LastCycle, CycleFields, SampleFields
      <4> QED
        BY <1>1, <3>1, <3>2, <4>1
    <3>3. CASE r.cycles = <<>>
      BY <1>1, <3>1, <3>3
    <3>4. CASE r.cycles # <<>> /\ ~(At(live.fall.sample) > At(Last(Last(r.cycles).samples)))
      BY <3>1, <3>4, NoFallTyped
    <3> QED
      BY <3>2, <3>3, <3>4
  <2> QED
    BY <2>1, <2>2
<1> HIDE DEF held
<1>7. q.cycles = r.cycles /\ q.fall = held /\ q \in RingSet
  BY <1>4, <1>6 DEF RingOK, RingSet
<1>8. RingOK(q)
  BY <1>4, <1>6, <1>7 DEF RingOK
<1>9. ASSUME NEW T, Within(stored, T), Spans(live, T) PROVE Spans(q, T)
  <2>1. Spans(r, T)
    BY <1>2, <1>4, <1>9 DEF Spans
  <2> QED
    BY <1>6, <1>7, <1>9, <2>1 DEF Spans
<1> HIDE DEF q
<1> QED
  BY <1>5, <1>8, <1>9, CompactOK

SamplesInv ==
  /\ RingOK(ring) /\ Compacted(ring.cycles)
  /\ stored \in Seq(CycleSet) /\ Rises(stored)
  /\ taken.at \in Int /\ Spans(ring, Until(taken.at)) /\ Within(stored, Until(taken.at))
  /\ joined \in BOOLEAN /\ (~joined => Spans(ring, From(stored)))

LEMMA SamplesStart ==
  SamplesInit => SamplesInv
<1>1. SUFFICES ASSUME SamplesInit PROVE SamplesInv
  OBVIOUS
<1>2. ring = EmptyRing /\ joined = FALSE /\ taken.at = Start /\ stored \in {<<>>, Estimates} /\ Start \in Int
  BY <1>1, SamplesAssumption DEF SamplesInit
<1>3. stored \in Seq(CycleSet) /\ Rises(stored) /\ Within(stored, Until(Start))
  <2>1. CASE stored = <<>>
    BY <2>1, EmptyOK
  <2>2. CASE stored = Estimates
    <3>1. \A n \in DOMAIN Estimates : \A i \in DOMAIN Estimates[n].samples : At(Estimates[n].samples[i]) \in Int
      <4>1. SUFFICES ASSUME NEW n \in DOMAIN Estimates
                     PROVE \A i \in DOMAIN Estimates[n].samples : At(Estimates[n].samples[i]) \in Int
        OBVIOUS
      <4>2. Estimates[n] \in CycleSet /\ WellFormed(Estimates[n])
        BY EstimatesAssumption DEF Rises
      <4> QED
        BY <4>2, CycleFields
    <3> QED
      BY <2>2, <3>1, EstimatesAssumption DEF UpTo, Within, Until
  <2> QED
    BY <1>2, <2>1, <2>2
<1> QED
  BY <1>2, <1>3, EmptyOK DEF SamplesInv

LEMMA WithinLater ==
  ASSUME NEW cycles, NEW a \in Int, NEW b \in Int, a <= b, Within(cycles, Until(a))
  PROVE  Within(cycles, Until(b))
<1>1. \A t \in Until(a) : t \in Until(b)
  BY DEF Until
<1> QED
  BY <1>1 DEF Within

LEMMA SamplesStep ==
  SamplesInv /\ [SamplesNext]_samplesVars => SamplesInv'
<1>1. SUFFICES ASSUME SamplesInv, [SamplesNext]_samplesVars PROVE SamplesInv'
  OBVIOUS
<1> USE <1>1
<1>2. ASSUME NEW gap \in Gaps, NEW level \in Levels, NEW reset \in Resets, Record(gap, level, reset)
      PROVE  SamplesInv'
  <2> DEFINE at == taken.at + gap
             s == <<at, level>>
             w == windowReset(reset, at)
             r == add(ring, s, w, FALSE, FALSE)
  <2>1. /\ taken'.at = at /\ ring' = compact(r) /\ stored' = stored /\ joined' = joined
    BY <1>2 DEF Record, put
  <2>2. /\ taken.at \in Int /\ gap \in Int /\ at \in Int /\ taken.at <= at /\ level \in Int /\ FALSE \in BOOLEAN
    BY SamplesAssumption DEF SamplesInv
  <2>3. w \in Int
    BY SamplesAssumption DEF windowReset, Never
  <2>4. s \in Sample /\ At(s) = at
    BY <2>2 DEF Sample, At
  <2> HIDE DEF at, s, w
  <2>5. RingOK(ring) /\ Spans(ring, Until(at)) /\ UpTo(ring.cycles, At(s))
    <3>1. RingOK(ring) /\ Spans(ring, Until(taken.at))
      BY DEF SamplesInv
    <3>2. Spans(ring, Until(at))
      BY <2>2, <3>1, UntilLater
    <3> QED
      BY <2>2, <2>4, <3>1, <3>2, UntilUpTo
  <2>6. RingOK(r)
    BY <2>2, <2>3, <2>4, <2>5, AddOK
  <2>7. \A T : Spans(ring, T) /\ at \in T => Spans(r, T)
    BY <2>2, <2>3, <2>4, <2>5, AddSpans
  <2> HIDE DEF r
  <2>8. /\ RingOK(ring') /\ Compacted(ring'.cycles)
        /\ \A T : Spans(ring, T) /\ at \in T => Spans(ring', T)
    BY <2>1, <2>6, <2>7, CompactOK
  <2>9. at \in Until(at)
    BY <2>2 DEF Until
  <2>10. Within(stored, Until(at))
    BY <2>2, WithinLater DEF SamplesInv
  <2>11. at \in From(stored)
    BY <2>2, <2>10 DEF From
  <2>12. ~joined => Spans(ring', From(stored))
    BY <2>8, <2>11 DEF SamplesInv
  <2> QED
    BY <2>1, <2>2, <2>5, <2>8, <2>9, <2>10, <2>12 DEF SamplesInv
<1>3. CASE SaveCycles
  <2>1. stored' = ring.cycles /\ ring' = ring /\ joined' = joined /\ taken' = taken /\ joined
    BY <1>3 DEF SaveCycles, export
  <2>2. ring.cycles \in Seq(CycleSet) /\ Rises(ring.cycles) /\ Within(ring.cycles, Until(taken.at))
    BY DEF SamplesInv, RingOK, RingSet, Spans
  <2> QED
    BY <2>1, <2>2 DEF SamplesInv
<1>4. CASE Restart
  <2>1. ring' = EmptyRing /\ joined' = FALSE /\ stored' = stored /\ taken' = taken
    BY <1>4 DEF Restart
  <2> QED
    BY <2>1, EmptyOK DEF SamplesInv
<1>5. CASE LoadCycles
  <2>1. /\ ~joined /\ joined' = TRUE /\ ring' \in {ring, import(ring)}
        /\ stored' = stored /\ taken' = taken
    BY <1>5 DEF LoadCycles
  <2>2. /\ RingOK(import(ring)) /\ Compacted(import(ring).cycles)
        /\ \A T : Within(stored, T) /\ Spans(ring, T) => Spans(import(ring), T)
    BY <2>1, ImportOK DEF SamplesInv
  <2> QED
    BY <2>1, <2>2 DEF SamplesInv
<1>6. CASE UNCHANGED samplesVars
  BY <1>6 DEF samplesVars, SamplesInv, import, replay
<1> QED
  BY <1>2, <1>3, <1>4, <1>5, <1>6 DEF SamplesNext

\* However readings of the two sources, clearings, rolls, saves, restarts and reloads
\* mix, the cycles of a ring climb and follow one another, an estimate is only a
\* prefix, and no more than MaxSamples are kept (history.go: record, compact, replay).
THEOREM CyclesAlwaysRise ==
  SamplesSpec => []CyclesRise
<1>1. SamplesInv => CyclesRise
  <2>1. SUFFICES ASSUME SamplesInv PROVE CyclesRise
    OBVIOUS
  <2>2. Rises(ring.cycles)
    BY <2>1 DEF SamplesInv, RingOK
  <2>3. Count(ring.cycles) <= MaxSamples
    BY <2>1, EmptyOK, SamplesAssumption DEF SamplesInv, Compacted
  <2> QED
    BY <2>2, <2>3 DEF CyclesRise
<1> QED
  BY <1>1, SamplesStart, SamplesStep, PTL DEF SamplesSpec

LEMMA SameReset ==
  ASSUME NEW reset \in Int, NEW at \in Int
  PROVE  ~endedBefore(reset, reset, at) /\ ~rolled(reset, reset)
<1>1. Tolerance \in Nat
  BY SamplesAssumption
<1>2. reset - reset = 0
  OBVIOUS
<1> QED
  BY <1>1, <1>2 DEF endedBefore, rolled, Distance

LEMMA LowDropped ==
  ASSUME NEW r, RingOK(r), Compacted(r.cycles), r.cycles # <<>>, r.fall = NoFall,
         NEW s \in Sample, NEW t \in Sample, UpTo(r.cycles, At(s)),
         cleared(Last(r.cycles), s, FALSE), ~closed(Last(r.cycles), At(s)), ~cleared(Last(r.cycles), t, FALSE)
  PROVE  put(put(r, s, Last(r.cycles).resetsAt, FALSE), t, Last(r.cycles).resetsAt, FALSE)
           = put(r, t, Last(r.cycles).resetsAt, FALSE)
<1> DEFINE c == Last(r.cycles)
           reset == c.resetsAt
           held == [sample |-> s, resetsAt |-> reset]
           q == [r EXCEPT !.fall = held]
<1>1. /\ r \in RingSet /\ r.cycles \in Seq(CycleSet) /\ Rises(r.cycles) /\ FALSE \in BOOLEAN
      /\ At(s) \in Int /\ At(t) \in Int /\ reset \in Int
  <2>1. r \in RingSet /\ r.cycles \in Seq(CycleSet) /\ Rises(r.cycles)
    BY DEF RingOK, RingSet
  <2>2. reset \in Int
    BY <2>1, LastCycle, CycleFields
  <2> QED
    BY <2>1, <2>2, SampleFields
<1>2. ~endedBefore(reset, reset, At(s)) /\ ~endedBefore(reset, reset, At(t)) /\ ~rolled(reset, reset)
  BY <1>1, SameReset
<1>3. add(r, s, reset, FALSE, FALSE) = q
  <2>1. add(r, s, reset, FALSE, FALSE) = fall(r, s, reset)
    BY <1>2 DEF add
  <2> QED
    BY <2>1 DEF fall
<1>4. q.cycles = r.cycles /\ [q EXCEPT !.fall = NoFall] = r /\ [r EXCEPT !.fall = NoFall] = r
  BY <1>1 DEF RingSet
<1>5. compact(q) = q
  <2>1. RingOK(add(r, s, reset, FALSE, FALSE))
    <3> HIDE DEF reset
    <3> QED
      BY <1>1, AddOK
  <2>2. RingOK(q)
    BY <1>3, <2>1, Zenon
  <2> HIDE DEF q
  <2> QED
    BY <1>4, <2>2, CompactOK
<1> HIDE DEF q, c, reset
<1>6. add(q, t, reset, FALSE, FALSE) = add(r, t, reset, FALSE, FALSE)
  <2>1. add(r, t, reset, FALSE, FALSE) =
          IF closed(c, At(t)) THEN Open(r, Cycle(reset, t, FALSE)) ELSE Continue(r, t, reset, FALSE, FALSE)
    BY <1>2, <1>4 DEF add, c, reset
  <2>2. add(q, t, reset, FALSE, FALSE) =
          IF closed(c, At(t)) THEN Open(q, Cycle(reset, t, FALSE)) ELSE Continue(r, t, reset, FALSE, FALSE)
    BY <1>2, <1>4 DEF add, c, reset
  <2>3. Open(q, Cycle(reset, t, FALSE)) = Open(r, Cycle(reset, t, FALSE))
    BY <1>4 DEF Open
  <2>4. CASE closed(c, At(t))
    <3>1. add(r, t, reset, FALSE, FALSE) = Open(r, Cycle(reset, t, FALSE))
      BY <2>1, <2>4
    <3>2. add(q, t, reset, FALSE, FALSE) = Open(q, Cycle(reset, t, FALSE))
      BY <2>2, <2>4
    <3> QED
      BY <2>3, <3>1, <3>2
  <2>5. CASE ~closed(c, At(t))
    BY <2>1, <2>2, <2>5
  <2> QED
    BY <2>4, <2>5
<1>7. put(put(r, s, reset, FALSE), t, reset, FALSE) = put(r, t, reset, FALSE)
  BY <1>3, <1>5, <1>6 DEF put
<1> QED
  BY <1>7 DEF c, reset

\* A single low reading that the next does not confirm leaves no trace in the cycles,
\* whatever the ring holds ("is stale and is dropped", history.go).
THEOREM StaleLowAlwaysDropped ==
  SamplesSpec => []StaleLowDropped
<1>1. SamplesInv => StaleLowDropped
  <2>1. SUFFICES ASSUME SamplesInv, ring.cycles # <<>>, ring.fall = NoFall,
                        NEW low \in Levels, NEW next \in Levels, NEW wait \in Gaps
                 PROVE  LET c == Last(ring.cycles)
                            s == <<taken.at + 1, low>>
                            t == <<taken.at + 1 + wait, next>>
                        IN  cleared(c, s, FALSE) /\ ~closed(c, At(s)) /\ ~cleared(c, t, FALSE)
                              => put(put(ring, s, c.resetsAt, FALSE), t, c.resetsAt, FALSE).cycles
                                   = put(ring, t, c.resetsAt, FALSE).cycles
    BY DEF StaleLowDropped
  <2> DEFINE s == <<taken.at + 1, low>>
             t == <<taken.at + 1 + wait, next>>
  <2>2. taken.at \in Int /\ low \in Int /\ next \in Int /\ wait \in Int
    BY <2>1, SamplesAssumption DEF SamplesInv
  <2>3. s \in Sample /\ t \in Sample /\ At(s) = taken.at + 1
    BY <2>2 DEF Sample, At
  <2>4. RingOK(ring) /\ Compacted(ring.cycles) /\ UpTo(ring.cycles, At(s))
    <3>1. RingOK(ring) /\ Compacted(ring.cycles) /\ Spans(ring, Until(taken.at))
      BY <2>1 DEF SamplesInv
    <3>2. taken.at <= taken.at + 1 /\ taken.at + 1 \in Int
      BY <2>2
    <3>3. Spans(ring, Until(taken.at + 1))
      BY <2>2, <3>1, <3>2, UntilLater
    <3> QED
      BY <2>3, <3>1, <3>2, <3>3, UntilUpTo
  <2> HIDE DEF s, t
  <2> SUFFICES ASSUME cleared(Last(ring.cycles), s, FALSE), ~closed(Last(ring.cycles), At(s)),
                      ~cleared(Last(ring.cycles), t, FALSE)
               PROVE  put(put(ring, s, Last(ring.cycles).resetsAt, FALSE), t, Last(ring.cycles).resetsAt, FALSE)
                        = put(ring, t, Last(ring.cycles).resetsAt, FALSE)
    BY DEF s, t
  <2> QED
    BY <2>1, <2>3, <2>4, LowDropped
<1> QED
  BY <1>1, SamplesStart, SamplesStep, PTL DEF SamplesSpec

-----------------------------------------------------------------------------
(* export *)

Thinned(samples, step) == {i \in DOMAIN samples : keeps(samples, i, step)}

LEMMA ThinOK ==
  ASSUME NEW samples \in Seq(Sample), samples # <<>>, NEW step
  PROVE  /\ thin(samples, step) \in Seq(Sample) /\ thin(samples, step) # <<>>
         /\ Len(thin(samples, step)) = Cardinality(Thinned(samples, step))
         /\ Len(thin(samples, step)) <= Len(samples)
         /\ thin(samples, step)[1] = samples[1]
         /\ Last(thin(samples, step)) = Last(samples)
<1>1. Len(samples) \in Nat \ {0} /\ DOMAIN samples = 1 .. Len(samples)
  OBVIOUS
<1>2. /\ Thinned(samples, step) \in SUBSET DOMAIN samples
      /\ 1 \in Thinned(samples, step) /\ Len(samples) \in Thinned(samples, step)
  BY <1>1 DEF Thinned, keeps
<1>3. thin(samples, step) = Kept(samples, Thinned(samples, step))
  BY DEF thin, Thinned
<1> QED
  BY <1>1, <1>2, <1>3, KeptIs

\* What keptCount counts is what thin keeps.
Survivors(cycles, ns, step) == {p \in Places(cycles, ns) : keeps(cycles[p[1]].samples, p[2], step)}

LEMMA ThinCount ==
  ASSUME NEW cs \in Seq(CycleSet), NEW ds \in Seq(CycleSet), DOMAIN ds = DOMAIN cs,
         NEW ns \in SUBSET DOMAIN cs, NEW step,
         \A n \in ns : ds[n].samples = thin(cs[n].samples, step)
  PROVE  Cardinality(Places(ds, ns)) = Cardinality(Survivors(cs, ns, step))
<1> DEFINE A == Places(ds, ns)
           B == Survivors(cs, ns, step)
           keep(n) == Thinned(cs[n].samples, step)
           f == [p \in A |-> <<p[1], Nth(keep(p[1]), p[2])>>]
<1>1. ASSUME NEW n \in ns
      PROVE  /\ DOMAIN ds[n].samples = 1 .. Cardinality(keep(n))
             /\ \A k \in 1 .. Cardinality(keep(n)) : Nth(keep(n), k) \in keep(n)
             /\ \A k, l \in 1 .. Cardinality(keep(n)) : Nth(keep(n), k) = Nth(keep(n), l) => k = l
             /\ \A i \in keep(n) : \E k \in 1 .. Cardinality(keep(n)) : Nth(keep(n), k) = i
  <2> DEFINE q == cs[n].samples
             K == keep(n)
  <2>1. cs[n] \in CycleSet /\ ds[n] \in CycleSet
    OBVIOUS
  <2>2. q \in Seq(Sample) /\ ds[n].samples \in Seq(Sample)
    BY <2>1 DEF CycleSet
  <2>3. ds[n].samples = thin(q, step)
    OBVIOUS
  <2> HIDE DEF q
  <2>4. K \in SUBSET DOMAIN q /\ DOMAIN q = 1 .. Len(q) /\ Len(q) \in Nat
    BY <2>2, SeqDomain DEF Thinned, q
  <2>5. thin(q, step) = Kept(q, K)
    BY DEF thin, Thinned, q
  <2> HIDE DEF K
  <2>6. Len(Kept(q, K)) = Cardinality(K)
    BY <2>2, <2>4, KeptIs
  <2>7. DOMAIN ds[n].samples = 1 .. Cardinality(K)
    BY <2>2, <2>3, <2>5, <2>6, SeqDomain
  <2>8. K \in SUBSET (1 .. Len(q))
    BY <2>4
  <2>9. /\ Cardinality(K) \in Nat
        /\ \A k \in 1 .. Cardinality(K) : Nth(K, k) \in K
        /\ \A k, l \in 1 .. Cardinality(K) : k < l => Nth(K, k) < Nth(K, l)
        /\ \A i \in K : \E k \in 1 .. Cardinality(K) : Nth(K, k) = i
    BY <2>4, <2>8, NthIs
  <2>10. \A k, l \in 1 .. Cardinality(K) : Nth(K, k) = Nth(K, l) => k = l
    <3>1. SUFFICES ASSUME NEW k \in 1 .. Cardinality(K), NEW l \in 1 .. Cardinality(K), Nth(K, k) = Nth(K, l)
                   PROVE  k = l
      OBVIOUS
    <3>2. PICK i : i = Nth(K, k)
      OBVIOUS
    <3>3. i \in K /\ i = Nth(K, l) /\ k \in Int /\ l \in Int
      BY <2>9, <3>1, <3>2
    <3>4. i \in Int
      BY <2>8, <3>3
    <3>5. ~(k < l) /\ ~(l < k)
      BY <2>9, <3>1, <3>2, <3>3, <3>4
    <3> QED
      BY <3>3, <3>5
  <2> QED
    BY <2>7, <2>9, <2>10 DEF K
<1>2. \A p : p \in A <=> \E n \in ns : \E k \in DOMAIN ds[n].samples : p = <<n, k>>
  BY DEF Places
<1>3. \A p : p \in B <=> \E n \in ns : \E i \in keep(n) : p = <<n, i>>
  <2>1. \A p : p \in Places(cs, ns) <=> \E n \in ns : \E i \in DOMAIN cs[n].samples : p = <<n, i>>
    BY DEF Places
  <2>2. \A n \in ns : \A i : i \in keep(n) <=> i \in DOMAIN cs[n].samples /\ keeps(cs[n].samples, i, step)
    BY DEF Thinned
  <2>3. \A p : p \in B <=> p \in Places(cs, ns) /\ keeps(cs[p[1]].samples, p[2], step)
    BY DEF Survivors
  <2> HIDE DEF keep, B
  <2>4. ASSUME NEW p, p \in B PROVE \E n \in ns : \E i \in keep(n) : p = <<n, i>>
    <3>1. PICK n \in ns : \E i \in DOMAIN cs[n].samples : p = <<n, i>>
      BY <2>1, <2>3, <2>4
    <3>2. PICK i \in DOMAIN cs[n].samples : p = <<n, i>>
      BY <3>1
    <3>3. p[1] = n /\ p[2] = i
      BY <3>2
    <3> QED
      BY <2>2, <2>3, <2>4, <3>2, <3>3
  <2>5. ASSUME NEW n \in ns, NEW i \in keep(n) PROVE <<n, i>> \in B
    <3>1. PICK p : p = <<n, i>>
      OBVIOUS
    <3>2. p[1] = n /\ p[2] = i
      BY <3>1
    <3>3. i \in DOMAIN cs[n].samples /\ keeps(cs[n].samples, i, step)
      BY <2>2, <2>5
    <3> QED
      BY <2>1, <2>3, <3>1, <3>2, <3>3
  <2> QED
    BY <2>4, <2>5
<1>4. IsFiniteSet(A)
  BY PlacesFinite
<1> HIDE DEF A, B, keep
<1>5. \A n \in ns : \A k : <<n, k>> \in A => k \in 1 .. Cardinality(keep(n)) /\ f[<<n, k>>] = <<n, Nth(keep(n), k)>>
  <2>1. SUFFICES ASSUME NEW n \in ns, NEW k, <<n, k>> \in A
                 PROVE  k \in 1 .. Cardinality(keep(n)) /\ f[<<n, k>>] = <<n, Nth(keep(n), k)>>
    OBVIOUS
  <2>2. PICK m \in ns : \E l \in DOMAIN ds[m].samples : <<n, k>> = <<m, l>>
    BY <1>2, <2>1
  <2>3. k \in DOMAIN ds[n].samples
    BY <2>2
  <2> QED
    BY <1>1, <2>1, <2>3
<1>6. \A p \in A : \E n \in ns : \E k \in 1 .. Cardinality(keep(n)) : p = <<n, k>> /\ f[p] = <<n, Nth(keep(n), k)>>
  <2> HIDE DEF f
  <2> QED
    BY <1>2, <1>5
<1>7. f \in [A -> B]
  <2>1. \A p \in A : f[p] \in B
    <3> HIDE DEF f
    <3> QED
      BY <1>1, <1>3, <1>6
  <2> QED
    BY <2>1
<1> HIDE DEF f
<1>8. \A p, q \in A : f[p] = f[q] => p = q
  <2>1. SUFFICES ASSUME NEW p \in A, NEW q \in A, f[p] = f[q] PROVE p = q
    OBVIOUS
  <2>2. PICK m \in ns : \E k \in 1 .. Cardinality(keep(m)) : p = <<m, k>> /\ f[p] = <<m, Nth(keep(m), k)>>
    BY <1>6
  <2>3. PICK k \in 1 .. Cardinality(keep(m)) : p = <<m, k>> /\ f[p] = <<m, Nth(keep(m), k)>>
    BY <2>2
  <2>4. PICK n \in ns : \E l \in 1 .. Cardinality(keep(n)) : q = <<n, l>> /\ f[q] = <<n, Nth(keep(n), l)>>
    BY <1>6
  <2>5. PICK l \in 1 .. Cardinality(keep(n)) : q = <<n, l>> /\ f[q] = <<n, Nth(keep(n), l)>>
    BY <2>4
  <2>6. m = n /\ Nth(keep(m), k) = Nth(keep(n), l)
    BY <2>1, <2>3, <2>5
  <2> QED
    BY <1>1, <2>3, <2>5, <2>6
<1>9. \A y \in B : \E p \in A : f[p] = y
  <2>1. SUFFICES ASSUME NEW y \in B PROVE \E p \in A : f[p] = y
    OBVIOUS
  <2>2. PICK n \in ns : \E i \in keep(n) : y = <<n, i>>
    BY <1>3
  <2>3. PICK i \in keep(n) : y = <<n, i>>
    BY <2>2
  <2>4. PICK k \in 1 .. Cardinality(keep(n)) : Nth(keep(n), k) = i
    BY <1>1
  <2>5. <<n, k>> \in A
    BY <1>1, <1>2, <2>4
  <2> QED
    BY <1>5, <2>3, <2>4, <2>5
<1>10. ExistsBijection(A, B)
  BY <1>7, <1>8, <1>9 DEF ExistsBijection, Bijection, Injection, Surjection, IsInjective
<1> QED
  BY <1>4, <1>10, FS_Bijection DEF A, B

LEMMA FrontOf ==
  ASSUME NEW cs \in Seq(CycleSet), cs # <<>>
  PROVE  /\ Len(cs) \in Nat \ {0} /\ DOMAIN cs = 1 .. Len(cs) /\ Len(cs) \in DOMAIN cs
         /\ Front(cs) \in Seq(CycleSet) /\ DOMAIN Front(cs) = 1 .. Len(cs) - 1
         /\ \A n \in 1 .. Len(cs) - 1 : Front(cs)[n] = cs[n]
         /\ Last(cs) = cs[Len(cs)] /\ Last(cs) \in CycleSet /\ <<Last(cs)>> \in Seq(CycleSet)
<1> DEFINE N == Len(cs)
           q == SubSeq(cs, 1, N - 1)
<1>1. N \in Nat \ {0} /\ DOMAIN cs = 1 .. N /\ N \in DOMAIN cs /\ N - 1 \in 0 .. N
  OBVIOUS
<1>2. Last(cs) = cs[N] /\ cs[N] \in CycleSet /\ <<cs[N]>> \in Seq(CycleSet)
  BY <1>1 DEF Last
<1> HIDE DEF N
<1>3. q \in Seq(CycleSet)
  <2>1. \A n \in 1 .. N - 1 : cs[n] \in CycleSet /\ n \in 1 .. N
    BY <1>1
  <2>2. q = [n \in 1 .. N - 1 |-> cs[n]]
    <3>1. \A n \in 1 .. N - 1 : 1 + n - 1 = n
      BY <1>1
    <3> QED
      BY <1>1, <3>1
  <2>3. N - 1 \in Nat
    BY <1>1
  <2> HIDE DEF q
  <2> QED
    BY <2>1, <2>2, <2>3
<1>4. Len(q) = N - 1 /\ DOMAIN q = 1 .. N - 1 /\ \A n \in 1 .. N - 1 : q[n] = cs[n]
  BY <1>1, <1>3
<1>5. Front(cs) = q
  BY DEF Front, N
<1> HIDE DEF q
<1> QED
  BY <1>1, <1>2, <1>3, <1>4, <1>5 DEF N

LEMMA KeptCountNat ==
  ASSUME NEW cycles \in Seq(CycleSet), NEW step
  PROVE  /\ keptCount(cycles, step) = Cardinality(Survivors(cycles, DOMAIN cycles, step))
         /\ keptCount(cycles, step) \in Nat
         /\ keptCount(cycles, step) <= Count(cycles)
         /\ keptCount(cycles, 0) = Count(cycles)
<1>1. IsFiniteSet(Places(cycles, DOMAIN cycles)) /\ Count(cycles) \in Nat
  BY PlacesFinite DEF Count
<1>2. Survivors(cycles, DOMAIN cycles, step) \in SUBSET Places(cycles, DOMAIN cycles)
  BY DEF Survivors
<1>3. keptCount(cycles, step) = Cardinality(Survivors(cycles, DOMAIN cycles, step))
  BY DEF keptCount, Survivors
<1>4. keptCount(cycles, 0) = Count(cycles)
  <2>1. \A p \in Places(cycles, DOMAIN cycles) : keeps(cycles[p[1]].samples, p[2], 0)
    BY DEF keeps
  <2>2. Survivors(cycles, DOMAIN cycles, 0) = Places(cycles, DOMAIN cycles)
    BY <2>1 DEF Survivors
  <2> QED
    BY <2>2 DEF keptCount, Survivors, Count
<1>5. IsFiniteSet(Survivors(cycles, DOMAIN cycles, step)) /\ keptCount(cycles, step) <= Count(cycles)
  BY <1>1, <1>2, <1>3, FS_Subset DEF Count
<1> QED
  BY <1>3, <1>4, <1>5, FS_CardinalityType

LEMMA FrontCount ==
  ASSUME NEW cs \in Seq(CycleSet), cs # <<>>, NEW step
  PROVE  keptCount(Front(cs), step) = Cardinality(Survivors(cs, 1 .. Len(cs) - 1, step))
<1> DEFINE ns == 1 .. Len(cs) - 1
<1>1. Front(cs) \in Seq(CycleSet) /\ DOMAIN Front(cs) = ns /\ \A n \in ns : Front(cs)[n] = cs[n]
  BY FrontOf
<1> HIDE DEF ns
<1>2. Places(Front(cs), ns) = Places(cs, ns)
  <2>1. \A n \in ns : DOMAIN Front(cs)[n].samples = DOMAIN cs[n].samples
    BY <1>1
  <2> QED
    BY <2>1 DEF Places
<1>3. \A p \in Places(cs, ns) : p[1] \in ns
  <2>1. \A p \in Places(cs, ns) : \E n \in ns : \E i \in DOMAIN cs[n].samples : p = <<n, i>>
    BY DEF Places
  <2> QED
    BY <2>1
<1>4. Survivors(Front(cs), ns, step) = Survivors(cs, ns, step)
  <2>1. \A p \in Places(cs, ns) : Front(cs)[p[1]].samples = cs[p[1]].samples
    BY <1>1, <1>3
  <2> QED
    BY <1>2, <2>1 DEF Survivors
<1>5. keptCount(Front(cs), step) = Cardinality(Survivors(Front(cs), ns, step))
  BY <1>1, KeptCountNat
<1> QED
  BY <1>4, <1>5 DEF ns

LEMMA ThinCycle ==
  ASSUME NEW c \in CycleSet, c.samples # <<>>, NEW step
  PROVE  /\ [c EXCEPT !.samples = thin(@, step)] \in CycleSet
         /\ [c EXCEPT !.samples = thin(@, step)].samples = thin(c.samples, step)
<1> DEFINE q == thin(c.samples, step)
<1>1. c.samples \in Seq(Sample)
  BY DEF CycleSet
<1>2. q \in Seq(Sample)
  BY <1>1, ThinOK
<1> HIDE DEF q
<1>3. [c EXCEPT !.samples = q] \in CycleSet /\ [c EXCEPT !.samples = q].samples = q
  BY <1>2 DEF CycleSet
<1> QED
  BY <1>3 DEF q

LEMMA OneCount ==
  ASSUME NEW c \in CycleSet, c.samples # <<>>, NEW step
  PROVE  keptCount(<<c>>, step) = Len(thin(c.samples, step))
<1> DEFINE d == [c EXCEPT !.samples = thin(@, step)]
           cs == <<c>>
           ds == <<d>>
<1>1. d \in CycleSet /\ d.samples = thin(c.samples, step)
  BY ThinCycle
<1> HIDE DEF d
<1>2. /\ cs \in Seq(CycleSet) /\ ds \in Seq(CycleSet) /\ DOMAIN cs = {1} /\ DOMAIN ds = {1}
      /\ cs[1] = c /\ ds[1] = d
  BY <1>1
<1> HIDE DEF cs, ds
<1>3. Cardinality(Places(ds, {1})) = Cardinality(Survivors(cs, {1}, step))
  BY <1>1, <1>2, ThinCount
<1>4. Cardinality(Places(ds, {1})) = Len(d.samples)
  BY <1>2, PlacesOf
<1>5. keptCount(cs, step) = Cardinality(Survivors(cs, {1}, step))
  BY <1>2, KeptCountNat
<1> QED
  BY <1>1, <1>3, <1>4, <1>5 DEF cs

\* The older cycles at step b and the newest at step a.
LEMMA ExportCount ==
  ASSUME NEW cs \in Seq(CycleSet), cs # <<>>, \A n \in DOMAIN cs : cs[n].samples # <<>>,
         NEW ds \in Seq(CycleSet), DOMAIN ds = DOMAIN cs, NEW a, NEW b,
         \A n \in 1 .. Len(cs) - 1 : ds[n].samples = thin(cs[n].samples, b),
         ds[Len(cs)].samples = thin(cs[Len(cs)].samples, a)
  PROVE  Count(ds) = keptCount(Front(cs), b) + keptCount(<<Last(cs)>>, a)
<1> DEFINE N == Len(cs)
           ns == 1 .. N - 1
<1>1. N \in Nat \ {0} /\ DOMAIN cs = 1 .. N /\ N \in DOMAIN cs /\ Last(cs) = cs[N] /\ Last(cs) \in CycleSet
  BY FrontOf
<1>2. ns \in SUBSET DOMAIN cs /\ {N} \in SUBSET DOMAIN cs /\ ns \cap {N} = {} /\ ns \cup {N} = DOMAIN cs
  BY <1>1
<1> HIDE DEF N
<1>3. \A n \in ns : ds[n].samples = thin(cs[n].samples, b)
  BY DEF N
<1> HIDE DEF ns
<1>4. Count(ds) = Cardinality(Places(ds, ns)) + Cardinality(Places(ds, {N}))
  BY <1>2, PlacesSplit DEF Count
<1>5. Cardinality(Places(ds, ns)) = Cardinality(Survivors(cs, ns, b))
  BY <1>2, <1>3, ThinCount
<1>6. keptCount(Front(cs), b) = Cardinality(Survivors(cs, ns, b))
  BY FrontCount DEF ns, N
<1>7. Cardinality(Places(ds, {N})) = Len(ds[N].samples)
  BY <1>1, PlacesOf
<1>8. keptCount(<<Last(cs)>>, a) = Len(thin(cs[N].samples, a))
  BY <1>1, OneCount
<1> QED
  BY <1>4, <1>5, <1>6, <1>7, <1>8 DEF N

LEMMA AllCount ==
  ASSUME NEW cs \in Seq(CycleSet), cs # <<>>, \A n \in DOMAIN cs : cs[n].samples # <<>>, NEW step
  PROVE  keptCount(cs, step) = keptCount(Front(cs), step) + keptCount(<<Last(cs)>>, step)
<1> DEFINE N == Len(cs)
           ds == [n \in 1 .. N |-> [cs[n] EXCEPT !.samples = thin(@, step)]]
<1>1. N \in Nat \ {0} /\ DOMAIN cs = 1 .. N /\ N \in DOMAIN cs
  BY FrontOf
<1>2. \A n \in 1 .. N : /\ [cs[n] EXCEPT !.samples = thin(@, step)] \in CycleSet
                        /\ [cs[n] EXCEPT !.samples = thin(@, step)].samples = thin(cs[n].samples, step)
  <2>1. SUFFICES ASSUME NEW n \in 1 .. N
                 PROVE  /\ [cs[n] EXCEPT !.samples = thin(@, step)] \in CycleSet
                        /\ [cs[n] EXCEPT !.samples = thin(@, step)].samples = thin(cs[n].samples, step)
    OBVIOUS
  <2>2. cs[n] \in CycleSet /\ cs[n].samples # <<>>
    BY <1>1
  <2> QED
    BY <2>2, ThinCycle
<1>3. \A n \in 1 .. N : ds[n] \in CycleSet /\ ds[n].samples = thin(cs[n].samples, step)
  BY <1>2
<1>4. ds = [n \in 1 .. N |-> ds[n]]
  OBVIOUS
<1> HIDE DEF ds, N
<1>5. ds \in Seq(CycleSet) /\ DOMAIN ds = DOMAIN cs
  BY <1>1, <1>3, <1>4
<1>6. Count(ds) = keptCount(Front(cs), step) + keptCount(<<Last(cs)>>, step)
  <2>1. \A n \in 1 .. N - 1 : n \in 1 .. N
    BY <1>1
  <2>2. (\A n \in 1 .. N - 1 : ds[n].samples = thin(cs[n].samples, step)) /\ ds[N].samples = thin(cs[N].samples, step)
    BY <1>1, <1>3, <2>1
  <2> QED
    BY <1>5, <2>2, ExportCount DEF N
<1>7. Cardinality(Places(ds, DOMAIN cs)) = Cardinality(Survivors(cs, DOMAIN cs, step))
  BY <1>1, <1>3, <1>5, ThinCount
<1> QED
  BY <1>5, <1>6, <1>7, KeptCountNat DEF Count

LEMMA FinestOK ==
  ASSUME NEW cycles \in Seq(CycleSet), NEW budget \in Int
  PROVE  LET step == finestStep(cycles, budget)
         IN  /\ \/ keptCount(cycles, step) <= budget
                \/ step = Coarsest /\ ~(keptCount(cycles, Coarsest) <= budget)
             /\ keptCount(cycles, PublishSteps[2]) <= budget =>
                  step \in {0, PublishSteps[2]} /\ keptCount(cycles, step) <= budget
<1> DEFINE fits == {i \in DOMAIN PublishSteps : keptCount(cycles, PublishSteps[i]) <= budget}
           step == finestStep(cycles, budget)
<1>1. /\ Len(PublishSteps) \in Nat /\ Len(PublishSteps) >= 2 /\ PublishSteps[1] = 0
      /\ DOMAIN PublishSteps = 1 .. Len(PublishSteps)
  BY SamplesAssumption
<1>2. step = IF fits = {} THEN Coarsest ELSE PublishSteps[Min(fits)]
  BY DEF finestStep
<1>3. Len(PublishSteps) \in DOMAIN PublishSteps /\ Coarsest = PublishSteps[Len(PublishSteps)] /\ 2 \in DOMAIN PublishSteps
  BY <1>1 DEF Coarsest, Last
<1>4. fits \in SUBSET (1 .. Len(PublishSteps))
  BY <1>1
<1>5. CASE fits = {}
  <2>1. \A i \in DOMAIN PublishSteps : ~(keptCount(cycles, PublishSteps[i]) <= budget)
    BY <1>5
  <2> QED
    BY <1>2, <1>3, <1>5, <2>1
<1>6. CASE fits # {}
  <2>1. Min(fits) \in fits /\ \A i \in fits : Min(fits) <= i
    BY <1>1, <1>4, <1>6, LeastOfIndices
  <2>2. step = PublishSteps[Min(fits)] /\ keptCount(cycles, step) <= budget
    BY <1>2, <1>6, <2>1
  <2>3. ASSUME keptCount(cycles, PublishSteps[2]) <= budget PROVE step \in {0, PublishSteps[2]}
    <3>1. 2 \in fits
      BY <1>3, <2>3
    <3>2. PICK m : m = Min(fits)
      OBVIOUS
    <3>3. m \in fits /\ m <= 2
      BY <2>1, <3>1, <3>2
    <3>4. m \in Nat /\ 1 <= m
      BY <1>4, <3>3
    <3> HIDE DEF fits
    <3>5. m = 1 \/ m = 2
      BY <3>3, <3>4
    <3> QED
      BY <1>1, <2>2, <3>2, <3>5
  <2> QED
    BY <2>2, <2>3
<1> QED
  BY <1>5, <1>6

\* What one copy holds, whatever ring it is of.
LEMMA ExportOK ==
  ASSUME NEW cs \in Seq(CycleSet), cs # <<>>, Rises(cs), NEW max \in Nat \ {0}
  PROVE  LET out == export(cs, max)
         IN  /\ \/ Count(out) <= max
                \/ keptCount(cs, Coarsest) > max
                \/ Len(Last(out).samples) = keptCount(<<Last(cs)>>, PublishSteps[2])
             /\ \A i \in DOMAIN out :
                  out[i].samples[1] = cs[i].samples[1] /\ Last(out[i].samples) = Last(cs[i].samples)
<1> DEFINE N == Len(cs)
           cur == <<Last(cs)>>
           old == Front(cs)
           a == newestStep(cs, max)
           b == finestStep(old, max - keptCount(cur, a))
           out == export(cs, max)
           room == max - keptCount(old, Coarsest)
           floor == keptCount(cur, PublishSteps[2])
           budget == IF room < floor /\ floor <= max THEN floor ELSE room
<1>1. /\ N \in Nat \ {0} /\ DOMAIN cs = 1 .. N /\ N \in DOMAIN cs
      /\ old \in Seq(CycleSet) /\ cur \in Seq(CycleSet) /\ Last(cs) = cs[N]
      /\ \A n \in DOMAIN cs : cs[n] \in CycleSet /\ cs[n].samples # <<>> /\ cs[n].samples \in Seq(Sample)
  <2>1. \A n \in DOMAIN cs : cs[n] \in CycleSet /\ WellFormed(cs[n])
    BY LastCycle
  <2>2. \A n \in DOMAIN cs : cs[n].samples # <<>> /\ cs[n].samples \in Seq(Sample)
    BY <2>1, CycleFields DEF WellFormed
  <2> QED
    BY <2>1, <2>2, FrontOf
<1>2. out = [n \in 1 .. N |-> [cs[n] EXCEPT !.samples = thin(@, IF n = N THEN a ELSE b)]]
  <2>1. ~(max <= 0)
    OBVIOUS
  <2> QED
    BY <1>1, <2>1 DEF export
<1>3. a = finestStep(cur, budget)
  BY DEF newestStep
<1> HIDE DEF a, b, out, N
<1>4. ASSUME NEW n \in 1 .. N
      PROVE  /\ out[n] \in CycleSet /\ out[n].samples = thin(cs[n].samples, IF n = N THEN a ELSE b)
             /\ out[n].samples[1] = cs[n].samples[1] /\ Last(out[n].samples) = Last(cs[n].samples)
  <2> DEFINE step == IF n = N THEN a ELSE b
  <2>1. out[n] = [cs[n] EXCEPT !.samples = thin(@, step)]
    BY <1>2
  <2>2. cs[n] \in CycleSet /\ cs[n].samples # <<>> /\ cs[n].samples \in Seq(Sample)
    BY <1>1
  <2> HIDE DEF step
  <2>3. out[n] \in CycleSet /\ out[n].samples = thin(cs[n].samples, step)
    BY <2>1, <2>2, ThinCycle
  <2>4. thin(cs[n].samples, step)[1] = cs[n].samples[1] /\ Last(thin(cs[n].samples, step)) = Last(cs[n].samples)
    BY <2>2, ThinOK
  <2> QED
    BY <2>3, <2>4 DEF step
<1>5. out \in Seq(CycleSet) /\ DOMAIN out = 1 .. N /\ Len(out) = N
  <2>1. out = [n \in 1 .. N |-> out[n]] /\ N \in Nat
    BY <1>1, <1>2
  <2>2. \A n \in 1 .. N : out[n] \in CycleSet
    BY <1>4
  <2> QED
    BY <2>1, <2>2
<1>6. Count(out) = keptCount(old, b) + keptCount(cur, a)
  <2>1. \A n \in 1 .. N - 1 : out[n].samples = thin(cs[n].samples, b)
    <3>1. \A n \in 1 .. N - 1 : n \in 1 .. N /\ n # N
      BY <1>1
    <3> QED
      BY <1>4, <3>1
  <2>2. out[N].samples = thin(cs[N].samples, a)
    BY <1>1, <1>4
  <2>3. /\ DOMAIN out = DOMAIN cs /\ \A n \in DOMAIN cs : cs[n].samples # <<>>
        /\ \A n \in 1 .. Len(cs) - 1 : out[n].samples = thin(cs[n].samples, b)
        /\ out[Len(cs)].samples = thin(cs[Len(cs)].samples, a)
    BY <1>1, <1>5, <2>1, <2>2 DEF N
  <2> QED
    BY <1>5, <2>3, ExportCount
<1>7. Len(Last(out).samples) = keptCount(cur, a)
  <2>1. Last(out) = out[N] /\ out[N].samples = thin(Last(cs).samples, a) /\ Last(cs).samples # <<>>
    BY <1>1, <1>4, <1>5 DEF Last
  <2> QED
    BY <1>1, <2>1, OneCount
<1>8. keptCount(cs, Coarsest) = keptCount(old, Coarsest) + keptCount(cur, Coarsest)
  BY <1>1, AllCount
<1> HIDE DEF cur, old
<1>9. /\ \A step : keptCount(old, step) \in Nat
      /\ \A step : keptCount(cur, step) \in Nat /\ keptCount(cur, step) <= keptCount(cur, 0)
  BY <1>1, KeptCountNat
<1>10. room \in Int /\ floor \in Int /\ budget \in Int /\ max - keptCount(cur, a) \in Int
  BY <1>9
<1>11. \/ keptCount(old, b) <= max - keptCount(cur, a)
       \/ b = Coarsest /\ ~(keptCount(old, Coarsest) <= max - keptCount(cur, a))
  BY <1>1, <1>10, FinestOK DEF b
<1>12. /\ \/ keptCount(cur, a) <= budget
          \/ a = Coarsest /\ ~(keptCount(cur, Coarsest) <= budget)
       /\ keptCount(cur, PublishSteps[2]) <= budget =>
            a \in {0, PublishSteps[2]} /\ keptCount(cur, a) <= budget
  <2> HIDE DEF budget
  <2> QED
    BY <1>1, <1>3, <1>10, FinestOK
<1>13. \/ Count(out) <= max
       \/ keptCount(cs, Coarsest) > max
       \/ keptCount(cur, a) = floor
  <2>1. SUFFICES ASSUME ~(Count(out) <= max) PROVE keptCount(cs, Coarsest) > max \/ keptCount(cur, a) = floor
    OBVIOUS
  <2> DEFINE ka == keptCount(cur, a)
             kb == keptCount(old, b)
             kc == keptCount(old, Coarsest)
             kn == keptCount(cur, Coarsest)
  <2>2. ka \in Nat /\ kb \in Nat /\ kc \in Nat /\ kn \in Nat /\ max \in Nat
    BY <1>9
  <2>3. ~(kb <= max - ka)
    BY <1>6, <2>1, <2>2
  <2>4. kc > max - ka
    BY <1>11, <2>2, <2>3
  <2>5. CASE room < floor /\ floor <= max
    <3>1. budget = floor
      BY <2>5
    <3>2. a \in {0, PublishSteps[2]} /\ ka <= floor
      BY <1>10, <1>12, <3>1
    <3>3. ka = floor
      <4>1. CASE a = 0
        <5>1. floor <= ka
          BY <1>9, <4>1
        <5> HIDE DEF floor, ka
        <5> QED
          BY <1>10, <2>2, <3>2, <5>1
      <4>2. CASE a = PublishSteps[2]
        BY <4>2
      <4> QED
        BY <3>2, <4>1, <4>2
    <3> QED
      BY <3>3
  <2>6. CASE ~(room < floor /\ floor <= max)
    <3>1. budget = max - kc
      BY <2>6
    <3>2. ~(ka <= budget)
      <4> HIDE DEF ka, kc
      <4> QED
        BY <2>2, <2>4, <3>1
    <3>3. ~(kn <= max - kc)
      BY <1>12, <3>1, <3>2
    <3>4. kc + kn > max
      <4> HIDE DEF kc, kn
      <4> QED
        BY <2>2, <3>3
    <3> QED
      BY <1>8, <3>4
  <2> QED
    BY <2>5, <2>6
<1>14. \A i \in DOMAIN out : out[i].samples[1] = cs[i].samples[1] /\ Last(out[i].samples) = Last(cs[i].samples)
  BY <1>4, <1>5
<1> QED
  BY <1>7, <1>13, <1>14 DEF out, cur

\* The copy for the status page holds more than max samples only where export says
\* it does, and always both ends of every cycle.
THEOREM ExportAlwaysWithinMax ==
  SamplesSpec => []ExportWithinMax
<1>1. SamplesInv => ExportWithinMax
  <2>1. SUFFICES ASSUME SamplesInv, ring.cycles # <<>>, NEW max \in 1 .. Count(ring.cycles)
                 PROVE  LET out == export(ring.cycles, max)
                        IN  /\ \/ Count(out) <= max
                               \/ keptCount(ring.cycles, Coarsest) > max
                               \/ Len(Last(out).samples) = keptCount(<<Last(ring.cycles)>>, PublishSteps[2])
                            /\ \A i \in DOMAIN out :
                                 /\ out[i].samples[1] = ring.cycles[i].samples[1]
                                 /\ Last(out[i].samples) = Last(ring.cycles[i].samples)
    BY DEF ExportWithinMax
  <2>2. ring.cycles \in Seq(CycleSet) /\ Rises(ring.cycles) /\ max \in Nat \ {0}
    BY <2>1 DEF SamplesInv, RingOK, RingSet
  <2> QED
    BY <2>1, <2>2, ExportOK
<1> QED
  BY <1>1, SamplesStart, SamplesStep, PTL DEF SamplesSpec

=============================================================================
