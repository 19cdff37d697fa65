----------------------------- MODULE PollProofs ------------------------------
(***************************************************************************)
(* Proofs about the polls: one poll's sweep of the seats, what it makes of *)
(* a file's login, the release of a stale cooldown that ends it, and the   *)
(* schedule the polls come on, for any seats, windows, requests, calls and *)
(* times.  For the sweep: where it is tells how many answers it has been   *)
(* refused (so the retry and the throttle that ends the reading bound      *)
(* them), a seat listed with a token is still to be visited, being read or *)
(* kept, and what a refresh is about to read was left by its own sweep     *)
(* unless another has ended since.  For the login: every date kept in      *)
(* memory or on disk is the first its login was given, and the readings of *)
(* an overdue token that a prompt host left all fall within one sleep,     *)
(* when the monotonic clock stands.  For the cooldown: a window still      *)
(* refused on has a newest span that runs to its reset, or was to when a   *)
(* request was served, after its last 429, and no other span began later;  *)
(* and the reset that settled a cooldown is the last the host answered,    *)
(* with no span begun since.  For the schedule: each lock is               *)
(* held by exactly the one inside a section it guards, and the time since  *)
(* the last poll and the time to the next make a wait, but before a loop's *)
(* first read and during one.                                              *)
(***************************************************************************)
EXTENDS Poller, PollSweep, Login, Cooldown, TLAPS

------------------------------------------------------------------------------
(* The sweep *)

AtSeat == {"stagger", "fetch", "sent", "backoff"}
Outcomes == {"disabled", "failed", "cut", "complete"}

Sweeps ==
  [at : AtSeat \cup {"start", "seats", "end"}, by : {"loop", "refresh"}, listing : Listings,
   left : SUBSET Seats, restored : SUBSET Seats, keep : SUBSET Seats,
   failed : BOOLEAN, fetched : BOOLEAN, throttled : BOOLEAN, done : BOOLEAN,
   seat : Seats \cup {0}, authErr : BOOLEAN, sent : {0, 1, 2}, refused : {0, 1, 2}, missed : BOOLEAN]

SweepRequests ==
  {Idle} \cup [at : {"polling"}]
    \cup [at : {"reading"}, own : Outcomes, others : BOOLEAN, done : BOOLEAN]
    \cup [at : {"answered"}, own : Outcomes, others : BOOLEAN, ok : BOOLEAN]

SweepTypeOK ==
  /\ sw \in {NoSweep} \cup Sweeps
  /\ known \subseteq Seats /\ waiting \subseteq Seats /\ auths \subseteq Seats
  /\ listErr \in BOOLEAN /\ fetchErr \in BOOLEAN
  /\ polls \in [Seats -> {"none", "ok", "failed"}]
  /\ request \in SweepRequests

\* How many answers in a row the host has refused, from where the sweep r is.
Refusals(r) ==
  /\ r.throttled => r.at \in {"seats", "end"}
  /\ ~r.throttled /\ r.at \notin {"sent", "backoff"} => r.refused = 0
  /\ r.at = "sent" => r.sent \in {1, 2} /\ r.refused = r.sent - 1
  /\ r.at = "backoff" => r.sent = 1 /\ r.refused = 1

\* No seat listed with a token is lost, and only a cut sweep ends early.
Covered(r) ==
  /\ r.at # "start" => DOMAIN r.listing # {}
  /\ r.at = "end" => r.done
  /\ r.at \in AtSeat => r.seat \in DOMAIN r.listing
  /\ r.at \notin {"start", "end"} =>
       \A s \in DOMAIN r.listing : r.listing[s] = "oauth" =>
         s \in r.left \cup r.keep \/ (r.at \in AtSeat /\ s = r.seat)
  /\ r.missed => r.failed

SweepOK == sw # NoSweep => Refusals(sw) /\ Covered(sw)

\* A request polls while its own sweep runs; what it then reads is its sweep's.
RequestOK ==
  /\ request.at = "polling" <=> sw # NoSweep /\ sw.by = "refresh"
  /\ request.at = "reading" /\ ~request.others =>
       /\ request.own = "failed" => listErr \/ fetchErr
       /\ request.own = "cut" => request.done

SweepIInv == SweepTypeOK /\ SweepOK /\ RequestOK /\ RefreshTruthful

LEMMA SweepInitOK == SweepInit => SweepIInv
<1> SUFFICES ASSUME SweepInit PROVE SweepIInv
  OBVIOUS
<1>1. SweepTypeOK
  BY DEF SweepInit, SweepTypeOK, SweepRequests
<1>2. SweepOK
  BY DEF SweepInit, SweepOK
<1>3. RequestOK /\ RefreshTruthful
  BY DEF SweepInit, RequestOK, RefreshTruthful, Idle
<1> QED
  BY <1>1, <1>2, <1>3 DEF SweepIInv

\* The empty listing a sweep starts with is a listing of no seat.
LEMMA EmptyListing == <<>> \in Listings
<1>1. {} \in SUBSET Seats
  OBVIOUS
<1>2. <<>> \in [{} -> Kinds]
  <2>1. DOMAIN <<>> = {}
    OBVIOUS
  <2>2. <<>> = [x \in DOMAIN <<>> |-> <<>>[x]]
    OBVIOUS
  <2> QED
    BY <2>1, <2>2
<1> QED
  BY <1>1, <1>2 DEF Listings

LEMMA ListingDomain == \A listing \in Listings : DOMAIN listing \subseteq Seats
  BY DEF Listings

\* A step inside a sweep: what is published may change, no request does.
LEMMA SweepGoesOn ==
  ASSUME SweepIInv, sw \in Sweeps, sw' \in Sweeps, sw'.by = sw.by,
         UNCHANGED <<listErr, fetchErr, request>>,
         known' \subseteq Seats, waiting' \subseteq Seats, auths' \subseteq Seats,
         polls' \in [Seats -> {"none", "ok", "failed"}],
         Refusals(sw'), Covered(sw')
  PROVE  SweepIInv'
<1>1. sw # NoSweep /\ sw' # NoSweep
  BY DEF Sweeps, NoSweep, AtSeat
<1>2. SweepTypeOK' /\ SweepOK'
  BY DEF SweepIInv, SweepTypeOK, SweepOK
<1>3. RequestOK' /\ RefreshTruthful'
  BY <1>1 DEF SweepIInv, RequestOK, RefreshTruthful
<1> QED
  BY <1>2, <1>3 DEF SweepIInv

\* The end of a sweep: a refresh has its own outcome to read, which any other ends.
LEMMA SweepEnds ==
  ASSUME SweepIInv, sw \in Sweeps, NEW own \in Outcomes, Return(own),
         listErr' \in BOOLEAN, fetchErr' \in BOOLEAN,
         known' \subseteq Seats, waiting' \subseteq Seats, auths' \subseteq Seats,
         polls' \in [Seats -> {"none", "ok", "failed"}],
         own = "failed" => listErr' \/ fetchErr',
         own = "cut" => sw.done
  PROVE  SweepIInv'
<1>1. sw # NoSweep /\ sw' = NoSweep
  BY DEF Sweeps, NoSweep, AtSeat, Return
<1>2. SweepOK'
  BY <1>1 DEF SweepOK
<1>3. CASE sw.by = "refresh"
  <2>1. request' = [at |-> "reading", own |-> own, others |-> FALSE, done |-> sw.done]
    BY <1>3 DEF Return
  <2>2. SweepTypeOK'
    BY <1>1, <2>1 DEF SweepIInv, SweepTypeOK, SweepRequests, Sweeps
  <2>3. RequestOK' /\ RefreshTruthful'
    BY <1>1, <2>1 DEF RequestOK, RefreshTruthful, NoSweep
  <2> QED
    BY <1>2, <2>2, <2>3 DEF SweepIInv
<1>4. CASE sw.by # "refresh" /\ request.at = "reading"
  <2>1. request' = [request EXCEPT !.others = TRUE]
    BY <1>4 DEF Return
  <2>2. request \in [at : {"reading"}, own : Outcomes, others : BOOLEAN, done : BOOLEAN]
    BY <1>4 DEF SweepIInv, SweepTypeOK, SweepRequests, Idle
  <2>3. request' \in [at : {"reading"}, own : Outcomes, others : BOOLEAN, done : BOOLEAN]
        /\ request'.others = TRUE /\ request'.at = "reading"
    BY <2>1, <2>2
  <2>4. SweepTypeOK'
    BY <1>1, <2>3 DEF SweepIInv, SweepTypeOK, SweepRequests
  <2>5. RequestOK' /\ RefreshTruthful'
    BY <1>1, <2>3 DEF RequestOK, RefreshTruthful
  <2> QED
    BY <1>2, <2>4, <2>5 DEF SweepIInv
<1>5. CASE sw.by # "refresh" /\ request.at # "reading"
  <2>1. request' = request
    BY <1>5 DEF Return
  <2>2. SweepTypeOK'
    BY <1>1, <2>1 DEF SweepIInv, SweepTypeOK
  <2>3. RequestOK' /\ RefreshTruthful'
    BY <1>1, <1>5, <2>1 DEF SweepIInv, RequestOK, RefreshTruthful
  <2> QED
    BY <1>2, <2>2, <2>3 DEF SweepIInv
<1> QED
  BY <1>3, <1>4, <1>5

-----------------------------------------------------------------------------
(* The steps of a sweep *)

\* Where a sweep is says that there is one.
LEMMA SweepTyped == SweepIInv /\ sw # NoSweep => sw \in Sweeps /\ Refusals(sw) /\ Covered(sw)
  BY DEF SweepIInv, SweepTypeOK, SweepOK

LEMMA BeginOK ==
  ASSUME SweepIInv, NEW by \in {"loop", "refresh"}, Begin(by)
  PROVE  SweepIInv'
<1>1. sw' \in Sweeps /\ sw'.by = by /\ sw'.at = "start"
  BY EmptyListing DEF Begin, NewSweep, Sweeps
<1>2. sw' # NoSweep
  BY <1>1 DEF NoSweep
<1>3. SweepOK'
  BY <1>1 DEF Begin, NewSweep, SweepOK, Refusals, Covered, AtSeat
<1>4. CASE by = "refresh"
  <2>1. request' = [at |-> "polling"]
    BY <1>4 DEF Begin
  <2>2. SweepTypeOK'
    BY <1>1, <2>1 DEF Begin, SweepIInv, SweepTypeOK, SweepRequests, published
  <2>3. RequestOK' /\ RefreshTruthful'
    BY <1>1, <1>2, <1>4, <2>1 DEF RequestOK, RefreshTruthful
  <2> QED
    BY <1>3, <2>2, <2>3 DEF SweepIInv
<1>5. CASE by # "refresh"
  <2>1. request' = request
    BY <1>5 DEF Begin
  <2>2. SweepTypeOK'
    BY <1>1, <2>1 DEF Begin, SweepIInv, SweepTypeOK, published
  <2>3. RequestOK' /\ RefreshTruthful'
    BY <1>1, <1>2, <1>5, <2>1 DEF Begin, SweepIInv, RequestOK, RefreshTruthful, published
  <2> QED
    BY <1>3, <2>2, <2>3 DEF SweepIInv
<1> QED
  BY <1>4, <1>5

LEMMA ExpireOK == SweepIInv /\ Expire => SweepIInv'
<1> SUFFICES ASSUME SweepIInv, Expire PROVE SweepIInv'
  OBVIOUS
<1>1. sw \in Sweeps /\ Refusals(sw) /\ Covered(sw)
  BY SweepTyped DEF Expire
<1>2. sw' \in Sweeps /\ sw'.by = sw.by
  BY <1>1 DEF Expire, Sweeps
<1>3. Refusals(sw') /\ Covered(sw')
  BY <1>1 DEF Expire, Sweeps, Refusals, Covered
<1> QED
  BY <1>1, <1>2, <1>3, SweepGoesOn DEF Expire, published, SweepIInv, SweepTypeOK

\* A step of pollLocked that changes the sweep alone.
LEMMA SweepAlone ==
  ASSUME SweepIInv, sw \in Sweeps, sw' \in Sweeps, sw'.by = sw.by, UNCHANGED <<published, request>>,
         Refusals(sw'), Covered(sw')
  PROVE  SweepIInv'
  BY SweepGoesOn DEF SweepIInv, SweepTypeOK, published

LEMMA ListOK ==
  ASSUME SweepIInv, NEW listing \in Listings, List(listing)
  PROVE  SweepIInv'
<1>1. sw \in Sweeps /\ Refusals(sw) /\ Covered(sw) /\ sw.at = "start"
  BY SweepTyped DEF List, NoSweep
<1>2. DOMAIN listing \subseteq Seats
  BY ListingDomain
<1> DEFINE reloaded == {s \in DOMAIN listing \cap waiting : listing[s] # "disabled"}
<1>3. sw' = [sw EXCEPT !.at = "seats", !.listing = listing, !.left = DOMAIN listing,
                       !.restored = reloaded]
  BY DEF List
<1>4. reloaded \in SUBSET Seats
  BY <1>2
<1> HIDE DEF reloaded
<1>5. sw' \in Sweeps /\ sw'.by = sw.by
  BY <1>1, <1>2, <1>3, <1>4 DEF Sweeps
<1>6. sw'.at = "seats" /\ sw'.listing = listing /\ sw'.left = DOMAIN listing
      /\ sw'.throttled = sw.throttled /\ sw'.refused = sw.refused
      /\ sw'.missed = sw.missed /\ sw'.failed = sw.failed
  BY <1>1, <1>3 DEF Sweeps
<1>7. Refusals(sw') /\ Covered(sw')
  BY <1>1, <1>6 DEF List, Listable, Refusals, Covered, AtSeat
<1>8. known' \subseteq Seats /\ waiting' \subseteq Seats /\ auths' \subseteq Seats
  BY <1>2 DEF List, SweepIInv, SweepTypeOK
<1> QED
  BY <1>1, <1>5, <1>7, <1>8, SweepGoesOn DEF List, SweepIInv, SweepTypeOK

LEMMA SkipOK ==
  ASSUME SweepIInv, NEW s \in Seats, Skip(s)
  PROVE  SweepIInv'
<1>1. sw \in Sweeps /\ Refusals(sw) /\ Covered(sw) /\ sw.at = "seats"
  BY SweepTyped DEF Skip, NoSweep
<1>2. sw' \in Sweeps /\ sw'.by = sw.by
  BY <1>1 DEF Skip, Sweeps
<1>3. Refusals(sw') /\ Covered(sw')
  BY <1>1 DEF Skip, Sweeps, Refusals, Covered, Readable, Listed, AtSeat
<1> QED
  BY <1>1, <1>2, <1>3, SweepAlone DEF Skip

LEMMA BreakOK == SweepIInv /\ Break => SweepIInv'
<1> SUFFICES ASSUME SweepIInv, Break PROVE SweepIInv'
  OBVIOUS
<1>1. sw \in Sweeps /\ Refusals(sw) /\ Covered(sw) /\ sw.at \in {"stagger", "seats"}
  BY SweepTyped DEF Break, NoSweep
<1>2. sw' \in Sweeps /\ sw'.by = sw.by
  BY <1>1 DEF Break, Sweeps
<1>3. Refusals(sw') /\ Covered(sw')
  BY <1>1 DEF Break, Sweeps, Refusals, Covered, AtSeat
<1> QED
  BY <1>1, <1>2, <1>3, SweepAlone DEF Break

LEMMA VisitOK ==
  ASSUME SweepIInv, NEW s \in Seats, NEW authErr \in BOOLEAN, NEW stands \in BOOLEAN,
         Visit(s, authErr, stands)
  PROVE  SweepIInv'
<1>1. sw \in Sweeps /\ Refusals(sw) /\ Covered(sw) /\ sw.at = "seats"
  BY SweepTyped DEF Visit, NoSweep
<1>2. CASE Leaves(s, stands)
  <2>1. sw' = [sw EXCEPT !.left = @ \ {s}, !.keep = @ \cup {s}]
    BY <1>2 DEF Visit
  <2>2. sw' \in Sweeps /\ sw'.by = sw.by
    BY <1>1, <2>1 DEF Sweeps
  <2>3. Refusals(sw') /\ Covered(sw')
    BY <1>1, <2>1 DEF Sweeps, Refusals, Covered, AtSeat
  <2> QED
    BY <1>1, <2>2, <2>3, SweepAlone DEF Visit
<1>3. CASE ~Leaves(s, stands)
  <2>1. sw' = [sw EXCEPT !.left = @ \ {s}, !.seat = s, !.authErr = authErr,
                         !.at = IF sw.fetched THEN "stagger" ELSE "fetch"]
    BY <1>3 DEF Visit
  <2>2. sw' \in Sweeps /\ sw'.by = sw.by
    BY <1>1, <2>1 DEF Sweeps, AtSeat
  <2>3. ~sw.throttled /\ s \in DOMAIN sw.listing
    BY <1>1, <1>3 DEF Leaves, Visit, Readable, Listed, Sweeps
  <2>4. Refusals(sw') /\ Covered(sw')
    BY <1>1, <2>1, <2>3 DEF Sweeps, Refusals, Covered, AtSeat
  <2> QED
    BY <1>1, <2>2, <2>4, SweepAlone DEF Visit
<1> QED
  BY <1>2, <1>3

LEMMA StaggeredOK == SweepIInv /\ Staggered => SweepIInv'
<1> SUFFICES ASSUME SweepIInv, Staggered PROVE SweepIInv'
  OBVIOUS
<1>1. sw \in Sweeps /\ Refusals(sw) /\ Covered(sw) /\ sw.at = "stagger"
  BY SweepTyped DEF Staggered, NoSweep
<1>2. sw' \in Sweeps /\ sw'.by = sw.by
  BY <1>1 DEF Staggered, Sweeps, AtSeat
<1>3. Refusals(sw') /\ Covered(sw')
  BY <1>1 DEF Staggered, Sweeps, Refusals, Covered, AtSeat
<1> QED
  BY <1>1, <1>2, <1>3, SweepAlone DEF Staggered

LEMMA SendOK == SweepIInv /\ Send => SweepIInv'
<1> SUFFICES ASSUME SweepIInv, Send PROVE SweepIInv'
  OBVIOUS
<1>1. sw \in Sweeps /\ Refusals(sw) /\ Covered(sw) /\ sw.at = "fetch"
  BY SweepTyped DEF Send, NoSweep
<1>2. sw' \in Sweeps /\ sw'.by = sw.by
  BY <1>1 DEF Send, Sweeps, AtSeat
<1>3. Refusals(sw') /\ Covered(sw')
  BY <1>1 DEF Send, Sweeps, Refusals, Covered, AtSeat
<1> QED
  BY <1>1, <1>2, <1>3, SweepAlone DEF Send

LEMMA RetryOK == SweepIInv /\ Retry => SweepIInv'
<1> SUFFICES ASSUME SweepIInv, Retry PROVE SweepIInv'
  OBVIOUS
<1>1. sw \in Sweeps /\ Refusals(sw) /\ Covered(sw) /\ sw.at = "backoff"
  BY SweepTyped DEF Retry, NoSweep
<1>2. sw.sent = 1 /\ sw.refused = 1 /\ ~sw.throttled
  BY <1>1 DEF Refusals, Sweeps
<1>3. sw' = [sw EXCEPT !.at = "sent", !.sent = 2]
  BY <1>2 DEF Retry
<1>4. sw' \in Sweeps /\ sw'.by = sw.by
  BY <1>1, <1>3 DEF Sweeps, AtSeat
<1>5. Refusals(sw') /\ Covered(sw')
  BY <1>1, <1>2, <1>3 DEF Sweeps, Refusals, Covered, AtSeat
<1> QED
  BY <1>1, <1>4, <1>5, SweepAlone DEF Retry

LEMMA NotOAuthOK == SweepIInv /\ NotOAuth => SweepIInv'
<1> SUFFICES ASSUME SweepIInv, NotOAuth PROVE SweepIInv'
  OBVIOUS
<1>1. sw \in Sweeps /\ Refusals(sw) /\ Covered(sw) /\ sw.at = "fetch"
  BY SweepTyped DEF NotOAuth, NoSweep
<1>2. sw' \in Sweeps /\ sw'.by = sw.by
  BY <1>1 DEF NotOAuth, Seated, Sweeps
<1>3. Refusals(sw') /\ Covered(sw')
  BY <1>1 DEF NotOAuth, Seated, Sweeps, Refusals, Covered, AtSeat
<1> QED
  BY <1>1, <1>2, <1>3, SweepAlone DEF NotOAuth

\* A seat's read has an outcome: its sweep keeps it, and the refusals it drew are
\* counted until a read that drew none.
LEMMA RecordOK ==
  ASSUME SweepIInv, sw \in Sweeps, sw.at \in {"fetch", "sent", "backoff"},
         NEW outcome \in {"ok", "failed", "throttled"}, NEW answers \in {0, 1},
         outcome = "throttled" => sw.refused + answers <= 2,
         Record(outcome, answers)
  PROVE  SweepIInv'
<1>1. Refusals(sw) /\ Covered(sw) /\ sw.seat \in Seats
  <2>1. Refusals(sw) /\ Covered(sw)
    BY SweepTyped DEF NoSweep
  <2>2. sw.seat \in DOMAIN sw.listing
    BY <2>1 DEF Covered, AtSeat
  <2> QED
    BY <2>1, <2>2, ListingDomain DEF Sweeps
<1> DEFINE refused == IF outcome = "throttled" THEN sw.refused + answers ELSE 0
           missed == sw.missed \/ outcome # "ok"
           failed == sw.failed \/ outcome # "ok"
           throttled == outcome = "throttled"
<1>2. refused \in {0, 1, 2} /\ (outcome # "throttled" => refused = 0)
  BY DEF Sweeps
<1>3. missed \in BOOLEAN /\ failed \in BOOLEAN /\ throttled \in BOOLEAN /\ (missed => failed)
  BY <1>1 DEF Covered
<1>4. sw' = [sw EXCEPT !.at = "seats", !.seat = 0, !.authErr = FALSE, !.sent = 0, !.fetched = TRUE,
                       !.keep = sw.keep \cup {sw.seat}, !.missed = missed, !.failed = failed,
                       !.throttled = throttled, !.refused = refused]
  BY DEF Record, Seated, Failed, Sweeps
<1> HIDE DEF refused, missed, failed
<1>5. sw' \in Sweeps /\ sw'.by = sw.by
  BY <1>1, <1>2, <1>3, <1>4 DEF Sweeps
<1>6. Refusals(sw') /\ Covered(sw')
  <2>1. /\ sw'.at = "seats" /\ sw'.refused = refused /\ sw'.throttled = throttled
        /\ sw'.missed = missed /\ sw'.failed = failed
        /\ sw'.listing = sw.listing /\ sw'.left = sw.left /\ sw'.keep = sw.keep \cup {sw.seat}
    BY <1>4 DEF Sweeps
  <2>2. Refusals(sw')
    BY <1>2, <2>1 DEF Refusals
  <2>3. Covered(sw')
    BY <1>1, <1>3, <2>1 DEF Covered, AtSeat
  <2> QED
    BY <2>2, <2>3
<1>7. known' \subseteq Seats /\ polls' \in [Seats -> {"none", "ok", "failed"}]
  BY <1>1 DEF Record, SweepIInv, SweepTypeOK
<1> QED
  BY <1>5, <1>6, <1>7, SweepGoesOn DEF Record, SweepIInv, SweepTypeOK

LEMMA OutcomeOK ==
  ASSUME SweepIInv, NoFile \/ (\E outcome \in {"ok", "failed"} : Answered(outcome)) \/ GiveUp
  PROVE  SweepIInv'
<1>1. ASSUME NoFile PROVE SweepIInv'
  <2>1. sw \in Sweeps
    BY <1>1, SweepTyped DEF NoFile, NoSweep
  <2> QED
    BY <1>1, <2>1, RecordOK DEF NoFile
<1>2. ASSUME NEW outcome \in {"ok", "failed"}, Answered(outcome) PROVE SweepIInv'
  <2>1. sw \in Sweeps
    BY <1>2, SweepTyped DEF Answered, NoSweep
  <2> QED
    BY <1>2, <2>1, RecordOK DEF Answered
<1>3. ASSUME GiveUp PROVE SweepIInv'
  <2>1. sw \in Sweeps /\ Refusals(sw) /\ sw.at = "backoff"
    BY <1>3, SweepTyped DEF GiveUp, NoSweep
  <2>2. sw.refused + 0 <= 2
    BY <2>1 DEF Refusals
  <2> QED
    BY <1>3, <2>1, <2>2, RecordOK DEF GiveUp
<1> QED
  BY <1>1, <1>2, <1>3

LEMMA ThrottledOK ==
  ASSUME SweepIInv, NEW long \in BOOLEAN, Throttled(long)
  PROVE  SweepIInv'
<1>1. sw \in Sweeps /\ Refusals(sw) /\ Covered(sw) /\ sw.at = "sent"
  BY SweepTyped DEF Throttled, NoSweep
<1>2. sw.sent \in {1, 2} /\ sw.refused = sw.sent - 1 /\ ~sw.throttled
  BY <1>1 DEF Refusals
<1>3. CASE Retries(long)
  <2>1. sw.sent = 1 /\ sw.refused = 0
    BY <1>2, <1>3 DEF Retries
  <2>2. sw' = [sw EXCEPT !.at = "backoff", !.refused = 1]
    BY <1>3, <2>1 DEF Throttled
  <2>3. sw' \in Sweeps /\ sw'.by = sw.by
    BY <1>1, <2>2 DEF Sweeps, AtSeat
  <2>4. Refusals(sw') /\ Covered(sw')
    BY <1>1, <1>2, <2>1, <2>2 DEF Sweeps, Refusals, Covered, AtSeat
  <2> QED
    BY <1>1, <1>3, <2>3, <2>4, SweepAlone DEF Throttled
<1>4. CASE ~Retries(long)
  <2>1. Record("throttled", 1)
    BY <1>4 DEF Throttled
  <2>2. sw.refused + 1 <= 2
    BY <1>2
  <2> QED
    BY <1>1, <2>1, <2>2, RecordOK
<1> QED
  BY <1>3, <1>4

\* The four ways a sweep ends.
LEMMA EndOK ==
  ASSUME SweepIInv, Disabled \/ ListFails \/ CutShort \/ Publish
  PROVE  SweepIInv'
<1>1. sw \in Sweeps /\ Covered(sw)
  BY SweepTyped DEF Disabled, ListFails, CutShort, Publish, Ended, NoSweep
<1>2. ASSUME Disabled PROVE SweepIInv'
  BY <1>1, <1>2, SweepEnds DEF Disabled, Outcomes, SweepIInv, SweepTypeOK
<1>3. ASSUME ListFails PROVE SweepIInv'
  BY <1>1, <1>3, SweepEnds DEF ListFails, Outcomes, SweepIInv, SweepTypeOK
<1>4. ASSUME CutShort PROVE SweepIInv'
  BY <1>1, <1>4, SweepEnds DEF CutShort, Cut, Outcomes, SweepIInv, SweepTypeOK
<1>5. ASSUME Publish PROVE SweepIInv'
  <2>1. Listed \subseteq Seats
    BY <1>1, ListingDomain DEF Listed, Sweeps
  <2>2. known' \subseteq Seats /\ auths' \subseteq Seats
    BY <1>5, <2>1 DEF Publish, SweepIInv, SweepTypeOK
  <2>3. waiting' \subseteq Seats
    <3>1. PICK kept \in SUBSET (known \ Listed) : waiting' = (waiting \cap Listed) \cup kept
      BY <1>5 DEF Publish
    <3> QED
      BY <3>1 DEF SweepIInv, SweepTypeOK
  <2>4. polls' \in [Seats -> {"none", "ok", "failed"}]
    BY <1>5 DEF Publish, SweepIInv, SweepTypeOK
  <2>5. listErr' \in BOOLEAN /\ fetchErr' = sw.failed /\ sw.failed \in BOOLEAN
    BY <1>1, <1>5 DEF Publish, Sweeps
  <2>6. CASE sw.missed
    <3>1. Return("failed")
      BY <1>5, <2>6 DEF Publish
    <3>2. fetchErr'
      BY <1>1, <2>5, <2>6 DEF Covered
    <3> QED
      BY <1>1, <2>2, <2>3, <2>4, <2>5, <3>1, <3>2, SweepEnds DEF Outcomes
  <2>7. CASE ~sw.missed
    <3>1. Return("complete")
      BY <1>5, <2>7 DEF Publish
    <3> QED
      BY <1>1, <2>2, <2>3, <2>4, <2>5, <3>1, SweepEnds DEF Outcomes
  <2> QED
    BY <2>6, <2>7
<1> QED
  BY <1>2, <1>3, <1>4, <1>5

-----------------------------------------------------------------------------
(* refresh, and a response's headers *)

LEMMA RequestsOK ==
  ASSUME SweepIInv, RequestExpires \/ Answer \/ NextRequest
  PROVE  SweepIInv'
<1>1. UNCHANGED <<sw, published>>
  BY DEF RequestExpires, Answer, NextRequest
<1>2. SweepOK'
  BY <1>1 DEF SweepIInv, SweepOK
<1>3. SweepTypeOK' /\ RequestOK' /\ RefreshTruthful'
  <2>1. ASSUME RequestExpires
        PROVE  SweepTypeOK' /\ RequestOK' /\ RefreshTruthful'
    <3>1. request \in [at : {"reading"}, own : Outcomes, others : BOOLEAN, done : BOOLEAN]
      BY <2>1 DEF RequestExpires, SweepIInv, SweepTypeOK, SweepRequests, Idle
    <3>2. request' \in [at : {"reading"}, own : Outcomes, others : BOOLEAN, done : BOOLEAN]
          /\ request'.at = "reading" /\ request'.done = TRUE
          /\ request'.own = request.own /\ request'.others = request.others
      BY <2>1, <3>1 DEF RequestExpires
    <3>3. SweepTypeOK'
      BY <1>1, <3>2 DEF SweepIInv, SweepTypeOK, SweepRequests, published
    <3>4. RequestOK' /\ RefreshTruthful'
      BY <1>1, <2>1, <3>2 DEF RequestExpires, SweepIInv, RequestOK, RefreshTruthful, published
    <3> QED
      BY <3>3, <3>4
  <2>2. ASSUME Answer
        PROVE  SweepTypeOK' /\ RequestOK' /\ RefreshTruthful'
    <3>1. request \in [at : {"reading"}, own : Outcomes, others : BOOLEAN, done : BOOLEAN]
      BY <2>2 DEF Answer, SweepIInv, SweepTypeOK, SweepRequests, Idle
    <3>2. request' = [at |-> "answered", own |-> request.own, others |-> request.others,
                      ok |-> ~(listErr \/ fetchErr \/ request.done)]
      BY <2>2 DEF Answer
    <3>3. request' \in [at : {"answered"}, own : Outcomes, others : BOOLEAN, ok : BOOLEAN]
      BY <3>1, <3>2 DEF SweepIInv, SweepTypeOK
    <3>4. SweepTypeOK'
      BY <1>1, <3>3 DEF SweepIInv, SweepTypeOK, SweepRequests, published
    <3>5. RequestOK'
      BY <1>1, <2>2, <3>2 DEF Answer, SweepIInv, RequestOK, published
    <3>6. RefreshTruthful'
      <4>1. request.at = "reading" /\ request.own \in Outcomes
        BY <3>1
      <4> QED
        BY <3>2, <4>1 DEF SweepIInv, RequestOK, RefreshTruthful, Outcomes
    <3> QED
      BY <3>4, <3>5, <3>6
  <2>3. ASSUME NextRequest
        PROVE  SweepTypeOK' /\ RequestOK' /\ RefreshTruthful'
    <3>1. request' = Idle /\ request.at = "answered"
      BY <2>3 DEF NextRequest
    <3>2. SweepTypeOK'
      BY <1>1, <3>1 DEF SweepIInv, SweepTypeOK, SweepRequests, published
    <3>3. RequestOK' /\ RefreshTruthful'
      BY <1>1, <3>1 DEF SweepIInv, RequestOK, RefreshTruthful, published, Idle
    <3> QED
      BY <3>2, <3>3
  <2> QED
    BY <2>1, <2>2, <2>3
<1> QED
  BY <1>2, <1>3 DEF SweepIInv

LEMMA HeadersOK ==
  ASSUME SweepIInv, NEW s \in Seats, HeadersMerge(s)
  PROVE  SweepIInv'
<1>1. SweepTypeOK'
  BY DEF HeadersMerge, SweepIInv, SweepTypeOK
<1>2. SweepOK' /\ RequestOK' /\ RefreshTruthful'
  BY DEF HeadersMerge, SweepIInv, SweepOK, RequestOK, RefreshTruthful
<1> QED
  BY <1>1, <1>2 DEF SweepIInv

-----------------------------------------------------------------------------
LEMMA SweepStepOK == SweepIInv /\ [SweepNext]_sweepVars => SweepIInv'
<1> SUFFICES ASSUME SweepIInv, [SweepNext]_sweepVars PROVE SweepIInv'
  OBVIOUS
<1>1. CASE UNCHANGED sweepVars
  BY <1>1 DEF sweepVars, SweepIInv, SweepTypeOK, SweepOK, RequestOK, RefreshTruthful
<1> QED
  BY <1>1, BeginOK, ExpireOK, ListOK, SkipOK, BreakOK, VisitOK, StaggeredOK, SendOK, RetryOK,
     NotOAuthOK, OutcomeOK, ThrottledOK, EndOK, RequestsOK, HeadersOK
  DEF SweepNext

LEMMA SweepInvariance == SweepSpec => []SweepIInv
  BY SweepInitOK, SweepStepOK, PTL DEF SweepSpec

\* However a sweep is retried, expires or is throttled, it draws at most two refusals in
\* a row: retryWait and the break on the first throttle bound what the endpoint sees.
THEOREM ThrottleIsHeeded == SweepSpec => []ThrottleHeeded
<1>1. SweepIInv => ThrottleHeeded
  <2> SUFFICES ASSUME SweepIInv, sw # NoSweep PROVE sw.refused <= 2
    BY DEF ThrottleHeeded
  <2>1. sw.refused \in {0, 1, 2}
    BY SweepTyped DEF Sweeps
  <2> QED
    BY <2>1
<1> QED
  BY <1>1, SweepInvariance, PTL

\* A refresh that answers success without another sweep in between had a sweep of its own
\* that was complete and read every seat, or was told that polling is off.
THEOREM RefreshIsTruthful == SweepSpec => []RefreshTruthful
<1>1. SweepIInv => RefreshTruthful
  BY DEF SweepIInv
<1> QED
  BY <1>1, SweepInvariance, PTL

\* What a step may take away is taken by Publish alone, which a complete sweep of a
\* listing reaches.
LEMMA OnlyPublishDrops ==
  ASSUME SweepIInv, SweepNext, ~Publish
  PROVE  known \subseteq known' /\ \A s \in Seats : polls[s] # "none" => polls'[s] # "none"
<1>1. ASSUME NEW outcome, NEW answers \in {0, 1}, Record(outcome, answers)
      PROVE  known \subseteq known' /\ \A s \in Seats : polls[s] # "none" => polls'[s] # "none"
  BY <1>1 DEF Record, SweepIInv, SweepTypeOK
<1>2. ASSUME UNCHANGED published
      PROVE  known \subseteq known' /\ \A s \in Seats : polls[s] # "none" => polls'[s] # "none"
  BY <1>2 DEF published
<1>3. ASSUME NEW listing \in Listings, List(listing)
      PROVE  known \subseteq known' /\ polls' = polls
  BY <1>3 DEF List
<1>4. ASSUME NEW s \in Seats, HeadersMerge(s)
      PROVE  known \subseteq known' /\ polls' = polls
  BY <1>4 DEF HeadersMerge
<1>5. ASSUME Disabled \/ ListFails \/ CutShort
      PROVE  known \subseteq known' /\ polls' = polls
  BY <1>5 DEF Disabled, ListFails, CutShort
<1>6. ASSUME NEW long \in BOOLEAN, Throttled(long)
      PROVE  known \subseteq known' /\ \A s \in Seats : polls[s] # "none" => polls'[s] # "none"
  BY <1>1, <1>2, <1>6 DEF Throttled
<1> QED
  BY <1>1, <1>2, <1>3, <1>4, <1>5, <1>6
  DEF SweepNext, Begin, Expire, Skip, Visit, Break, Staggered, NoFile, NotOAuth, Send, Answered,
      Retry, GiveUp, RequestExpires, Answer, NextRequest

\* An entry goes only when the host answered with a listing that misses it.
THEOREM SeatsAreKept == SweepSpec => SeatsKept
<1>1. SweepIInv /\ [SweepNext]_sweepVars =>
        [\A s \in known \ known' : sw.at # "none" /\ Listed # {} /\ s \notin Listed]_sweepVars
  <2> SUFFICES ASSUME SweepIInv, SweepNext, NEW s \in known \ known'
               PROVE  sw.at # "none" /\ Listed # {} /\ s \notin Listed
    OBVIOUS
  <2>1. Publish
    BY OnlyPublishDrops
  <2>2. sw.at \in {"seats", "end"}
    BY <2>1 DEF Publish, Ended
  <2>3. Covered(sw)
    BY <2>2, SweepTyped DEF NoSweep
  <2> QED
    BY <2>1, <2>2, <2>3 DEF Publish, Covered, Listed
<1> QED
  BY <1>1, SweepInvariance, PTL DEF SweepSpec, SeatsKept

\* A seat listed with a token keeps the outcome of its last read, whatever cut the sweep.
THEOREM OutcomesOutlastSweeps == SweepSpec => OutcomesOutlast
<1>1. SweepIInv /\ [SweepNext]_sweepVars =>
        [\A s \in Seats : polls[s] # "none" /\ polls'[s] = "none" =>
           s \notin Listed \/ sw.listing[s] # "oauth"]_sweepVars
  <2> SUFFICES ASSUME SweepIInv, SweepNext, NEW s \in Seats, polls[s] # "none", polls'[s] = "none",
                      s \in Listed
               PROVE  sw.listing[s] # "oauth"
    OBVIOUS
  <2>1. Publish
    BY OnlyPublishDrops
  <2>2. sw.at \in {"seats", "end"} /\ ~sw.done /\ (sw.at = "seats" => sw.left = {})
    BY <2>1 DEF Publish, Ended, Cut
  <2>3. Covered(sw)
    BY <2>2, SweepTyped DEF NoSweep
  <2>4. s \notin sw.keep
    BY <2>1 DEF Publish
  <2> QED
    BY <2>2, <2>3, <2>4 DEF Covered, Listed, AtSeat
<1> QED
  BY <1>1, SweepInvariance, PTL DEF SweepSpec, OutcomesOutlast

------------------------------------------------------------------------------
(* The login *)

Instants == {NoInstant} \cup [wall : Nat, mono : Nat]
Files == [expires : Int, lastRefresh : Nat, login : 1..MaxLogins, loginAt : Nat, device : Nat]
Tracks ==
  [seen : {TRUE}, expires : Int, lastRefresh : Nat, device : Nat, newDevice : BOOLEAN,
   overdueSince : Instants, seenAt : [wall : Nat, mono : Nat], loggedInAt : Nat \cup {Never}]
Saves == {NoSaved} \cup [at : Nat, device : Nat]

LoginTypeOK ==
  /\ wall \in Nat /\ mono \in Nat
  /\ ids \in BOOLEAN /\ prompt \in BOOLEAN
  /\ seatFile \in Files
  /\ track \in {NoTrack} \cup Tracks
  /\ saved \in Saves /\ disk \in Saves
  /\ restored \in BOOLEAN
  /\ dated \in [1..MaxLogins -> Nat \cup {Never}]

\* A token expires TokenLife after it was written, and is never written ahead of time.
FileOK ==
  /\ seatFile.loginAt <= seatFile.lastRefresh /\ seatFile.lastRefresh <= wall
  /\ seatFile.expires <= wall + TokenLife
  /\ ids => seatFile.device = seatFile.login

\* A kept instant is the first date its login was given.
Kept(s) ==
  s # NoSaved =>
    /\ s.device \in 1..seatFile.login
    /\ s.at = dated[s.device]
    /\ s.device = seatFile.login => seatFile.loginAt <= s.at

\* No login after the one read last has a date, and what is dated is dated as it was.
DatesOK ==
  /\ \A l \in 1..MaxLogins : l > seatFile.login => dated[l] = Never
  /\ track.seen =>
       /\ track.device \in 1..seatFile.login /\ track.lastRefresh <= seatFile.lastRefresh
       /\ \A l \in 1..MaxLogins : l > track.device => dated[l] = Never
  /\ Kept(saved) /\ Kept(disk)

\* With a prompt host, every reading of an overdue token falls within one sleep: the
\* monotonic clock stands from the first to the last, and still does while the token is
\* the file's.
OverdueOK ==
  track.seen =>
    /\ track.expires <= seatFile.expires
    /\ track.overdueSince # NoInstant =>
         /\ track.overdueSince.mono = track.seenAt.mono
         /\ track.expires = seatFile.expires =>
              track.seenAt.mono = mono /\ seatFile.expires - wall < Lead

LoginIInv ==
  /\ LoginTypeOK
  /\ FileOK
  /\ ids => DatesOK /\ LoginDated
  /\ prompt => OverdueOK

LEMMA LoginInitOK == LoginInit => LoginIInv
<1> SUFFICES ASSUME LoginInit PROVE LoginIInv
  OBVIOUS
<1> USE LoginAssumption DEF Never, NoInstant, NoSaved
<1>1. LoginTypeOK
  <2>1. seatFile \in Files
    BY DEF LoginInit, Files
  <2>2. saved \in Saves /\ disk \in Saves
    BY <2>1 DEF LoginInit, Saves, Files
  <2>3. dated \in [1..MaxLogins -> Nat \cup {Never}]
    BY <2>2 DEF LoginInit, Saves
  <2> QED
    BY <2>1, <2>2, <2>3 DEF LoginInit, LoginTypeOK
<1>2. FileOK
  BY DEF LoginInit, FileOK
<1>3. ids => DatesOK /\ LoginDated
  BY DEF LoginInit, DatesOK, LoginDated, Kept, NoTrack
<1>4. prompt => OverdueOK
  BY DEF LoginInit, OverdueOK, NoTrack
<1> QED
  BY <1>1, <1>2, <1>3, <1>4 DEF LoginIInv

\* What a reading makes of the file, before a saved instant may date it.
LEMMA Observed ==
  ASSUME LoginIInv
  PROVE  /\ observeLogin(track) \in Tracks
         /\ ids /\ loggedInAt(track) # Never =>
              /\ loggedInAt(track) <= seatFile.lastRefresh
              /\ seatFile.loginAt <= loggedInAt(track)
              /\ dated[seatFile.device] \in {Never, loggedInAt(track)}
<1> USE LoginAssumption
<1>1. track \in {NoTrack} \cup Tracks /\ seatFile \in Files /\ wall \in Nat /\ mono \in Nat
  BY DEF LoginIInv, LoginTypeOK
<1>2. track.seen => track \in Tracks
  BY <1>1 DEF NoTrack
<1>3. loggedInAt(track) \in Nat \cup {Never}
  BY <1>1, <1>2 DEF loggedInAt, Tracks, Files
<1>4. overdueSince(track) \in Instants
  <2>1. Now \in Instants /\ NoInstant \in Instants
    BY <1>1 DEF Now, Instants
  <2>2. track.seen => track.overdueSince \in Instants
    BY <1>2 DEF Tracks
  <2> QED
    BY <2>1, <2>2 DEF overdueSince
<1>5. newDevice(track) \in BOOLEAN
  BY <1>1, <1>2 DEF newDevice, Tracks, Files
<1>6. observeLogin(track) \in Tracks
  <2> DEFINE o == observeLogin(track)
  <2>1. /\ o.seen = TRUE /\ o.expires = seatFile.expires /\ o.lastRefresh = seatFile.lastRefresh
        /\ o.device = seatFile.device /\ o.newDevice = newDevice(track)
        /\ o.overdueSince = overdueSince(track) /\ o.seenAt = Now /\ o.loggedInAt = loggedInAt(track)
    BY DEF observeLogin
  <2> QED
    BY <1>1, <1>3, <1>4, <1>5 DEF observeLogin, Tracks, Now, Files
<1>7. ASSUME ids, loggedInAt(track) # Never
      PROVE  /\ loggedInAt(track) <= seatFile.lastRefresh
             /\ seatFile.loginAt <= loggedInAt(track)
             /\ dated[seatFile.device] \in {Never, loggedInAt(track)}
  <2>1. track.seen /\ track \in Tracks
    <3>1. ASSUME track = NoTrack PROVE FALSE
      <4>1. track.seen = FALSE
        BY <3>1 DEF NoTrack
      <4>2. loggedInAt(track) = Never
        BY <4>1 DEF loggedInAt, newDevice
      <4> QED
        BY <4>2, <1>7
    <3> QED
      BY <1>1, <3>1 DEF Tracks
  <2>2. track.device # 0 /\ seatFile.device = seatFile.login /\ seatFile.device # 0
    BY <2>1, <1>1, <1>7 DEF LoginIInv, DatesOK, FileOK, Files, Tracks
  <2>3. CASE track.device # seatFile.device
    <3>1. loggedInAt(track) = seatFile.lastRefresh
      BY <2>1, <2>2, <2>3, <1>7 DEF loggedInAt, newDevice
    <3>2. dated[seatFile.device] = Never
      BY <1>1, <2>1, <2>2, <2>3, <1>7 DEF LoginIInv, DatesOK, Files
    <3> QED
      BY <1>1, <3>1, <3>2 DEF LoginIInv, FileOK, Files
  <2>4. CASE track.device = seatFile.device
    <3>1. loggedInAt(track) = track.loggedInAt
      BY <2>1, <2>2, <2>4, <1>7 DEF loggedInAt, newDevice
    <3>2. track.loggedInAt = dated[seatFile.device] /\ seatFile.loginAt <= track.loggedInAt
          /\ track.loggedInAt <= track.lastRefresh
      BY <2>1, <2>2, <2>4, <3>1, <1>7 DEF LoginIInv, LoginDated
    <3>3. track.lastRefresh <= seatFile.lastRefresh
      BY <2>1, <1>7 DEF LoginIInv, DatesOK
    <3>4. track.loggedInAt \in Int /\ track.lastRefresh \in Int /\ seatFile.lastRefresh \in Int
      BY <1>1, <2>1 DEF Tracks, Files, Never
    <3> QED
      BY <3>1, <3>2, <3>3, <3>4
  <2> QED
    BY <2>3, <2>4
<1> QED
  BY <1>6, <1>7

\* A saved instant dates the track with the date it gave before.
LEMMA ReadLoginOK == LoginIInv /\ readLogin => LoginIInv'
<1> SUFFICES ASSUME LoginIInv, readLogin PROVE LoginIInv'
  OBVIOUS
<1> DEFINE o == observeLogin(track)
           next == Dated(o)
<1>1. wall \in Nat /\ mono \in Nat /\ seatFile \in Files /\ saved \in Saves
      /\ dated \in [1..MaxLogins -> Nat \cup {Never}]
  BY DEF LoginIInv, LoginTypeOK
<1>2. UNCHANGED <<wall, mono, ids, prompt, seatFile, disk, restored>>
  BY DEF readLogin, clocks, host
<1>21. track' = next
  BY DEF readLogin
<1>22. saved' = IF next.loggedInAt # Never THEN [at |-> next.loggedInAt, device |-> next.device] ELSE saved
  BY DEF readLogin
<1>23. dated' = IF next.loggedInAt # Never /\ dated[seatFile.login] = Never
                  THEN [dated EXCEPT ![seatFile.login] = next.loggedInAt] ELSE dated
  BY DEF readLogin
<1>3. o \in Tracks
  BY Observed
<1>4. /\ o.seen = TRUE /\ o.expires = seatFile.expires /\ o.lastRefresh = seatFile.lastRefresh
      /\ o.device = seatFile.device /\ o.overdueSince = overdueSince(track) /\ o.seenAt = Now
      /\ o.loggedInAt = loggedInAt(track)
  BY DEF observeLogin
<1> HIDE DEF o
<1>5. next = o \/ next = [o EXCEPT !.loggedInAt = saved.at]
  BY DEF Dated
<1>6. /\ next.seen = TRUE /\ next.expires = seatFile.expires
      /\ next.lastRefresh = seatFile.lastRefresh /\ next.device = seatFile.device
      /\ next.overdueSince = overdueSince(track) /\ next.seenAt = Now
  BY <1>3, <1>4, <1>5 DEF Tracks
<1>7. next \in Tracks
  <2>1. saved.at \in Nat \cup {Never}
    BY <1>1 DEF Saves, NoSaved
  <2> QED
    BY <1>3, <1>5, <2>1 DEF Tracks
<1>8. next.loggedInAt = loggedInAt(track)
      \/ /\ next.loggedInAt = saved.at /\ saved # NoSaved /\ sameLogin(seatFile.device)
         /\ saved.at <= seatFile.lastRefresh
  BY <1>3, <1>4 DEF Dated, Tracks
<1> HIDE DEF next
<1>9. LoginTypeOK'
  <2>1. saved' \in Saves
    BY <1>1, <1>2, <1>21, <1>22, <1>23, <1>7 DEF Saves, Tracks
  <2>2. dated' \in [1..MaxLogins -> Nat \cup {Never}]
    BY <1>1, <1>2, <1>21, <1>22, <1>23, <1>7 DEF Tracks
  <2> QED
    BY <1>2, <1>21, <1>22, <1>23, <1>7, <2>1, <2>2 DEF LoginIInv, LoginTypeOK
<1>10. FileOK'
  BY <1>2, <1>21, <1>22, <1>23 DEF LoginIInv, FileOK
<1>11. ASSUME ids PROVE DatesOK' /\ LoginDated'
  <2>1. seatFile.device = seatFile.login /\ seatFile.login \in 1..MaxLogins
    BY <1>1, <1>11 DEF LoginIInv, FileOK, Files
  <2>2. DatesOK
    BY <1>11 DEF LoginIInv
  <2>3. ASSUME next.loggedInAt # Never
        PROVE  /\ next.loggedInAt <= seatFile.lastRefresh
               /\ seatFile.loginAt <= next.loggedInAt
               /\ dated[seatFile.login] \in {Never, next.loggedInAt}
    <3>1. CASE next.loggedInAt = loggedInAt(track)
      BY <1>11, <2>1, <2>3, <3>1, Observed
    <3>2. CASE next.loggedInAt = saved.at /\ saved # NoSaved /\ sameLogin(seatFile.device)
               /\ saved.at <= seatFile.lastRefresh
      <4>1. saved.device = seatFile.login
        BY <1>1, <2>1, <2>2, <3>2 DEF sameLogin, DatesOK, Kept, Files
      <4> QED
        BY <2>2, <3>2, <4>1 DEF DatesOK, Kept
    <3> QED
      BY <1>8, <3>1, <3>2
  <2>4. next.loggedInAt # Never => dated'[seatFile.login] = next.loggedInAt
    BY <1>1, <1>2, <1>21, <1>22, <1>23, <2>1, <2>3
  <2>5. \A l \in 1..MaxLogins : dated[l] # Never \/ l # seatFile.login => dated'[l] = dated[l]
    BY <1>1, <1>2, <1>21, <1>22, <1>23, <2>1
  <2>6. ASSUME NEW s \in Saves, Kept(s)
        PROVE  s # NoSaved => /\ s.device \in 1..seatFile.login /\ s.at = dated'[s.device]
                              /\ s.device = seatFile.login => seatFile.loginAt <= s.at
    <3> SUFFICES ASSUME s # NoSaved PROVE s.at = dated'[s.device] /\ s.device \in 1..seatFile.login
                                          /\ (s.device = seatFile.login => seatFile.loginAt <= s.at)
      OBVIOUS
    <3>1. s.device \in 1..seatFile.login /\ s.at = dated[s.device] /\ s.at # Never
          /\ (s.device = seatFile.login => seatFile.loginAt <= s.at)
      BY <2>6 DEF Kept, Saves, Never
    <3>2. s.device \in 1..MaxLogins
      BY <1>1, <3>1, LoginAssumption DEF Files
    <3> QED
      BY <2>5, <3>1, <3>2
  <2>7. Kept(disk)'
    BY <1>2, <1>21, <1>22, <1>23, <2>2, <2>6 DEF LoginIInv, LoginTypeOK, DatesOK, Kept
  <2>8. Kept(saved)'
    <3>1. CASE next.loggedInAt = Never
      BY <1>1, <1>2, <1>21, <1>22, <1>23, <2>2, <2>6, <3>1 DEF DatesOK, Kept
    <3>2. CASE next.loggedInAt # Never
      <4>1. saved' = [at |-> next.loggedInAt, device |-> seatFile.login]
        BY <1>2, <1>21, <1>22, <1>23, <1>6, <2>1, <3>2
      <4> QED
        BY <1>2, <1>21, <1>22, <1>23, <2>1, <2>3, <2>4, <3>2, <4>1 DEF Kept
    <3> QED
      BY <3>1, <3>2
  <2>9. \A l \in 1..MaxLogins : l > seatFile.login => dated'[l] = Never
    BY <1>1, <2>2, <2>5 DEF DatesOK, Files
  <2>10. DatesOK'
    <3>1. track'.device \in 1..seatFile'.login /\ track'.lastRefresh <= seatFile'.lastRefresh
      BY <1>1, <1>2, <1>21, <1>22, <1>23, <1>6, <2>1 DEF Files
    <3>2. \A l \in 1..MaxLogins : l > track'.device => dated'[l] = Never
      BY <1>2, <1>21, <1>22, <1>23, <1>6, <2>1, <2>9
    <3>3. \A l \in 1..MaxLogins : l > seatFile'.login => dated'[l] = Never
      BY <1>2, <1>21, <1>22, <1>23, <2>9
    <3> QED
      BY <2>7, <2>8, <3>1, <3>2, <3>3 DEF DatesOK
  <2>11. LoginDated'
    BY <1>2, <1>21, <1>22, <1>23, <1>6, <2>1, <2>3, <2>4 DEF LoginDated
  <2> QED
    BY <2>10, <2>11
<1>12. ASSUME prompt PROVE OverdueOK'
  <2>1. OverdueOK
    BY <1>12 DEF LoginIInv
  <2>2. track'.expires = seatFile.expires /\ track'.overdueSince = overdueSince(track)
        /\ track'.seenAt = Now /\ seatFile' = seatFile /\ wall' = wall /\ mono' = mono
    BY <1>2, <1>21, <1>22, <1>23, <1>6
  <2>3. ASSUME overdueSince(track) # NoInstant
        PROVE  overdueSince(track).mono = mono /\ seatFile.expires - wall < Lead
    <3>1. seatFile.expires - wall < Lead
      BY <1>1, <2>3, LoginAssumption DEF overdueSince, Files
    <3>2. CASE track.seen /\ track.expires = seatFile.expires /\ track.overdueSince # NoInstant
      BY <2>1, <3>1, <3>2, <1>1, LoginAssumption DEF overdueSince, OverdueOK, Files
    <3>3. CASE ~(track.seen /\ track.expires = seatFile.expires /\ track.overdueSince # NoInstant)
      BY <2>3, <3>1, <3>3, <1>1, LoginAssumption DEF overdueSince, Now, Files
    <3> QED
      BY <3>1, <3>2, <3>3
  <2> QED
    BY <1>1, <2>2, <2>3 DEF OverdueOK, Now, Files
<1> QED
  BY <1>2, <1>21, <1>22, <1>23, <1>9, <1>10, <1>11, <1>12 DEF LoginIInv

\* A step that leaves clocks, host and dates alone and takes at most what was saved.
LEMMA KeepsDates ==
  ASSUME LoginIInv, UNCHANGED <<wall, mono, ids, prompt, seatFile, dated>>,
         track' = track \/ track' = NoTrack,
         saved' \in {saved, disk, NoSaved}, disk' \in {disk, saved}, restored' \in BOOLEAN
  PROVE  LoginIInv'
<1>1. LoginTypeOK'
  BY DEF LoginIInv, LoginTypeOK, Saves
<1>2. FileOK'
  BY DEF LoginIInv, FileOK
<1>3. track'.seen => track' = track
  BY DEF NoTrack
<1>4. ASSUME ids PROVE DatesOK' /\ LoginDated'
  <2>1. DatesOK /\ LoginDated
    BY <1>4 DEF LoginIInv
  <2>2. Kept(saved)' /\ Kept(disk)'
    BY <2>1 DEF DatesOK, Kept
  <2>3. DatesOK'
    BY <1>3, <2>1, <2>2 DEF DatesOK
  <2>4. LoginDated'
    BY <1>3, <2>1 DEF LoginDated
  <2> QED
    BY <2>3, <2>4
<1>5. prompt => OverdueOK'
  BY <1>3 DEF LoginIInv, OverdueOK
<1> QED
  BY <1>1, <1>2, <1>4, <1>5 DEF LoginIInv

\* A token written now, for the login there was or for the next one.
LEMMA KeepsFile ==
  ASSUME LoginIInv, UNCHANGED <<wall, mono, ids, prompt, track, saved, disk, restored, dated>>,
         seatFile' \in Files, seatFile'.expires = wall + TokenLife, seatFile'.lastRefresh = wall,
         seatFile'.loginAt <= wall,
         ids => seatFile'.device = seatFile'.login,
         \/ seatFile'.login = seatFile.login /\ seatFile'.loginAt = seatFile.loginAt
         \/ seatFile'.login = seatFile.login + 1
  PROVE  LoginIInv'
<1> USE LoginAssumption
<1>1. LoginTypeOK'
  BY DEF LoginIInv, LoginTypeOK
<1>2. FileOK'
  BY <1>1 DEF LoginIInv, FileOK, LoginTypeOK, Files
<1>3. seatFile \in Files /\ wall \in Nat /\ mono \in Nat /\ track \in {NoTrack} \cup Tracks
      /\ saved \in Saves /\ disk \in Saves /\ FileOK
  BY DEF LoginIInv, LoginTypeOK
<1>31. track.seen => track \in Tracks
  <2>1. track = NoTrack => track.seen = FALSE
    BY DEF NoTrack
  <2> QED
    BY <1>3, <2>1
<1>4. ASSUME ids PROVE DatesOK' /\ LoginDated'
  <2>1. DatesOK /\ LoginDated
    BY <1>4 DEF LoginIInv
  <2>2. ASSUME NEW s \in Saves, Kept(s)
        PROVE  s # NoSaved => /\ s.device \in 1..seatFile'.login /\ s.at = dated[s.device]
                              /\ s.device = seatFile'.login => seatFile'.loginAt <= s.at
    BY <1>3, <2>2 DEF Kept, Files
  <2>3. Kept(saved)' /\ Kept(disk)'
    BY <1>3, <2>1, <2>2 DEF DatesOK, Kept
  <2>4. \A l \in 1..MaxLogins : l > seatFile'.login => dated[l] = Never
    BY <1>3, <2>1 DEF DatesOK, Files
  <2>5. track.seen => track.device \in 1..seatFile'.login /\ track.lastRefresh <= seatFile'.lastRefresh
    BY <1>3, <1>31, <2>1 DEF DatesOK, Files, Tracks, FileOK
  <2>6. DatesOK'
    BY <2>1, <2>3, <2>4, <2>5 DEF DatesOK
  <2>7. ASSUME track.seen PROVE track.device = seatFile'.login =>
                  seatFile'.login = seatFile.login /\ seatFile'.loginAt = seatFile.loginAt
    BY <1>3, <2>1, <2>7 DEF DatesOK, Files
  <2>8. LoginDated'
    BY <2>1, <2>7 DEF LoginDated
  <2> QED
    BY <2>6, <2>8
<1>5. ASSUME prompt PROVE OverdueOK'
  <2>1. OverdueOK
    BY <1>5 DEF LoginIInv
  <2>2. seatFile.expires <= seatFile'.expires
    BY <1>3 DEF FileOK
  <2>3. track.seen => track.expires \in Int
    BY <1>31 DEF Tracks
  <2>4. track.seen => track.expires <= seatFile'.expires
                      /\ (track.expires = seatFile'.expires => seatFile'.expires = seatFile.expires)
    BY <1>3, <2>1, <2>2, <2>3 DEF OverdueOK, Files
  <2> QED
    BY <2>1, <2>4 DEF OverdueOK
<1> QED
  BY <1>1, <1>2, <1>4, <1>5 DEF LoginIInv

\* Time passes; awake, only while no token is overdue that a prompt host would renew.
LEMMA KeepsTime ==
  ASSUME LoginIInv, Awake \/ Asleep PROVE LoginIInv'
<1> USE LoginAssumption
<1>1. wall' = wall + 1 /\ UNCHANGED <<ids, prompt, seatFile, track, saved, disk, restored, dated>>
      /\ (mono' = mono \/ (mono' = mono + 1 /\ (prompt => ~Due)))
  BY DEF Awake, Asleep, host, plugin
<1>2. wall \in Nat /\ mono \in Nat /\ seatFile \in Files
  BY DEF LoginIInv, LoginTypeOK
<1>3. LoginTypeOK' /\ FileOK'
  BY <1>1, <1>2 DEF LoginIInv, LoginTypeOK, FileOK, Files
<1>4. ids => DatesOK' /\ LoginDated'
  BY <1>1 DEF LoginIInv, DatesOK, LoginDated, Kept
<1>5. ASSUME prompt, track.seen, track.overdueSince # NoInstant, track.expires = seatFile.expires
      PROVE  track.seenAt.mono = mono' /\ seatFile.expires - wall' < Lead
  <2>1. track.seenAt.mono = mono /\ seatFile.expires - wall < Lead
    BY <1>5 DEF LoginIInv, OverdueOK
  <2> QED
    BY <1>1, <1>2, <1>5, <2>1 DEF Due, Files
<1>6. prompt => OverdueOK'
  BY <1>1, <1>5 DEF LoginIInv, OverdueOK
<1> QED
  BY <1>1, <1>3, <1>4, <1>6 DEF LoginIInv

LEMMA LoginStepOK == LoginIInv /\ [LoginNext]_loginVars => LoginIInv'
<1> SUFFICES ASSUME LoginIInv, [LoginNext]_loginVars PROVE LoginIInv'
  OBVIOUS
<1> USE DEF clocks, host, plugin
<1>1. CASE readLogin
  BY <1>1, ReadLoginOK
<1>2. ASSUME NEW forget \in BOOLEAN, Unlisted(forget) PROVE LoginIInv'
  BY <1>2, KeepsDates DEF Unlisted, LoginIInv, LoginTypeOK
<1>3. CASE importLogins
  BY <1>3, KeepsDates DEF importLogins
<1>4. CASE SaveLogins
  BY <1>4, KeepsDates DEF SaveLogins, LoginIInv, LoginTypeOK
<1>5. CASE Restart
  BY <1>5, KeepsDates DEF Restart
<1>6. CASE HostRenews
  <2>1. seatFile \in Files /\ wall \in Nat /\ FileOK /\ ids \in BOOLEAN
    BY DEF LoginIInv, LoginTypeOK
  <2>2. seatFile' = [seatFile EXCEPT !.expires = wall + TokenLife, !.lastRefresh = wall]
    BY <1>6 DEF HostRenews
  <2>3. seatFile' \in Files /\ seatFile'.expires = wall + TokenLife /\ seatFile'.lastRefresh = wall
        /\ seatFile'.login = seatFile.login /\ seatFile'.loginAt = seatFile.loginAt
        /\ seatFile'.device = seatFile.device
    <3>1. wall + TokenLife \in Int
      BY <2>1, LoginAssumption
    <3> QED
      BY <2>1, <2>2, <3>1 DEF Files
  <2>4. seatFile'.loginAt <= wall
    BY <2>1, <2>3 DEF FileOK, Files
  <2> QED
    BY <1>6, <2>1, <2>3, <2>4, KeepsFile DEF HostRenews, FileOK
<1>7. CASE UserLogsIn
  <2>1. seatFile \in Files /\ wall \in Nat
    BY DEF LoginIInv, LoginTypeOK
  <2>2. seatFile' = [expires |-> wall + TokenLife, lastRefresh |-> wall, login |-> seatFile.login + 1,
                     loginAt |-> wall, device |-> IF ids THEN seatFile.login + 1 ELSE 0]
        /\ seatFile.login < MaxLogins
    BY <1>7 DEF UserLogsIn
  <2>3. seatFile' \in Files /\ seatFile'.expires = wall + TokenLife /\ seatFile'.lastRefresh = wall
        /\ seatFile'.login = seatFile.login + 1 /\ seatFile'.loginAt = wall
        /\ (ids => seatFile'.device = seatFile'.login)
    BY <2>1, <2>2, LoginAssumption DEF Files
  <2> QED
    BY <1>7, <2>1, <2>3, KeepsFile DEF UserLogsIn
<1>8. CASE Awake \/ Asleep
  BY <1>8, KeepsTime
<1>9. CASE UNCHANGED loginVars
  BY <1>9, KeepsDates DEF loginVars, LoginIInv, LoginTypeOK
<1> QED
  BY <1>1, <1>2, <1>3, <1>4, <1>5, <1>6, <1>7, <1>8, <1>9 DEF LoginNext

LEMMA LoginInvariance == LoginSpec => []LoginIInv
  BY LoginInitOK, LoginStepOK, PTL DEF LoginSpec

\* Where the host writes device ids, every date a reading keeps is the first its login was
\* given, and lies within that login: no renewal, restart or unseen login moves it.
THEOREM LoginIsDated == LoginSpec => []LoginDated
<1>1. LoginIInv => LoginDated
  BY DEF LoginIInv, LoginDated
<1> QED
  BY <1>1, LoginInvariance, PTL

\* While the host renews every token as it falls due, no reading shows the login failing or
\* expired, whenever the machine sleeps and however long the file goes unread.
THEOREM HealthyIsNotBlamed == LoginSpec => []HealthyNotBlamed
<1>1. LoginIInv => HealthyNotBlamed
  <2> SUFFICES ASSUME LoginIInv, prompt, track.seen, NEW cut \in BOOLEAN
               PROVE  seatLogin("none", cut) \notin {"failing", "expired"}
    BY DEF HealthyNotBlamed
  <2>1. track \in Tracks /\ OverdueOK
    BY DEF LoginIInv, LoginTypeOK, NoTrack
  <2>2. ~confirmedAt(track, Now)
    BY <2>1, LoginAssumption DEF OverdueOK, confirmedAt, Tracks
  <2>3. login(track, "none") \notin {"failing", "expired"}
    BY <2>2 DEF login
  <2> QED
    BY <2>3 DEF seatLogin
<1> QED
  BY <1>1, LoginInvariance, PTL

-----------------------------------------------------------------------------
(* The release of a stale cooldown *)

L == INSTANCE RefusalSpansProofs
       WITH Second <- 1, MaxTick <- MaxNow, MaxLocks <- MaxSpans, ring <- rings

-----------------------------------------------------------------------------
(* A window's ring, whose spans are all in the past *)

RingRecords == [locks : Seq(R!Spans), refused : Int, served : Int]

Ring(r, t) == r \in RingRecords /\ L!RingOK(r) /\ L!Past(r.locks, t)

LEMMA WholeSeconds == \A t \in Int : L!Truncate(t) = t
  BY DEF L!Truncate

LEMMA SpansAssumed == 1 \in Nat \ {0} /\ MaxNow \in Nat /\ MaxSpans \in Nat \ {0}
  BY CooldownAssumption

\* A record of a ring's parts that are in order is a ring.
LEMMA RingTyped ==
  ASSUME NEW x, NEW y, NEW z, L!RingOK([locks |-> x, refused |-> y, served |-> z])
  PROVE  [locks |-> x, refused |-> y, served |-> z] \in RingRecords
<1> DEFINE q == [locks |-> x, refused |-> y, served |-> z]
<1>1. q.locks \in Seq(R!Spans) /\ q.refused \in Int /\ q.served \in Int
  BY DEF L!RingOK, L!WF, L!Spans, R!Spans, L!Ends, R!Ends
<1> QED
  BY <1>1 DEF RingRecords

LEMMA SpanTimes ==
  ASSUME NEW t, NEW r, Ring(r, t)
  PROVE  \A i \in DOMAIN r.locks : r.locks[i].from \in Int /\ r.locks[i].to \in Int
<1>1. r.locks \in Seq(L!Spans)
  BY DEF Ring, L!RingOK, L!WF
<1>2. \A i \in DOMAIN r.locks : r.locks[i] \in L!Spans
  BY <1>1
<1> QED
  BY <1>2 DEF L!Spans

LEMMA RefuseRing ==
  ASSUME NEW t \in Nat, NEW r, Ring(r, t), NEW until \in Int
  PROVE  LET q == R!Refuse(r, t, t, until, 0)
         IN  /\ Ring(q, t)
             /\ t < until /\ r.served < t =>
                  /\ q.locks # <<>> /\ q.refused >= t
                  /\ R!Newest(q.locks).end = "ongoing" /\ R!Newest(q.locks).to = until
<1> DEFINE q == L!Refuse(r, t, t, until, 0)
<1>1. R!Refuse(r, t, t, until, 0) = q
  BY DEF R!Refuse, L!Refuse, R!Truncate, L!Truncate, R!RefuseDropped, L!RefuseDropped,
         R!Newest, L!Newest, R!TrimLocks, L!TrimLocks, R!TrimCounts, L!TrimCounts, R!Push, L!Push,
         R!Opened, L!Opened, R!ReachesBack, L!ReachesBack, R!WithLast, L!WithLast,
         R!Extend, L!Extend, R!Reopens, L!Reopens, R!Later, L!Later, R!Never, L!Never
<1>2. L!RingOK(q)
  BY SpansAssumed, L!RefuseOK DEF Ring
<1>3. /\ L!Past(q.locks, t)
      /\ t < until /\ r.served < t =>
           /\ q.locks # <<>> /\ q.refused >= t
           /\ L!Newest(q.locks).end = "ongoing" /\ L!Newest(q.locks).to = until
  BY SpansAssumed, WholeSeconds, L!RefusePast DEF Ring
<1>4. q = r \/ \E x, y, z : q = [locks |-> x, refused |-> y, served |-> z]
  BY DEF L!Refuse
<1> HIDE DEF q
<1>5. q \in RingRecords
  BY <1>2, <1>4, RingTyped DEF Ring
<1> QED
  BY <1>1, <1>2, <1>3, <1>5 DEF Ring, R!Newest, L!Newest

LEMMA ServeRing ==
  ASSUME NEW t \in Nat, NEW r, Ring(r, t)
  PROVE  LET q == R!Serve(r, t, t)
             l == R!Newest(r.locks)
         IN  /\ Ring(q, t) /\ q.refused = r.refused
             /\ \A u : L!Begun(r.locks, u) => L!Begun(q.locks, u)
             /\ r.locks # <<>> /\ l.end # "ongoing" => q.locks = r.locks
             /\ r.locks # <<>> /\ l.end = "ongoing" /\ r.refused < t /\ l.from < t =>
                  q.locks # <<>> /\ R!Newest(q.locks) = L!EndedAt(l, t, "served")
<1> DEFINE q == L!Serve(r, t, t)
<1>1. R!Serve(r, t, t) = q
  BY DEF R!Serve, L!Serve, R!Truncate, L!Truncate, R!EndServed, L!EndServed, R!End, L!End,
         R!EndsSpan, L!EndsSpan, R!Newest, L!Newest, R!WithLast, L!WithLast, R!Later, L!Later
<1>2. L!RingOK(q)
  BY SpansAssumed, L!ServeOK DEF Ring
<1>3. L!Truncate(t) = t /\ L!RingOK(r) /\ L!Past(r.locks, t)
  BY WholeSeconds DEF Ring
<1>4. \E x, y, z : q = [locks |-> x, refused |-> y, served |-> z]
  BY DEF L!Serve
<1>5. /\ L!Past(q.locks, t)
      /\ \A u : L!Begun(r.locks, u) => L!Begun(q.locks, u)
      /\ q.refused = r.refused
      /\ r.locks # <<>> /\ L!Newest(r.locks).end # "ongoing" => q.locks = r.locks
      /\ r.locks # <<>> /\ L!Newest(r.locks).end = "ongoing" /\ r.refused < t
           /\ L!Newest(r.locks).from < t =>
           q.locks # <<>> /\ L!Newest(q.locks) = L!EndedAt(L!Newest(r.locks), t, "served")
  BY <1>3, SpansAssumed, L!ServePast
<1> HIDE DEF q
<1>6. q \in RingRecords
  BY <1>2, <1>4, RingTyped
<1> QED
  BY <1>1, <1>2, <1>5, <1>6 DEF Ring, R!Newest, L!Newest

\* A span may end as its window is read.
LEMMA EndRing ==
  ASSUME NEW t \in Nat, NEW r, Ring(r, t), NEW cause \in {"reset", "cleared"}
  PROVE  LET q == [r EXCEPT !.locks = R!End(@, t, cause)]
         IN  /\ Ring(q, t) /\ q.refused = r.refused /\ q.served = r.served
             /\ \A u : L!Begun(r.locks, u) => L!Begun(q.locks, u)
<1> DEFINE e == L!End(r.locks, t, cause)
           q == [locks |-> e, refused |-> r.refused, served |-> r.served]
<1>1. R!End(r.locks, t, cause) = e
  BY DEF R!End, L!End, R!Truncate, L!Truncate, R!EndsSpan, L!EndsSpan, R!Newest, L!Newest,
         R!WithLast, L!WithLast
<1>2. cause \in L!Ends \ {"ongoing"}
  BY DEF L!Ends
<1>3. L!Truncate(t) = t /\ L!WF(r.locks) /\ L!Past(r.locks, t) /\ r \in RingRecords
  BY WholeSeconds DEF Ring, L!RingOK
<1>4. /\ L!Past(e, t)
      /\ \A u : L!Begun(r.locks, u) => L!Begun(e, u)
  BY <1>2, <1>3, SpansAssumed, L!EndPast
<1>5. /\ L!WF(e) /\ Len(e) = Len(r.locks)
      /\ e # <<>> /\ L!Newest(e).end = "ongoing" => e = r.locks
  BY <1>2, <1>3, SpansAssumed, L!EndOK
<1>6. [r EXCEPT !.locks = R!End(@, t, cause)] = q
  BY <1>1, <1>3 DEF RingRecords
<1> HIDE DEF e
<1>7. L!RingOK(q)
  BY <1>5 DEF Ring, L!RingOK
<1>8. q \in RingRecords
  BY <1>7, RingTyped
<1> QED
  BY <1>4, <1>6, <1>7, <1>8 DEF Ring

-----------------------------------------------------------------------------
(* The inductive invariant *)

Cycles == [samples : SUBSET Int, reset : Int]

CooldownTypeOK ==
  /\ now \in Nat /\ plan \subseteq Windows
  /\ shut \in [Windows -> Int] /\ cooled \in Int /\ entry \in Int
  /\ rings \in [Windows -> RingRecords] /\ cycle \in [Windows -> Cycles]
  /\ stage = "asking" => hold.until = entry
  /\ holdResets.asked \in Int

\* What is recorded is of the past.
RecordPast == \A w \in Windows : Ring(rings[w], now)

\* The ring r and cycle c of a window the provider refuses on until s: its newest span
\* runs to s, or was to when a request was served, later than the last 429.
Standing(r, c, s) ==
  /\ r.locks # <<>>
  /\ LET l == R!Newest(r.locks)
     IN  /\ \/ l.end = "ongoing" /\ l.to = s
            \/ l.end = "served" /\ l.expected = s /\ r.refused < l.to
         /\ l.from <= r.refused
  /\ c.reset = s

\* A window still refused on stands in the record, and no window that caps every request
\* has a span begun since its newest one ended.
ShutStands ==
  \A w \in AllRequest : shut[w] > now =>
    /\ Standing(rings[w], cycle[w], shut[w])
    /\ \A v \in AllRequest : L!Begun(rings[v].locks, R!Newest(rings[w].locks).to)

\* The reset that settled a cooldown is the last the host answered, and no span has begun
\* since it was asked.
SettledOK ==
  settled # Never => resetUnsupported \/
    /\ holdResets # NoReset /\ holdResets.until = settled
    /\ \A w \in AllRequest : L!Begun(rings[w].locks, holdResets.asked)

CooldownIInv == CooldownTypeOK /\ RecordPast /\ ShutStands /\ SettledOK

LEMMA CooldownInitOK == CooldownInit => CooldownIInv
<1> SUFFICES ASSUME CooldownInit PROVE CooldownIInv
  OBVIOUS
<1>1. R!EmptyRing \in RingRecords /\ L!RingOK(R!EmptyRing) /\ L!Past(R!EmptyRing.locks, 1)
  BY SpansAssumed DEF R!EmptyRing, RingRecords, R!Never, L!RingOK, L!WF, L!Disjoint, L!Past, L!Begun
<1>2. CooldownTypeOK
  BY <1>1, CooldownAssumption DEF CooldownInit, CooldownTypeOK, Windows, Cycles, NoReset, Never
<1>3. RecordPast
  BY <1>1 DEF CooldownInit, RecordPast, Ring
<1>4. ShutStands
  BY DEF CooldownInit, ShutStands, Windows, Never
<1>5. SettledOK
  BY DEF CooldownInit, SettledOK
<1> QED
  BY <1>2, <1>3, <1>4, <1>5 DEF CooldownIInv

\* A step of the sweep that leaves the record and the provider.
LEMMA SweepKeeps ==
  ASSUME CooldownIInv, UNCHANGED <<now, plan, shut, record>>,
         cooled' \in Int, entry' \in Int, stage' = "asking" => hold'.until = entry',
         holdResets'.asked \in Int, SettledOK'
  PROVE  CooldownIInv'
<1>1. CooldownTypeOK'
  BY DEF CooldownIInv, CooldownTypeOK, record
<1>2. RecordPast' /\ ShutStands'
  BY DEF CooldownIInv, RecordPast, ShutStands, record
<1> QED
  BY <1>1, <1>2 DEF CooldownIInv

\* So does one that leaves what is remembered of resets too.
LEMMA SweepForgets ==
  ASSUME CooldownIInv, UNCHANGED <<now, plan, shut, record, memory>>,
         cooled' \in Int, entry' \in Int, stage' = "asking" => hold'.until = entry'
  PROVE  CooldownIInv'
<1>1. holdResets'.asked \in Int /\ SettledOK'
  BY DEF CooldownIInv, CooldownTypeOK, SettledOK, memory, record
<1> QED
  BY <1>1, SweepKeeps DEF memory

LEMMA AnswerResetOK ==
  ASSUME CooldownIInv, UNCHANGED plan, NEW problem \in {"none", "failed", "unsupported", "late"},
         AnswerReset(problem)
  PROVE  CooldownIInv'
<1>1. hold.until = entry /\ now \in Nat /\ cooled \in Int /\ stage = "asking"
  BY DEF AnswerReset, CooldownIInv, CooldownTypeOK
<1>2. UNCHANGED <<now, plan, shut, record>> /\ entry' = Never /\ stage' = "idle"
  BY DEF AnswerReset, Done
<1>3. cooled' \in Int
  BY <1>1 DEF AnswerReset, Never
<1>4. \A w \in AllRequest : L!Begun(rings[w].locks, now)
  BY DEF CooldownIInv, RecordPast, Ring, L!Past, Windows
<1>5. rings' = rings
  BY <1>2 DEF record
<1>6. CASE problem \in {"none", "failed"}
  <2>1. /\ holdResets' = [span |-> hold.span, until |-> entry, asked |-> now]
        /\ settled' = entry
    BY <1>1, <1>6 DEF AnswerReset, Recorded
  <2>2. holdResets'.asked = now /\ holdResets' # NoReset /\ holdResets'.until = settled'
    BY <1>1, <2>1 DEF NoReset, Never
  <2>3. SettledOK'
    BY <1>4, <1>5, <2>2 DEF SettledOK
  <2> QED
    BY <1>1, <1>2, <1>3, <2>2, <2>3, SweepKeeps DEF Never
<1>7. CASE problem = "unsupported"
  <2>1. holdResets' = holdResets /\ (resetUnsupported' <=> TRUE)
    BY <1>7 DEF AnswerReset, Recorded
  <2>2. SettledOK' /\ holdResets'.asked \in Int
    BY <2>1 DEF SettledOK, CooldownIInv, CooldownTypeOK
  <2> QED
    BY <1>2, <1>3, <2>2, SweepKeeps DEF Never
<1>8. CASE problem = "late"
  <2>1. holdResets' = holdResets /\ (resetUnsupported' <=> resetUnsupported) /\ settled' = settled
    BY <1>8 DEF AnswerReset, Recorded
  <2>2. SettledOK' /\ holdResets'.asked \in Int
    BY <1>5, <2>1 DEF SettledOK, CooldownIInv, CooldownTypeOK
  <2> QED
    BY <1>2, <1>3, <2>2, SweepKeeps DEF Never
<1> QED
  BY <1>6, <1>7, <1>8

-----------------------------------------------------------------------------
(* The steps that change the record *)

LEMMA CycleReadOK ==
  ASSUME CooldownIInv, NEW w \in Windows, NEW reset \in Int, NEW back \in BOOLEAN, NEW flat \in BOOLEAN
  PROVE  LET c == CycleRead(w, reset, back, flat)
         IN  c \in Cycles /\ (reset # Never => c.reset = reset)
<1> DEFINE S == cycle[w].samples
           J == Joined(S, flat)
<1>1. now \in Nat /\ cycle[w] \in Cycles /\ S \subseteq Int /\ cycle[w].reset \in Int
  BY DEF CooldownIInv, CooldownTypeOK, Cycles
<1>2. CASE S = {} \/ back \/ Turns(cycle[w], reset)
  <2>1. CycleRead(w, reset, back, flat) = [samples |-> {now}, reset |-> reset]
    BY <1>2 DEF CycleRead
  <2> QED
    BY <1>1, <2>1 DEF Cycles
<1>3. CASE ~(S = {} \/ back \/ Turns(cycle[w], reset))
  <2> DEFINE K == Capped(Coarsened(J))
             u == IF cycle[w].reset = Never THEN reset ELSE cycle[w].reset
  <2>1. CycleRead(w, reset, back, flat) = [samples |-> K, reset |-> u]
    BY <1>3 DEF CycleRead
  <2>2. J \subseteq Int
    BY <1>1 DEF Joined
  <2>3. K \subseteq J
    BY DEF Capped, Coarsened
  <2>4. reset # Never => u = reset
    BY <1>3 DEF Turns
  <2> HIDE DEF K, J
  <2> QED
    BY <1>1, <2>1, <2>2, <2>3, <2>4 DEF Cycles
<1> QED
  BY <1>2, <1>3

LEMMA RingReadOK ==
  ASSUME CooldownIInv, NEW w \in Windows, NEW reset \in Int, NEW back \in BOOLEAN
  PROVE  LET q == RingRead(w, reset, back)
         IN  /\ Ring(q, now) /\ q.refused = rings[w].refused /\ q.served = rings[w].served
             /\ \A u : L!Begun(rings[w].locks, u) => L!Begun(q.locks, u)
             /\ ~back /\ cycle[w].reset = reset /\ reset > now => q = rings[w]
<1>1. now \in Nat /\ Ring(rings[w], now)
  BY DEF CooldownIInv, CooldownTypeOK, RecordPast
<1>2. CASE cycle[w].samples # {} /\ (back \/ Turns(cycle[w], reset))
  <2> DEFINE cause == IF Turns(cycle[w], reset) THEN "reset" ELSE "cleared"
             q == [rings[w] EXCEPT !.locks = R!End(@, now, cause)]
  <2>1. RingRead(w, reset, back) = q
    BY <1>2 DEF RingRead
  <2>2. cause \in {"reset", "cleared"}
    OBVIOUS
  <2> HIDE DEF cause
  <2>3. /\ Ring(q, now) /\ q.refused = rings[w].refused /\ q.served = rings[w].served
        /\ \A u : L!Begun(rings[w].locks, u) => L!Begun(q.locks, u)
    BY <1>1, <2>2, EndRing
  <2> HIDE DEF q
  <2>4. back \/ cycle[w].reset # reset \/ ~(reset > now)
    BY <1>1, <1>2 DEF Turns
  <2> QED
    BY <2>1, <2>3, <2>4
<1>3. CASE ~(cycle[w].samples # {} /\ (back \/ Turns(cycle[w], reset)))
  <2>1. RingRead(w, reset, back) = rings[w]
    BY <1>3 DEF RingRead
  <2> QED
    BY <1>1, <2>1
<1> QED
  BY <1>2, <1>3

\* Rings read or served move no span's start: what settled a cooldown settles it still.
LEMMA StaysSettled ==
  ASSUME CooldownIInv, UNCHANGED memory,
         \A w \in AllRequest : \A u : L!Begun(rings[w].locks, u) => L!Begun(rings'[w].locks, u)
  PROVE  SettledOK'
  BY DEF CooldownIInv, SettledOK, memory

LEMMA ReadUsageOK ==
  ASSUME CooldownIInv, UNCHANGED plan, NEW got \in Seen, NEW flat, ReadUsage(got, flat)
  PROVE  CooldownIInv'
<1> DEFINE back(w) == got[w] = "back"
           read(w) == RingRead(w, shut[w], back(w))
           cleared(w) == [rings[w] EXCEPT !.locks = R!End(@, now, "cleared")]
           q(w) == IF got[w] # "absent" THEN read(w)
                   ELSE IF Gone(w, got) THEN cleared(w) ELSE rings[w]
           c(w) == IF got[w] # "absent" THEN CycleRead(w, shut[w], back(w), w \in flat) ELSE cycle[w]
<1>1. /\ now' = now /\ shut' = shut /\ cooled' = cooled /\ UNCHANGED memory
      /\ rings' = [w \in Windows |-> q(w)] /\ cycle' = [w \in Windows |-> c(w)]
  BY DEF ReadUsage, provider
<1>2. stage' # "asking" /\ entry' \in Int
  BY DEF ReadUsage, Done, CooldownIInv, CooldownTypeOK, Never
<1>3. ASSUME NEW w \in Windows
      PROVE  /\ Ring(q(w), now) /\ q(w).refused = rings[w].refused
             /\ \A u : L!Begun(rings[w].locks, u) => L!Begun(q(w).locks, u)
             /\ c(w) \in Cycles
             /\ got[w] # "absent" /\ shut[w] # Never => c(w).reset = shut[w]
             /\ got[w] # "absent" /\ ~back(w) /\ cycle[w].reset = shut[w] /\ shut[w] > now =>
                  q(w) = rings[w]
  <2>1. /\ shut[w] \in Int /\ back(w) \in BOOLEAN /\ (w \in flat) \in BOOLEAN
        /\ now \in Nat /\ Ring(rings[w], now) /\ cycle[w] \in Cycles
    BY DEF CooldownIInv, CooldownTypeOK, RecordPast
  <2> HIDE DEF back
  <2>2. CASE got[w] # "absent"
    <3>1. q(w) = read(w) /\ c(w) = CycleRead(w, shut[w], back(w), w \in flat)
      BY <2>2
    <3>2. /\ Ring(read(w), now) /\ read(w).refused = rings[w].refused
          /\ \A u : L!Begun(rings[w].locks, u) => L!Begun(read(w).locks, u)
          /\ ~back(w) /\ cycle[w].reset = shut[w] /\ shut[w] > now => read(w) = rings[w]
      BY <2>1, RingReadOK
    <3>3. /\ CycleRead(w, shut[w], back(w), w \in flat) \in Cycles
          /\ shut[w] # Never => CycleRead(w, shut[w], back(w), w \in flat).reset = shut[w]
      BY <2>1, CycleReadOK
    <3> HIDE DEF q, c, read
    <3> QED
      BY <3>1, <3>2, <3>3
  <2>3. CASE got[w] = "absent" /\ Gone(w, got)
    <3>1. q(w) = cleared(w) /\ c(w) = cycle[w]
      BY <2>3
    <3>2. /\ Ring(cleared(w), now) /\ cleared(w).refused = rings[w].refused
          /\ \A u : L!Begun(rings[w].locks, u) => L!Begun(cleared(w).locks, u)
      BY <2>1, EndRing
    <3> HIDE DEF q, c, cleared
    <3> QED
      BY <2>1, <2>3, <3>1, <3>2
  <2>4. CASE got[w] = "absent" /\ ~Gone(w, got)
    <3>1. q(w) = rings[w] /\ c(w) = cycle[w]
      BY <2>4
    <3> HIDE DEF q, c
    <3> QED
      BY <2>1, <2>4, <3>1
  <2> QED
    BY <2>2, <2>3, <2>4
<1>4. \A w \in AllRequest : shut[w] > now => ~back(w) /\ got[w] # "absent"
  BY DEF ReadUsage, Windows, CooldownIInv, CooldownTypeOK, Never
<1> HIDE DEF q, c, back
<1>5. CooldownTypeOK'
  BY <1>1, <1>2, <1>3 DEF CooldownIInv, CooldownTypeOK, Ring, memory
<1>6. RecordPast'
  BY <1>1, <1>3 DEF RecordPast
<1>7. \A v \in AllRequest : \A u : L!Begun(rings[v].locks, u) => L!Begun(rings'[v].locks, u)
  BY <1>1, <1>3 DEF Windows
<1>8. ShutStands'
  <2> SUFFICES ASSUME NEW w \in AllRequest, shut[w] > now
               PROVE  /\ Standing(rings'[w], cycle'[w], shut[w])
                      /\ \A v \in AllRequest :
                           L!Begun(rings'[v].locks, R!Newest(rings'[w].locks).to)
    BY <1>1 DEF ShutStands
  <2>1. Standing(rings[w], cycle[w], shut[w]) /\ w \in Windows
    BY DEF CooldownIInv, ShutStands, Windows
  <2>2. shut[w] # Never
    BY DEF CooldownIInv, CooldownTypeOK, Never, Windows
  <2>3. q(w) = rings[w] /\ c(w).reset = shut[w]
    BY <1>3, <1>4, <2>1, <2>2 DEF Standing
  <2>4. rings'[w] = rings[w] /\ cycle'[w].reset = shut[w]
    BY <1>1, <2>1, <2>3
  <2>5. Standing(rings'[w], cycle'[w], shut[w])
    BY <2>1, <2>4 DEF Standing
  <2> QED
    BY <1>7, <2>4, <2>5 DEF CooldownIInv, ShutStands
<1>9. SettledOK'
  BY <1>1, <1>7, StaysSettled
<1> QED
  BY <1>5, <1>6, <1>8, <1>9 DEF CooldownIInv

\* A 429: each window it names goes on, or starts, being refused from now to its reset.
LEMMA Refuse429OK ==
  ASSUME CooldownIInv, UNCHANGED plan, NEW ws \in SUBSET plan, NEW len \in Lengths,
         NEW flat, Refuse429(ws, len, flat)
  PROVE  CooldownIInv'
<1> DEFINE full == {w \in Windows : shut[w] # Never}
           s == [w \in Windows |-> IF w \in ws \ full THEN now + len ELSE shut[w]]
           p(w) == RingRead(w, s[w], FALSE)
           q(w) == R!Refuse(p(w), now, now, s[w], 0)
           c(w) == CycleRead(w, s[w], FALSE, w \in flat)
<1>1. /\ now \in Nat /\ len \in Nat \ {0} /\ ws \subseteq Windows
      /\ shut \in [Windows -> Int] /\ Never \in Int /\ AllRequest \subseteq Windows
  BY CooldownAssumption DEF CooldownIInv, CooldownTypeOK, Windows, Never
<1>2. /\ now' = now /\ settled' = Never /\ stage' = stage /\ hold' = hold /\ entry' = entry
      /\ holdResets' = holdResets /\ shut' = s /\ cooled' \in {s[w] : w \in ws}
      /\ full \cap AllRequest \subseteq ws
      /\ \A w \in ws : rings[w].served < now
      /\ rings' = [w \in Windows |-> IF w \in ws THEN q(w) ELSE rings[w]]
      /\ cycle' = [w \in Windows |-> IF w \in ws THEN c(w) ELSE cycle[w]]
  BY DEF Refuse429, sweepState
<1>3. s \in [Windows -> Int]
  BY <1>1
<1>4. \A w \in AllRequest : s[w] > now => w \in ws
  BY <1>1, <1>2 DEF Never
<1> HIDE DEF s
<1>5. ASSUME NEW w \in ws
      PROVE  /\ Ring(q(w), now)
             /\ s[w] > now =>
                  /\ q(w).locks # <<>> /\ q(w).refused >= now
                  /\ R!Newest(q(w).locks).end = "ongoing" /\ R!Newest(q(w).locks).to = s[w]
             /\ c(w) \in Cycles
             /\ s[w] # Never => c(w).reset = s[w]
  <2>1. w \in Windows /\ s[w] \in Int /\ FALSE \in BOOLEAN /\ (w \in flat) \in BOOLEAN
    BY <1>1, <1>3
  <2>2. Ring(p(w), now) /\ p(w).served = rings[w].served
    BY <2>1, RingReadOK
  <2>3. CycleRead(w, s[w], FALSE, w \in flat) \in Cycles
        /\ (s[w] # Never => CycleRead(w, s[w], FALSE, w \in flat).reset = s[w])
    BY <2>1, CycleReadOK
  <2>4. c(w) \in Cycles /\ (s[w] # Never => c(w).reset = s[w])
    BY <2>3
  <2> HIDE DEF p, c
  <2> QED
    BY <1>1, <1>2, <2>1, <2>2, <2>4, RefuseRing
<1> HIDE DEF q, c
<1>6. CooldownTypeOK'
  <2>1. cooled' \in Int
    BY <1>1, <1>2, <1>3
  <2>2. rings' \in [Windows -> RingRecords] /\ cycle' \in [Windows -> Cycles]
    BY <1>2, <1>5 DEF CooldownIInv, CooldownTypeOK, Ring
  <2> QED
    BY <1>2, <1>3, <2>1, <2>2 DEF CooldownIInv, CooldownTypeOK
<1>7. RecordPast'
  BY <1>2, <1>5 DEF CooldownIInv, RecordPast
<1>8. ShutStands'
  <2> SUFFICES ASSUME NEW w \in AllRequest, s[w] > now
               PROVE  /\ Standing(rings'[w], cycle'[w], s[w])
                      /\ \A v \in AllRequest :
                           L!Begun(rings'[v].locks, R!Newest(rings'[w].locks).to)
    BY <1>2 DEF ShutStands
  <2>1. w \in ws /\ w \in Windows /\ s[w] \in Int /\ s[w] # Never
    BY <1>1, <1>3, <1>4 DEF Never
  <2>2. rings'[w] = q(w) /\ cycle'[w] = c(w)
    BY <1>2, <2>1
  <2> DEFINE l == R!Newest(q(w).locks)
  <2>3. /\ q(w).locks # <<>> /\ q(w).refused >= now /\ l.end = "ongoing" /\ l.to = s[w]
        /\ c(w).reset = s[w] /\ Ring(q(w), now)
    BY <1>5, <2>1
  <2>4. l.from \in Int /\ l.from <= now /\ q(w).refused \in Int
    <3>1. L!WF(q(w).locks) /\ L!Past(q(w).locks, now) /\ q(w).refused \in Int
      BY <2>3 DEF Ring, L!RingOK
    <3>2. l \in L!Spans /\ l = q(w).locks[Len(q(w).locks)] /\ Len(q(w).locks) \in DOMAIN q(w).locks
      BY <2>3, <3>1, SpansAssumed, L!NewestIn DEF R!Newest, L!Newest
    <3> QED
      BY <3>1, <3>2 DEF L!Past, L!Begun, L!Spans
  <2>5. Standing(q(w), c(w), s[w])
    <3>1. l.from <= q(w).refused
      BY <1>1, <2>3, <2>4
    <3> QED
      BY <2>3, <3>1 DEF Standing
  <2>6. ASSUME NEW v \in AllRequest PROVE L!Begun(rings'[v].locks, l.to)
    <3>1. Ring(rings'[v], now)
      BY <1>1, <1>2, <1>7 DEF RecordPast
    <3>2. \A i \in DOMAIN rings'[v].locks : rings'[v].locks[i].from \in Int
      BY <3>1, SpanTimes
    <3> QED
      BY <1>1, <2>1, <2>3, <3>1, <3>2 DEF Ring, L!Past, L!Begun
  <2> QED
    BY <2>2, <2>5, <2>6
<1>9. SettledOK'
  BY <1>2 DEF SettledOK
<1> QED
  BY <1>6, <1>7, <1>8, <1>9 DEF CooldownIInv

\* A request served ends the ongoing span of each window still refused on where it stood.
LEMMA ServeKeeps ==
  ASSUME CooldownIInv, UNCHANGED plan, NEW own, NEW carried, NEW back, NEW rejected, NEW flat,
         Serve(own, carried, back, rejected, flat)
  PROVE  CooldownIInv'
<1> DEFINE p(w) == IF w \in carried THEN RingRead(w, shut[w], w \in back) ELSE rings[w]
           q(w) == IF w \in AllRequest \cup own THEN R!Serve(p(w), now, now)
                   ELSE IF w \in rejected THEN R!Refuse(p(w), now, now, shut[w], 0)
                   ELSE p(w)
           c(w) == IF w \in carried THEN CycleRead(w, shut[w], w \in back, w \in flat) ELSE cycle[w]
<1>1. /\ now' = now /\ shut' = shut /\ UNCHANGED <<cooled, stage, entry, hold, memory>>
      /\ \A w \in AllRequest : rings[w].refused < now
      /\ \A w \in back : shut[w] = Never
      /\ rings' = [w \in Windows |-> q(w)] /\ cycle' = [w \in Windows |-> c(w)]
  BY DEF Serve, provider, sweepState
<1>2. /\ now \in Nat /\ shut \in [Windows -> Int] /\ cycle \in [Windows -> Cycles]
      /\ AllRequest \subseteq Windows
  BY DEF CooldownIInv, CooldownTypeOK, Windows
<1>3. ASSUME NEW w \in Windows
      PROVE  /\ Ring(p(w), now) /\ p(w).refused = rings[w].refused
             /\ \A u : L!Begun(rings[w].locks, u) => L!Begun(p(w).locks, u)
             /\ c(w) \in Cycles
             /\ shut[w] > now /\ cycle[w].reset = shut[w] =>
                  p(w) = rings[w] /\ c(w).reset = shut[w]
  <2>1. /\ shut[w] \in Int /\ (w \in back) \in BOOLEAN /\ (w \in flat) \in BOOLEAN
        /\ Ring(rings[w], now) /\ cycle[w] \in Cycles
        /\ shut[w] > now => w \notin back /\ shut[w] # Never
    BY <1>1, <1>2 DEF CooldownIInv, RecordPast, Never
  <2>2. CASE w \in carried
    <3> DEFINE ring == RingRead(w, shut[w], w \in back)
               read == CycleRead(w, shut[w], w \in back, w \in flat)
    <3>1. p(w) = ring /\ c(w) = read
      BY <2>2
    <3>2. /\ Ring(ring, now) /\ ring.refused = rings[w].refused
          /\ \A u : L!Begun(rings[w].locks, u) => L!Begun(ring.locks, u)
          /\ w \notin back /\ cycle[w].reset = shut[w] /\ shut[w] > now => ring = rings[w]
      BY <2>1, RingReadOK
    <3>3. read \in Cycles /\ (shut[w] # Never => read.reset = shut[w])
      BY <2>1, CycleReadOK
    <3> HIDE DEF p, c, ring, read
    <3> QED
      BY <2>1, <3>1, <3>2, <3>3
  <2>3. CASE w \notin carried
    <3>1. p(w) = rings[w] /\ c(w) = cycle[w]
      BY <2>3
    <3> HIDE DEF p, c
    <3> QED
      BY <2>1, <3>1
  <2> QED
    BY <2>2, <2>3
<1> HIDE DEF p, c
<1>4. ASSUME NEW w \in AllRequest
      PROVE  LET l == R!Newest(p(w).locks)
             IN  /\ Ring(q(w), now) /\ q(w).refused = rings[w].refused
                 /\ \A u : L!Begun(rings[w].locks, u) => L!Begun(q(w).locks, u)
                 /\ p(w).locks # <<>> /\ l.end # "ongoing" => q(w).locks = p(w).locks
                 /\ p(w).locks # <<>> /\ l.end = "ongoing" /\ rings[w].refused < now
                      /\ l.from < now =>
                      q(w).locks # <<>> /\ R!Newest(q(w).locks) = L!EndedAt(l, now, "served")
  <2>1. /\ Ring(p(w), now) /\ p(w).refused = rings[w].refused
        /\ \A u : L!Begun(rings[w].locks, u) => L!Begun(p(w).locks, u)
    BY <1>2, <1>3
  <2>2. q(w) = R!Serve(p(w), now, now)
    OBVIOUS
  <2> HIDE DEF q
  <2> QED
    BY <1>2, <2>1, <2>2, ServeRing
<1>5. ASSUME NEW w \in Windows PROVE Ring(q(w), now)
  <2>1. CASE w \in AllRequest \cup own
    <3>1. q(w) = R!Serve(p(w), now, now)
      BY <2>1
    <3> HIDE DEF q
    <3> QED
      BY <1>2, <1>3, <3>1, ServeRing
  <2>2. CASE w \notin AllRequest \cup own /\ w \in rejected
    <3>1. q(w) = R!Refuse(p(w), now, now, shut[w], 0)
      BY <2>2
    <3> HIDE DEF q
    <3> QED
      BY <1>2, <1>3, <3>1, RefuseRing
  <2>3. CASE w \notin AllRequest \cup own /\ w \notin rejected
    BY <1>3, <2>3
  <2> QED
    BY <2>1, <2>2, <2>3
<1> HIDE DEF q
<1>6. CooldownTypeOK'
  BY <1>1, <1>3, <1>5 DEF CooldownIInv, CooldownTypeOK, Ring, memory
<1>7. RecordPast'
  BY <1>1, <1>5 DEF RecordPast
<1>8. \A v \in AllRequest : \A u : L!Begun(rings[v].locks, u) => L!Begun(rings'[v].locks, u)
  BY <1>1, <1>2, <1>4
<1>9. ShutStands'
  <2> SUFFICES ASSUME NEW w \in AllRequest, shut[w] > now
               PROVE  /\ Standing(q(w), c(w), shut[w])
                      /\ \A v \in AllRequest : L!Begun(rings'[v].locks, R!Newest(q(w).locks).to)
    BY <1>1, <1>2 DEF ShutStands
  <2> DEFINE l == R!Newest(rings[w].locks)
  <2>1. /\ rings[w].locks # <<>> /\ cycle[w].reset = shut[w]
        /\ \/ l.end = "ongoing" /\ l.to = shut[w]
           \/ l.end = "served" /\ l.expected = shut[w] /\ rings[w].refused < l.to
        /\ l.from <= rings[w].refused
        /\ \A v \in AllRequest : L!Begun(rings[v].locks, l.to)
    BY DEF CooldownIInv, ShutStands, Standing
  <2>2. p(w) = rings[w] /\ c(w).reset = shut[w] /\ q(w).refused = rings[w].refused
    BY <1>2, <1>3, <1>4, <2>1
  <2>3. CASE l.end = "served"
    <3>1. q(w).locks = rings[w].locks
      BY <1>4, <2>1, <2>2, <2>3
    <3> QED
      BY <1>8, <2>1, <2>2, <2>3, <3>1 DEF Standing
  <2>4. CASE l.end = "ongoing"
    <3>1. l.from \in Int /\ rings[w].refused \in Int /\ shut[w] \in Int
      <4>1. Ring(rings[w], now)
        BY <1>2 DEF CooldownIInv, RecordPast
      <4>2. L!WF(rings[w].locks) /\ rings[w].refused \in Int
        BY <4>1 DEF Ring, L!RingOK
      <4>3. l \in L!Spans
        BY <2>1, <4>2, SpansAssumed, L!NewestIn DEF R!Newest, L!Newest
      <4> QED
        BY <1>2, <4>2, <4>3 DEF L!Spans
    <3>2. rings[w].refused < now /\ l.from < now /\ l.to = shut[w]
      BY <1>1, <1>2, <2>1, <2>4, <3>1
    <3>3. L!EndedAt(l, now, "served") = [from |-> l.from, to |-> now, end |-> "served",
                                         expected |-> l.to]
      BY <3>2 DEF L!EndedAt
    <3> DEFINE m == R!Newest(q(w).locks)
    <3>4. /\ q(w).locks # <<>> /\ m.from = l.from /\ m.to = now /\ m.end = "served"
          /\ m.expected = shut[w]
      <4>1. q(w).locks # <<>> /\ m = L!EndedAt(l, now, "served")
        BY <1>4, <2>1, <2>2, <2>4, <3>2
      <4> QED
        BY <3>2, <3>3, <4>1
    <3> HIDE DEF m
    <3>5. \A v \in AllRequest : L!Begun(rings'[v].locks, now)
      BY <1>1, <1>2, <1>7 DEF RecordPast, Ring, L!Past
    <3> QED
      BY <2>1, <2>2, <3>2, <3>4, <3>5 DEF Standing, m
  <2> QED
    BY <2>1, <2>3, <2>4
<1>10. SettledOK'
  BY <1>1, <1>8, StaysSettled
<1> QED
  BY <1>6, <1>7, <1>9, <1>10 DEF CooldownIInv

LEMMA GiveBackOK ==
  ASSUME CooldownIInv, UNCHANGED plan, NEW w \in plan, GiveBack(w)
  PROVE  CooldownIInv'
<1>1. /\ shut' = [shut EXCEPT ![w] = Never]
      /\ UNCHANGED <<now, cooled, rings, cycle, stage, entry, hold, holdResets, resetUnsupported,
                     settled>>
  BY DEF GiveBack, record, sweepState, memory
<1>2. now \in Nat /\ shut \in [Windows -> Int] /\ Never = -1
  BY DEF CooldownIInv, CooldownTypeOK, Never
<1>3. shut' \in [Windows -> Int] /\ \A v \in Windows : shut'[v] > now => shut'[v] = shut[v]
  <2>1. Never \in Int /\ ~(Never > now)
    BY <1>2
  <2>2. shut' \in [Windows -> Int]
    BY <1>1, <1>2, <2>1
  <2>3. \A v \in Windows : shut'[v] = shut[v] \/ shut'[v] = Never
    BY <1>1, <1>2
  <2> QED
    BY <2>1, <2>2, <2>3
<1>4. CooldownTypeOK'
  BY <1>1, <1>3 DEF CooldownIInv, CooldownTypeOK
<1>5. RecordPast'
  BY <1>1 DEF CooldownIInv, RecordPast
<1>6. ShutStands'
  BY <1>1, <1>3 DEF CooldownIInv, ShutStands, Windows
<1>7. SettledOK'
  BY <1>1 DEF CooldownIInv, SettledOK
<1> QED
  BY <1>4, <1>5, <1>6, <1>7 DEF CooldownIInv

LEMMA PassTimeOK == CooldownIInv /\ UNCHANGED plan /\ PassTime => CooldownIInv'
<1> SUFFICES ASSUME CooldownIInv, UNCHANGED plan, PassTime PROVE CooldownIInv'
  OBVIOUS
<1>1. now' = now + 1 /\ UNCHANGED <<shut, cooled, rings, cycle, stage, entry, hold, holdResets,
                                    resetUnsupported, settled>>
  BY DEF PassTime, provider, record, sweepState, memory
<1>2. now \in Nat /\ shut \in [Windows -> Int] /\ cycle \in [Windows -> Cycles]
  BY DEF CooldownIInv, CooldownTypeOK
<1>3. CooldownTypeOK'
  BY <1>1, <1>2 DEF CooldownIInv, CooldownTypeOK
<1>4. RecordPast'
  <2> SUFFICES ASSUME NEW w \in Windows PROVE Ring(rings[w], now + 1)
    BY <1>1 DEF RecordPast
  <2>1. Ring(rings[w], now)
    BY DEF CooldownIInv, RecordPast
  <2>2. \A i \in DOMAIN rings[w].locks : rings[w].locks[i].from \in Int /\ rings[w].locks[i].to \in Int
    BY <2>1, SpanTimes
  <2>3. L!Past(rings[w].locks, now + 1)
    BY <1>2, <2>1, <2>2 DEF Ring, L!Past, L!Begun
  <2> QED
    BY <1>2, <2>1, <2>3 DEF Ring
<1>5. ShutStands'
  <2>1. \A w \in AllRequest : shut[w] > now + 1 => shut[w] > now
    BY <1>2 DEF Windows
  <2> QED
    BY <1>1, <2>1 DEF CooldownIInv, ShutStands
<1>6. SettledOK'
  BY <1>1 DEF CooldownIInv, SettledOK
<1> QED
  BY <1>3, <1>4, <1>5, <1>6 DEF CooldownIInv

LEMMA CooldownStepOK == CooldownIInv /\ [CooldownNext]_cooldownVars => CooldownIInv'
<1> SUFFICES ASSUME CooldownIInv, [CooldownNext]_cooldownVars PROVE CooldownIInv'
  OBVIOUS
<1>1. cooled \in Int /\ entry \in Int /\ (stage = "asking" => hold.until = entry) /\ Never \in Int
  BY DEF CooldownIInv, CooldownTypeOK, Never
<1>2. CASE ListCooldown /\ UNCHANGED plan
  BY <1>1, <1>2, SweepForgets DEF ListCooldown, provider
<1>3. CASE DropSeat /\ UNCHANGED plan
  <2>1. SettledOK' /\ holdResets'.asked \in Int
    BY <1>1, <1>3 DEF DropSeat, SettledOK, NoReset
  <2> QED
    BY <1>1, <1>3, <2>1, SweepKeeps DEF DropSeat, provider, sweepState
<1>4. CASE (ReadFails \/ NotStale \/ LeftStanding \/ NoTime) /\ UNCHANGED plan
  <2>1. Done /\ UNCHANGED <<now, provider, record, memory>>
    BY <1>4 DEF ReadFails, NotStale, LeftStanding, NoTime
  <2> QED
    BY <1>1, <1>4, <2>1, SweepForgets DEF Done, provider
<1>5. CASE AskReset /\ UNCHANGED plan
  BY <1>1, <1>5, SweepForgets DEF AskReset, provider
<1>6. ASSUME NEW got \in Seen, NEW flat \in SUBSET Flat, ReadUsage(got, flat), UNCHANGED plan
      PROVE  CooldownIInv'
  BY <1>6, ReadUsageOK
<1>7. ASSUME NEW problem \in {"none", "failed", "unsupported", "late"}, AnswerReset(problem),
             UNCHANGED plan
      PROVE  CooldownIInv'
  BY <1>7, AnswerResetOK
<1>8. ASSUME NEW ws \in SUBSET plan, NEW len \in Lengths, NEW flat \in SUBSET Flat,
             Refuse429(ws, len, flat), UNCHANGED plan
      PROVE  CooldownIInv'
  BY <1>8, Refuse429OK
<1>9. ASSUME NEW w \in plan, GiveBack(w), UNCHANGED plan PROVE CooldownIInv'
  BY <1>9, GiveBackOK
<1>10. ASSUME NEW carried \in SUBSET plan, NEW back \in SUBSET plan,
              NEW own \in SUBSET (plan \cap Caps), NEW rejected \in SUBSET (plan \cap Caps),
              NEW flat \in SUBSET Flat, Serve(own, carried, back, rejected, flat), UNCHANGED plan
       PROVE  CooldownIInv'
  BY <1>10, ServeKeeps
<1>11. CASE PassTime /\ UNCHANGED plan
  BY <1>11, PassTimeOK
<1>12. CASE UNCHANGED cooldownVars
  BY <1>1, <1>12, SweepForgets DEF cooldownVars, record, memory
<1> QED
  BY <1>2, <1>3, <1>4, <1>5, <1>6, <1>7, <1>8, <1>9, <1>10, <1>11, <1>12 DEF CooldownNext

LEMMA CooldownInvariance == CooldownSpec => []CooldownIInv
  BY CooldownInitOK, CooldownStepOK, PTL DEF CooldownSpec

-----------------------------------------------------------------------------
(* What the host is asked *)

LEMMA AsksOnce ==
  ASSUME [CooldownNext]_cooldownVars, stage # "asking", stage' = "asking"
  PROVE  AskReset
<1>1. ~(stage' = stage)
  OBVIOUS
<1>2. ~Done
  BY DEF Done
<1> QED
  BY <1>1, <1>2 DEF CooldownNext, cooldownVars, ListCooldown, DropSeat, ReadFails, NotStale,
       LeftStanding, NoTime, ReadUsage, AnswerReset, Refuse429, GiveBack, Serve, PassTime, sweepState

\* The span a cause is: one of a window that caps every request.
LEMMA CauseBegan ==
  ASSUME CooldownIInv, NEW c \in Causes, NEW t, \A w \in AllRequest : L!Begun(rings[w].locks, t)
  PROVE  c.from \in Int /\ c.from <= t
<1>1. PICK w \in AllRequest : c \in Spans(w)
  BY DEF Causes, Candidates
<1>2. PICK i \in DOMAIN rings[w].locks : c.from = rings[w].locks[i].from
  <2>1. PICK i \in DOMAIN rings[w].locks :
          c = rings[w].locks[i] \/ c = [rings[w].locks[i] EXCEPT !.end = "reset"]
    BY <1>1 DEF Spans
  <2>2. rings[w].locks[i] \in L!Spans
    <3>1. rings[w].locks \in Seq(L!Spans)
      BY DEF CooldownIInv, RecordPast, Ring, L!RingOK, L!WF, Windows
    <3> QED
      BY <3>1
  <2>3. [rings[w].locks[i] EXCEPT !.end = "reset"].from = rings[w].locks[i].from
    BY <2>2 DEF L!Spans
  <2> QED
    BY <2>1, <2>3
<1>3. rings[w].locks[i].from \in Int
  BY <1>2, SpanTimes DEF CooldownIInv, RecordPast, Windows
<1> QED
  BY <1>2, <1>3 DEF L!Begun

\* A window still refused on, whose reset the listed cooldown runs to, and whose newest cycle
\* keeps a reading of its last 429 or before, holds any cause back: its newest span goes on,
\* or never reopened.
LEMMA ShutHoldsBack ==
  ASSUME CooldownIInv, NEW w \in AllRequest, shut[w] = entry, NEW c \in Causes,
         NEW t \in cycle[w].samples, ~(t > rings[w].refused)
  PROVE  FALSE
<1>1. entry > now /\ entry \in Int /\ now \in Nat /\ w \in Windows
  BY DEF Causes, CooldownIInv, CooldownTypeOK, Windows
<1> DEFINE l == R!Newest(rings[w].locks)
<1>2. /\ rings[w].locks # <<>>
      /\ \/ l.end = "ongoing" /\ l.to = entry
         \/ l.end = "served" /\ l.expected = entry /\ rings[w].refused < l.to
      /\ \A v \in AllRequest : L!Begun(rings[v].locks, l.to)
  BY <1>1 DEF CooldownIInv, ShutStands, Standing
<1>3. /\ l.to \in Int /\ t \in Int /\ rings[w].refused \in Int
      /\ \E i \in DOMAIN rings[w].locks : l = rings[w].locks[i]
  <2>1. L!WF(rings[w].locks) /\ rings[w].refused \in Int
    BY <1>1 DEF CooldownIInv, RecordPast, Ring, L!RingOK
  <2>2. l \in L!Spans /\ \E i \in DOMAIN rings[w].locks : l = rings[w].locks[i]
    BY <1>2, <2>1, SpansAssumed, L!NewestIn DEF R!Newest, L!Newest
  <2>3. t \in Int
    BY <1>1 DEF CooldownIInv, CooldownTypeOK, Cycles
  <2> QED
    BY <2>1, <2>2, <2>3 DEF L!Spans
<1>4. l \in Spans(w)
  <2>1. ~(l.end = "ongoing" /\ l.to <= now)
    BY <1>1, <1>2, <1>3
  <2> HIDE DEF l
  <2> QED
    BY <1>3, <2>1 DEF Spans
<1>5. l.end # "ongoing"
  BY <1>4 DEF Causes
<1>6. ~reopened(w, l)
  <2>1. ~(t >= l.to)
    BY <1>2, <1>3, <1>5
  <2> QED
    BY <1>2, <1>5, <2>1 DEF reopened, StartsAfter
<1>7. within(entry, l)
  BY <1>1, <1>2, <1>5, CooldownAssumption DEF within, ExpectedEnd, Near, Never
<1>8. l.to >= c.from
  BY <1>2, <1>3, CauseBegan
<1> QED
  BY <1>4, <1>6, <1>7, <1>8 DEF Causes, StillShut

\* The host is not asked to lift a cooldown that still holds while the window's newest cycle
\* keeps a reading of its last 429 or before, however the plugin's record of spans, cycles
\* and reads came about.
THEOREM DatedHoldIsKept == CooldownSpec => DatedHoldKept
<1>1. ASSUME CooldownIInv, [CooldownNext]_cooldownVars, stage # "asking", stage' = "asking",
             NEW w \in AllRequest, shut[w] = entry, NEW t \in cycle[w].samples
      PROVE  t > rings[w].refused
  <2>1. PICK c \in Causes : TRUE
    BY <1>1, AsksOnce DEF AskReset
  <2> QED
    BY <1>1, <2>1, ShutHoldsBack
<1>2. CooldownIInv /\ [CooldownNext]_cooldownVars =>
        [stage # "asking" /\ stage' = "asking" =>
           \A w \in AllRequest :
             shut[w] = entry => \A t \in cycle[w].samples : t > rings[w].refused]_cooldownVars
  BY <1>1
<1> QED
  BY <1>2, CooldownInvariance, PTL DEF CooldownSpec, DatedHoldKept

\* The host is asked at most once to lift a cooldown it answered for, unless a request is
\* refused anew.
THEOREM CooldownAskedOnce == CooldownSpec => AskedOncePerCooldown
<1>1. ASSUME CooldownIInv, [CooldownNext]_cooldownVars, stage # "asking", stage' = "asking"
      PROVE  entry # settled
  <2>1. PICK c \in Causes : ~Tried(c) /\ ~resetUnsupported
    BY <1>1, AsksOnce DEF AskReset
  <2>2. SUFFICES ASSUME entry = settled PROVE FALSE
    OBVIOUS
  <2>3. entry > now /\ now \in Nat /\ entry \in Int /\ holdResets.asked \in Int
    BY <1>1, <2>1 DEF Causes, CooldownIInv, CooldownTypeOK
  <2>4. /\ holdResets # NoReset /\ holdResets.until = entry
        /\ \A w \in AllRequest : L!Begun(rings[w].locks, holdResets.asked)
    BY <1>1, <2>1, <2>2, <2>3 DEF CooldownIInv, SettledOK, Never
  <2>5. c.from \in Int /\ c.from <= holdResets.asked
    BY <1>1, <2>1, <2>4, CauseBegan
  <2> QED
    BY <2>1, <2>3, <2>4, <2>5, CooldownAssumption DEF Tried, Near
<1>2. CooldownIInv /\ [CooldownNext]_cooldownVars =>
        [stage # "asking" /\ stage' = "asking" => entry # settled]_cooldownVars
  BY <1>1
<1> QED
  BY <1>2, CooldownInvariance, PTL DEF CooldownSpec, AskedOncePerCooldown

------------------------------------------------------------------------------
(* The schedule *)


\* pollMu is held by exactly the one that is inside a section it guards.
Holder ==
  /\ \A r \in Requests : pollMu = r <=> requests[r] \in {"sync", "rearm", "refreshing"}
  /\ \A c \in Calls : pollMu = c <=> call[c] = "saving"
  /\ pollMu = Loop <=> loop \in {"loading", "polling"}

\* lifeMu is held by exactly the call between its start and its return.
LifeHolder ==
  \A c \in Calls : lifeMu = c <=> call[c] \in {"drain", "join", "save", "saving"}

\* What a call that holds lifeMu has made of the poller.
PollerKept ==
  /\ ~poller => loop = "none"
  /\ \A c \in Calls :
       /\ call[c] = "drain" => poller /\ loop = "none"
       /\ call[c] = "join" => poller
       /\ call[c] \in {"save", "saving"} => ~poller

\* Unless the loop is about to have its first read or its read is going on, the
\* time since the last completed poll and the time to the next make a wait.
Spaced ==
  \/ loop \in {"none", "polling", "panicked"}
  \/ first
  \/ age + nextPoll >= MinWait

IInv == TypeOK /\ Holder /\ LifeHolder /\ PollerKept /\ Spaced

-----------------------------------------------------------------------------
LEMMA Constants ==
  /\ MinWait \in Nat /\ MinWait <= PollInterval
  /\ PollInterval \in Nat /\ StartDelay \in Nat /\ MinForcedPollGap \in Nat
  /\ LongestWait \in Nat /\ PollInterval <= LongestWait /\ StartDelay <= LongestWait
  /\ Free # Loop /\ Free \notin Requests \cup Calls /\ Loop \notin Requests \cup Calls
  /\ Requests \cap Calls = {}
BY PollerAssumption DEF MinWait, LongestWait, Lower, Higher, Free, Loop

\* nextPollWait never undercuts the floor nor outlasts the interval.
LEMMA WaitBounds ==
  ASSUME NEW w \in Waits
  PROVE  w \in 0 .. PollInterval /\ w >= MinWait
<1>1. PICK e \in 0 .. MaxReset, i \in {PollInterval, ListRetryWait} : w = NextPollWait(e, i)
  BY DEF Waits
<1>2. e \in Nat /\ i \in Nat /\ i <= PollInterval /\ ListRetryWait <= i
  BY <1>1, PollerAssumption
<1> QED
  BY <1>1, <1>2, PollerAssumption DEF NextPollWait, MinWait, Lower, Higher

\* A unit of time keeps a countdown within its range.
LEMMA SoonerBounds ==
  ASSUME NEW n \in Nat, NEW t \in 0 .. n
  PROVE  Sooner(t) \in 0 .. n
BY DEF Sooner

LEMMA InitIInv == Init => IInv
<1> SUFFICES ASSUME Init PROVE IInv
  OBVIOUS
<1>1. /\ poller \in BOOLEAN /\ stop \in BOOLEAN /\ rearm \in BOOLEAN /\ first \in BOOLEAN
  BY Zenon DEF Init
<1>2. TypeOK
  BY <1>1, Constants DEF Init, TypeOK, LoopPlaces
<1> QED
  BY <1>2, Constants DEF Init, IInv, Holder, LifeHolder, PollerKept, Spaced

-----------------------------------------------------------------------------
(* The steps of the loop *)

LEMMA LoadHistoryKeeps ==
  ASSUME IInv, LoadHistory
  PROVE  IInv'
<1>1. TypeOK'
  BY Constants DEF LoadHistory, IInv, TypeOK, LoopPlaces, locks, times, seen
<1>2. Holder'
  BY Constants DEF LoadHistory, IInv, TypeOK, Holder, locks, times, seen
<1>3. LifeHolder'
  BY Constants DEF LoadHistory, IInv, TypeOK, LifeHolder, locks, times, seen
<1>4. PollerKept'
  BY Constants DEF LoadHistory, IInv, TypeOK, PollerKept, LifeHolder, locks, times, seen
<1>5. Spaced'
  BY Constants DEF LoadHistory, IInv, TypeOK, Spaced, PollerKept, locks, times, seen
<1> QED
  BY <1>1, <1>2, <1>3, <1>4, <1>5 DEF IInv

LEMMA LoadedHistoryKeeps ==
  ASSUME IInv, LoadedHistory
  PROVE  IInv'
<1>1. TypeOK'
  BY Constants DEF LoadedHistory, IInv, TypeOK, LoopPlaces, locks, times, seen
<1>2. Holder'
  BY Constants DEF LoadedHistory, IInv, TypeOK, Holder, locks, times, seen
<1>3. LifeHolder'
  BY Constants DEF LoadedHistory, IInv, TypeOK, LifeHolder, locks, times, seen
<1>4. PollerKept'
  BY Constants DEF LoadedHistory, IInv, TypeOK, PollerKept, LifeHolder, locks, times, seen
<1>5. Spaced'
  BY Constants DEF LoadedHistory, IInv, TypeOK, Spaced, PollerKept, locks, times, seen
<1> QED
  BY <1>1, <1>2, <1>3, <1>4, <1>5 DEF IInv

LEMMA OnStopKeeps ==
  ASSUME IInv, OnStop
  PROVE  IInv'
<1>1. TypeOK'
  BY Constants DEF OnStop, IInv, TypeOK, LoopPlaces, locks, times, seen
<1>2. Holder'
  BY Constants DEF OnStop, IInv, TypeOK, Holder, locks, times, seen
<1>3. LifeHolder'
  BY Constants DEF OnStop, IInv, TypeOK, LifeHolder, locks, times, seen
<1>4. PollerKept'
  BY Constants DEF OnStop, IInv, TypeOK, PollerKept, LifeHolder, locks, times, seen
<1>5. Spaced'
  BY Constants DEF OnStop, IInv, TypeOK, Spaced, PollerKept, locks, times, seen
<1> QED
  BY <1>1, <1>2, <1>3, <1>4, <1>5 DEF IInv

LEMMA OnRearmKeeps ==
  ASSUME IInv, OnRearm
  PROVE  IInv'
<1>1. TypeOK'
  BY Constants DEF OnRearm, IInv, TypeOK, LoopPlaces, locks, times, seen, UntilNextPoll
<1>2. Holder'
  BY Constants DEF OnRearm, IInv, TypeOK, Holder, locks, times, seen, UntilNextPoll
<1>3. LifeHolder'
  BY Constants DEF OnRearm, IInv, TypeOK, LifeHolder, locks, times, seen, UntilNextPoll
<1>4. PollerKept'
  BY Constants DEF OnRearm, IInv, TypeOK, PollerKept, LifeHolder, locks, times, seen, UntilNextPoll
<1>5. Spaced'
  BY Constants DEF OnRearm, IInv, TypeOK, Spaced, PollerKept, locks, times, seen, UntilNextPoll
<1> QED
  BY <1>1, <1>2, <1>3, <1>4, <1>5 DEF IInv

LEMMA OnTimerKeeps ==
  ASSUME IInv, OnTimer
  PROVE  IInv'
<1>1. TypeOK'
  BY Constants DEF OnTimer, IInv, TypeOK, LoopPlaces, locks, times, seen
<1>2. Holder'
  BY Constants DEF OnTimer, IInv, TypeOK, Holder, locks, times, seen
<1>3. LifeHolder'
  BY Constants DEF OnTimer, IInv, TypeOK, LifeHolder, locks, times, seen
<1>4. PollerKept'
  BY Constants DEF OnTimer, IInv, TypeOK, PollerKept, LifeHolder, locks, times, seen
<1>5. Spaced'
  BY Constants DEF OnTimer, IInv, TypeOK, Spaced, PollerKept, locks, times, seen
<1> QED
  BY <1>1, <1>2, <1>3, <1>4, <1>5 DEF IInv

LEMMA PollKeeps ==
  ASSUME IInv, Poll
  PROVE  IInv'
<1>1. TypeOK'
  BY Constants DEF Poll, IInv, TypeOK, LoopPlaces, locks, times, seen, UntilNextPoll
<1>2. Holder'
  BY Constants DEF Poll, IInv, TypeOK, Holder, locks, times, seen, UntilNextPoll
<1>3. LifeHolder'
  BY Constants DEF Poll, IInv, TypeOK, LifeHolder, locks, times, seen, UntilNextPoll
<1>4. PollerKept'
  BY Constants DEF Poll, IInv, TypeOK, PollerKept, LifeHolder, locks, times, seen, UntilNextPoll
<1>5. Spaced'
  BY Constants DEF Poll, IInv, TypeOK, Spaced, PollerKept, locks, times, seen, UntilNextPoll
<1> QED
  BY <1>1, <1>2, <1>3, <1>4, <1>5 DEF IInv

LEMMA OvertakenKeeps ==
  ASSUME IInv, Overtaken
  PROVE  IInv'
<1>1. TypeOK'
  BY Constants DEF Overtaken, IInv, TypeOK, LoopPlaces, locks, times, seen, UntilNextPoll
<1>2. Holder'
  BY Constants DEF Overtaken, IInv, TypeOK, Holder, locks, times, seen, UntilNextPoll
<1>3. LifeHolder'
  BY Constants DEF Overtaken, IInv, TypeOK, LifeHolder, locks, times, seen, UntilNextPoll
<1>4. PollerKept'
  BY Constants DEF Overtaken, IInv, TypeOK, PollerKept, LifeHolder, locks, times, seen, UntilNextPoll
<1>5. Spaced'
  BY Constants DEF Overtaken, IInv, TypeOK, Spaced, PollerKept, locks, times, seen, UntilNextPoll
<1> QED
  BY <1>1, <1>2, <1>3, <1>4, <1>5 DEF IInv

LEMMA PollPanicsKeeps ==
  ASSUME IInv, PollPanics
  PROVE  IInv'
<1>1. TypeOK'
  BY Constants DEF PollPanics, IInv, TypeOK, LoopPlaces, locks, times, seen
<1>2. Holder'
  BY Constants DEF PollPanics, IInv, TypeOK, Holder, locks, times, seen
<1>3. LifeHolder'
  BY Constants DEF PollPanics, IInv, TypeOK, LifeHolder, locks, times, seen
<1>4. PollerKept'
  BY Constants DEF PollPanics, IInv, TypeOK, PollerKept, LifeHolder, locks, times, seen
<1>5. Spaced'
  BY Constants DEF PollPanics, IInv, TypeOK, Spaced, PollerKept, locks, times, seen
<1> QED
  BY <1>1, <1>2, <1>3, <1>4, <1>5 DEF IInv

LEMMA RecoverKeeps ==
  ASSUME IInv, Recover
  PROVE  IInv'
<1>1. TypeOK'
  BY Constants DEF Recover, IInv, TypeOK, LoopPlaces, locks, times, seen
<1>2. Holder'
  BY Constants DEF Recover, IInv, TypeOK, Holder, locks, times, seen
<1>3. LifeHolder'
  BY Constants DEF Recover, IInv, TypeOK, LifeHolder, locks, times, seen
<1>4. PollerKept'
  BY Constants DEF Recover, IInv, TypeOK, PollerKept, LifeHolder, locks, times, seen
<1>5. Spaced'
  BY Constants DEF Recover, IInv, TypeOK, Spaced, PollerKept, locks, times, seen
<1> QED
  BY <1>1, <1>2, <1>3, <1>4, <1>5 DEF IInv

LEMMA ResetTimerKeeps ==
  ASSUME IInv, ResetTimer
  PROVE  IInv'
<1>1. TypeOK'
  BY Constants DEF ResetTimer, IInv, TypeOK, LoopPlaces, locks, times, seen
<1>2. Holder'
  BY Constants DEF ResetTimer, IInv, TypeOK, Holder, locks, times, seen
<1>3. LifeHolder'
  BY Constants DEF ResetTimer, IInv, TypeOK, LifeHolder, locks, times, seen
<1>4. PollerKept'
  BY Constants DEF ResetTimer, IInv, TypeOK, PollerKept, LifeHolder, locks, times, seen
<1>5. Spaced'
  BY Constants DEF ResetTimer, IInv, TypeOK, Spaced, PollerKept, locks, times, seen
<1> QED
  BY <1>1, <1>2, <1>3, <1>4, <1>5 DEF IInv

LEMMA PolledKeeps ==
  ASSUME IInv, NEW w \in Waits, Polled(w)
  PROVE  IInv'
<1>1. TypeOK'
  BY Constants, WaitBounds DEF Polled, IInv, TypeOK, LoopPlaces, locks, times, seen
<1>2. Holder'
  BY Constants DEF Polled, IInv, TypeOK, Holder, locks, times, seen
<1>3. LifeHolder'
  BY Constants DEF Polled, IInv, TypeOK, LifeHolder, locks, times, seen
<1>4. PollerKept'
  BY Constants DEF Polled, IInv, TypeOK, PollerKept, LifeHolder, locks, times, seen
<1>5. Spaced'
  BY Constants, WaitBounds DEF Polled, IInv, TypeOK, Spaced, PollerKept, locks, times, seen
<1> QED
  BY <1>1, <1>2, <1>3, <1>4, <1>5 DEF IInv

-----------------------------------------------------------------------------
(* The steps of requests and calls *)

LEMMA SyncNowKeeps ==
  ASSUME IInv, NEW r \in Requests, SyncNow(r)
  PROVE  IInv'
<1>1. TypeOK'
  BY Constants DEF SyncNow, IInv, TypeOK, LoopPlaces, locks, times, seen
<1>2. Holder'
  BY Constants DEF SyncNow, IInv, TypeOK, Holder, locks, times, seen
<1>3. LifeHolder'
  BY Constants DEF SyncNow, IInv, TypeOK, LifeHolder, locks, times, seen
<1>4. PollerKept'
  BY Constants DEF SyncNow, IInv, TypeOK, PollerKept, LifeHolder, locks, times, seen
<1>5. Spaced'
  BY Constants DEF SyncNow, IInv, TypeOK, Spaced, PollerKept, locks, times, seen
<1> QED
  BY <1>1, <1>2, <1>3, <1>4, <1>5 DEF IInv

LEMMA SyncCutShortKeeps ==
  ASSUME IInv, NEW r \in Requests, SyncCutShort(r)
  PROVE  IInv'
<1>1. TypeOK'
  BY Constants DEF SyncCutShort, IInv, TypeOK, LoopPlaces, locks, times, seen
<1>2. Holder'
  BY Constants DEF SyncCutShort, IInv, TypeOK, Holder, locks, times, seen
<1>3. LifeHolder'
  BY Constants DEF SyncCutShort, IInv, TypeOK, LifeHolder, locks, times, seen
<1>4. PollerKept'
  BY Constants DEF SyncCutShort, IInv, TypeOK, PollerKept, LifeHolder, locks, times, seen
<1>5. Spaced'
  BY Constants DEF SyncCutShort, IInv, TypeOK, Spaced, PollerKept, locks, times, seen
<1> QED
  BY <1>1, <1>2, <1>3, <1>4, <1>5 DEF IInv

LEMMA RearmPollerKeeps ==
  ASSUME IInv, NEW r \in Requests, RearmPoller(r)
  PROVE  IInv'
<1>1. TypeOK'
  BY Constants DEF RearmPoller, IInv, TypeOK, LoopPlaces, locks, times, seen
<1>2. Holder'
  BY Constants DEF RearmPoller, IInv, TypeOK, Holder, locks, times, seen
<1>3. LifeHolder'
  BY Constants DEF RearmPoller, IInv, TypeOK, LifeHolder, locks, times, seen
<1>4. PollerKept'
  BY Constants DEF RearmPoller, IInv, TypeOK, PollerKept, LifeHolder, locks, times, seen
<1>5. Spaced'
  BY Constants DEF RearmPoller, IInv, TypeOK, Spaced, PollerKept, locks, times, seen
<1> QED
  BY <1>1, <1>2, <1>3, <1>4, <1>5 DEF IInv

LEMMA RefreshKeeps ==
  ASSUME IInv, NEW r \in Requests, Refresh(r)
  PROVE  IInv'
<1>1. TypeOK'
  BY Constants DEF Refresh, IInv, TypeOK, LoopPlaces, locks, times, seen
<1>2. Holder'
  BY Constants DEF Refresh, IInv, TypeOK, Holder, locks, times, seen
<1>3. LifeHolder'
  BY Constants DEF Refresh, IInv, TypeOK, LifeHolder, locks, times, seen
<1>4. PollerKept'
  BY Constants DEF Refresh, IInv, TypeOK, PollerKept, LifeHolder, locks, times, seen
<1>5. Spaced'
  BY Constants DEF Refresh, IInv, TypeOK, Spaced, PollerKept, locks, times, seen
<1> QED
  BY <1>1, <1>2, <1>3, <1>4, <1>5 DEF IInv

LEMMA RefreshPollKeeps ==
  ASSUME IInv, NEW r \in Requests, RefreshPoll(r)
  PROVE  IInv'
<1>1. TypeOK'
  BY Constants DEF RefreshPoll, IInv, TypeOK, LoopPlaces, locks, times, seen
<1>2. Holder'
  BY Constants DEF RefreshPoll, IInv, TypeOK, Holder, locks, times, seen
<1>3. LifeHolder'
  BY Constants DEF RefreshPoll, IInv, TypeOK, LifeHolder, locks, times, seen
<1>4. PollerKept'
  BY Constants DEF RefreshPoll, IInv, TypeOK, PollerKept, LifeHolder, locks, times, seen
<1>5. Spaced'
  BY Constants DEF RefreshPoll, IInv, TypeOK, Spaced, PollerKept, locks, times, seen
<1> QED
  BY <1>1, <1>2, <1>3, <1>4, <1>5 DEF IInv

LEMMA RefreshedKeeps ==
  ASSUME IInv, NEW r \in Requests, Refreshed(r)
  PROVE  IInv'
<1>1. TypeOK'
  BY Constants DEF Refreshed, IInv, TypeOK, LoopPlaces, locks, times, seen
<1>2. Holder'
  BY Constants DEF Refreshed, IInv, TypeOK, Holder, locks, times, seen
<1>3. LifeHolder'
  BY Constants DEF Refreshed, IInv, TypeOK, LifeHolder, locks, times, seen
<1>4. PollerKept'
  BY Constants DEF Refreshed, IInv, TypeOK, PollerKept, LifeHolder, locks, times, seen
<1>5. Spaced'
  BY Constants DEF Refreshed, IInv, TypeOK, Spaced, PollerKept, locks, times, seen
<1> QED
  BY <1>1, <1>2, <1>3, <1>4, <1>5 DEF IInv

LEMMA SyncedKeeps ==
  ASSUME IInv, NEW r \in Requests, NEW w \in Waits, Synced(r, w)
  PROVE  IInv'
<1>1. TypeOK'
  BY Constants, WaitBounds DEF Synced, IInv, TypeOK, LoopPlaces, locks, times, seen
<1>2. Holder'
  BY Constants DEF Synced, IInv, TypeOK, Holder, locks, times, seen
<1>3. LifeHolder'
  BY Constants DEF Synced, IInv, TypeOK, LifeHolder, locks, times, seen
<1>4. PollerKept'
  BY Constants DEF Synced, IInv, TypeOK, PollerKept, LifeHolder, locks, times, seen
<1>5. Spaced'
  BY Constants, WaitBounds DEF Synced, IInv, TypeOK, Spaced, PollerKept, locks, times, seen
<1> QED
  BY <1>1, <1>2, <1>3, <1>4, <1>5 DEF IInv

LEMMA CallStartKeeps ==
  ASSUME IInv, NEW c \in Calls, CallStart(c)
  PROVE  IInv'
<1>1. TypeOK'
  BY Constants DEF CallStart, IInv, TypeOK, LoopPlaces, locks, times, seen
<1>2. Holder'
  BY Constants DEF CallStart, IInv, TypeOK, Holder, locks, times, seen
<1>3. LifeHolder'
  BY Constants DEF CallStart, IInv, TypeOK, LifeHolder, locks, times, seen
<1>4. PollerKept'
  BY Constants DEF CallStart, IInv, TypeOK, PollerKept, LifeHolder, locks, times, seen
<1>5. Spaced'
  BY Constants DEF CallStart, IInv, TypeOK, Spaced, PollerKept, locks, times, seen
<1> QED
  BY <1>1, <1>2, <1>3, <1>4, <1>5 DEF IInv

LEMMA CallStopKeeps ==
  ASSUME IInv, NEW c \in Calls, CallStop(c)
  PROVE  IInv'
<1>1. TypeOK'
  BY Constants DEF CallStop, IInv, TypeOK, LoopPlaces, locks, times, seen
<1>2. Holder'
  BY Constants DEF CallStop, IInv, TypeOK, Holder, locks, times, seen
<1>3. LifeHolder'
  BY Constants DEF CallStop, IInv, TypeOK, LifeHolder, locks, times, seen
<1>4. PollerKept'
  BY Constants DEF CallStop, IInv, TypeOK, PollerKept, LifeHolder, locks, times, seen
<1>5. Spaced'
  BY Constants DEF CallStop, IInv, TypeOK, Spaced, PollerKept, locks, times, seen
<1> QED
  BY <1>1, <1>2, <1>3, <1>4, <1>5 DEF IInv

LEMMA ReturnAtOnceKeeps ==
  ASSUME IInv, NEW c \in Calls, ReturnAtOnce(c)
  PROVE  IInv'
<1>1. TypeOK'
  BY Constants DEF ReturnAtOnce, IInv, TypeOK, LoopPlaces, locks, times, seen
<1>2. Holder'
  BY Constants DEF ReturnAtOnce, IInv, TypeOK, Holder, locks, times, seen
<1>3. LifeHolder'
  BY Constants DEF ReturnAtOnce, IInv, TypeOK, LifeHolder, locks, times, seen
<1>4. PollerKept'
  BY Constants DEF ReturnAtOnce, IInv, TypeOK, PollerKept, LifeHolder, locks, times, seen
<1>5. Spaced'
  BY Constants DEF ReturnAtOnce, IInv, TypeOK, Spaced, PollerKept, locks, times, seen
<1> QED
  BY <1>1, <1>2, <1>3, <1>4, <1>5 DEF IInv

LEMMA StartPollerKeeps ==
  ASSUME IInv, NEW c \in Calls, StartPoller(c)
  PROVE  IInv'
<1>1. TypeOK'
  <2>1. (poller \in BOOLEAN /\ stop \in BOOLEAN /\ rearm \in BOOLEAN /\ first \in BOOLEAN)'
    BY Zenon DEF StartPoller, IInv, TypeOK, seen
  <2> QED
    BY <2>1, Constants DEF StartPoller, IInv, TypeOK, LoopPlaces, locks, times, seen
<1>2. Holder'
  BY Constants DEF StartPoller, IInv, TypeOK, Holder, locks, times, seen
<1>3. LifeHolder'
  BY Constants DEF StartPoller, IInv, TypeOK, LifeHolder, locks, times, seen
<1>4. PollerKept'
  BY Constants DEF StartPoller, IInv, TypeOK, PollerKept, LifeHolder, locks, times, seen
<1>5. Spaced'
  BY Constants DEF StartPoller, IInv, TypeOK, Spaced, PollerKept, locks, times, seen
<1> QED
  BY <1>1, <1>2, <1>3, <1>4, <1>5 DEF IInv

LEMMA DrainRearmKeeps ==
  ASSUME IInv, NEW c \in Calls, DrainRearm(c)
  PROVE  IInv'
<1>1. TypeOK'
  <2>1. (poller \in BOOLEAN /\ stop \in BOOLEAN /\ rearm \in BOOLEAN /\ first \in BOOLEAN)'
    BY Zenon DEF DrainRearm, IInv, TypeOK, seen
  <2> QED
    BY <2>1, Constants DEF DrainRearm, IInv, TypeOK, LoopPlaces, locks, times, seen
<1>2. Holder'
  BY Constants DEF DrainRearm, IInv, TypeOK, Holder, PollerKept, locks, times, seen
<1>3. LifeHolder'
  BY Constants DEF DrainRearm, IInv, TypeOK, LifeHolder, locks, times, seen
<1>4. PollerKept'
  BY Constants DEF DrainRearm, IInv, TypeOK, PollerKept, LifeHolder, locks, times, seen
<1>5. Spaced'
  BY Constants DEF DrainRearm, IInv, TypeOK, Spaced, PollerKept, locks, times, seen
<1> QED
  BY <1>1, <1>2, <1>3, <1>4, <1>5 DEF IInv

LEMMA StopPollerKeeps ==
  ASSUME IInv, NEW c \in Calls, StopPoller(c)
  PROVE  IInv'
<1>1. TypeOK'
  BY Constants DEF StopPoller, IInv, TypeOK, LoopPlaces, locks, times, seen
<1>2. Holder'
  BY Constants DEF StopPoller, IInv, TypeOK, Holder, locks, times, seen
<1>3. LifeHolder'
  BY Constants DEF StopPoller, IInv, TypeOK, LifeHolder, locks, times, seen
<1>4. PollerKept'
  BY Constants DEF StopPoller, IInv, TypeOK, PollerKept, LifeHolder, locks, times, seen
<1>5. Spaced'
  BY Constants DEF StopPoller, IInv, TypeOK, Spaced, PollerKept, locks, times, seen
<1> QED
  BY <1>1, <1>2, <1>3, <1>4, <1>5 DEF IInv

LEMMA JoinKeeps ==
  ASSUME IInv, NEW c \in Calls, Join(c)
  PROVE  IInv'
<1>1. TypeOK'
  BY Constants DEF Join, IInv, TypeOK, LoopPlaces, locks, times, seen
<1>2. Holder'
  BY Constants DEF Join, IInv, TypeOK, Holder, locks, times, seen
<1>3. LifeHolder'
  BY Constants DEF Join, IInv, TypeOK, LifeHolder, locks, times, seen
<1>4. PollerKept'
  BY Constants DEF Join, IInv, TypeOK, PollerKept, LifeHolder, locks, times, seen
<1>5. Spaced'
  BY Constants DEF Join, IInv, TypeOK, Spaced, PollerKept, locks, times, seen
<1> QED
  BY <1>1, <1>2, <1>3, <1>4, <1>5 DEF IInv

LEMMA FinalSaveKeeps ==
  ASSUME IInv, NEW c \in Calls, FinalSave(c)
  PROVE  IInv'
<1>1. TypeOK'
  BY Constants DEF FinalSave, IInv, TypeOK, LoopPlaces, locks, times, seen
<1>2. Holder'
  BY Constants DEF FinalSave, IInv, TypeOK, Holder, locks, times, seen
<1>3. LifeHolder'
  BY Constants DEF FinalSave, IInv, TypeOK, LifeHolder, locks, times, seen
<1>4. PollerKept'
  BY Constants DEF FinalSave, IInv, TypeOK, PollerKept, LifeHolder, locks, times, seen
<1>5. Spaced'
  BY Constants DEF FinalSave, IInv, TypeOK, Spaced, PollerKept, locks, times, seen
<1> QED
  BY <1>1, <1>2, <1>3, <1>4, <1>5 DEF IInv

LEMMA FinalSavedKeeps ==
  ASSUME IInv, NEW c \in Calls, FinalSaved(c)
  PROVE  IInv'
<1>1. TypeOK'
  BY Constants DEF FinalSaved, IInv, TypeOK, LoopPlaces, locks, times, seen
<1>2. Holder'
  BY Constants DEF FinalSaved, IInv, TypeOK, Holder, locks, times, seen
<1>3. LifeHolder'
  BY Constants DEF FinalSaved, IInv, TypeOK, LifeHolder, locks, times, seen
<1>4. PollerKept'
  BY Constants DEF FinalSaved, IInv, TypeOK, PollerKept, LifeHolder, locks, times, seen
<1>5. Spaced'
  BY Constants DEF FinalSaved, IInv, TypeOK, Spaced, PollerKept, locks, times, seen
<1> QED
  BY <1>1, <1>2, <1>3, <1>4, <1>5 DEF IInv

-----------------------------------------------------------------------------
LEMMA TickKeeps ==
  ASSUME IInv, Tick
  PROVE  IInv'
<1>1. /\ timer' = Sooner(timer) /\ nextPoll' = Sooner(nextPoll) /\ gap' = Sooner(gap)
      /\ age' = Lower(age + 1, MinWait) /\ up' = Lower(up + 1, StartDelay)
      /\ UNCHANGED <<lifeMu, pollMu, poller, stop, loop, wait, rearm, requests, call, first>>
  BY DEF Tick, locks
<1>2. /\ timer \in 0 .. LongestWait /\ nextPoll \in 0 .. PollInterval
      /\ gap \in 0 .. MinForcedPollGap /\ age \in 0 .. MinWait /\ up \in 0 .. StartDelay
  BY DEF IInv, TypeOK
<1>3. /\ timer' \in 0 .. LongestWait /\ nextPoll' \in 0 .. PollInterval
      /\ gap' \in 0 .. MinForcedPollGap
  BY <1>1, <1>2, Constants, SoonerBounds
<1>4. age' \in 0 .. MinWait /\ up' \in 0 .. StartDelay
  BY <1>1, <1>2, Constants DEF Lower
<1>5. TypeOK'
  BY <1>1, <1>3, <1>4 DEF IInv, TypeOK
<1>6. age + nextPoll >= MinWait => age' + nextPoll' >= MinWait
  BY <1>1, <1>2, Constants DEF Lower, Sooner
<1> QED
  BY <1>1, <1>5, <1>6 DEF IInv, Holder, LifeHolder, PollerKept, Spaced

LEMMA StutterKeeps ==
  ASSUME IInv, UNCHANGED vars
  PROVE  IInv'
BY DEF vars, IInv, TypeOK, Holder, LifeHolder, PollerKept, Spaced

LEMMA NextIInv == IInv /\ [Next]_vars => IInv'
<1> SUFFICES ASSUME IInv, [Next]_vars PROVE IInv'
  OBVIOUS
<1>1. CASE LoopStep
  BY <1>1, LoadHistoryKeeps, LoadedHistoryKeeps, OnStopKeeps, OnRearmKeeps, OnTimerKeeps, PollKeeps, OvertakenKeeps, PollPanicsKeeps, RecoverKeeps, ResetTimerKeeps, PolledKeeps DEF LoopStep
<1>2. ASSUME NEW r \in Requests, RequestStep(r) PROVE IInv'
  BY <1>2, SyncNowKeeps, SyncCutShortKeeps, RearmPollerKeeps, RefreshKeeps, RefreshPollKeeps, RefreshedKeeps, SyncedKeeps DEF RequestStep
<1>3. ASSUME NEW c \in Calls, CallStep(c) PROVE IInv'
  BY <1>3, CallStartKeeps, CallStopKeeps, ReturnAtOnceKeeps, StartPollerKeeps, DrainRearmKeeps, StopPollerKeeps, JoinKeeps, FinalSaveKeeps, FinalSavedKeeps DEF CallStep
<1> QED
  BY <1>1, <1>2, <1>3, TickKeeps, StutterKeeps DEF Next

LEMMA Invariance == Spec => []IInv
BY InitIInv, NextIInv, PTL DEF Spec

\* Every variable of the schedule stays in its domain; no wait the loop sleeps
\* and no countdown the status page shows outlasts the interval.
THEOREM TypeCorrect == Spec => []TypeOK
<1>1. IInv => TypeOK
  BY DEF IInv
<1> QED
  BY <1>1, Invariance, PTL

\* Polls, forced reads, refreshes, the load and the final save never overlap.
THEOREM ReadersExclude == Spec => []OneReader
<1>1. IInv => OneReader
  BY Constants DEF IInv, TypeOK, Holder, OneReader, Reading
<1> QED
  BY <1>1, Invariance, PTL

\* Without a poller there is no loop, so two loops never run side by side.
THEOREM LoopAlwaysJoined == Spec => []LoopJoined
<1>1. IInv => LoopJoined
  BY DEF IInv, PollerKept, LoopJoined
<1> QED
  BY <1>1, Invariance, PTL

\* Whatever forced reads, refreshes, panics and restarts interleave, the loop
\* reads no sooner than the shortest wait after the last completed poll.
THEOREM ReadsSpaced == Spec => LoopReadsSpaced
<1>1. ASSUME IInv, [Next]_vars, BeginsRead, ~first
      PROVE  age >= MinWait
  <2>1. nextPoll = 0
    BY <1>1 DEF BeginsRead, Next, vars, LoopStep, RequestStep, CallStep, Tick, LoadHistory,
      LoadedHistory, OnStop, OnRearm, OnTimer, Poll, Overtaken, PollPanics, Recover, ResetTimer,
      Polled, SyncNow, SyncCutShort, RearmPoller, Refresh, RefreshPoll, Refreshed, Synced,
      CallStart, CallStop, ReturnAtOnce, StartPoller, DrainRearm, StopPoller, Join, FinalSave,
      FinalSaved, UntilNextPoll
  <2> QED
    BY <1>1, <2>1, Constants DEF IInv, Spaced, BeginsRead, TypeOK
<1>2. IInv /\ [Next]_vars => [BeginsRead /\ ~first => age >= MinWait]_vars
  BY <1>1
<1> QED
  BY <1>2, Invariance, PTL DEF Spec, LoopReadsSpaced

==============================================================================
