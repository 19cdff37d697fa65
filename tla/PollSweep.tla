----------------------------- MODULE PollSweep -----------------------------
(***************************************************************************)
(* One poll, seat by seat: pollLocked of internal/runtime/poller.go with   *)
(* fetchOne, the usage client's Fetch (internal/quota/client.go), and      *)
(* refresh, which answers a management request from what a poll left.      *)
(*                                                                         *)
(* The loop and requests sweep one at a time (pollMu: Poller).  A sweep's  *)
(* context may end at any point.  A listed credential is "oauth", "keyed"  *)
(* (a file without an access token), "unread" (runtime-only, or without an *)
(* index) or "disabled".  Of the quota store only which credentials have   *)
(* an entry matters here; QuotaStore has the rest.  What a sweep does with *)
(* a file's login is in Login, and releaseHolds, which ends a complete     *)
(* sweep, in Cooldown.                                                     *)
(***************************************************************************)
EXTENDS Integers, FiniteSets

CONSTANTS Seats

VARIABLES
  sw,         \* the sweep holding pollMu, or NoSweep
  known,      \* credentials with an entry in the quota store
  waiting,    \* credentials whose last reading waits to be restored
  listErr, fetchErr,
  auths,      \* the published listing
  polls,      \* pollState per credential
  request     \* a call of refresh

sweepVars == <<sw, known, waiting, listErr, fetchErr, auths, polls, request>>
published == <<known, waiting, listErr, fetchErr, auths, polls>>

NoSweep == [at |-> "none"]
Idle == [at |-> "idle"]

Listed == DOMAIN sw.listing
Readable == {s \in Listed : sw.listing[s] \in {"oauth", "keyed"}}

\* The callers of pollLocked: the loop (or SyncNow) and refresh.  refused, the
\* throttled answers in a row, and missed, whether a read failed, are read by the
\* properties only.
NewSweep(by) ==
  [at |-> "start", by |-> by, listing |-> <<>>, left |-> {}, restored |-> {}, keep |-> {},
   failed |-> FALSE, fetched |-> FALSE, throttled |-> FALSE, done |-> FALSE,
   seat |-> 0, authErr |-> FALSE, sent |-> 0, refused |-> 0, missed |-> FALSE]

Begin(by) ==
  /\ sw = NoSweep
  /\ by = "refresh" => request = Idle
  /\ sw' = NewSweep(by)
  /\ request' = IF by = "refresh" THEN [at |-> "polling"] ELSE request
  /\ UNCHANGED <<published>>

\* The deadline, or a stop.
Expire ==
  /\ sw # NoSweep /\ ~sw.done
  /\ sw' = [sw EXCEPT !.done = TRUE]
  /\ UNCHANGED <<published, request>>

\* pollLocked returns; refresh goes on to read the outcome it left.  own is what
\* the sweep came to, others whether another sweep has ended since.
Return(own) ==
  /\ sw' = NoSweep
  /\ request' = IF sw.by = "refresh"
                  THEN [at |-> "reading", own |-> own, others |-> FALSE, done |-> sw.done]
                ELSE IF request.at = "reading" THEN [request EXCEPT !.others = TRUE]
                ELSE request

\* The config is read once, here: it may have been disabled since.
Disabled ==
  /\ sw.at = "start"
  /\ listErr' = FALSE /\ fetchErr' = FALSE
  /\ Return("disabled")
  /\ UNCHANGED <<known, waiting, auths, polls>>

\* The listing fails, or holds no governed credential: an incomplete read.
ListFails ==
  /\ sw.at = "start"
  /\ listErr' = TRUE
  /\ Return("failed")
  /\ UNCHANGED <<known, waiting, fetchErr, auths, polls>>

\* A mutation: an empty listing is taken as an answer.
ListableAny(listing) == TRUE

Listable(listing) == DOMAIN listing # {}

List(listing) ==
  LET restored == {s \in DOMAIN listing \cap waiting : listing[s] # "disabled"}
  IN  /\ sw.at = "start"
      /\ Listable(listing)
      /\ sw' = [sw EXCEPT !.at = "seats", !.listing = listing, !.left = DOMAIN listing,
                          !.restored = restored]
      /\ known' = known \cup restored
      /\ waiting' = waiting \ restored
      /\ auths' = IF auths = {} THEN DOMAIN listing ELSE auths
      /\ UNCHANGED <<listErr, fetchErr, polls, request>>

-----------------------------------------------------------------------------
(* The seats *)

Skip(s) ==
  /\ sw.at = "seats" /\ s \in sw.left \ Readable
  /\ sw' = [sw EXCEPT !.left = @ \ {s}]
  /\ UNCHANGED <<published, request>>

\* The context is found done at a seat to read, or while waiting between two.
Break ==
  /\ sw.at = "stagger" \/ (sw.at = "seats" /\ sw.left \cap Readable # {})
  /\ sw.done
  /\ sw' = [sw EXCEPT !.at = "end"]
  /\ UNCHANGED <<published, request>>

\* A mutation: every seat finds out for itself that the endpoint throttles.
LeavesStanding(s, stands) == s \in sw.restored /\ stands

\* A throttle answers for every seat not reached yet, and a restored reading that
\* still describes its seat stands.
Leaves(s, stands) == sw.throttled \/ (s \in sw.restored /\ stands)

Visit(s, authErr, stands) ==
  /\ sw.at = "seats" /\ s \in sw.left \cap Readable /\ ~sw.done
  /\ sw' = IF Leaves(s, stands)
             THEN [sw EXCEPT !.left = @ \ {s}, !.keep = @ \cup {s}]
             ELSE [sw EXCEPT !.left = @ \ {s}, !.seat = s, !.authErr = authErr,
                             !.at = IF sw.fetched THEN "stagger" ELSE "fetch"]
  /\ UNCHANGED <<published, request>>

Staggered ==
  /\ sw.at = "stagger"
  /\ sw' = [sw EXCEPT !.at = "fetch"]
  /\ UNCHANGED <<published, request>>

\* Between two seats.
Seated == [sw EXCEPT !.at = "seats", !.seat = 0, !.authErr = FALSE, !.sent = 0]

\* A mutation: a later success forgets the failure before it.
FailedLast(outcome) == outcome # "ok"

Failed(outcome) == sw.failed \/ outcome # "ok"

\* fetchOne has an outcome, after `answers` throttled answers since the last step:
\* Put, the seat's pollState, the first failure.
Record(outcome, answers) ==
  /\ known' = known \cup {sw.seat}
  /\ polls' = [polls EXCEPT ![sw.seat] = IF outcome = "ok" THEN "ok" ELSE "failed"]
  /\ sw' = [Seated EXCEPT !.fetched = TRUE, !.keep = @ \cup {sw.seat},
                      !.missed = @ \/ outcome # "ok", !.failed = Failed(outcome), !.throttled = outcome = "throttled",
                      !.refused = IF outcome = "throttled" THEN @ + answers ELSE 0]
  /\ UNCHANGED <<waiting, listErr, fetchErr, auths, request>>

\* fetchOne without a request: the host did not hand out the file, or it holds no
\* access token, which is nobody to poll.
NoFile == sw.at = "fetch" /\ sw.authErr /\ Record("failed", 0)

NotOAuth ==
  /\ sw.at = "fetch" /\ ~sw.authErr /\ sw.listing[sw.seat] = "keyed"
  /\ sw' = [Seated EXCEPT !.fetched = TRUE]
  /\ UNCHANGED <<published, request>>

Send ==
  /\ sw.at = "fetch" /\ ~sw.authErr /\ sw.listing[sw.seat] = "oauth"
  /\ sw' = [sw EXCEPT !.at = "sent", !.sent = 1]
  /\ UNCHANGED <<published, request>>

\* get, statusError, Category: "failed" is any failure that is no throttle, the
\* request's own deadline and a panic of the doer included.
Answered(outcome) == sw.at = "sent" /\ outcome \in {"ok", "failed"} /\ Record(outcome, 0)

\* retryWait: only a first throttle that names no long wait is retried.
Retries(long) == sw.sent = 1 /\ ~long

Throttled(long) ==
  /\ sw.at = "sent"
  /\ IF Retries(long)
       THEN /\ sw' = [sw EXCEPT !.at = "backoff", !.refused = @ + 1]
            /\ UNCHANGED <<published, request>>
       ELSE Record("throttled", 1)

\* The wait before the retry elapses, or the context ends it.
Retry ==
  /\ sw.at = "backoff"
  /\ sw' = [sw EXCEPT !.at = "sent", !.sent = @ + 1]
  /\ UNCHANGED <<published, request>>

GiveUp == sw.at = "backoff" /\ sw.done /\ Record("throttled", 0)

-----------------------------------------------------------------------------
(* The end of a sweep *)

Ended == sw.at = "end" \/ (sw.at = "seats" /\ sw.left = {})

\* A mutation: a sweep that reached its end by breaking off is published.
CutIgnored == FALSE

Cut == sw.done

CutShort ==
  /\ Ended /\ Cut
  /\ listErr' = FALSE /\ fetchErr' = FALSE
  /\ Return("cut")
  /\ UNCHANGED <<known, waiting, auths, polls>>

\* Prune drops what the host no longer lists, keeping its reading for one more
\* listing; outcomes of credentials no longer polled go.
Publish ==
  /\ Ended /\ ~Cut
  /\ known' = known \cap Listed
  /\ waiting' \in {(waiting \cap Listed) \cup kept : kept \in SUBSET (known \ Listed)}
  /\ listErr' = FALSE /\ fetchErr' = sw.failed
  /\ auths' = Listed
  /\ polls' = [s \in Seats |-> IF s \in sw.keep THEN polls[s] ELSE "none"]
  /\ Return(IF sw.missed THEN "failed" ELSE "complete")

-----------------------------------------------------------------------------
(* refresh *)

\* A request's context may end after its sweep too.
RequestExpires ==
  /\ request.at = "reading" /\ ~request.done
  /\ request' = [request EXCEPT !.done = TRUE]
  /\ UNCHANGED <<sw, published>>

Answer ==
  /\ request.at = "reading"
  /\ request' = [at |-> "answered", own |-> request.own, others |-> request.others,
                 ok |-> ~(listErr \/ fetchErr \/ request.done)]
  /\ UNCHANGED <<sw, published>>

NextRequest ==
  /\ request.at = "answered"
  /\ request' = Idle
  /\ UNCHANGED <<sw, published>>

\* A response's headers give a credential an entry, restoring what waits for it.
HeadersMerge(s) ==
  /\ s \notin known
  /\ known' = known \cup {s} /\ waiting' = waiting \ {s}
  /\ UNCHANGED <<sw, listErr, fetchErr, auths, polls, request>>

-----------------------------------------------------------------------------
Kinds == {"oauth", "keyed", "unread", "disabled"}
Listings == UNION {[ids -> Kinds] : ids \in SUBSET Seats}

SweepInit ==
  /\ sw = NoSweep /\ request = Idle
  /\ known = {} /\ waiting \in {{}, Seats}
  /\ listErr = FALSE /\ fetchErr = FALSE /\ auths = {}
  /\ polls = [s \in Seats |-> "none"]

SweepNext ==
  \/ \E by \in {"loop", "refresh"} : Begin(by)
  \/ Expire \/ Disabled \/ ListFails
  \/ \E listing \in Listings : List(listing)
  \/ \E s \in Seats : Skip(s) \/ HeadersMerge(s)
  \/ \E s \in Seats, authErr, stands \in BOOLEAN : Visit(s, authErr, stands)
  \/ Break \/ Staggered \/ NoFile \/ NotOAuth \/ Send
  \/ \E outcome \in {"ok", "failed"} : Answered(outcome)
  \/ \E long \in BOOLEAN : Throttled(long)
  \/ Retry \/ GiveUp \/ CutShort \/ Publish
  \/ RequestExpires \/ Answer \/ NextRequest

SweepSpec == SweepInit /\ [][SweepNext]_sweepVars

-----------------------------------------------------------------------------
(* Properties *)

\* A seat's entry, and so what it is routed on, only goes when the host answered
\* with a listing that misses it: never on a failed, an empty or a broken-off
\* one ("would prune away every snapshot the plugin routes on").
SeatsKept ==
  [][\A s \in known \ known' : sw.at # "none" /\ Listed # {} /\ s \notin Listed]_sweepVars

\* A seat the host lists for reading never loses the outcome of its last read,
\* whatever cut the sweep short ("Publishing it would drop rows").
OutcomesOutlast ==
  [][\A s \in Seats : polls[s] # "none" /\ polls'[s] = "none" =>
       s \notin Listed \/ sw.listing[s] # "oauth"]_sweepVars

\* A sweep never draws three throttled answers in a row: a throttled read is
\* retried once at most and ends the sweep's reading.
ThrottleHeeded == sw # NoSweep => sw.refused <= 2

\* When no other sweep has ended since its own, refresh answers success only if
\* its own sweep was complete and every read in it succeeded.
RefreshTruthful ==
  request.at = "answered" /\ request.ok /\ ~request.others =>
    request.own \in {"complete", "disabled"}
=============================================================================
