------------------------------- MODULE Login -------------------------------
(***************************************************************************)
(* One seat's login as successive polls see it: internal/runtime/login.go, *)
(* readLogin of poller.go, and the login instants the quota store keeps    *)
(* and its file saves.                                                     *)
(*                                                                         *)
(* The host rewrites a credential file both when it renews the access      *)
(* token and when someone logs in again; only the second starts a login's  *)
(* expected lifetime.  A machine may sleep: the wall clock passes then,    *)
(* and the monotonic one, which Go's time.Time carries and Sub prefers,    *)
(* does not.  The refusal a listing carries only enters the view of a      *)
(* login, not its track.  What the host log is told (reportLogins, and the *)
(* warning that `refused` and `kept` feed) is left out.                    *)
(***************************************************************************)
EXTENDS Times

CONSTANTS
  Lead,           \* model.LoginRefreshLead
  Confirm,        \* loginConfirm
  Lifetime,       \* model.LoginLifetime
  AgeingLead,     \* model.LoginAgeingLead
  TokenLife,      \* how long a token the host receives lasts
  MaxWall, MaxLogins

\* A login is confirmed after a positive time.
ASSUME LoginAssumption ==
  /\ Lead \in Nat /\ Confirm \in Nat \ {0} /\ Lifetime \in Nat /\ AgeingLead \in Nat
  /\ TokenLife \in Nat /\ MaxWall \in Nat /\ MaxLogins \in Nat \ {0}

VARIABLES
  wall, mono,     \* the two clocks
  ids,            \* whether the host writes device ids
  prompt,         \* whether the host renews every token as it falls due
  seatFile,       \* the credential file
  track,          \* p.logins
  saved, disk,    \* the login instant in the quota store, and in its file
  restored,       \* whether this process has loaded the file
  dated           \* per login, the first date the plugin ever gave it

loginVars == <<wall, mono, ids, prompt, seatFile, track, saved, disk, restored, dated>>
clocks == <<wall, mono>>
host == <<ids, prompt, seatFile>>
plugin == <<track, saved, disk, restored, dated>>

NoTrack == [seen |-> FALSE]
NoInstant == [wall |-> Never, mono |-> Never]
NoSaved == [at |-> Never, device |-> 0]

\* p.now(): an instant on both clocks.
Now == [wall |-> wall, mono |-> mono]

-----------------------------------------------------------------------------
(* login.go *)

\* A mutation: a seat not read since counts as still overdue.
confirmedAtNow(t, at) ==
  t.overdueSince # NoInstant /\ at.mono - t.overdueSince.mono >= Confirm

\* at is a p.now(): both instants carry the monotonic clock, and at is never before
\* the reading, so the reading's own instant counts.
confirmedAt(t, at) ==
  t.overdueSince # NoInstant /\ t.seenAt.mono - t.overdueSince.mono >= Confirm

\* The same at an instant read from the file, which carries the wall clock only.
confirmedBy(t, refreshed) ==
  /\ t.overdueSince # NoInstant
  /\ IF t.seenAt.wall < refreshed
       THEN t.seenAt.mono - t.overdueSince.mono >= Confirm
       ELSE refreshed - t.overdueSince.wall >= Confirm

\* A mutation: a login is only looked for where a device id is missing.
newDeviceNever(prev) == FALSE

\* The file holds another valid device id than the last reading did.
newDevice(prev) ==
  prev.seen /\ prev.device # 0 /\ seatFile.device # 0 /\ prev.device # seatFile.device

\* The login instant observeLogin leaves: dated by a new device id, or, with no id to
\* compare, by a renewal the token's age does not explain.
loggedInAt(prev) ==
  LET refreshed == seatFile.lastRefresh
      renewed == refreshed > prev.lastRefresh
      early == prev.expires - refreshed > Lead + Confirm
  IN  CASE ~prev.seen -> Never
        [] newDevice(prev) -> IF renewed THEN refreshed ELSE Never
        [] prev.seen /\ prev.device # 0 /\ prev.device = seatFile.device -> prev.loggedInAt
        [] OTHER -> IF renewed /\ (early \/ confirmedBy(prev, refreshed))
                      THEN refreshed ELSE prev.loggedInAt

overdueSince(prev) ==
  IF seatFile.expires - wall >= Lead THEN NoInstant
  ELSE IF prev.seen /\ prev.expires = seatFile.expires /\ prev.overdueSince # NoInstant
         THEN prev.overdueSince
  ELSE Now

observeLogin(prev) ==
  [seen |-> TRUE, expires |-> seatFile.expires, lastRefresh |-> seatFile.lastRefresh,
   device |-> seatFile.device, newDevice |-> newDevice(prev),
   overdueSince |-> overdueSince(prev), seenAt |-> Now, loggedInAt |-> loggedInAt(prev)]

\* loginTrack.login, given the host's refusal r.
login(t, r) ==
  LET dead == t.expires <= wall
      end == t.loggedInAt + Lifetime
  IN  CASE r = "revoked" \/ (dead /\ (r = "grant" \/ confirmedAt(t, Now))) -> "expired"
        [] ~dead /\ confirmedAt(t, Now) -> "failing"
        [] t.loggedInAt # Never /\ end > wall /\ end - wall < AgeingLead -> "ageing"
        [] OTHER -> "ok"

\* seatLogins for this seat: r is the host's refusal in the listing, cut whether every
\* seat's last usage read failed to reach Anthropic.
seatLogin(r, cut) ==
  LET refusal == IF track.newDevice THEN "none" ELSE r
      state == login(track, refusal)
  IN  IF cut /\ (state = "failing" \/ (state = "expired" /\ refusal = "none"))
        THEN "stalled" ELSE state

-----------------------------------------------------------------------------
(* The polls *)

sameLogin(device) == saved.device = 0 \/ device = 0 \/ saved.device = device

\* A saved instant dates a login the track cannot.
Dated(next) ==
  IF /\ next.loggedInAt = Never
     /\ saved # NoSaved /\ sameLogin(next.device) /\ saved.at <= next.lastRefresh
    THEN [next EXCEPT !.loggedInAt = saved.at]
    ELSE next

readLogin ==
  LET next == Dated(observeLogin(track))
      at == next.loggedInAt
  IN  /\ track' = next
      /\ saved' = IF at # Never THEN [at |-> at, device |-> next.device] ELSE saved
      /\ dated' = IF at # Never /\ dated[seatFile.login] = Never
                    THEN [dated EXCEPT ![seatFile.login] = at] ELSE dated
      /\ UNCHANGED <<clocks, host, disk, restored>>

\* A complete sweep that does not list the seat: its instant stays while a pending
\* history does.
Unlisted(forget) ==
  /\ track # NoTrack
  /\ track' = NoTrack
  /\ saved' = IF forget THEN NoSaved ELSE saved
  /\ UNCHANGED <<clocks, host, disk, restored, dated>>

\* importLogins, for an instant this process has none of.  No saved instant is after
\* now: the wall clock is not set back here.
importLogins ==
  /\ ~restored
  /\ saved' = IF saved = NoSaved THEN disk ELSE saved
  /\ restored' = TRUE
  /\ UNCHANGED <<clocks, host, track, disk, dated>>

\* exportLogins, in a save of the history file.
SaveLogins ==
  /\ restored /\ disk # saved
  /\ disk' = saved
  /\ UNCHANGED <<clocks, host, track, saved, restored, dated>>

\* The process ends, saved or not, and another starts.
Restart ==
  /\ track' = NoTrack /\ saved' = NoSaved /\ restored' = FALSE
  /\ UNCHANGED <<clocks, host, disk, dated>>

-----------------------------------------------------------------------------
(* The host, the user and time: external *)

Due == wall > seatFile.expires - Lead

\* A renewal keeps the device id.  A prompt host renews within Confirm of the lead.
HostRenews ==
  /\ prompt => wall >= seatFile.expires - Lead
  /\ seatFile' = [seatFile EXCEPT !.expires = wall + TokenLife, !.lastRefresh = wall]
  /\ UNCHANGED <<clocks, ids, prompt, plugin>>

\* A login writes a new token under a new device id.
UserLogsIn ==
  /\ seatFile.login < MaxLogins
  /\ seatFile' = [expires |-> wall + TokenLife, lastRefresh |-> wall, login |-> seatFile.login + 1,
                  loginAt |-> wall, device |-> IF ids THEN seatFile.login + 1 ELSE 0]
  /\ UNCHANGED <<clocks, ids, prompt, plugin>>

Awake ==
  /\ wall < MaxWall
  /\ prompt => ~Due
  /\ wall' = wall + 1 /\ mono' = mono + 1
  /\ UNCHANGED <<host, plugin>>

Asleep ==
  /\ wall < MaxWall
  /\ wall' = wall + 1
  /\ UNCHANGED <<mono, host, plugin>>

LoginInit ==
  /\ wall = 0 /\ mono = 0
  /\ ids \in BOOLEAN /\ prompt \in BOOLEAN
  /\ seatFile = [expires |-> TokenLife, lastRefresh |-> 0, login |-> 1, loginAt |-> 0,
                 device |-> IF ids THEN 1 ELSE 0]
  /\ track = NoTrack /\ saved = NoSaved /\ restored = FALSE
  /\ disk \in {NoSaved, [at |-> 0, device |-> seatFile.device]}
  /\ dated = [l \in 1..MaxLogins |-> IF l = 1 THEN disk.at ELSE Never]

LoginNext ==
  \/ readLogin
  \/ \E forget \in BOOLEAN : Unlisted(forget)
  \/ importLogins \/ SaveLogins \/ Restart
  \/ HostRenews \/ UserLogsIn \/ Awake \/ Asleep

LoginSpec == LoginInit /\ [][LoginNext]_loginVars

-----------------------------------------------------------------------------
(* Properties *)

\* Where the host writes device ids, the plugin dates a login once and for all,
\* whatever renewals, unseen logins, unlistings and restarts come between, and never
\* with an instant before it was made: the date a login's expected end is counted
\* from is never an earlier login's.
LoginDated ==
  ids /\ track.seen /\ track.loggedInAt # Never =>
    LET l == track.device
    IN  /\ track.loggedInAt = dated[l]
        /\ track.loggedInAt <= track.lastRefresh
        /\ l = seatFile.login => seatFile.loginAt <= track.loggedInAt

\* While the host renews every token as it falls due, no seat reads as failing or
\* expired (such a host lists no refusal), however the machine sleeps and however long its file goes unread.
HealthyNotBlamed ==
  prompt /\ track.seen =>
    \A cut \in BOOLEAN : seatLogin("none", cut) \notin {"failing", "expired"}
=============================================================================
