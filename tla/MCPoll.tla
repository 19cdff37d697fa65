------------------------------- MODULE MCPoll -------------------------------
(***************************************************************************)
(* The parts of a poll: the session store its sweep of bindings runs on,   *)
(* its sweep of the seats, what it makes of a file's login, and the        *)
(* release of stale cooldowns that ends it.  They share no state their     *)
(* properties are about, so a behaviour runs one of them, chosen at the    *)
(* start, and the states of the run are the sum of theirs.                 *)
(***************************************************************************)
EXTENDS SessionStore, PollSweep, Login, Cooldown, TLC

CONSTANTS k1, k2, k3, a1, a2

VARIABLE part
pollVars == <<part, vars, sweepVars, loginVars, cooldownVars>>

MCKeys == {k1, k2, k3}
MCAuths == {a1, a2}

SavedBinding(k, a, seen) == [key |-> k, auth |-> a, boundAt |-> 0, lastSeen |-> seen]

\* Nothing saved; a file out of order with one binding named twice; a file
\* that overflows the cap; one stamped ahead of the clock.
MCSavedFiles ==
  { <<>>,
    << SavedBinding(k1, a1, 0), SavedBinding(k2, a2, 1), SavedBinding(k1, a2, 1) >>,
    << SavedBinding(k3, a1, 1), SavedBinding(k2, a1, 0), SavedBinding(k1, a2, 1) >>,
    << SavedBinding(k1, a1, 2), SavedBinding(k2, a2, 1) >> }

\* The two all-request windows behave alike, and so do the seats.
PollSymmetry == Permutations(AllRequest) \cup Permutations(Seats)

\* Both windows that cap every request, one of them, or one beside the family caps.
MCPlans == {AllRequest} \cup {{w} : w \in AllRequest} \cup {{w} \cup Caps : w \in AllRequest}

\* A seat with one window is followed to MaxNow, the others for fewer instants.
LastNow == IF plan = AllRequest THEN 3 ELSE IF Caps \cap plan # {} THEN 2 ELSE MaxNow

\* A listing of which at most one seat is not to be read for its usage.
OneOdd(listing) ==
  \E odd \in Seats : \A s \in DOMAIN listing \ {odd} : listing[s] = "oauth"

\* A part that does not run starts in one of its initial states only.
PollInit ==
  /\ part \in {"sessions", "sweep", "login", "cooldown"}
  /\ Init /\ SweepInit /\ LoginInit /\ CooldownInit
  /\ part # "sessions" => unrestored = <<>>
  /\ part # "sweep" => waiting = {}
  /\ part # "cooldown" => plan = AllRequest
  /\ part # "login" => ids /\ prompt /\ disk = NoSaved

PollNext ==
  /\ UNCHANGED part
  /\ \/ part = "sessions" /\ Next /\ UNCHANGED <<sweepVars, loginVars, cooldownVars>>
     \/ /\ part = "sweep" /\ SweepNext /\ UNCHANGED <<vars, loginVars, cooldownVars>>
        /\ sw'.at = "seats" => OneOdd(sw'.listing)
     \/ part = "login" /\ LoginNext /\ UNCHANGED <<vars, sweepVars, cooldownVars>>
     \/ /\ part = "cooldown" /\ CooldownNext /\ UNCHANGED <<vars, sweepVars, loginVars>>
        /\ now' <= LastNow

PollSpec == PollInit /\ [][PollNext]_pollVars
=============================================================================
