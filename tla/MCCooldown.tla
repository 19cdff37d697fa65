----------------------------- MODULE MCCooldown -----------------------------
(***************************************************************************)
(* Cooldown on two courses of a seat.                                      *)
(*                                                                         *)
(* Span: the seat's family cap stays full.  Every 429 names the cap, and   *)
(* at most one window that caps every request, which it fills; every read  *)
(* shows the cap full, in a flat run, and finds a stale cooldown or only   *)
(* what it reports; and the host accepts every reset.                      *)
(*                                                                         *)
(* Served: a 429, a request served after it, with its headers, and then a  *)
(* sweep; the provider gives nothing back.                                 *)
(***************************************************************************)
EXTENDS Cooldown

VARIABLE answered   \* history: the spans, by their start, that a reset was answered of

courseVars == <<cooldownVars, answered>>

MCPlans == {Windows}

CourseInit == CooldownInit /\ answered = {}

SpanCourse ==
  \/ ListCooldown /\ cooled > now
  \/ \E seen \in Seen :
       /\ \A w \in Caps : seen[w] = "full"
       /\ \A w \in AllRequest : seen[w] = "back" => rings[w].locks # <<>>
       /\ ReadUsage(seen, Flat)
       /\ stage' = "read" => Causes' # {}
  \/ AskReset
  \/ AnswerReset("none")
  \/ \E ws \in SUBSET plan, len \in Lengths :
       /\ Refuse429(ws, len, Flat)
       /\ Caps \subseteq ws /\ Cardinality(ws \cap AllRequest) <= 1
       /\ \A w \in ws \cap AllRequest : shut[w] = Never /\ rings[w].locks = <<>>
       /\ cooled' # cooled
  \/ \E w \in AllRequest : GiveBack(w)
  \/ PassTime

SpanNext ==
  /\ UNCHANGED plan /\ SpanCourse
  /\ answered' = IF stage = "asking" THEN answered \cup {hold.span} ELSE answered

SpanSpec == CourseInit /\ [][SpanNext]_courseVars

ServedCourse ==
  \/ stage = "idle" /\ \E len \in Lengths : Refuse429(plan, len, {})
  \/ stage = "idle" /\ Serve({}, plan, {}, {}, {})
  \/ ListCooldown /\ \A w \in AllRequest : rings[w].served > rings[w].refused
  \/ \E seen \in Seen : ReadUsage(seen, {})
  \/ AskReset
  \/ PassTime

ServedNext == UNCHANGED <<plan, answered>> /\ ServedCourse

ServedSpec == CourseInit /\ [][ServedNext]_courseVars

\* "releaseHolds asks the host to clear each stale cooldown among the credentials the poll
\* read, once per refusal span" (cooldown.go:193-194).
AskedOncePerSpan ==
  [][stage # "asking" /\ stage' = "asking" => hold'.span \notin answered]_courseVars
=============================================================================
