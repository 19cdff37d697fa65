------------------------------ MODULE MCQuota ------------------------------
(***************************************************************************)
(* The quota store of one credential (two account windows, one family cap) *)
(* and the samples of one window's ring.  They share no state their        *)
(* properties are about, so a behaviour runs one of them, chosen at the    *)
(* start, and the states of the run are the sum of theirs.                 *)
(***************************************************************************)
EXTENDS QuotaStore, Samples

VARIABLE part
quotaVars == <<part, storeVars, samplesVars>>

MCUnscoped == {"five_hour", "seven_day"}
MCScoped == {"Opus"}

Response(carried, stated, refused, claim, rejected) ==
  [carried |-> carried, stated |-> stated, refused |-> refused, claim |-> claim,
   rejected |-> rejected]

\* Every window, one without the 5-hour limit, and caps only.
MCReads == {{"five_hour", "seven_day", "Opus"}, {"seven_day"}, {"Opus"}}

\* Both windows served, and a family cap refused that no header reports.
MCResponses ==
  { Response(MCUnscoped, MCUnscoped, {}, "five_hour", FALSE),
    Response({"five_hour"}, {}, {}, "Opus", TRUE) }

MCPublishSteps == <<0, 4, 8>>

\* A history another build wrote, its second sample estimated.
MCEstimates ==
  <<[resetsAt |-> 8, samples |-> << <<1, 0>>, <<3, 2>> >>, estimated |-> TRUE, until |-> Never]>>

QuotaInit ==
  /\ part \in {"store", "samples"}
  /\ StoreInit /\ SamplesInit
  /\ part = "store" => stored = <<>>

\* The samples end at the bound on readings.
QuotaNext ==
  /\ UNCHANGED part
  /\ \/ part = "store" /\ StoreNext /\ UNCHANGED samplesVars
     \/ part = "samples" /\ SamplesNext /\ UNCHANGED storeVars
     \/ part = "samples" /\ taken.count = MaxReadings /\ UNCHANGED <<storeVars, samplesVars>>

QuotaSpec == QuotaInit /\ [][QuotaNext]_quotaVars
=============================================================================
