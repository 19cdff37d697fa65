------------------------------- MODULE MCPick -------------------------------
(* Instances of Pick for TLC: a parent conversation, its subagent, two seats. *)
EXTENDS Pick

MCKeys == {"main", "sub"}
MCAuths == {1, 2}

Request(key, parent, offered, retryOf, pinned) ==
  [governed |-> TRUE, key |-> key, parent |-> parent, offered |-> offered,
   retryOf |-> retryOf, pinned |-> pinned]

Plain(key, parent) == Request(key, parent, {1, 2}, NoAuth, FALSE)

\* First attempts, retries, pinned requests, one seat offered, a keyless
\* request and a route the config does not govern.
MCRequests ==
  { Plain("main", NoKey), Plain("sub", "main"), Plain(NoKey, NoKey),
    Request("main", NoKey, {2}, 1, FALSE), Request("sub", "main", {1, 2}, 2, FALSE),
    Request("main", NoKey, {1}, NoAuth, TRUE), Request("sub", "main", {2}, NoAuth, TRUE),
    Request("sub", "main", {1}, NoAuth, FALSE),
    [Plain("main", NoKey) EXCEPT !.governed = FALSE] }

\* A parent and its subagent over time.
MCFamily == {Plain("main", NoKey), Plain("sub", "main")}

MCConfigZero == [enabled |-> TRUE, affinity |-> TRUE, subagents |-> TRUE, shape |-> 0]

MCConfigs ==
  { MCConfigZero, [MCConfigZero EXCEPT !.shape = 1], [MCConfigZero EXCEPT !.enabled = FALSE],
    [MCConfigZero EXCEPT !.affinity = FALSE], [MCConfigZero EXCEPT !.subagents = FALSE] }

MCOneConfig == {MCConfigZero}

Pool(a, b) == [x \in MCAuths |-> IF x = 1 THEN a ELSE b]

\* Eligible seats in both orders, and each way of being ineligible beside
\* another seat.
MCPoolStates ==
  { Pool("first", "second"), Pool("second", "first"),
    Pool("refused", "second"), Pool("refused", "full"), Pool("refused", "stale"),
    Pool("staleRefused", "refused"), Pool("full", "none"), Pool("unreadable", "full") }

\* As MCPoolStates, with a refusal older than max-staleness beside a seat
\* nothing is known against.
MCStalePools == {Pool("first", "second"), Pool("staleRefused", "stale"), Pool("stale", "second")}
=============================================================================
