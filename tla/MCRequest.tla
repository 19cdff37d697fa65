----------------------------- MODULE MCRequest -----------------------------
(***************************************************************************)
(* Requests at once: two picks that race for one conversation and its      *)
(* subagent.  And what surrounds a pick: the identity of a request, the    *)
(* config, the pace ranking under it and the log of decisions.  They share *)
(* no state their properties are about, so a behaviour runs one of them,   *)
(* chosen at the start, and the states of the run are the sum of theirs.   *)
(***************************************************************************)
EXTENDS Pick, Identity, Config, Pace, DecisionLog

VARIABLE part
besideVars == <<identityVars, configVars, paceVars, logVars>>
requestVars == <<part, vars, besideVars>>

MCKeys == {"main", "sub"}
MCAuths == {1, 2}

Racing(key, parent, offered, retryOf, pinned) ==
  [governed |-> TRUE, key |-> key, parent |-> parent, offered |-> offered,
   retryOf |-> retryOf, pinned |-> pinned]

\* First attempts of both conversations, and a retry.
MCRacing ==
  { Racing("main", NoKey, MCAuths, NoAuth, FALSE), Racing("sub", "main", MCAuths, NoAuth, FALSE),
    Racing("main", NoKey, {2}, 1, FALSE) }

MCConfigZero == [enabled |-> TRUE, affinity |-> TRUE, subagents |-> TRUE, shape |-> 0]
MCRacingConfigs == {MCConfigZero, [MCConfigZero EXCEPT !.shape = 1]}

\* What the seats 1 and 2 show: both eligible, the first refused, none known to be.
MCRacingPools == {<<"first", "second">>, <<"refused", "second">>, <<"stale", "none">>}

\* Another conversation's second turn tells nothing its first and the family's do not.
MCTurns == [c \in Convs |-> IF c = "other" THEN 1 ELSE 2]

Plain(key, node) == [path |-> <<key>>, node |-> node]
Under(section, key, node) == [path |-> <<section, key>>, node |-> node]

\* Settings written nested, under a dotted key and both, hostile values, a null section,
\* sections and settings of the wrong kind, a retired key, and a section nothing reads that
\* a dotted key runs through.
MCEntries ==
  { Plain("enabled", Flag(TRUE)),
    Plain("pace", Mapping([k \in {"weekly-weight", "shape"} |->
                             IF k = "shape" THEN Text("sigmoid") ELSE Number(-1)])),
    Plain("pace", Null), Plain("pace", Number(3)),
    Plain("quota", Mapping([k \in {"poll-interval"} |-> Number(0)])),
    Under("pace", "weekly-weight", Number(4)), Under("pace", "weekly-weight", Number(NaN)),
    Under("pace", "shape", Text("unset")), Under("pace", "shape", Number(1)),
    Under("pace", "curve-exponent", Number(2)),
    [path |-> <<"pace", "shape", "curve">>, node |-> Number(1)],
    Under("affinity", "override-threshold", Number(1)),
    Plain("old", Flag(TRUE)), Under("old", "key", Number(1)),
    Under("quota", "poll-interval", Number(20)), Under("quota", "poll-interval", Number(50)),
    Under("quota", "max-staleness", Number(10)), Under("web", "history-limit", Number(101)) }

\* What a block may leave Normalize to correct.
MCPaces ==
  { Defaults, [Defaults EXCEPT !.shape = "sigmoid", !.session = 1],
    [Defaults EXCEPT !.shape = "unset", !.exponent = 2],
    [Defaults EXCEPT !.weekly = -1, !.session = NaN, !.scoped = 300],
    [Defaults EXCEPT !.weekly = 0, !.session = -1, !.scoped = -2],
    [Defaults EXCEPT !.landing = 17, !.shape = "wavy", !.exponent = NaN] }

Reading(kind, cap, u, e, status) ==
  [kind |-> kind, scope |-> cap, util |-> u, open |-> e # 0, elapsed |-> e, status |-> status]

MCSessions ==
  { Reading("session", "", 0, 0, "allowed"), Reading("session", "", 3, 2, "allowed"),
    Reading("session", "", 4, 3, "allowed") }

MCWeeklies ==
  { Reading("weekly", "", 1, 1, "allowed"), Reading("weekly", "", 1, 3, "allowed"),
    Reading("weekly", "", 3, 3, "allowed"), Reading("weekly", "", NaN, 3, "allowed"),
    Reading("weekly", "", 2, 4, "rejected") }

MCCaps ==
  { Reading("scoped", "Opus", 0, 1, "allowed"), Reading("scoped", "Opus", 2, 3, "allowed"),
    Reading("scoped", "Opus", 4, 3, "allowed") }

Of(source, x, y, z, age) == [source |-> source, windows |-> x \cup y \cup z, age |-> age]
Perhaps(windows) == {{}} \cup {{w} : w \in windows}

\* Each window absent or any of its readings, without a weekly one of headers too, and a
\* reading too old to use.
MCSnapshots ==
  {Of("usage", x, y, z, 0) : x \in Perhaps(MCSessions), y \in Perhaps(MCWeeklies), z \in Perhaps(MCCaps)}
  \cup {Of("headers", x, {}, z, 0) : x \in Perhaps(MCSessions), z \in Perhaps(MCCaps)}
  \cup {Of("usage", {}, {y}, {}, 31) : y \in MCWeeklies}

RequestInit ==
  /\ part \in {"picks", "identity", "config", "pace", "log"}
  /\ Init /\ IdentityInit /\ ConfigInit /\ PaceInit /\ LogInit
  /\ part # "identity" => {style[c] : c \in Convs} = {"none"}
  /\ part # "pace" => pace = Normalize(Defaults) /\ family = "none"
  /\ part # "log" => Size = 1

RequestNext ==
  /\ UNCHANGED part
  /\ \/ part = "picks" /\ Next /\ UNCHANGED besideVars
     \/ part = "identity" /\ IdentityNext /\ UNCHANGED <<vars, configVars, paceVars, logVars>>
     \/ part = "config" /\ ConfigNext /\ UNCHANGED <<vars, identityVars, paceVars, logVars>>
     \/ part = "pace" /\ PaceNext /\ UNCHANGED <<vars, identityVars, configVars, logVars>>
     \/ part = "log" /\ LogNext /\ UNCHANGED <<vars, identityVars, configVars, paceVars>>

RequestSpec == RequestInit /\ [][RequestNext]_requestVars
=============================================================================
