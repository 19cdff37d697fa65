------------------------------- MODULE Config -------------------------------
(***************************************************************************)
(* The operator's config: decodeConfig (internal/runtime/config.go), which *)
(* expands dotted keys and decodes a block, and hands what it read to      *)
(* Normalize (ConfigLimits).                                               *)
(*                                                                         *)
(* A block is the sequence of its top-level entries, each a path (of one   *)
(* segment unless its key holds a dot) and a YAML node.                    *)
(***************************************************************************)
EXTENDS ConfigLimits, FiniteSetsExt, SequencesExt

CONSTANTS
  Entries,     \* the entries an operator writes
  MaxEntries   \* bound on a block's

ASSUME EntriesAssumption ==
  \A e \in Entries : e.path \in Seq(STRING) /\ e.path # <<>>

VARIABLES
  block,       \* the plugin's block in the host's config file
  config,      \* what the last reconfigure made of it
  warnings

configVars == <<block, config, warnings>>

-----------------------------------------------------------------------------
(* Nodes and the paths of the settings *)

Number(n) == [kind |-> "number", number |-> n]
Text(s) == [kind |-> "text", text |-> s]
Flag(b) == [kind |-> "flag", flag |-> b]
Mapping(at) == [kind |-> "mapping", at |-> at]
Null == [kind |-> "null"]
NoKeys == [k \in {} |-> Null]

\* The settings a block may name, each with its path and kind; the lists of providers and
\* models are left out.
Settings ==
  [enabled |-> <<"enabled">>, ttl |-> <<"affinity", "ttl">>, maxSessions |-> <<"affinity", "max-sessions">>,
   shape |-> <<"pace", "shape">>, exponent |-> <<"pace", "curve-exponent">>,
   steepness |-> <<"pace", "steepness">>, landing |-> <<"pace", "landing-target">>,
   weekly |-> <<"pace", "weekly-weight">>, session |-> <<"pace", "session-weight">>,
   scoped |-> <<"pace", "scoped-weight">>, poll |-> <<"quota", "poll-interval">>,
   timeout |-> <<"quota", "request-timeout">>, staleness |-> <<"quota", "max-staleness">>,
   url |-> <<"quota", "usage-url">>, limit |-> <<"web", "history-limit">>]

KindOf(f) == IF f = "enabled" THEN "flag" ELSE IF f \in {"shape", "url"} THEN "text" ELSE "number"

ValueOf(node) ==
  CASE node.kind = "number" -> node.number [] node.kind = "text" -> node.text [] node.kind = "flag" -> node.flag

-----------------------------------------------------------------------------
(* expandDottedKeys and decodeYAML *)

HasKey(node, key) == node.kind = "mapping" /\ key \in DOMAIN node.at

Assoc(m, key, node) == Mapping([k \in DOMAIN m.at \cup {key} |-> IF k = key THEN node ELSE m.at[k]])

\* The node key leads to; Null where it leads nowhere.
Child(node, key) == IF HasKey(node, key) THEN node.at[key] ELSE Null

\* The node the steps of path after the i-th lead to.
NodeFrom(node, path, i) ==
  LET at[n \in i .. Len(path)] == IF n = i THEN node ELSE Child(at[n - 1], path[n])
  IN  at[Len(path)]

NodeAt(node, path) == NodeFrom(node, path, 0)

hasPath(node, path) ==
  \/ path = <<>>
  \/ HasKey(NodeAt(node, Front(path)), Last(path))

Broken == [kind |-> "broken"]

\* An absent or null step of a path is an empty mapping.
Opened(m, key) == IF Child(m, key).kind = "null" THEN Mapping(NoKeys) ELSE Child(m, key)

\* m with value at path; a step that is not a mapping breaks the block.
Put(m, path, value) ==
  LET last == Len(path)
      step[n \in 0 .. last - 1] == IF n = 0 THEN m ELSE Opened(step[n - 1], path[n])
      put[n \in 0 .. last] ==
        IF n = 0 THEN value ELSE Assoc(step[last - n], path[last - n + 1], put[n - 1])
  IN  IF \E n \in 1 .. last - 1 : step[n].kind # "mapping" THEN Broken ELSE put[last]

\* The nested value a dotted key overrides, unless written alike or dotted itself.
Overrides(s, e) ==
  /\ hasPath(s.root, e.path) /\ e.path \notin s.dotted
  /\ NodeAt(s.root, e.path) # e.node

\* A dotted value goes where one at an outer path, or a mapping for a null, takes its place.
Replaced(s, e) ==
  {p \in s.dotted : \/ IsStrictPrefix(e.path, p)
                    \/ IsStrictPrefix(p, e.path) /\ NodeAt(s.root, p).kind = "null"}

Expand(s, e) ==
  IF s.root = Broken THEN s
  ELSE [root |-> Put(s.root, e.path, e.node),
        dotted |-> (s.dotted \ Replaced(s, e)) \cup {e.path},
        warned |-> s.warned \cup (IF Overrides(s, e) THEN {e.path} ELSE {})]

Dotted(e) == Len(e.path) > 1

Unexpanded(root) == [root |-> root, dotted |-> {}, warned |-> {}]

Root(entries) ==
  LET plain == {e \in ToSet(entries) : ~Dotted(e)}
  IN  Mapping([k \in {e.path[1] : e \in plain} |-> (CHOOSE e \in plain : e.path[1] = k).node])

\* A mutation: every key is set where it stands in the block.
expandDottedKeysInPlace(entries) ==
  LET at[n \in 0 .. Len(entries)] ==
        IF n = 0 THEN Unexpanded(Mapping(NoKeys)) ELSE Expand(at[n - 1], entries[n])
  IN  at[Len(entries)]

\* The dotted keys apply after every other key, in their order.
expandDottedKeys(entries) ==
  LET at[n \in 0 .. Len(entries)] ==
        IF n = 0 THEN Unexpanded(Root(entries))
        ELSE IF Dotted(entries[n]) THEN Expand(at[n - 1], entries[n]) ELSE at[n - 1]
  IN  at[Len(entries)]

retiredKeys == {<<"affinity", "override-threshold">>, <<"pace", "hysteresis-margin">>}

\* A section that is a scalar, or a setting of another kind, does not decode.
Decodes(root) ==
  /\ \A section \in {Front(Settings[f]) : f \in DOMAIN Settings} : NodeAt(root, section).kind \in {"mapping", "null"}
  /\ \A f \in DOMAIN Settings : NodeAt(root, Settings[f]).kind \in {KindOf(f), "null"}

Decoded(root) ==
  [f \in DOMAIN Defaults |->
     IF f \in DOMAIN Settings /\ NodeAt(root, Settings[f]).kind # "null"
       THEN ValueOf(NodeAt(root, Settings[f])) ELSE Defaults[f]]

-----------------------------------------------------------------------------
(* decodeConfig *)

inert == [config |-> Defaults, warnings |-> {}]

decodeConfig(entries) ==
  LET s == expandDottedKeys(entries)
      read == Decoded(s.root)
  IN  IF s.root = Broken THEN inert
      ELSE IF ~Decodes(s.root) THEN inert
      ELSE [config |-> Normalize(read),
            warnings |-> s.warned \cup {p \in retiredKeys : hasPath(s.root, p)} \cup {<<f>> : f \in Clamped(read)}]

\* The operator, or the host's settings page, adds an entry (external); a plain key is
\* not written twice, a dotted one may be.
Edit(e) ==
  /\ Len(block) < MaxEntries
  /\ Dotted(e) \/ e.path \notin {b.path : b \in ToSet(block)}
  /\ block' = Append(block, e)
  /\ UNCHANGED <<config, warnings>>

Configure ==
  /\ LET decoded == decodeConfig(block)
     IN  config' = decoded.config /\ warnings' = decoded.warnings
  /\ UNCHANGED block

ConfigInit == block = <<>> /\ config = Defaults /\ warnings = {}

ConfigNext == Configure \/ \E e \in Entries : Edit(e)

ConfigSpec == ConfigInit /\ [][ConfigNext]_configVars

-----------------------------------------------------------------------------
(* Properties *)

\* What a block says of a setting: its last dotted key, else the nested value.
Said(entries, path) ==
  LET given == {n \in DOMAIN entries : Dotted(entries[n]) /\ entries[n].path = path}
  IN  IF given # {} THEN entries[Max(given)].node ELSE NodeAt(Root(entries), path)

\* An entry that gives a setting, or a section it stands in, the wrong kind, or that goes
\* on below a setting.
Faulty(e) ==
  \E f \in DOMAIN Settings :
    LET path == Settings[f]
        kinds(n) == {"null", IF n = Len(path) THEN KindOf(f) ELSE "mapping"}
    IN  \/ IsPrefix(e.path, path)
           /\ \E n \in Len(e.path) .. Len(path) :
                NodeFrom(e.node, SubSeq(path, 1, n), Len(e.path)).kind \notin kinds(n)
        \/ IsStrictPrefix(path, e.path)

\* A dotted key whose path runs through what an entry before it, or a nested one, says is
\* no mapping.
Clash(entries) ==
  \E i, j \in DOMAIN entries :
    /\ Dotted(entries[i]) /\ (j < i \/ ~Dotted(entries[j]))
    /\ \E n \in Len(entries[j].path) .. Len(entries[i].path) - 1 :
         LET step == SubSeq(entries[i].path, 1, n)
         IN  /\ IsPrefix(entries[j].path, step)
             /\ NodeFrom(entries[j].node, step, Len(entries[j].path)).kind \notin {"mapping", "null"}

\* A dotted key wins over the same setting written nested, and the last dotted one over
\* the others, wherever they stand in the block; what is not said keeps its default; and
\* a block leaves the plugin inert only when an entry of it is at fault or two clash.
DottedWins ==
  [][config' # config \/ warnings' # warnings =>
       \/ config' = Defaults /\ ((\E e \in ToSet(block) : Faulty(e)) \/ Clash(block))
       \/ config' = Normalize([f \in DOMAIN Defaults |->
            IF f \in DOMAIN Settings /\ Said(block, Settings[f]).kind # "null"
              THEN ValueOf(Said(block, Settings[f])) ELSE Defaults[f]])]_configVars
=============================================================================
