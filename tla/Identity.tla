------------------------------ MODULE Identity ------------------------------
(***************************************************************************)
(* Which conversation a request belongs to, and how the pick learns it:    *)
(* Extract (internal/session/identity.go), the header index it reads       *)
(* (internal/httpx/headers.go), and the bridge headers the interceptor     *)
(* writes and the pick reads back (internal/runtime/intercept.go).         *)
(*                                                                         *)
(* A header map is a set of [name, spelling, values]: name is what every   *)
(* spelling of it folds to, and a lower spelling sorts first.  Blank       *)
(* stands for an absent, empty or whitespace-only string, and, in a body,  *)
(* for a field of the wrong type.  An id is a tuple, scoped by appending   *)
(* the agent's; a hash is the material it is taken of.                     *)
(*                                                                         *)
(* The clients are external: a conversation, its subagents, and another    *)
(* conversation, each sending the same identifiers on every turn under     *)
(* names and in shapes the code accepts.                                   *)
(***************************************************************************)
EXTENDS Naturals, Sequences, FiniteSetsExt

Lists == INSTANCE SequencesExt

CONSTANTS
  Blank,
  Styles,       \* the ways a client names its conversation
  MaxTurns      \* per conversation, a bound on its requests

ASSUME IdentityAssumption ==
  Styles \subseteq {"claude", "header", "shared", "nested", "suffixed", "field", "content", "none"}

VARIABLES
  style,        \* of the family "root", "child", "grand", and of "other"
  rootAgent,    \* what the family's root agent calls itself
  marked,       \* whether the system prompt carries a cache breakpoint
  turn,         \* per conversation, the requests it sent
  keys,         \* per conversation, the identity its first pick read
  flight        \* the last request: "sent", "intercepted" or "picked", with what Extract said of it

identityVars == <<style, rootAgent, marked, turn, keys, flight>>

NoIdentity == [key |-> <<>>, parent |-> <<>>, subagent |-> FALSE]
NoFlight == [at |-> "none"]
Convs == {"root", "child", "grand", "other"}

-----------------------------------------------------------------------------
(* httpx.NewIndex *)

FirstValue(values) ==
  LET given == {i \in DOMAIN values : values[i] # Blank}
  IN  IF given = {} THEN Blank ELSE values[Min(given)]

\* A mutation: the spelling visited last supplies the value.
VisitAnyOrder(idx, h) ==
  IF FirstValue(h.values) = Blank THEN idx
  ELSE {e \in idx : e.name # h.name}
         \cup {[name |-> h.name, spelling |-> h.spelling, value |-> FirstValue(h.values)]}

\* A map range visits one spelling; the one that sorts first supplies the value.
Visit(idx, h) ==
  IF \/ FirstValue(h.values) = Blank
     \/ \E e \in idx : e.name = h.name /\ e.spelling <= h.spelling
    THEN idx
    ELSE {e \in idx : e.name # h.name}
           \cup {[name |-> h.name, spelling |-> h.spelling, value |-> FirstValue(h.values)]}

NewIndex(order) ==
  LET idx[n \in 0 .. Len(order)] == IF n = 0 THEN {} ELSE Visit(idx[n - 1], order[n])
  IN  idx[Len(order)]

Get(idx, name) ==
  IF \E e \in idx : e.name = name
    THEN (CHOOSE e \in idx : e.name = name).value ELSE Blank

-----------------------------------------------------------------------------
(* identity.go *)

NoRaw == [key |-> Blank, parent |-> Blank, agent |-> Blank, source |-> Blank]
Raw(key, source) == [NoRaw EXCEPT !.key = key, !.source = source]

MainAgents == {<<"main">>, <<"MAIN">>}

\* A mutation: the root agent's name is matched in one case only.
isSubagentCased(agent) == agent # Blank /\ agent # <<"main">>

isSubagent(agent) == agent # Blank /\ agent \notin MainAgents

scope(id, agent) == IF isSubagent(agent) THEN id \o agent ELSE id

identity(raw) ==
  LET hash(material) == <<raw.source, material>>
      names == raw.parent # Blank /\ hash(raw.parent) # hash(raw.key)
  IN  IF raw.key = Blank THEN NoIdentity
      ELSE [key |-> hash(raw.key), parent |-> IF names THEN hash(raw.parent) ELSE <<>>,
            subagent |-> names \/ isSubagent(raw.agent)]

fromClaudeCodeHeaders(idx) ==
  LET session == Get(idx, "claude-session")
      agent == Get(idx, "claude-agent")
      parent == Get(idx, "claude-parent")
  IN  IF session = Blank THEN NoRaw
      ELSE [key |-> scope(session, agent), agent |-> agent, source |-> "claude-session",
            parent |-> IF parent # Blank THEN scope(session, parent)
                       ELSE IF isSubagent(agent) THEN session ELSE Blank]

\* The first of names that holds a value, under its own name.
FirstNamed(names, value) ==
  LET given == {i \in DOMAIN names : value[names[i]] # Blank}
      name == names[Min(given)]
  IN  IF given = {} THEN NoRaw ELSE Raw(value[name], name)

sessionHeaders == <<"session-id", "x-session-id", "x-conversation-id", "x-thread-id">>
fromSessionHeaders(idx) ==
  FirstNamed(sessionHeaders, [n \in Lists!ToSet(sessionHeaders) |-> Get(idx, n)])

\* metadata.user_id: an object, the same in a string, or an account string.
fromUserID(user) ==
  IF user.shape \in {"object", "quoted"} /\ user.session # Blank
    THEN [key |-> IF user.parent = Blank THEN scope(user.session, user.agent) ELSE user.session,
          parent |-> IF user.parent # Blank THEN user.parent
                     ELSE IF isSubagent(user.agent) THEN user.session ELSE Blank,
          agent |-> user.agent, source |-> "user_id"]
  ELSE IF user.shape = "suffixed" THEN Raw(user.session, "user_id-suffix")
  ELSE NoRaw

bodyFields ==
  <<"session_id", "sessionId", "metadata.session_id", "prompt_cache_key", "conversation_id", "thread_id">>
fromBodyIDs(fields) == FirstNamed(bodyFields, fields)

\* seq at the indices in keep.
Take(out, seq, keep, n) == IF n \in keep THEN Append(out, seq[n]) ELSE out

Chosen(seq, keep) ==
  LET out[n \in 0 .. Len(seq)] == IF n = 0 THEN <<>> ELSE Take(out[n - 1], seq, keep, n)
  IN  out[Len(seq)]

\* A block whose fields have the wrong types is skipped; what is neither a string nor an
\* array has no blocks.
blocksOf(content) ==
  CASE content.shape = "text" -> <<[type |-> "text", text |-> content.text, mark |-> FALSE]>>
    [] content.shape = "array" -> Chosen(content.entries,
                                        {i \in DOMAIN content.entries : content.entries[i].type # "mistyped"})
    [] OTHER -> <<>>

hasText(blocks) == \E i \in DOMAIN blocks : blocks[i].text # Blank

firstContentful(messages) ==
  LET texts == {i \in DOMAIN messages : hasText(blocksOf(messages[i].content))}
      users == {i \in texts : messages[i].role = "user"}
  IN  IF users # {} THEN <<messages[Min(users)]>>
      ELSE IF texts # {} THEN <<messages[Min(texts)]>> ELSE <<>>

markedBlocks(blocks) ==
  LET breakpoints == {i \in DOMAIN blocks : blocks[i].mark}
  IN  IF breakpoints = {} THEN blocks ELSE Chosen(blocks, breakpoints)

\* writeSection streams role, type and text.
Section(role, blocks) ==
  LET filled == Chosen(blocks, {i \in DOMAIN blocks : blocks[i].type # Blank \/ blocks[i].text # Blank})
  IN  [i \in DOMAIN filled |-> <<role, filled[i].type, filled[i].text>>]

fromContent(body) ==
  LET first == firstContentful(body.messages)
      system == blocksOf(body.system)
      source == IF \E i \in DOMAIN system : system[i].mark THEN "cache_control" ELSE "first-message"
  IN  IF first = <<>> THEN NoIdentity
      ELSE [NoIdentity EXCEPT !.key =
              <<source, Section("system", markedBlocks(system)),
                Section(first[1].role, blocksOf(first[1].content))>>]

\* The rules run in order and the first key wins.  A body that is no JSON has no key.
Extract(order, body) ==
  LET idx == NewIndex(order)
      raws == <<fromClaudeCodeHeaders(idx), fromSessionHeaders(idx)>>
                \o (IF body.json THEN <<fromUserID(body.user), fromBodyIDs(body.fields)>> ELSE <<>>)
      keyed == {i \in DOMAIN raws : raws[i].key # Blank}
  IN  IF keyed # {} THEN identity(raws[Min(keyed)])
      ELSE IF body.json THEN fromContent(body) ELSE NoIdentity

-----------------------------------------------------------------------------
(* intercept.go *)

bridgeHeaders == {"pacer-key", "pacer-parent", "pacer-subagent"}

\* A mutation: a request without an identity is answered with nothing to clear.
ClearHeadersFound(id) == IF id = NoIdentity THEN {} ELSE bridgeHeaders

\* Every response clears the bridge headers, the one without an identity too.
ClearHeaders(id) == bridgeHeaders

Header(name, value) == [name |-> name, spelling |-> 1, values |-> <<value>>]

SetHeaders(id) ==
  IF id.key = <<>> THEN {}
  ELSE {Header("pacer-key", id.key)}
       \cup (IF id.subagent THEN {Header("pacer-subagent", <<"1">>)} ELSE {})
       \cup (IF id.subagent /\ id.parent # <<>> THEN {Header("pacer-parent", id.parent)} ELSE {})

\* A payload that does not decode is answered like a request without an identity.  The
\* host clears, then merges (external).
interceptBefore(order, decodes) ==
  LET id == IF decodes THEN Extract(order, flight.body) ELSE NoIdentity
  IN  /\ flight.at = "sent"
      /\ flight' = [flight EXCEPT !.at = "intercepted", !.id = id,
                      !.headers = {h \in @ : h.name \notin ClearHeaders(id)} \cup SetHeaders(id)]
      /\ UNCHANGED <<style, rootAgent, marked, turn, keys>>

readBridge(order) ==
  LET idx == NewIndex(order)
      value(name) == IF Get(idx, name) = Blank THEN <<>> ELSE Get(idx, name)
  IN  [key |-> value("pacer-key"), parent |-> value("pacer-parent"),
       subagent |-> Get(idx, "pacer-subagent") = <<"1">>]

PickReads(order) ==
  LET read == readBridge(order)
      c == flight.conv
  IN  /\ flight.at = "intercepted"
      /\ keys' = IF keys[c] = NoIdentity THEN [keys EXCEPT ![c] = flight.id] ELSE keys
      /\ flight' = [at |-> "picked", conv |-> c, id |-> flight.id, read |-> read]
      /\ UNCHANGED <<style, rootAgent, marked, turn>>

-----------------------------------------------------------------------------
(* The clients: external *)

Agented == {"claude", "shared", "nested"}
Rule(s) == IF s = "nested" THEN "shared" ELSE s

\* Two conversations named under different fields may use the same string.
SessionOf(c) == IF c = "other" /\ Rule(style["root"]) = Rule(style["other"]) THEN <<"s2">> ELSE <<"s1">>

\* Its own conversation id where a subagent has one.
OwnSession(c) == CASE c = "child" -> <<"s3">> [] c = "grand" -> <<"s4">> [] OTHER -> SessionOf(c)

Agent(c) == CASE c = "child" -> <<"a1">> [] c = "grand" -> <<"a2">> [] c = "root" -> rootAgent [] OTHER -> Blank
ParentAgent(c) == CASE c = "child" -> rootAgent [] c = "grand" -> <<"a1">> [] OTHER -> Blank

ClientHeaders(c) ==
  CASE style[c] = "claude" ->
         {Header("claude-session", SessionOf(c)), Header("claude-agent", Agent(c)),
          Header("claude-parent", ParentAgent(c))}
    [] style[c] = "header" ->
         {[name |-> "x-session-id", spelling |-> 1, values |-> <<Blank, SessionOf(c)>>],
          [name |-> "x-session-id", spelling |-> 2, values |-> <<<<"s9">>>>],
          [name |-> "session-id", spelling |-> 1, values |-> <<Blank>>]}
    [] OTHER -> {}

UserID(c) ==
  CASE style[c] = "shared" -> [shape |-> "object", session |-> SessionOf(c), parent |-> Blank,
                               agent |-> Agent(c)]
    [] style[c] = "nested" -> [shape |-> "quoted", session |-> OwnSession(c), agent |-> Agent(c),
                               parent |-> CASE c = "child" -> SessionOf("root") [] c = "grand" -> OwnSession("child")
                                            [] OTHER -> Blank]
    [] style[c] = "suffixed" -> [shape |-> "suffixed", session |-> SessionOf(c), parent |-> Blank,
                                 agent |-> Blank]
    [] OTHER -> [shape |-> "none", session |-> Blank, parent |-> Blank, agent |-> Blank]

Block(type, text, mark) == [type |-> type, text |-> text, mark |-> mark]
Array(entries) == [shape |-> "array", entries |-> entries]

\* The system prompt ends in a block that changes every turn where a breakpoint goes
\* before it; the messages grow, with the last one a breakpoint.
ClientBody(c, n) ==
  [json |-> style[c] # "none", user |-> UserID(c),
   fields |-> [f \in Lists!ToSet(bodyFields) |->
                 IF style[c] = "field" /\ f = "conversation_id" THEN SessionOf(c) ELSE Blank],
   system |-> IF marked THEN Array(<<Block("text", <<"prompt">>, TRUE), Block("text", <<"now", n>>, FALSE)>>)
              ELSE [shape |-> "text", text |-> <<"prompt">>],
   messages |->
     <<[role |-> "user", content |-> Array(<<Block("mistyped", Blank, FALSE), Block("image", Blank, FALSE),
                                            Block("text", <<"hello">> \o OwnSession(c), n = 1)>>)]>>
     \o (IF n = 1 THEN <<>>
         ELSE <<[role |-> "assistant", content |-> [shape |-> "text", text |-> <<"answer">>]],
                [role |-> "user", content |-> Array(<<Block("text", <<"more", n>>, TRUE)>>)]>>)]

Names(c) == style[c] \in Agented \/ c \in {"root", "other"}

\* A client may send bridge headers of its own, another conversation's key among them.
Send(c, forged) ==
  LET n == turn[c] + 1
      own == IF forged THEN {Header("pacer-key", <<"forged">>), Header("pacer-parent", <<"forged">>),
                             Header("pacer-subagent", <<"1">>)} ELSE {}
  IN  /\ flight.at \in {"none", "picked"} /\ Names(c) /\ n <= MaxTurns[c]
      /\ turn' = [turn EXCEPT ![c] = n]
      /\ flight' = [at |-> "sent", conv |-> c, headers |-> ClientHeaders(c) \cup own,
                    body |-> ClientBody(c, n), id |-> NoIdentity]
      /\ UNCHANGED <<style, rootAgent, marked, keys>>

IdentityInit ==
  /\ style \in {[c \in Convs |-> IF c = "other" THEN o ELSE f] : f \in Styles, o \in Styles}
  /\ rootAgent \in IF style["root"] \in Agented THEN {<<"MAIN">>, Blank} ELSE {Blank}
  /\ marked \in BOOLEAN /\ (marked => "content" \in {style["root"], style["other"]})
  /\ turn = [c \in Convs |-> 0] /\ keys = [c \in Convs |-> NoIdentity]
  /\ flight = NoFlight

\* A map range has any order; what tells two apart is which of two spellings comes first.
IdentityNext ==
  \/ \E c \in Convs, forged \in BOOLEAN : Send(c, forged)
  \/ /\ flight.at \in {"sent", "intercepted"}
     /\ \E order \in {Lists!SetToSeq(flight.headers), Lists!Reverse(Lists!SetToSeq(flight.headers))} :
          \/ \E decodes \in BOOLEAN : interceptBefore(order, decodes)
          \/ PickReads(order)

IdentitySpec == IdentityInit /\ [][IdentityNext]_identityVars

-----------------------------------------------------------------------------
(* Properties *)

\* The pick reads the identity the plugin derived, and nothing a client wrote into the
\* bridge headers, whether or not the request had an identity or even decoded.
BridgeOwned == flight.at = "picked" => flight.read = flight.id

\* A conversation has one key, whatever its turn, the order its headers are visited in
\* and the breakpoints it moves, and shares it with no other conversation.
OneKeyEach ==
  /\ flight.at = "intercepted" /\ flight.id # NoIdentity /\ keys[flight.conv] # NoIdentity
       => flight.id = keys[flight.conv]
  /\ \A c, d \in Convs : c # d /\ keys[c] # NoIdentity => keys[c].key # keys[d].key

\* A subagent's request names as its parent the key an ancestor of it goes by, so the
\* binding it keeps alive and follows is a real one; a root names none.
Ancestors(c) == CASE c = "child" -> {"root"} [] c = "grand" -> {"root", "child"} [] OTHER -> {}

ParentIsReal ==
  \A c \in Convs :
    keys[c] # NoIdentity =>
      IF c \in {"child", "grand"}
        THEN keys[c].subagent /\ \E p \in Ancestors(c) : keys[p] = NoIdentity \/ keys[p].key = keys[c].parent
        ELSE ~keys[c].subagent /\ keys[c].parent = <<>>
=============================================================================
