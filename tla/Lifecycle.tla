------------------------------ MODULE Lifecycle -----------------------------
(***************************************************************************)
(* The bindings across builds and runs: configure, the quiesce of dispatch *)
(* and Shutdown (internal/runtime/plugin.go, poller.go), saveBindings and  *)
(* restoreBindings (internal/runtime/bindingsfile.go).                     *)
(*                                                                         *)
(* The host may replace a build by another without ending the process: it  *)
(* quiesces the old build, registers the new one and, when that fails,     *)
(* reconfigures the old.  A build's image keeps its memory until the       *)
(* process ends, also after it was shut down, and the host may load it     *)
(* again.  The host shuts a replaced build down late, after the build that *)
(* replaced it.  All builds share one bindings file.                       *)
(*                                                                         *)
(* A table is a partial function from conversation to seat; expiry and the *)
(* cap are the subject of SessionStore.  The poll loop that quiesce and    *)
(* Shutdown stop first is the subject of Poller.  A pick is routed to the  *)
(* live build only.                                                        *)
(***************************************************************************)
EXTENDS FiniteSets, Functions

CONSTANTS
  Builds,         \* images of the plugin
  Conversations,
  Seats,
  Shapes          \* the TTL and cap of the config the table is built with

None == "none"

ASSUME LifecycleAssumption == None \notin Builds \cup Shapes /\ Shapes # {}

Empty == [k \in {} |-> k]

\* What a config block says of the table: its shape, and persistsBindings.
Configs == [shape : Shapes, persist : BOOLEAN]

\* A build no configure has reached.
Fresh ==
  [has |-> FALSE, table |-> Empty, shape |-> None, persist |-> FALSE, handedOver |-> FALSE]

VARIABLES
  mem,      \* the memory of each image
  live,     \* the build the host routes to
  quiesced, \* the build the host has quiesced for a replacement it is loading
  bindings, \* the bindings file, Empty when there is none to restore
  cause,    \* history: why the last step was taken
  sound     \* history: the file still holds what the last stop left in it

lifecycleVars == <<mem, live, quiesced, bindings, cause, sound>>

LifecycleInit ==
  /\ mem = [b \in Builds |-> Fresh]
  /\ live = None /\ quiesced = None
  /\ bindings = Empty
  /\ cause = "planned" /\ sound = TRUE

Tables == UNION {[d -> Seats] : d \in SUBSET Conversations}

-----------------------------------------------------------------------------
(* What the plugin does *)

\* applyConfig: the table is rebuilt when its TTL or cap changes.
ApplyConfig(m, c) ==
  [m EXCEPT !.table = IF m.has /\ m.shape = c.shape THEN @ ELSE Empty,
            !.has = TRUE, !.shape = c.shape, !.persist = c.persist]

\* restoreBindings: the file's table replaces the one the image held.
RestoreBindings(m) == IF m.persist THEN [m EXCEPT !.table = bindings] ELSE m

\* configure: a register restores, and so does a build's first configure.
Configured(m, c, register) ==
  LET applied == ApplyConfig(m, c)
      restored == IF register \/ ~m.has THEN RestoreBindings(applied) ELSE applied
  IN  [restored EXCEPT !.handedOver = FALSE]

\* saveBindings: the file is written, or removed where none is kept; a build
\* no configure has reached leaves it alone.  A failed write or remove also
\* leaves the file as it was and is dropped.
SaveBindings(m) ==
  IF ~m.has THEN UNCHANGED <<bindings, sound>>
  ELSE \/ bindings' = (IF m.persist THEN m.table ELSE Empty) /\ sound' = TRUE
       \/ bindings' = bindings /\ sound' = FALSE

\* A mutation: a shutdown always saves.
ShutdownSavesAlways(m) == SaveBindings(m)

\* Shutdown saves unless the build has been handed over.
ShutdownSaves(m) ==
  IF m.handedOver THEN UNCHANGED <<bindings, sound>> ELSE SaveBindings(m)

-----------------------------------------------------------------------------
(* What the host asks for *)

\* A plugin.register of a build while none is live.
Register(b, c) ==
  /\ live = None /\ b # quiesced
  /\ mem' = [mem EXCEPT ![b] = Configured(mem[b], c, TRUE)]
  /\ live' = b /\ quiesced' = None
  /\ cause' = "planned"
  /\ UNCHANGED <<bindings, sound>>

\* The register call of a build new to this process fails in the host, which
\* counts it registered all the same and sends it a reconfigure.
RegisterLost(b, c) ==
  /\ live = None /\ b # quiesced /\ ~mem[b].has
  /\ mem' = [mem EXCEPT ![b] = Configured(mem[b], c, FALSE)]
  /\ live' = b /\ quiesced' = None
  /\ cause' = "planned"
  /\ UNCHANGED <<bindings, sound>>

\* A config reload; one that changes the TTL or the cap discards the bindings.
Reconfigure(c) ==
  /\ live # None
  /\ mem' = [mem EXCEPT ![live] = Configured(mem[live], c, FALSE)]
  /\ cause' = IF mem[live].shape = c.shape THEN "planned" ELSE "reshape"
  /\ UNCHANGED <<live, quiesced, bindings, sound>>

\* The live build is about to be replaced.
Quiesce ==
  /\ live # None
  /\ mem' = [mem EXCEPT ![live].handedOver = TRUE]
  /\ SaveBindings(mem[live])
  /\ quiesced' = live /\ live' = None
  /\ cause' = "planned"

\* The replacement failed to load: the quiesced build is reconfigured.
RollBack(c) ==
  /\ quiesced # None
  /\ mem' = [mem EXCEPT ![quiesced] = Configured(mem[quiesced], c, FALSE)]
  /\ live' = quiesced /\ quiesced' = None
  /\ cause' = IF mem[quiesced].shape = c.shape THEN "planned" ELSE "reshape"
  /\ UNCHANGED <<bindings, sound>>

\* plugin.shutdown of a build: the live one, or one that was replaced.  The
\* build a replacement is being loaded for stays up for a roll back.
Shutdown(b) ==
  /\ b # quiesced
  /\ ShutdownSaves(mem[b])
  /\ mem' = [mem EXCEPT ![b].handedOver = TRUE]
  /\ live' = IF live = b THEN None ELSE live
  /\ cause' = "planned"
  /\ UNCHANGED quiesced

\* The process ends, after its shutdowns or before them, and another starts.
NewProcess ==
  /\ mem' = [b \in Builds |-> Fresh]
  /\ live' = None /\ quiesced' = None
  /\ cause' = IF live = None THEN "planned" ELSE "crash"
  /\ UNCHANGED <<bindings, sound>>

\* The file is lost or made unreadable: a restore starts empty.
SpoilFile ==
  /\ bindings # Empty
  /\ bindings' = Empty /\ sound' = FALSE
  /\ cause' = "spoilt"
  /\ UNCHANGED <<mem, live, quiesced>>

\* A pick of the live build binds a conversation.
Bind(k, s) ==
  /\ live # None
  /\ mem' = [mem EXCEPT ![live].table = [x \in DOMAIN @ \cup {k} |-> IF x = k THEN s ELSE @[x]]]
  /\ cause' = "bound"
  /\ UNCHANGED <<live, quiesced, bindings, sound>>

LifecycleNext ==
  \/ \E b \in Builds, c \in Configs : Register(b, c) \/ RegisterLost(b, c)
  \/ \E c \in Configs : Reconfigure(c) \/ RollBack(c)
  \/ Quiesce
  \/ \E b \in Builds : Shutdown(b)
  \/ NewProcess \/ SpoilFile
  \/ \E k \in Conversations, s \in Seats : Bind(k, s)

LifecycleSpec == LifecycleInit /\ [][LifecycleNext]_lifecycleVars

-----------------------------------------------------------------------------
(* Properties *)

\* Type invariant: an image holds a table exactly from its first configure, the
\* shape recorded beside it, and the file a table.
BuildsTypeOK ==
  /\ mem \in [Builds -> [has : BOOLEAN, table : Tables, shape : Shapes \cup {None},
                         persist : BOOLEAN, handedOver : BOOLEAN]]
  /\ \A b \in Builds : mem[b].has <=> mem[b].shape # None
  /\ live \in Builds \cup {None} /\ quiesced \in Builds \cup {None}
  /\ bindings \in Tables
  /\ sound \in BOOLEAN

\* Exactly the live build saves at its shutdown: one that was replaced or shut
\* down never writes over its successor's file, and one that came back, by a
\* roll back or because its image was loaded again, saves once more.
OneSaver == \A b \in Builds : (mem[b].has /\ ~mem[b].handedOver) <=> live = b

\* The homes of the conversations: the live build's table or, between builds,
\* what the next one will restore.
Homes == IF live = None THEN bindings ELSE mem[live].table

\* The build that holds the homes keeps bindings on disk.
Persists ==
  LET b == IF live # None THEN live ELSE quiesced IN b # None => mem[b].persist

\* Where bindings are kept on disk, no planned step of the host changes a
\* conversation's home: not a replacement, a roll back, an image loaded again
\* over its old memory, a late shutdown of a replaced build, nor a stop and a
\* restart of the process.
HomesSurvive ==
  [][cause' = "planned" /\ Persists /\ Persists' /\ sound /\ sound' => Homes' = Homes]_lifecycleVars
=============================================================================
