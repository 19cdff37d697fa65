----------------------------- MODULE StopProofs ------------------------------
(***************************************************************************)
(* Proofs about a stop and what outlives it: the history file, the         *)
(* bindings file across builds, and the host calls a shutdown drains, each *)
(* for every value of its constants. A save that another writer's version  *)
(* does not match covers neither the store nor the file, so the first      *)
(* invariant says at every stage what the copy covers. A build waiting for *)
(* its replacement has no live build beside it and, when its save          *)
(* succeeded, the file holds its table: only then does a roll back, which  *)
(* keeps the table in memory, agree with what a register would have        *)
(* restored. The tracker counts the goroutines that have begun and not     *)
(* ended, and its newest channel is closed exactly while there are none: a *)
(* drain whose channel is closed saw only goroutines that have ended, and  *)
(* one that has ended never runs again.                                    *)
(***************************************************************************)
EXTENDS HistoryFile, Lifecycle, HostCalls, FiniteSetTheorems, TLAPS

------------------------------------------------------------------------------
(* The history file *)

\* The facts of the sections a save has copied by the time it is at pc.
Copied(pc) ==
  CASE pc = "logins" -> {}
    [] pc = "histories" -> Logins
    [] pc = "readings" -> Logins \cup Histories
    [] OTHER -> Facts

\* The load came first: a run that has loaded holds all the file holds, and one
\* that has not holds only that and what it recorded early.
LoadFirst ==
  /\ loaded \/ op.pc = "loaded" => file.kind \in {"absent", "ours"}
  /\ loaded \/ op.pc = "loaded" => file.facts \subseteq store
  /\ op.pc = "loaded" => ~loaded
  /\ op.pc \notin {"idle", "loaded"} => loaded
  /\ ~loaded => store \subseteq early \cup file.facts

\* The copy a save is making covers the file it will replace and, unless a
\* record came since its version was read, the store.
CopyCovers ==
  /\ op.pc \in {"logins", "histories", "readings", "write", "written"} =>
       op.version <= version
  /\ op.pc \in {"logins", "histories", "readings", "write"} =>
       /\ file.facts \cap Copied(op.pc) \subseteq op.got
       /\ op.version = version => store \cap Copied(op.pc) \subseteq op.got
  /\ op.pc = "written" /\ op.version = version => store \subseteq file.facts

\* The copy holds nothing the store does not.
Grown == op.got \subseteq store

FileIInv == TypeOK /\ LoadFirst /\ CopyCovers /\ Grown /\ saved <= version /\ SavedHeld

-----------------------------------------------------------------------------
LEMMA OpFields ==
  ASSUME TypeOK
  PROVE  /\ op.pc \in Places /\ op.version \in Nat /\ op.got \subseteq Facts
         /\ file.facts \subseteq Facts
         /\ file.kind # "ours" => file.facts = {}
BY DEF TypeOK, Ours, Absent, Newer, Corrupt

LEMMA AtFields ==
  ASSUME NEW pc \in Places, NEW v \in Nat, NEW got \in SUBSET Facts
  PROVE  /\ At(pc, v, got) \in [pc : Places, version : Nat, got : SUBSET Facts]
         /\ At(pc, v, got).pc = pc /\ At(pc, v, got).version = v /\ At(pc, v, got).got = got
BY DEF At

LEMMA IdleOp == Idle \in [pc : Places, version : Nat, got : SUBSET Facts] /\ Idle.pc = "idle" /\ Idle.got = {}
BY AtFields DEF Idle, Places

\* A load that has its file: at "loaded", before historyLoaded is set.
LEMMA LoadedOp ==
  /\ At("loaded", 0, {}) \in [pc : Places, version : Nat, got : SUBSET Facts]
  /\ At("loaded", 0, {}).pc = "loaded" /\ At("loaded", 0, {}).got = {}
BY AtFields DEF Places

LEMMA FileInitOK == Init => FileIInv
<1> SUFFICES ASSUME Init PROVE FileIInv
  OBVIOUS
<1>1. persist \in BOOLEAN /\ loaded \in BOOLEAN /\ refused \in BOOLEAN
  BY Zenon DEF Init
<1>2. TypeOK
  BY <1>1, IdleOp DEF Init, TypeOK
<1> QED
  BY <1>2, IdleOp DEF Init, FileIInv, LoadFirst, CopyCovers, Grown, SavedHeld

LEMMA RecordKeeps ==
  ASSUME FileIInv, NEW f \in Facts, Record(f)
  PROVE  FileIInv'
<1>1. TypeOK'
  BY DEF FileIInv, TypeOK, Record
<1>2. version' = version + 1 /\ version \in Nat /\ store \subseteq store' /\ op' = op /\ file' = file /\ loaded' = loaded
  BY DEF FileIInv, TypeOK, Record
<1>3. LoadFirst'
  BY <1>2 DEF FileIInv, LoadFirst, Record
<1>4. CopyCovers' /\ Grown' /\ (saved <= version)' /\ SavedHeld'
  BY <1>2, OpFields DEF FileIInv, TypeOK, CopyCovers, Grown, SavedHeld, Record
<1> QED
  BY <1>1, <1>3, <1>4 DEF FileIInv

LEMMA SwitchPersistKeeps ==
  ASSUME FileIInv, SwitchPersist
  PROVE  FileIInv'
<1>1. persist' \in BOOLEAN
  BY Zenon DEF SwitchPersist
<1> QED
  BY <1>1 DEF FileIInv, TypeOK, LoadFirst, CopyCovers, Grown, SavedHeld, SwitchPersist

LEMMA LoadFileKeeps ==
  ASSUME FileIInv, LoadFile
  PROVE  FileIInv'
<1>1. /\ op' \in [pc : Places, version : Nat, got : SUBSET Facts] /\ op'.pc = "loaded"
      /\ op'.got = {} /\ ~loaded /\ version' \in Nat /\ version <= version'
  BY LoadedOp DEF LoadFile, LoadPending, FileIInv, TypeOK
<1>2. TypeOK'
  BY <1>1, OpFields DEF FileIInv, TypeOK, LoadFile
<1>3. LoadFirst'
  BY <1>1 DEF FileIInv, LoadFirst, LoadFile
<1> QED
  BY <1>1, <1>2, <1>3 DEF FileIInv, TypeOK, CopyCovers, Grown, SavedHeld, LoadFile

LEMMA SetAsideKeeps ==
  ASSUME FileIInv, SetAside
  PROVE  FileIInv'
<1>1. /\ op' \in [pc : Places, version : Nat, got : SUBSET Facts] /\ op'.pc = "loaded" /\ ~loaded
      /\ op'.got = {} /\ file.facts = {} /\ file'.facts = {} /\ file'.kind = "absent" /\ file' = Absent
  BY LoadedOp, OpFields DEF SetAside, LoadPending, FileIInv, Absent
<1>2. TypeOK'
  BY <1>1 DEF FileIInv, TypeOK, SetAside
<1> QED
  BY <1>1, <1>2 DEF FileIInv, LoadFirst, CopyCovers, Grown, SavedHeld, SetAside

LEMMA RefuseNewerKeeps ==
  ASSUME FileIInv, RefuseNewer
  PROVE  FileIInv'
<1>1. refused' \in BOOLEAN
  BY Zenon DEF RefuseNewer
<1> QED
  BY <1>1 DEF FileIInv, TypeOK, LoadFirst, CopyCovers, Grown, SavedHeld, RefuseNewer

LEMMA MarkLoadedKeeps ==
  ASSUME FileIInv, MarkLoaded
  PROVE  FileIInv'
<1>1. loaded' /\ loaded' \in BOOLEAN
  BY Zenon DEF MarkLoaded
<1>2. op' = Idle /\ op'.pc = "idle" /\ op'.got = {} /\ ~loaded /\ file.facts \subseteq store
  BY IdleOp DEF MarkLoaded, FileIInv, LoadFirst
<1>3. TypeOK'
  BY <1>1, IdleOp DEF FileIInv, TypeOK, MarkLoaded
<1> QED
  BY <1>1, <1>2, <1>3 DEF FileIInv, TypeOK, LoadFirst, CopyCovers, Grown, SavedHeld, MarkLoaded

LEMMA SaveBeginKeeps ==
  ASSUME FileIInv, SaveBegin
  PROVE  FileIInv'
<1>1. /\ op' \in [pc : Places, version : Nat, got : SUBSET Facts]
      /\ op'.pc = "logins" /\ op'.version = version /\ op'.got = {}
  <2>1. version \in Nat /\ "logins" \in Places /\ {} \in SUBSET Facts
    BY DEF FileIInv, TypeOK, Places
  <2> QED
    BY <2>1, AtFields DEF SaveBegin
<1>2. TypeOK'
  BY <1>1 DEF FileIInv, TypeOK, SaveBegin
<1>3. loaded /\ Copied("logins") = {}
  BY DEF SaveBegin, Copied
<1>4. LoadFirst' /\ SavedHeld' /\ Grown' /\ (saved <= version)'
  BY <1>1, <1>3 DEF FileIInv, LoadFirst, SavedHeld, Grown, SaveBegin
<1>5. CopyCovers'
  BY <1>1, <1>3 DEF FileIInv, TypeOK, CopyCovers, SaveBegin
<1> QED
  BY <1>2, <1>4, <1>5 DEF FileIInv

\* One section of the copy: next is the place after it.
LEMMA ExportKeeps ==
  ASSUME FileIInv, NEW at \in {"logins", "histories", "readings"}, NEW section, NEW next,
         Export(at, section, next),
         next \in {"histories", "readings", "write"},
         Copied(next) = Copied(at) \cup section, section \subseteq Facts
  PROVE  FileIInv'
<1> DEFINE got == op.got \cup (store \cap section)
<1>1. /\ op.pc = at /\ op.version \in Nat /\ got \in SUBSET Facts /\ loaded
      /\ file.facts \subseteq store /\ next \in Places
  BY OpFields DEF Export, FileIInv, LoadFirst, TypeOK, Places
<1>2. /\ op' \in [pc : Places, version : Nat, got : SUBSET Facts]
      /\ op'.pc = next /\ op'.version = op.version /\ op'.got = got
  BY <1>1, AtFields DEF Export
<1>3. TypeOK'
  BY <1>2 DEF FileIInv, TypeOK, Export
<1>4. LoadFirst' /\ SavedHeld' /\ Grown' /\ (saved <= version)'
  BY <1>1, <1>2 DEF FileIInv, LoadFirst, SavedHeld, Grown, Export
<1>5. CopyCovers'
  BY <1>1, <1>2 DEF FileIInv, CopyCovers, Export
<1> QED
  BY <1>3, <1>4, <1>5 DEF FileIInv

LEMMA ExportsKeep ==
  ASSUME FileIInv, ExportLogins \/ ExportHistory \/ ExportReadings
  PROVE  FileIInv'
<1>1. /\ Copied("histories") = Copied("logins") \cup Logins
      /\ Copied("readings") = Copied("histories") \cup Histories
      /\ Copied("write") = Copied("readings") \cup Readings
  BY DEF Copied, Facts
<1>2. Logins \subseteq Facts /\ Histories \subseteq Facts /\ Readings \subseteq Facts
  BY DEF Facts
<1> QED
  BY <1>1, <1>2, ExportKeeps DEF ExportLogins, ExportHistory, ExportReadings

LEMMA WriteFileKeeps ==
  ASSUME FileIInv, WriteFile
  PROVE  FileIInv' /\ (file' # file => file.facts \subseteq file'.facts)
<1>1. /\ op.pc = "write" /\ op.version \in Nat /\ op.got \in SUBSET Facts /\ loaded
      /\ file.facts \subseteq op.got /\ store \subseteq Facts
      /\ op.version <= version
      /\ op.version = version => store \subseteq op.got
  <2>1. Copied("write") = Facts
    BY DEF Copied
  <2> QED
    BY <2>1, OpFields DEF WriteFile, FileIInv, LoadFirst, CopyCovers, TypeOK
<1>2. CASE file' = Ours(op.got) /\ op' = At("written", op.version, op.got)
  <2>1. /\ op' \in [pc : Places, version : Nat, got : SUBSET Facts]
        /\ op'.pc = "written" /\ op'.version = op.version /\ op'.got = op.got
    BY <1>1, <1>2, AtFields DEF Places
  <2>2. file'.kind = "ours" /\ file'.facts = op.got
    BY <1>2 DEF Ours
  <2>3. TypeOK'
    BY <1>1, <1>2, <2>1 DEF FileIInv, TypeOK, WriteFile
  <2>4. op.got \subseteq store
    BY <1>1 DEF FileIInv, Grown
  <2> QED
    BY <1>1, <2>1, <2>2, <2>3, <2>4 DEF FileIInv, LoadFirst, CopyCovers, Grown, SavedHeld, WriteFile
<1>3. CASE file' = file /\ op' = Idle
  BY <1>1, <1>3, IdleOp DEF FileIInv, TypeOK, LoadFirst, CopyCovers, Grown, SavedHeld, WriteFile
<1> QED
  BY <1>2, <1>3 DEF WriteFile

LEMMA MarkSavedKeeps ==
  ASSUME FileIInv, MarkSaved
  PROVE  FileIInv'
<1>1. /\ op.pc = "written" /\ op.version \in Nat /\ op.version <= version /\ loaded
      /\ op.version = version => store \subseteq file.facts
  BY OpFields DEF MarkSaved, FileIInv, CopyCovers, LoadFirst
<1>2. TypeOK'
  BY <1>1, IdleOp DEF FileIInv, TypeOK, MarkSaved
<1> QED
  BY <1>1, <1>2, IdleOp DEF FileIInv, LoadFirst, CopyCovers, Grown, SavedHeld, MarkSaved

LEMMA RestartKeeps ==
  ASSUME FileIInv, Restart
  PROVE  FileIInv'
<1>1. loaded' = FALSE /\ loaded' \in BOOLEAN /\ refused' \in BOOLEAN /\ persist' \in BOOLEAN
  BY Zenon DEF Restart
<1>2. file' \in {Absent, Newer, Corrupt} \cup {Ours(s) : s \in SUBSET Facts}
  BY DEF Restart, FileIInv, TypeOK
<1>3. TypeOK'
  BY <1>1, <1>2, IdleOp DEF TypeOK, Restart
<1> QED
  BY <1>1, <1>3, IdleOp DEF FileIInv, LoadFirst, CopyCovers, Grown, SavedHeld, Restart

-----------------------------------------------------------------------------
LEMMA FileStepOK == FileIInv /\ [Next]_vars => FileIInv'
<1>1. FileIInv /\ UNCHANGED vars => FileIInv'
  BY DEF vars, FileIInv, TypeOK, LoadFirst, CopyCovers, Grown, SavedHeld
<1> QED
  BY <1>1, RecordKeeps, SwitchPersistKeeps, LoadFileKeeps, SetAsideKeeps, RefuseNewerKeeps,
     MarkLoadedKeeps, SaveBeginKeeps, ExportsKeep, WriteFileKeeps, MarkSavedKeeps, RestartKeeps
  DEF Next

LEMMA FileInvariance == Spec => []FileIInv
BY FileInitOK, FileStepOK, PTL DEF Spec

\* The only steps that change the file, and what they find.
LEMMA FileChanges ==
  ASSUME FileIInv, [Next]_vars, file' # file
  PROVE  \/ file.kind = "corrupt"
         \/ file.kind \in {"absent", "ours"} /\ file.facts \subseteq file'.facts
         \/ file.kind # "newer" /\ file'.kind # "ours"
<1>1. CASE WriteFile
  BY <1>1, WriteFileKeeps DEF FileIInv, LoadFirst, WriteFile
<1>2. CASE SetAside
  BY <1>2 DEF SetAside
<1>3. CASE Restart
  BY <1>3 DEF Restart, Corrupt, Newer
<1> QED
  BY <1>1, <1>2, <1>3 DEF Next, vars, Record, SwitchPersist, LoadFile, RefuseNewer, MarkLoaded,
     SaveBegin, ExportLogins, ExportHistory, ExportReadings, Export, MarkSaved

\* The load and save state stays in its domain through crashes and reloads.
THEOREM FileTypeCorrect == Spec => []TypeOK
<1>1. FileIInv => TypeOK
  BY DEF FileIInv
<1> QED
  BY <1>1, FileInvariance, PTL

\* A store that counts as saved is in the file, but for what came before the load.
THEOREM SavedIsHeld == Spec => []SavedHeld
<1>1. FileIInv => SavedHeld
  BY DEF FileIInv
<1> QED
  BY <1>1, FileInvariance, PTL

\* No run ever writes a file that lacks what the readable one before it held.
THEOREM PastIsKept == Spec => PastKept
<1>1. FileIInv /\ [Next]_vars
        => [file.kind = "ours" /\ file'.kind = "ours" => file.facts \subseteq file'.facts]_vars
  BY FileChanges
<1> QED
  BY <1>1, FileInvariance, PTL DEF Spec, PastKept

\* A newer build's file is never touched.
THEOREM NewerIsLeftAlone == Spec => NewerLeftAlone
<1>1. FileIInv /\ [Next]_vars => [file.kind = "newer" => file' = file]_vars
  BY FileChanges
<1> QED
  BY <1>1, FileInvariance, PTL DEF Spec, NewerLeftAlone

------------------------------------------------------------------------------
(* The bindings file across builds *)

\* The host routes to no build while one is being replaced, and the file holds
\* the table the quiesced build would resume with.
QuiescedSaved ==
  quiesced # None =>
    /\ live = None /\ mem[quiesced].has
    /\ sound /\ mem[quiesced].persist => bindings = mem[quiesced].table

BuildsIInv == BuildsTypeOK /\ OneSaver /\ QuiescedSaved

Memory == [has : BOOLEAN, table : Tables, shape : Shapes \cup {None},
           persist : BOOLEAN, handedOver : BOOLEAN]

\* Every table the model builds is a table: the empty one, and one with a
\* conversation bound in it.
LEMMA TablesClosed ==
  /\ Empty \in Tables
  /\ \A t \in Tables, k \in Conversations, s \in Seats :
       [x \in DOMAIN t \cup {k} |-> IF x = k THEN s ELSE t[x]] \in Tables
<1>1. Empty \in [{} -> Seats]
  BY DEF Empty
<1>2. Empty \in Tables
  BY <1>1 DEF Tables
<1>3. ASSUME NEW t \in Tables, NEW k \in Conversations, NEW s \in Seats
      PROVE  [x \in DOMAIN t \cup {k} |-> IF x = k THEN s ELSE t[x]] \in Tables
  <2>1. PICK d \in SUBSET Conversations : t \in [d -> Seats]
    BY DEF Tables
  <2>2. [x \in DOMAIN t \cup {k} |-> IF x = k THEN s ELSE t[x]] \in [d \cup {k} -> Seats]
    BY <2>1
  <2>3. d \cup {k} \in SUBSET Conversations
    BY <2>1
  <2>4. QED
    BY <2>2, <2>3 DEF Tables
<1>4. QED
  BY <1>2, <1>3

\* What a configure leaves: a build that holds a table of the shape it was given
\* and is no longer handed over; the table is the file's when it restored, and
\* otherwise its own, unless the shape changed.
LEMMA ConfiguredFields ==
  ASSUME NEW m \in Memory, NEW c \in Configs, NEW register \in BOOLEAN, bindings \in Tables
  PROVE  /\ Configured(m, c, register) \in Memory
         /\ Configured(m, c, register).has
         /\ ~Configured(m, c, register).handedOver
         /\ Configured(m, c, register).shape = c.shape
         /\ Configured(m, c, register).persist = c.persist
         /\ (register \/ ~m.has) /\ c.persist => Configured(m, c, register).table = bindings
         /\ ~register /\ m.has /\ m.shape = c.shape => Configured(m, c, register).table = m.table
<1>1. Empty \in Tables
  BY TablesClosed
<1>2. c.shape \in Shapes /\ c.persist \in BOOLEAN
  BY DEF Configs
<1>3. QED
  BY <1>1, <1>2 DEF Memory, Configured, ApplyConfig, RestoreBindings

\* A reconfigure that keeps the shape keeps the table.
LEMMA ReconfiguredTable ==
  ASSUME NEW m \in Memory, NEW c \in Configs, m.has, m.shape = c.shape
  PROVE  Configured(m, c, FALSE).table = m.table
  BY DEF Memory, Configured, ApplyConfig

\* The two forms a step gives an image's memory besides a configure's: marked
\* handed over, and with another table.
LEMMA MarkedFields ==
  ASSUME NEW m \in Memory, NEW t \in Tables
  PROVE  /\ [m EXCEPT !.handedOver = TRUE] \in Memory
         /\ [m EXCEPT !.handedOver = TRUE].handedOver
         /\ [m EXCEPT !.handedOver = TRUE].has = m.has
         /\ [m EXCEPT !.handedOver = TRUE].shape = m.shape
         /\ [m EXCEPT !.handedOver = TRUE].persist = m.persist
         /\ [m EXCEPT !.handedOver = TRUE].table = m.table
         /\ [m EXCEPT !.table = t] \in Memory
         /\ [m EXCEPT !.table = t].handedOver = m.handedOver
         /\ [m EXCEPT !.table = t].has = m.has
         /\ [m EXCEPT !.table = t].shape = m.shape
  BY DEF Memory

\* A build's configure, by whichever call, makes it the one live build.
LEMMA ConfigureKeeps ==
  ASSUME BuildsTypeOK, OneSaver, NEW b \in Builds, NEW c \in Configs, NEW register \in BOOLEAN,
         mem' = [mem EXCEPT ![b] = Configured(mem[b], c, register)],
         live \in {None, b}, live' = b, quiesced' = None, bindings' = bindings, sound' = sound
  PROVE  BuildsIInv'
<1>1. mem \in [Builds -> Memory] /\ bindings \in Tables
  BY DEF BuildsTypeOK, Memory
<1>2. mem' \in [Builds -> Memory]
  BY <1>1, ConfiguredFields
<1>3. mem'[b].has /\ ~mem'[b].handedOver /\ mem'[b].shape = c.shape
  BY <1>1, ConfiguredFields
<1>4. \A a \in Builds \ {b} : mem'[a] = mem[a]
  BY <1>1
<1>5. c.shape \in Shapes /\ c.shape # None
  BY LifecycleAssumption DEF Configs
<1>6. BuildsTypeOK'
  BY <1>1, <1>2, <1>3, <1>4, <1>5 DEF BuildsTypeOK, Memory
<1>7. OneSaver'
  BY <1>3, <1>4, LifecycleAssumption DEF OneSaver
<1>8. QuiescedSaved'
  BY DEF QuiescedSaved
<1>9. QED
  BY <1>6, <1>7, <1>8 DEF BuildsIInv

\* The invariant holds of a new process with no bindings file.
LEMMA BuildsInitOK == LifecycleInit => BuildsIInv
<1>1. Fresh \in Memory /\ ~Fresh.has /\ Fresh.shape = None
  BY TablesClosed DEF Fresh, Memory
<1>2. Empty \in Tables
  BY TablesClosed
<1>3. QED
  BY <1>1, <1>2, LifecycleAssumption
  DEF LifecycleInit, BuildsIInv, BuildsTypeOK, OneSaver, QuiescedSaved, Memory

\* Every step of the host, and every pick, keeps the invariant.
LEMMA BuildsStepOK == BuildsIInv /\ [LifecycleNext]_lifecycleVars => BuildsIInv'
<1> SUFFICES ASSUME BuildsIInv, [LifecycleNext]_lifecycleVars
             PROVE  BuildsIInv'
  OBVIOUS
<1> USE LifecycleAssumption
<1>1. BuildsTypeOK /\ OneSaver /\ QuiescedSaved
  BY DEF BuildsIInv
<1>2. mem \in [Builds -> Memory] /\ bindings \in Tables
  BY <1>1 DEF BuildsTypeOK, Memory
<1>3. ASSUME NEW b \in Builds, NEW c \in Configs, Register(b, c)
      PROVE  BuildsIInv'
  BY <1>1, <1>3, ConfigureKeeps DEF Register
<1>4. ASSUME NEW b \in Builds, NEW c \in Configs, RegisterLost(b, c)
      PROVE  BuildsIInv'
  BY <1>1, <1>4, ConfigureKeeps DEF RegisterLost
<1>5. ASSUME NEW c \in Configs, Reconfigure(c)
      PROVE  BuildsIInv'
  <2>1. live \in Builds /\ quiesced = None
    BY <1>1, <1>5 DEF Reconfigure, BuildsTypeOK, QuiescedSaved
  <2>2. QED
    BY <1>1, <1>5, <2>1, ConfigureKeeps DEF Reconfigure
<1>6. ASSUME NEW c \in Configs, RollBack(c)
      PROVE  BuildsIInv'
  <2>1. quiesced \in Builds /\ live = None
    BY <1>1, <1>6 DEF RollBack, BuildsTypeOK, QuiescedSaved
  <2>2. QED
    BY <1>1, <1>6, <2>1, ConfigureKeeps DEF RollBack
<1>7. ASSUME Quiesce
      PROVE  BuildsIInv'
  <2>1. live \in Builds /\ quiesced = None /\ mem[live].has
    BY <1>1, <1>7 DEF Quiesce, BuildsTypeOK, QuiescedSaved, OneSaver
  <2>2. mem' \in [Builds -> Memory]
    BY <1>2, <1>7, <2>1, MarkedFields DEF Quiesce
  <2>3. /\ mem'[live].has /\ mem'[live].handedOver
        /\ mem'[live].shape = mem[live].shape
        /\ mem'[live].persist = mem[live].persist
        /\ mem'[live].table = mem[live].table
    BY <1>2, <1>7, <2>1, MarkedFields DEF Quiesce
  <2>4. \A a \in Builds \ {live} : mem'[a] = mem[a]
    BY <1>2, <1>7 DEF Quiesce
  <2>5. /\ bindings' \in Tables /\ sound' \in BOOLEAN
        /\ sound' /\ mem[live].persist => bindings' = mem[live].table
    BY <1>1, <1>2, <1>7, <2>1, TablesClosed DEF Quiesce, SaveBindings, Memory, BuildsTypeOK
  <2>6. BuildsTypeOK'
    BY <1>1, <1>7, <2>1, <2>2, <2>3, <2>4, <2>5 DEF BuildsTypeOK, Memory, Quiesce
  <2>7. OneSaver'
    BY <1>1, <1>7, <2>3, <2>4 DEF OneSaver, Quiesce
  <2>8. QuiescedSaved'
    BY <1>7, <2>3, <2>5 DEF QuiescedSaved, Quiesce
  <2>9. QED
    BY <2>6, <2>7, <2>8 DEF BuildsIInv
<1>8. ASSUME NEW b \in Builds, Shutdown(b)
      PROVE  BuildsIInv'
  <2>1. mem' \in [Builds -> Memory]
    BY <1>2, <1>8, MarkedFields DEF Shutdown
  <2>2. /\ mem'[b].has = mem[b].has /\ mem'[b].handedOver
        /\ mem'[b].shape = mem[b].shape
    BY <1>2, <1>8, MarkedFields DEF Shutdown
  <2>3. \A a \in Builds \ {b} : mem'[a] = mem[a]
    BY <1>2, <1>8 DEF Shutdown
  <2>4. bindings' \in Tables /\ sound' \in BOOLEAN
    BY <1>1, <1>2, <1>8, TablesClosed DEF Shutdown, ShutdownSaves, SaveBindings, Memory, BuildsTypeOK
  <2>5. quiesced # None => UNCHANGED <<bindings, sound>>
    BY <1>1, <1>8 DEF Shutdown, ShutdownSaves, SaveBindings, OneSaver, QuiescedSaved
  <2>6. BuildsTypeOK'
    BY <1>1, <1>8, <2>1, <2>2, <2>3, <2>4 DEF BuildsTypeOK, Memory, Shutdown
  <2>7. OneSaver'
    BY <1>1, <1>8, <2>2, <2>3 DEF OneSaver, Shutdown
  <2>8. QuiescedSaved'
    BY <1>1, <1>8, <2>3, <2>5 DEF QuiescedSaved, Shutdown, BuildsTypeOK
  <2>9. QED
    BY <2>6, <2>7, <2>8 DEF BuildsIInv
<1>9. ASSUME NewProcess
      PROVE  BuildsIInv'
  <2>1. Fresh \in Memory /\ ~Fresh.has /\ Fresh.shape = None
    BY TablesClosed DEF Fresh, Memory
  <2>2. QED
    BY <1>1, <1>9, <2>1 DEF NewProcess, BuildsIInv, BuildsTypeOK, OneSaver, QuiescedSaved, Memory
<1>10. ASSUME SpoilFile
       PROVE  BuildsIInv'
  BY <1>1, <1>10, TablesClosed DEF SpoilFile, BuildsIInv, BuildsTypeOK, OneSaver, QuiescedSaved
<1>11. ASSUME NEW k \in Conversations, NEW s \in Seats, Bind(k, s)
       PROVE  BuildsIInv'
  <2>1. live \in Builds /\ quiesced = None
    BY <1>1, <1>11 DEF Bind, BuildsTypeOK, QuiescedSaved
  <2> DEFINE t == [x \in DOMAIN mem[live].table \cup {k} |->
                     IF x = k THEN s ELSE mem[live].table[x]]
  <2>2. mem[live].table \in Tables
    BY <1>2, <2>1 DEF Memory
  <2>3. t \in Tables
    BY <2>2, TablesClosed
  <2>4. mem' = [mem EXCEPT ![live] = [mem[live] EXCEPT !.table = t]]
    BY <1>11 DEF Bind
  <2> HIDE DEF t
  <2>5. mem' \in [Builds -> Memory]
    BY <1>2, <2>1, <2>3, <2>4, MarkedFields
  <2>6. /\ mem'[live].has = mem[live].has
        /\ mem'[live].handedOver = mem[live].handedOver
        /\ mem'[live].shape = mem[live].shape
    BY <1>2, <2>1, <2>3, <2>4, MarkedFields
  <2>7. \A a \in Builds \ {live} : mem'[a] = mem[a]
    BY <1>2, <2>4
  <2>8. BuildsTypeOK'
    BY <1>1, <1>11, <2>1, <2>5, <2>6, <2>7 DEF BuildsTypeOK, Memory, Bind
  <2>9. OneSaver'
    BY <1>1, <1>11, <2>6, <2>7 DEF OneSaver, Bind
  <2>10. QuiescedSaved'
    BY <1>11, <2>1 DEF QuiescedSaved, Bind
  <2>11. QED
    BY <2>8, <2>9, <2>10 DEF BuildsIInv
<1>12. CASE UNCHANGED lifecycleVars
  BY <1>1, <1>12 DEF lifecycleVars, BuildsIInv, BuildsTypeOK, OneSaver, QuiescedSaved
<1>13. QED
  BY <1>3, <1>4, <1>5, <1>6, <1>7, <1>8, <1>9, <1>10, <1>11, <1>12 DEF LifecycleNext

\* The inductive invariant holds throughout.
LEMMA BuildsInvariance == LifecycleSpec => []BuildsIInv
  BY BuildsInitOK, BuildsStepOK, PTL DEF LifecycleSpec

\* Type correctness: images, tables and the file stay in their domains, and an
\* image holds a table from its first configure (configure, applyConfig).
THEOREM BuildsTypeCorrect == LifecycleSpec => []BuildsTypeOK
<1>1. BuildsIInv => BuildsTypeOK
  BY DEF BuildsIInv
<1>2. QED
  BY <1>1, BuildsInvariance, PTL

\* Exactly the live build would save its bindings at shutdown (the handedOver
\* mark of dispatch, configure and Shutdown), for any number of builds.
THEOREM OnlyLiveSaves == LifecycleSpec => []OneSaver
<1>1. BuildsIInv => OneSaver
  BY DEF BuildsIInv
<1>2. QED
  BY <1>1, BuildsInvariance, PTL

\* No planned step of the host moves a conversation (saveBindings at the stop,
\* restoreBindings at the register, the roll back without either), for any
\* number of builds, replacements and restarts.
THEOREM HomesAreKept == LifecycleSpec => HomesSurvive
<1> DEFINE Kept == cause' = "planned" /\ Persists /\ Persists' /\ sound /\ sound'
                     => Homes' = Homes
<1>1. BuildsIInv /\ [LifecycleNext]_lifecycleVars => [Kept]_lifecycleVars
  <2> SUFFICES ASSUME BuildsIInv, LifecycleNext, cause' = "planned",
                      Persists, Persists', sound, sound'
               PROVE  Homes' = Homes
    BY DEF lifecycleVars
  <2> USE LifecycleAssumption
  <2>1. BuildsTypeOK /\ OneSaver /\ QuiescedSaved
    BY DEF BuildsIInv
  <2>2. mem \in [Builds -> Memory] /\ bindings \in Tables
    BY <2>1 DEF BuildsTypeOK, Memory
  <2>3. ASSUME NEW b \in Builds, NEW c \in Configs, Register(b, c) \/ RegisterLost(b, c)
        PROVE  Homes' = Homes
    <3>1. PICK register \in BOOLEAN :
            /\ mem' = [mem EXCEPT ![b] = Configured(mem[b], c, register)]
            /\ register \/ ~mem[b].has
      BY <2>3 DEF Register, RegisterLost
    <3>2. live = None /\ live' = b /\ bindings' = bindings
      BY <2>3 DEF Register, RegisterLost
    <3>3. mem'[b] = Configured(mem[b], c, register)
      BY <2>2, <3>1
    <3>4. mem'[b].persist = c.persist
      BY <2>2, <3>3, ConfiguredFields
    <3>5. c.persist
      BY <3>2, <3>4 DEF Persists
    <3>6. mem'[b].table = bindings
      BY <2>2, <3>1, <3>3, <3>5, ConfiguredFields
    <3>7. QED
      BY <3>2, <3>6 DEF Homes
  <2>4. ASSUME NEW c \in Configs, Reconfigure(c)
        PROVE  Homes' = Homes
    <3>1. live \in Builds /\ mem[live].has /\ mem[live].shape = c.shape
      BY <2>1, <2>4 DEF Reconfigure, BuildsTypeOK, OneSaver
    <3>2. mem'[live] = Configured(mem[live], c, FALSE)
      BY <2>2, <2>4, <3>1 DEF Reconfigure
    <3>3. mem'[live].table = mem[live].table
      BY <2>2, <3>1, <3>2, ReconfiguredTable
    <3>4. QED
      BY <2>4, <3>3 DEF Homes, Reconfigure
  <2>5. ASSUME NEW c \in Configs, RollBack(c)
        PROVE  Homes' = Homes
    <3>1. /\ quiesced \in Builds /\ live = None
          /\ mem[quiesced].has /\ mem[quiesced].shape = c.shape
      BY <2>1, <2>5 DEF RollBack, BuildsTypeOK, QuiescedSaved
    <3>2. mem'[quiesced] = Configured(mem[quiesced], c, FALSE)
      BY <2>2, <2>5, <3>1 DEF RollBack
    <3>3. mem'[quiesced].table = mem[quiesced].table
      BY <2>2, <3>1, <3>2, ReconfiguredTable
    <3>4. bindings = mem[quiesced].table
      BY <2>1, <3>1 DEF QuiescedSaved, Persists
    <3>5. QED
      BY <2>5, <3>1, <3>3, <3>4 DEF Homes, RollBack
  <2>6. ASSUME Quiesce
        PROVE  Homes' = Homes
    <3>1. live \in Builds /\ mem[live].has /\ mem[live].persist
      BY <2>1, <2>6 DEF Quiesce, BuildsTypeOK, OneSaver, Persists
    <3>2. bindings' = mem[live].table
      BY <2>6, <3>1 DEF Quiesce, SaveBindings
    <3>3. QED
      BY <2>6, <3>2 DEF Homes, Quiesce
  <2>7. ASSUME NEW b \in Builds, Shutdown(b)
        PROVE  Homes' = Homes
    <3>1. CASE live = b
      <4>1. mem[b].has /\ ~mem[b].handedOver /\ mem[b].persist
        BY <2>1, <3>1 DEF OneSaver, Persists
      <4>2. bindings' = mem[b].table
        BY <2>7, <4>1 DEF Shutdown, ShutdownSaves, SaveBindings
      <4>3. QED
        BY <2>7, <3>1, <4>2 DEF Homes, Shutdown
    <3>2. CASE live # b
      <4>1. bindings' = bindings
        BY <2>1, <2>7, <3>2 DEF Shutdown, ShutdownSaves, SaveBindings, OneSaver
      <4>2. live # None => mem'[live].table = mem[live].table
        BY <2>1, <2>2, <2>7, <3>2 DEF Shutdown, BuildsTypeOK
      <4>3. QED
        BY <2>7, <3>2, <4>1, <4>2 DEF Homes, Shutdown
    <3>3. QED
      BY <3>1, <3>2
  <2>8. CASE NewProcess
    BY <2>8 DEF NewProcess, Homes
  <2>9. ~SpoilFile /\ \A k \in Conversations, s \in Seats : ~Bind(k, s)
    BY DEF SpoilFile, Bind
  <2>10. QED
    BY <2>3, <2>4, <2>5, <2>6, <2>7, <2>8, <2>9 DEF LifecycleNext
<1>2. QED
  BY <1>1, BuildsInvariance, PTL DEF LifecycleSpec, HomesSurvive

------------------------------------------------------------------------------
(* The host calls *)

WorkerPlaces == {"none", "calling", "sending", "ending", "logging", "awaiting", "ended"}

HostTypeOK ==
  /\ tracked \in Nat /\ idle \in Nat /\ closed \in SUBSET Nat /\ (\A i \in closed : i <= idle)
  /\ worker \in [Calls -> WorkerPlaces]
  /\ drain \in [Drains -> [at : {"none", "waiting", "idle", "timed out"}, on : Nat, saw : SUBSET Calls]]

\* callTracker counts the goroutines that run, and its channel is open while one does.
TrackerExact ==
  /\ tracked = Cardinality(Running)
  /\ idle \in closed <=> tracked = 0

\* What a drain saw had begun; once its channel is closed, all of it has ended.
DrainsSettled ==
  \A s \in Drains : drain[s].at # "none" =>
    /\ \A c \in drain[s].saw : worker[c] # "none"
    /\ drain[s].on \in closed => drain[s].saw \cap Running = {}
    /\ drain[s].at = "idle" => drain[s].on \in closed

HostIInv == HostTypeOK /\ TrackerExact /\ DrainsSettled

LEMMA RunningFinite == IsFiniteSet(Running) /\ Cardinality(Running) \in Nat
<1>1. Running \subseteq Calls
  BY DEF Running
<1> QED
  BY <1>1, HostCallsAssumption, FS_Subset, FS_CardinalityType

LEMMA HostInitOK == HostInit => HostIInv
<1> SUFFICES ASSUME HostInit PROVE HostIInv
  OBVIOUS
<1>1. HostTypeOK
  BY DEF HostInit, HostTypeOK, WorkerPlaces
<1>2. Running = {}
  BY DEF HostInit, Running
<1>3. TrackerExact
  BY <1>2, FS_EmptySet DEF HostInit, TrackerExact
<1> QED
  BY <1>1, <1>3 DEF HostIInv, HostInit, DrainsSettled

\* A goroutine that begins: one more runs, which no drain has seen.
LEMMA Begins ==
  ASSUME HostIInv, Begin, NEW c \in Calls, worker[c] = "none",
         worker' \in [Calls -> WorkerPlaces],
         worker'[c] \in WorkerPlaces \ {"none", "ended"},
         \A d \in Calls : d # c => /\ worker[d] = "none" <=> worker'[d] = "none"
                                   /\ worker[d] = "ended" <=> worker'[d] = "ended",
         drain' = drain
  PROVE  HostIInv'
<1>1. Running' = Running \cup {c} /\ c \notin Running
  BY DEF Running
<1>2. Cardinality(Running') = Cardinality(Running) + 1
  BY <1>1, RunningFinite, FS_AddElement
<1>3. /\ tracked \in Nat /\ idle \in Nat /\ closed \subseteq Nat
      /\ \A i \in closed : i <= idle
      /\ idle \in closed <=> tracked = 0
  BY DEF HostIInv, HostTypeOK, TrackerExact
<1>4. /\ tracked' = tracked + 1 /\ closed' = closed
      /\ tracked = 0 => idle' = idle + 1
      /\ tracked # 0 => idle' = idle
  BY DEF Begin
<1>5. tracked' \in Nat /\ tracked' # 0 /\ idle' \in Nat /\ idle <= idle'
  BY <1>3, <1>4
<1>6. \A i \in closed : i <= idle'
  <2> TAKE i \in closed
  <2> QED
    BY <1>3, <1>5
<1>7. idle' \notin closed
  <2>1. CASE tracked = 0
    <3>1. idle' = idle + 1
      BY <1>4, <2>1
    <3> QED
      BY <1>3, <3>1
  <2>2. CASE tracked # 0
    BY <1>3, <1>4, <2>2
  <2> QED
    BY <2>1, <2>2
<1>8. HostTypeOK'
  <2>1. closed' \in SUBSET Nat /\ (\A i \in closed' : i <= idle')
    BY <1>3, <1>4, <1>6
  <2>2. drain' \in [Drains -> [at : {"none", "waiting", "idle", "timed out"}, on : Nat, saw : SUBSET Calls]]
    BY DEF HostIInv, HostTypeOK
  <2> QED
    BY <1>5, <2>1, <2>2 DEF HostTypeOK
<1>9. TrackerExact'
  <2>1. tracked' = Cardinality(Running')
    BY <1>2, <1>4 DEF HostIInv, TrackerExact
  <2> QED
    BY <1>4, <1>5, <1>7, <2>1 DEF TrackerExact
<1>10. DrainsSettled'
  <2> SUFFICES ASSUME NEW s \in Drains, drain[s].at # "none"
               PROVE  /\ \A d \in drain[s].saw : worker'[d] # "none"
                      /\ drain[s].on \in closed => drain[s].saw \cap Running' = {}
                      /\ drain[s].at = "idle" => drain[s].on \in closed
    BY DEF DrainsSettled, Begin
  <2>1. drain[s].saw \subseteq Calls
    BY DEF HostIInv, HostTypeOK
  <2>2. c \notin drain[s].saw
    BY DEF HostIInv, DrainsSettled
  <2> QED
    BY <1>1, <2>1, <2>2 DEF HostIInv, DrainsSettled
<1> QED
  BY <1>8, <1>9, <1>10 DEF HostIInv

\* A goroutine that goes on: the same ones run.
LEMMA GoesOn ==
  ASSUME HostIInv, UNCHANGED tracker, NEW c \in Calls, worker[c] \notin {"none", "ended"},
         NEW p \in WorkerPlaces \ {"none", "ended"},
         worker' = [worker EXCEPT ![c] = p],
         drain' = drain
  PROVE  HostIInv'
<1>1. Running' = Running
  BY DEF HostIInv, HostTypeOK, Running
<1>2. HostTypeOK'
  BY DEF HostIInv, HostTypeOK, tracker
<1>3. DrainsSettled'
  BY <1>1 DEF HostIInv, HostTypeOK, DrainsSettled, tracker
<1> QED
  BY <1>1, <1>2, <1>3 DEF HostIInv, TrackerExact, tracker

\* The deferred end: the last goroutine to end closes the channel.
LEMMA Ends ==
  ASSUME HostIInv, NEW c \in Calls, Ended(c)
  PROVE  HostIInv'
<1>1. Running' = Running \ {c} /\ c \in Running
  BY DEF HostIInv, HostTypeOK, Ended, Running
<1>2. Cardinality(Running') = Cardinality(Running) - 1 /\ Cardinality(Running) # 0
  <2>1. Cardinality(Running') = Cardinality(Running) - 1
    BY <1>1, RunningFinite, FS_RemoveElement
  <2>2. Cardinality(Running) # 0
    BY <1>1, RunningFinite, FS_EmptySet
  <2> QED
    BY <2>1, <2>2
<1>3. HostTypeOK'
  <2>1. tracked' \in Nat
    BY <1>2, RunningFinite DEF HostIInv, TrackerExact, Ended, End
  <2>2. idle' \in Nat /\ closed' \in SUBSET Nat /\ (\A i \in closed' : i <= idle')
    <3>1. idle \in Nat /\ closed \subseteq Nat /\ (\A i \in closed : i <= idle)
      BY DEF HostIInv, HostTypeOK
    <3>2. idle' = idle /\ closed' \subseteq closed \cup {idle}
      BY DEF Ended, End
    <3> QED
      BY <3>1, <3>2
  <2>3. worker' \in [Calls -> WorkerPlaces]
    BY DEF HostIInv, HostTypeOK, Ended, WorkerPlaces
  <2>4. drain' = drain
    BY DEF Ended
  <2> QED
    BY <2>1, <2>2, <2>3, <2>4 DEF HostIInv, HostTypeOK
<1>4. TrackerExact'
  BY <1>2, RunningFinite DEF HostIInv, HostTypeOK, TrackerExact, Ended, End
<1>5. DrainsSettled'
  <2>1. tracked' = 0 => Running' = {}
    BY <1>1, <1>4, RunningFinite, FS_EmptySet, FS_Subset DEF TrackerExact
  <2>2. CASE tracked' = 0
    BY <2>1, <2>2 DEF HostIInv, HostTypeOK, DrainsSettled, Ended, End
  <2>3. CASE tracked' # 0
    BY <1>1, <2>3 DEF HostIInv, HostTypeOK, DrainsSettled, Ended, End
  <2> QED
    BY <2>2, <2>3
<1> QED
  BY <1>3, <1>4, <1>5 DEF HostIInv

\* A drain that starts reads the channel and sees what runs, under one mutex.
LEMMA DrainStarts ==
  ASSUME HostIInv, NEW s \in Drains, DrainStart(s)
  PROVE  HostIInv'
<1>1. Running' = Running /\ Running \subseteq Calls
  BY DEF DrainStart, Running
<1>2. HostTypeOK'
  BY <1>1 DEF HostIInv, HostTypeOK, DrainStart, tracker
<1>3. TrackerExact'
  BY <1>1 DEF HostIInv, TrackerExact, DrainStart, tracker
<1>4. idle \in closed => Running = {}
  BY RunningFinite, FS_EmptySet DEF HostIInv, TrackerExact
<1>5. DrainsSettled'
  BY <1>1, <1>4 DEF HostIInv, HostTypeOK, DrainsSettled, DrainStart, tracker, Running
<1> QED
  BY <1>2, <1>3, <1>5 DEF HostIInv

LEMMA DrainEnds ==
  ASSUME HostIInv, NEW s \in Drains, DrainIdle(s) \/ DrainTimeout(s)
  PROVE  HostIInv'
<1>1. Running' = Running
  BY DEF DrainIdle, DrainTimeout, Running
<1>2. HostTypeOK'
  BY DEF HostIInv, HostTypeOK, DrainIdle, DrainTimeout, tracker
<1>3. TrackerExact'
  BY <1>1 DEF HostIInv, TrackerExact, DrainIdle, DrainTimeout, tracker
<1>4. DrainsSettled'
  BY <1>1 DEF HostIInv, HostTypeOK, DrainsSettled, DrainIdle, DrainTimeout, tracker
<1> QED
  BY <1>2, <1>3, <1>4 DEF HostIInv

LEMMA Untouched ==
  ASSUME HostIInv, UNCHANGED <<tracker, worker, drain>>
  PROVE  HostIInv'
  BY DEF HostIInv, HostTypeOK, TrackerExact, DrainsSettled, Running, tracker

LEMMA HostStepOK == HostIInv /\ [HostNext]_hostVars => HostIInv'
<1> SUFFICES ASSUME HostIInv, [HostNext]_hostVars PROVE HostIInv'
  OBVIOUS
<1>1. ASSUME NEW c \in Calls, InvokeCtx(c)
      PROVE  HostIInv'
  BY <1>1, Begins DEF InvokeCtx, HostIInv, HostTypeOK, WorkerPlaces
<1>2. ASSUME NEW c \in Calls, SpawnLog(c)
      PROVE  HostIInv'
  BY <1>2, Begins DEF SpawnLog, HostIInv, HostTypeOK, WorkerPlaces
<1>3. ASSUME NEW o \in Calls, NEW c \in Calls, Log(o, c)
      PROVE  HostIInv'
  <2>1. o # c
    BY <1>3 DEF Log
  <2>2. worker' \in [Calls -> WorkerPlaces] /\ worker'[c] = "calling"
    BY <1>3, <2>1 DEF Log, HostIInv, HostTypeOK, WorkerPlaces
  <2>3. \A d \in Calls : d # c => /\ worker[d] = "none" <=> worker'[d] = "none"
                                  /\ worker[d] = "ended" <=> worker'[d] = "ended"
    BY <1>3, <2>1 DEF Log, HostIInv, HostTypeOK
  <2> QED
    BY <1>3, <2>2, <2>3, Begins DEF Log, WorkerPlaces
<1>4. ASSUME NEW c \in Calls, HostReturns(c)
      PROVE  HostIInv'
  BY <1>4, GoesOn DEF HostReturns, WorkerPlaces
<1>5. ASSUME NEW c \in Calls, HostPanics(c) \/ Send(c)
      PROVE  HostIInv'
  BY <1>5, GoesOn DEF HostPanics, Send, WorkerPlaces
<1>6. ASSUME NEW c \in Calls, Logged(c)
      PROVE  HostIInv'
  BY <1>6, GoesOn DEF Logged, WorkerPlaces
<1>7. ASSUME NEW c \in Calls, Answered(c) \/ GiveUp(c)
      PROVE  HostIInv'
  BY <1>7, Untouched DEF Answered, GiveUp
<1>8. CASE UNCHANGED hostVars
  BY <1>8, Untouched DEF hostVars, tracker
<1> QED
  BY <1>1, <1>2, <1>3, <1>4, <1>5, <1>6, <1>7, <1>8, Ends, DrainStarts, DrainEnds DEF HostNext

LEMMA HostInvariance == HostSpec => []HostIInv
  BY HostInitOK, HostStepOK, PTL DEF HostSpec

\* The tracker's count and its channel tell what runs, in every state: begin and end
\* never lose or invent a call, whatever panics, is abandoned or logs.
THEOREM TrackerIsExact == HostSpec => []TrackerExact
<1>1. HostIInv => TrackerExact
  BY DEF HostIInv
<1> QED
  BY <1>1, HostInvariance, PTL

\* A drain that ends before its timeout leaves no call it saw in the host.
THEOREM DrainsCover == HostSpec => []DrainCovers
<1>1. HostIInv => DrainCovers
  BY DEF HostIInv, DrainsSettled, DrainCovers
<1> QED
  BY <1>1, HostInvariance, PTL
==============================================================================
