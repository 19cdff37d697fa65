---------------------------- MODULE HistoryFile -----------------------------
(***************************************************************************)
(* When the history file is read and written: loadHistory and saveHistory  *)
(* of internal/runtime/poller.go on LoadHistory, SaveHistory and WriteFile *)
(* of internal/quota/historyfile.go.                                       *)
(*                                                                         *)
(* Loads and saves run under pollMu, so one at a time, beside records that *)
(* reach the store at any moment.  A save reads the store's version, then  *)
(* copies the store section by section under a lock it takes anew for      *)
(* each, then renames a temporary file into place.  A crash may come       *)
(* between any two steps.  What the store records is abstracted to a set   *)
(* of facts; how two runs' facts about one window merge is the subject of  *)
(* RefusalHistory.  Prune, which forgets a departed credential's facts on  *)
(* purpose, is left out.                                                   *)
(***************************************************************************)
EXTENDS Naturals

CONSTANTS
  Logins, Histories, Readings   \* the facts of the file's three sections

Facts == Logins \cup Histories \cup Readings

ASSUME SectionAssumption ==
  /\ Logins \cap Histories = {} /\ Logins \cap Readings = {} /\ Histories \cap Readings = {}

Ours(facts) == [kind |-> "ours", facts |-> facts]
Absent == [kind |-> "absent", facts |-> {}]
Newer == [kind |-> "newer", facts |-> {}]      \* of a newer build's version
Corrupt == [kind |-> "corrupt", facts |-> {}]  \* does not parse

At(pc, v, got) == [pc |-> pc, version |-> v, got |-> got]
Idle == At("idle", 0, {})

VARIABLES
  store,    \* the facts the quota store holds
  version,  \* Store.history
  file,
  persist,  \* Quota.PersistHistory
  loaded,   \* historyLoaded
  refused,  \* historyRefused
  saved,    \* historySaved
  op,       \* the load or save that holds pollMu
  early     \* history: the facts recorded before the load was done

vars == <<store, version, file, persist, loaded, refused, saved, op, early>>

Init ==
  /\ store = {} /\ version = 0
  /\ file \in {Absent, Newer, Corrupt}
  /\ persist \in BOOLEAN
  /\ loaded = FALSE /\ refused = FALSE /\ saved = 0
  /\ op = Idle /\ early = {}

\* A poll, a response's headers or a login reading adds to the store.
Record(f) ==
  /\ f \notin store
  /\ store' = store \cup {f} /\ version' = version + 1
  /\ early' = IF loaded THEN early ELSE early \cup {f}
  /\ UNCHANGED <<file, persist, loaded, refused, saved, op>>

\* A reload turns persistence on or off.
SwitchPersist ==
  /\ persist' = ~persist
  /\ UNCHANGED <<store, version, file, loaded, refused, saved, op, early>>

-----------------------------------------------------------------------------
(* loadHistory *)

LoadPending == op = Idle /\ persist /\ ~loaded /\ ~refused

\* A load of a file that is not there, or that this build wrote.  A read that
\* fails changes nothing and is tried again on the next poll.
LoadFile ==
  /\ LoadPending /\ file.kind \in {"absent", "ours"}
  /\ store' = store \cup file.facts
  /\ version' = IF file.kind = "ours" THEN version + 1 ELSE version
  /\ op' = At("loaded", 0, {})
  /\ UNCHANGED <<file, persist, loaded, refused, saved, early>>

\* One that does not parse is moved aside.
SetAside ==
  /\ LoadPending /\ file.kind = "corrupt"
  /\ file' = Absent
  /\ op' = At("loaded", 0, {})
  /\ UNCHANGED <<store, version, persist, loaded, refused, saved, early>>

RefuseNewer ==
  /\ LoadPending /\ file.kind = "newer"
  /\ refused' = TRUE
  /\ UNCHANGED <<store, version, file, persist, loaded, saved, op, early>>

MarkLoaded ==
  /\ op.pc = "loaded"
  /\ loaded' = TRUE /\ saved' = version
  /\ op' = Idle
  /\ UNCHANGED <<store, version, file, persist, refused, early>>

-----------------------------------------------------------------------------
(* saveHistory *)

\* A mutation: the load is not waited for.
SaveBeginUnloaded ==
  /\ op = Idle /\ persist /\ version # saved
  /\ op' = At("logins", version, {})
  /\ UNCHANGED <<store, version, file, persist, loaded, refused, saved, early>>

SaveBegin ==
  /\ op = Idle /\ persist /\ version # saved /\ loaded
  /\ op' = At("logins", version, {})
  /\ UNCHANGED <<store, version, file, persist, loaded, refused, saved, early>>

\* exportLogins, ExportHistory and exportReadings, in SaveHistory's order.
Export(at, section, next) ==
  /\ op.pc = at
  /\ op' = At(next, op.version, op.got \cup (store \cap section))
  /\ UNCHANGED <<store, version, file, persist, loaded, refused, saved, early>>

ExportLogins == Export("logins", Logins, "histories")
ExportHistory == Export("histories", Histories, "readings")
ExportReadings == Export("readings", Readings, "write")

\* WriteFile renames the finished file into place, or leaves the old one.
WriteFile ==
  /\ op.pc = "write"
  /\ \/ file' = Ours(op.got) /\ op' = At("written", op.version, op.got)
     \/ file' = file /\ op' = Idle
  /\ UNCHANGED <<store, version, persist, loaded, refused, saved, early>>

\* A mutation: the version is read once the file is written.
MarkSavedNow ==
  /\ op.pc = "written"
  /\ saved' = version
  /\ op' = Idle
  /\ UNCHANGED <<store, version, file, persist, loaded, refused, early>>

MarkSaved ==
  /\ op.pc = "written"
  /\ saved' = op.version
  /\ op' = Idle
  /\ UNCHANGED <<store, version, file, persist, loaded, refused, early>>

-----------------------------------------------------------------------------
\* The process ends at any point and another run begins; in between a disk
\* fault may spoil the file or a newer build may have written it.
Restart ==
  /\ file' \in IF file.kind = "newer" THEN {file} ELSE {file, Corrupt, Newer}
  /\ persist' \in BOOLEAN
  /\ store' = {} /\ version' = 0
  /\ loaded' = FALSE /\ refused' = FALSE /\ saved' = 0
  /\ op' = Idle /\ early' = {}

Next ==
  \/ \E f \in Facts : Record(f)
  \/ SwitchPersist
  \/ LoadFile \/ SetAside \/ RefuseNewer \/ MarkLoaded
  \/ SaveBegin \/ ExportLogins \/ ExportHistory \/ ExportReadings \/ WriteFile \/ MarkSaved
  \/ Restart

Spec == Init /\ [][Next]_vars

-----------------------------------------------------------------------------
(* Properties *)

Places == {"idle", "loaded", "logins", "histories", "readings", "write", "written"}

\* Type invariant.
TypeOK ==
  /\ store \subseteq Facts /\ early \subseteq Facts
  /\ version \in Nat /\ saved \in Nat
  /\ file \in {Absent, Newer, Corrupt} \cup {Ours(s) : s \in SUBSET Facts}
  /\ persist \in BOOLEAN /\ loaded \in BOOLEAN /\ refused \in BOOLEAN
  /\ op \in [pc : Places, version : Nat, got : SUBSET Facts]

\* A run must not write the file it never took the previous samples from: what
\* a readable file holds, every later one holds, through failed writes, crashes,
\* persistence turned off and on, and restarts.
PastKept ==
  [][file.kind = "ours" /\ file'.kind = "ours" => file.facts \subseteq file'.facts]_vars

\* A file of a newer version belongs to a newer build: it is never written over,
\* not even by a run that turns persistence off and on again.
NewerLeftAlone == [][file.kind = "newer" => file' = file]_vars

\* A store that counts as saved is: when historySaved names the store's version
\* the file holds every fact recorded since the load, although records land
\* between the version, the sections of the copy and the write.
SavedHeld ==
  loaded /\ saved = version => store \ early \subseteq file.facts
=============================================================================
