---------------------------- MODULE StateStorage ----------------------------
(***************************************************************************)
(* The package history (cache/state_storage.cpp): the table g_states, the  *)
(* file state.bin that SaveStateAtomic replaces through state.tmp, and what *)
(* processes that are killed and devices that lose power leave on disk.     *)
(*                                                                         *)
(* An entry is opaque.  A file is missing, torn, or holds a whole table: a  *)
(* torn one is what InitializeStateStorage rejects by its header, its       *)
(* length or its checksum (the sum of its bytes, which no loss of nonzero   *)
(* bytes preserves).                                                        *)
(***************************************************************************)
CONSTANTS
  Hashes,        \* HashPackageName of the packages seen
  Values,        \* contents of a PackageState
  Absent,        \* no entry in g_states
  DiskMayFail    \* fwrite, fflush and fsync may fail (a full disk)

ASSUME StorageAssumption == Absent \notin Values /\ DiskMayFail \in BOOLEAN

VARIABLES
  pc,        \* "down", "idle", or the next call of SaveStateAtomic
  g_states,
  bin,       \* STATE_FILE
  tmp,       \* STATE_FILE_TMP
  synced,    \* what was written to STATE_FILE_TMP has reached the medium
  durable    \* what a power loss could leave as STATE_FILE

vars == <<pc, g_states, bin, tmp, synced, durable>>
fileVars == <<bin, tmp, synced, durable>>

Tables == [Hashes -> Values \cup {Absent}]
NoEntries == [h \in Hashes |-> Absent]

Missing == [kind |-> "missing", table |-> NoEntries]
Torn == [kind |-> "torn", table |-> NoEntries]
Whole(table) == [kind |-> "whole", table |-> table]
Files == {Missing, Torn} \cup {Whole(table) : table \in Tables}

Saving == {"write", "sync", "rename"}

-----------------------------------------------------------------------------
\* The daemon: main never calls InitializeStateStorage.
StartDaemon ==
  /\ pc = "down"
  /\ pc' = "idle"
  /\ g_states' = NoEntries
  /\ UNCHANGED fileVars

\* InitializeStateStorage, as test_state_storage calls it: only a whole file
\* fills the table.
InitializeStateStorage ==
  /\ pc = "down"
  /\ pc' = "idle"
  /\ g_states' = bin.table
  /\ UNCHANGED fileVars

\* Mutant of UpdatePackageState: the table is replaced by the one entry.
UpdateReplacesTable ==
  /\ pc = "idle"
  /\ \E h \in Hashes, v \in Values : g_states' = [k \in {h} |-> v]
  /\ UNCHANGED <<pc, fileVars>>

\* AnalyzeCaches and CleanDirectorySafely read an entry, change it and put it
\* back; a fresh entry starts from zeroes.
UpdatePackageState ==
  /\ pc = "idle"
  /\ \E h \in Hashes, v \in Values : g_states' = [g_states EXCEPT ![h] = v]
  /\ UNCHANGED <<pc, fileVars>>

\* Mutant of SaveOpen: the state file itself is opened for writing.
SaveOpenInPlace ==
  /\ pc = "idle"
  /\ pc' = "write"
  /\ tmp' = Torn
  /\ bin' = Torn
  /\ durable' = durable \cup {Torn}
  /\ synced' = FALSE
  /\ UNCHANGED g_states

\* SaveStateAtomic: fopen truncates the temporary file.  When it fails the
\* function returns and nothing has changed.
SaveOpen ==
  /\ pc = "idle"
  /\ pc' = "write"
  /\ tmp' = Torn
  /\ synced' = FALSE
  /\ UNCHANGED <<g_states, bin, durable>>

\* Both fwrites and fflush; their results are not looked at.
SaveWrite ==
  /\ pc = "write"
  /\ pc' = "sync"
  /\ \/ tmp' = Whole(g_states)
     \/ DiskMayFail /\ tmp' = Torn
  /\ UNCHANGED <<g_states, bin, synced, durable>>

\* Mutant of SaveSync: the file is closed without fsync.
SaveWithoutSync ==
  /\ pc = "sync"
  /\ pc' = "rename"
  /\ UNCHANGED <<g_states, bin, tmp, synced, durable>>

\* fsync and fclose; nor is this one.
SaveSync ==
  /\ pc = "sync"
  /\ pc' = "rename"
  /\ \/ synced' = TRUE
     \/ DiskMayFail /\ UNCHANGED synced
  /\ UNCHANGED <<g_states, bin, tmp, durable>>

\* The directory is not synced: a power loss may still find the old name, and
\* the new one with the part of the data that reached the medium.
SaveRename ==
  /\ pc = "rename"
  /\ pc' = "idle"
  /\ bin' = tmp
  /\ tmp' = Missing
  /\ durable' = durable \cup {tmp} \cup (IF synced THEN {} ELSE {Torn})
  /\ UNCHANGED <<g_states, synced>>

SaveRenameFails ==
  /\ pc = "rename"
  /\ pc' = "idle"
  /\ UNCHANGED <<g_states, fileVars>>

-----------------------------------------------------------------------------
\* The file system commits what it holds in memory.
Writeback ==
  /\ durable' = {bin}
  /\ UNCHANGED <<pc, g_states, bin, tmp, synced>>

\* The process ends or is killed between any two calls.
ProcessKill ==
  /\ pc # "down"
  /\ pc' = "down"
  /\ g_states' = NoEntries
  /\ UNCHANGED fileVars

PowerLoss ==
  /\ pc' = "down"
  /\ g_states' = NoEntries
  /\ bin' \in durable
  /\ durable' = {bin'}
  /\ tmp' \in {tmp, Torn, Missing}
  /\ synced' = FALSE

-----------------------------------------------------------------------------
Init ==
  /\ pc = "down"
  /\ g_states = NoEntries
  /\ bin = Missing
  /\ tmp = Missing
  /\ synced = FALSE
  /\ durable = {bin}

SaveStateAtomic == SaveOpen \/ SaveWrite \/ SaveSync \/ SaveRename \/ SaveRenameFails

Next ==
  \/ StartDaemon \/ InitializeStateStorage \/ UpdatePackageState
  \/ SaveStateAtomic
  \/ Writeback \/ ProcessKill \/ PowerLoss

Spec == Init /\ [][Next]_vars

-----------------------------------------------------------------------------
TypeOK ==
  /\ pc \in {"down", "idle"} \cup Saving
  /\ g_states \in Tables
  /\ bin \in Files
  /\ tmp \in Files
  /\ synced \in BOOLEAN
  /\ durable \subseteq Files

\* SaveStateAtomic never leaves a torn STATE_FILE, neither visible to the next
\* process nor possible after a power loss, wherever a kill or a power loss
\* falls between its calls.
BinNeverTorn == bin # Torn /\ Torn \notin durable

\* The five calls of SaveStateAtomic, with kills and power losses between
\* them, replace the stored table in one step: they implement AtomicStore.
Store == INSTANCE AtomicStore WITH
  mem <- g_states,
  stored <- bin.table,
  recoverable <- {file.table : file \in durable}
ImplementsAtomicStore == Store!Spec

\* state_storage.hpp, "Initialize state subsystem (loads state from disk)": a
\* package whose history was stored keeps an entry, until power is lost.
StoredHistoryKept ==
  [][\A h \in Hashes :
       bin.table[h] # Absent => PowerLoss \/ bin'.table[h] # Absent]_vars
=============================================================================
