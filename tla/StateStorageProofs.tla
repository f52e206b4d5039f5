------------------------- MODULE StateStorageProofs -------------------------
(***************************************************************************)
(* When no write fails, SaveStateAtomic implements AtomicStore for every   *)
(* set of packages and contents: no crash leaves a torn file, and the      *)
(* stored table changes as a whole.                                        *)
(***************************************************************************)
EXTENDS StateStorage, TLAPS

\* What the temporary file holds at each call of SaveStateAtomic: the table
\* in memory once it is written, on the medium before it is renamed.
TmpInv ==
  /\ pc \in {"sync", "rename"} => tmp = Whole(g_states)
  /\ pc = "rename" => synced

SaveInv == TypeOK /\ TmpInv /\ BinNeverTorn

\* The table without entries is a table.
LEMMA NoEntriesType == NoEntries \in Tables
  BY DEF NoEntries, Tables

\* A file that holds a table is not a torn one.
LEMMA WholeFile == \A table \in Tables : Whole(table) \in Files /\ Whole(table) # Torn
  BY DEF Whole, Files, Torn

\* The other two are files, and a missing one is not torn.
LEMMA OtherFiles == Missing \in Files /\ Torn \in Files /\ Missing # Torn
  BY DEF Files, Missing, Torn

\* Every file has a table; for a missing or torn one it is the empty table.
LEMMA TableType == \A file \in Files : file.table \in Tables
  BY NoEntriesType DEF Files, Missing, Torn, Whole

\* Each call, kill and power loss keeps the invariant when no write fails.
LEMMA SaveStep ==
  ASSUME ~DiskMayFail, SaveInv, [Next]_vars
  PROVE  SaveInv'
  <1> USE StorageAssumption DEF SaveInv, TypeOK, TmpInv, BinNeverTorn, Saving, fileVars
  <1>1. CASE StartDaemon
    BY <1>1, NoEntriesType DEF StartDaemon
  <1>2. CASE InitializeStateStorage
    BY <1>2, TableType DEF InitializeStateStorage
  <1>3. CASE UpdatePackageState
    BY <1>3 DEF UpdatePackageState, Tables
  <1>4. CASE SaveOpen
    BY <1>4, OtherFiles DEF SaveOpen
  <1>5. CASE SaveWrite
    BY <1>5, WholeFile DEF SaveWrite
  <1>6. CASE SaveSync
    BY <1>6 DEF SaveSync
  <1>7. CASE SaveRename
    BY <1>7, WholeFile, OtherFiles DEF SaveRename
  <1>8. CASE SaveRenameFails
    BY <1>8 DEF SaveRenameFails
  <1>9. CASE Writeback
    BY <1>9 DEF Writeback
  <1>10. CASE ProcessKill
    BY <1>10, NoEntriesType DEF ProcessKill
  <1>11. CASE PowerLoss
    BY <1>11, NoEntriesType, OtherFiles DEF PowerLoss
  <1>12. CASE UNCHANGED vars
    BY <1>12 DEF vars
  <1>13. QED
    BY <1>1, <1>2, <1>3, <1>4, <1>5, <1>6, <1>7, <1>8, <1>9, <1>10, <1>11, <1>12
    DEF Next, SaveStateAtomic

\* The invariant of the save holds in every reachable state.
THEOREM SaveInvariant ==
  ASSUME ~DiskMayFail
  PROVE  Spec => []SaveInv
  <1>1. Init => SaveInv
    BY NoEntriesType, OtherFiles DEF Init, SaveInv, TypeOK, TmpInv, BinNeverTorn
  <1>2. SaveInv /\ [Next]_vars => SaveInv'
    BY SaveStep
  <1>3. QED
    BY <1>1, <1>2, PTL DEF Spec

\* The variables of the history keep their types.
THEOREM StorageTypeCorrect ==
  ASSUME ~DiskMayFail
  PROVE  Spec => []TypeOK
  BY SaveInvariant, PTL DEF SaveInv

\* No kill and no power loss inside SaveStateAtomic tears STATE_FILE.
THEOREM NeverTorn ==
  ASSUME ~DiskMayFail
  PROVE  Spec => []BinNeverTorn
  BY SaveInvariant, PTL DEF SaveInv

\* SaveStateAtomic with its kills and power losses implements AtomicStore: the
\* rename is the save, every other call leaves the stored table alone.
THEOREM Refinement ==
  ASSUME ~DiskMayFail
  PROVE  Spec => ImplementsAtomicStore
  <1>1. Init => Store!Init
    BY NoEntriesType DEF Init, Store!Init, Missing, NoEntries, Tables,
       Store!NoEntries, Store!Tables
  <1>2. SaveInv /\ [Next]_vars => [Store!Next]_(Store!storeVars)
    <2> SUFFICES ASSUME SaveInv, [Next]_vars PROVE [Store!Next]_(Store!storeVars)
      OBVIOUS
    <2> USE DEF SaveInv, TypeOK, fileVars, Store!Next, Store!storeVars
    <2>1. CASE StartDaemon
      BY <2>1 DEF StartDaemon, NoEntries, Store!Start, Store!NoEntries
    <2>2. CASE InitializeStateStorage
      BY <2>2 DEF InitializeStateStorage, Store!Start
    <2>3. CASE UpdatePackageState
      BY <2>3 DEF UpdatePackageState, Store!Update
    <2>4. CASE SaveOpen \/ SaveWrite \/ SaveSync \/ SaveRenameFails
      BY <2>4 DEF SaveOpen, SaveWrite, SaveSync, SaveRenameFails
    <2>5. CASE SaveRename
      <3>1. bin'.table = g_states /\ UNCHANGED g_states
        BY <2>5 DEF SaveRename, TmpInv, Whole
      <3>2. durable' = durable \cup {Whole(g_states)}
        BY <2>5 DEF SaveRename, TmpInv
      <3>3. {file.table : file \in durable'} = {file.table : file \in durable} \cup {g_states}
        <4>1. Whole(g_states).table = g_states
          BY DEF Whole
        <4>2. \A t : t \in {file.table : file \in durable'}
                     <=> t \in {file.table : file \in durable} \/ t = g_states
          BY <3>2, <4>1, Zenon
        <4>3. QED
          BY <4>2, Zenon
      <3>4. QED
        BY <3>1, <3>3 DEF Store!Save
    <2>6. CASE Writeback
      BY <2>6 DEF Writeback, Store!Settle
    <2>7. CASE ProcessKill
      BY <2>7 DEF ProcessKill, NoEntries, Store!Kill, Store!NoEntries
    <2>8. CASE PowerLoss
      BY <2>8 DEF PowerLoss, NoEntries, Store!PowerLoss, Store!NoEntries
    <2>9. CASE UNCHANGED vars
      BY <2>9 DEF vars
    <2>10. QED
      BY <2>1, <2>2, <2>3, <2>4, <2>5, <2>6, <2>7, <2>8, <2>9 DEF Next, SaveStateAtomic
  <1>3. QED
    BY <1>1, <1>2, SaveInvariant, PTL DEF Spec, ImplementsAtomicStore, Store!Spec
=============================================================================
