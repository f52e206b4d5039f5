---------------------------- MODULE AtomicStore -----------------------------
(***************************************************************************)
(* What the package history promises: a table kept in memory, replaced on  *)
(* disk as a whole by a save, and found there as a whole after any crash.  *)
(* A save that returned may still be taken back by a power loss until the  *)
(* file system has written it, but only in favour of an earlier table.     *)
(***************************************************************************)
CONSTANTS
  Hashes,   \* keys of the table: hashed package names
  Values,   \* what the table holds for a key
  Absent    \* no entry

VARIABLES
  mem,          \* the table in memory
  stored,       \* the table a process would find on disk now
  recoverable   \* the tables a power loss could leave there

storeVars == <<mem, stored, recoverable>>

Tables == [Hashes -> Values \cup {Absent}]
NoEntries == [h \in Hashes |-> Absent]

Init ==
  /\ mem = NoEntries
  /\ stored \in Tables
  /\ recoverable = {stored}

\* A process starts, with or without reading the stored table.
Start ==
  /\ mem' \in {NoEntries, stored}
  /\ UNCHANGED <<stored, recoverable>>

Update ==
  /\ \E h \in Hashes, v \in Values : mem' = [mem EXCEPT ![h] = v]
  /\ UNCHANGED <<stored, recoverable>>

Save ==
  /\ stored' = mem
  /\ recoverable' = recoverable \cup {mem}
  /\ UNCHANGED mem

Settle ==
  /\ recoverable' = {stored}
  /\ UNCHANGED <<mem, stored>>

Kill ==
  /\ mem' = NoEntries
  /\ UNCHANGED <<stored, recoverable>>

PowerLoss ==
  /\ mem' = NoEntries
  /\ stored' \in recoverable
  /\ recoverable' = {stored'}

Next == Start \/ Update \/ Save \/ Settle \/ Kill \/ PowerLoss

Spec == Init /\ [][Next]_storeVars
=============================================================================
