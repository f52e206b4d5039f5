------------------------------ MODULE Cleaner -------------------------------
(***************************************************************************)
(* The deletion of files: CleanDirectorySafely, the per-directory part of  *)
(* RunSystemMaintenanceSweeps and the recursion RemoveRecursiveBatched they *)
(* share (cache/cache_cleaner.cpp), the calls they make on the file system  *)
(* (storage/filesystem.cpp) and the batch limits (diagnostics.cpp).         *)
(*                                                                         *)
(* The recursion is a stack of frames, one per directory being removed.     *)
(* A maintenance run (PerformMaintenance) first sweeps, then cleans, one     *)
(* directory after the other.  Applications write below the directory as     *)
(* often as they like, the screen may turn on and any removal may fail,      *)
(* between any two steps.                                                    *)
(***************************************************************************)
EXTENDS Integers, Sequences, SequencesExt, FiniteSetsExt

CONSTANTS
  Root,       \* the directory cleaned or swept
  Nodes,      \* the paths that may exist below it
  Parent,     \* function: the directory of each of them
  MaxFiles,   \* max_files_per_batch; the configuration may say zero or less
  Quota,      \* max_cleanup_mb_per_run, in files of one unit each
  MaxDirs     \* bound: directories cleaned or swept

ASSUME CleanerAssumption ==
  /\ Root \notin Nodes /\ Nodes # {}
  /\ Parent \in [Nodes -> Nodes \cup {Root}]
  /\ MaxFiles \in Int /\ Quota \in Nat /\ MaxDirs \in Nat

VARIABLES
  pc,       \* "over" between maintenance runs, "idle" between two directories of one
  caller,   \* "sweep" or "clean": what the run has come to
  top,      \* children of Root the outer loop has not taken yet
  stack,    \* frames of RemoveRecursiveBatched, the outermost first
  child,    \* the child that passed the idle check, Root when none is in hand
  g_total_bytes_freed_run,
  history,  \* the package's cleanup was recorded by the last clean
  \* The environment.
  kind,     \* what lstat finds at each path
  screenOn,
  dirs,     \* directories still to be taken
  \* History variables, read by no action.
  base,     \* g_total_bytes_freed_run at the start of the maintenance run
  removed,  \* units unlinked by this run
  aborted,  \* some frame of this run was left by "return false"
  sawOn,    \* an idle check of this directory read the screen on
  sinceOn,  \* files unlinked since the screen last turned on
  exact,    \* since it was listed, nothing but the daemon touched the directory
  taken     \* paths the loops over children have taken since then

vars == <<pc, caller, top, stack, child, g_total_bytes_freed_run, history, kind, screenOn,
          dirs, base, removed, aborted, sawOn, sinceOn, exact, taken>>
ghosts == <<base, removed, aborted, sawOn, sinceOn, exact, taken>>
control == <<caller, dirs, screenOn, base>>

Kinds == {"absent", "file", "dir"}
Children(dir) == {n \in Nodes : Parent[n] = dir /\ kind[n] # "absent"}
IsDir(path) == IF path = Root THEN TRUE ELSE kind[path] = "dir"
Frame == [dir : Nodes, todo : SUBSET Nodes, files_removed : Nat, bytes_freed : Nat]
\* Mutant of Open: the entry ".." is listed too.
OpenWithDotDot(dir) ==
  [dir |-> dir, todo |-> Children(dir) \cup {Parent[dir]}, files_removed |-> 0, bytes_freed |-> 0]

\* GetDirectoryChildren and the counters of a new frame.
Open(dir) == [dir |-> dir, todo |-> Children(dir), files_removed |-> 0, bytes_freed |-> 0]
Pop == SubSeq(stack, 1, Len(stack) - 1)
SetTop(frame) == stack' = [stack EXCEPT ![Len(stack)] = frame]
\* The units each frame of s has freed and not yet ended a batch with.
Units(s) == UNION {{i} \X (1..s[i].bytes_freed) : i \in 1..Len(s)}
Pending == Cardinality(Units(stack))

-----------------------------------------------------------------------------
\* PerformMaintenance is called: by an earlier one's end, early or not, all that
\* is left of it is the total it counted, which nothing resets.
StartRun ==
  /\ pc \in {"over", "idle"}
  /\ pc' = "idle"
  /\ caller' = "sweep"
  /\ base' = g_total_bytes_freed_run
  /\ removed' = 0
  /\ aborted' = FALSE
  /\ UNCHANGED <<top, stack, child, g_total_bytes_freed_run, history, kind, screenOn, dirs,
                 sawOn, sinceOn, exact, taken>>

\* One path of the sweeps, or CleanDirectorySafely once they are through, lists
\* its directory.  The caller of both has just found the device idle.  The
\* daemon's own log, which the sweeps pass over, is not among Nodes.  A directory
\* that cannot be listed ends both at once, with nothing recorded.
Begin ==
  /\ pc = "idle"
  /\ dirs > 0
  /\ ~screenOn
  /\ dirs' = dirs - 1
  /\ caller' \in {"clean", caller}
  /\ \/ top' = Children(Root) /\ pc' = "top"
     \/ UNCHANGED <<top, pc>>
  /\ sawOn' = FALSE
  /\ exact' = TRUE
  /\ taken' = {}
  /\ history' = FALSE
  /\ UNCHANGED <<stack, child, g_total_bytes_freed_run, kind, screenOn,
                 base, removed, aborted, sinceOn>>

\* Mutant of ReturnFalse: CleanDirectorySafely ignores the result as well.
ReturnFalseIgnored ==
  /\ stack' = <<>>
  /\ aborted' = TRUE
  /\ pc' = "top"

\* RemoveRecursiveBatched has returned false: CleanDirectorySafely returns
\* false at once and PerformMaintenance gives up, the sweep goes on with the
\* next child.
ReturnFalse ==
  /\ stack' = <<>>
  /\ aborted' = TRUE
  /\ pc' = IF caller = "clean" THEN "over" ELSE "top"

\* The outer loop calls RemoveRecursiveBatched on a child of Root, which
\* fails when the child is no directory or cannot be opened.
TakeTop ==
  /\ pc = "top"
  /\ \E c \in top :
       /\ top' = top \ {c}
       /\ taken' = taken \cup {c}
       /\ \/ /\ kind[c] = "dir"
             /\ stack' = <<Open(c)>>
             /\ pc' = "remove"
             /\ UNCHANGED aborted
          \/ ReturnFalse
  /\ UNCHANGED <<control, child, g_total_bytes_freed_run, history, kind,
                 removed, sawOn, sinceOn, exact>>

\* The outer loop is done; only CleanDirectorySafely records it.
TopDone ==
  /\ pc = "top"
  /\ top = {}
  /\ history' = (caller = "clean")
  /\ pc' = "idle"
  /\ UNCHANGED <<control, top, stack, child, g_total_bytes_freed_run, kind, ghosts>>

\* Mutant of IdleCheck: the children are taken without a check.
NoIdleCheck ==
  /\ pc = "remove"
  /\ Last(stack).todo # {}
  /\ \E c \in Last(stack).todo :
       /\ child' = c
       /\ SetTop([Last(stack) EXCEPT !.todo = @ \ {c}])
  /\ pc' = "act"
  /\ UNCHANGED <<control, top, g_total_bytes_freed_run, history, kind, ghosts>>

\* The idle check before each child.
IdleCheck ==
  /\ pc = "remove"
  /\ Last(stack).todo # {}
  /\ IF screenOn
       THEN ReturnFalse /\ sawOn' = TRUE /\ UNCHANGED <<child, taken>>
       ELSE /\ \E c \in Last(stack).todo :
                 /\ child' = c
                 /\ taken' = taken \cup {c}
                 /\ SetTop([Last(stack) EXCEPT !.todo = @ \ {c}])
            /\ pc' = "act"
            /\ UNCHANGED <<aborted, sawOn>>
  /\ UNCHANGED <<control, top, g_total_bytes_freed_run, history, kind, removed, sinceOn, exact>>

\* Mutant of SkipChild: a child that is gone makes the loop list its directory
\* again.
SkipChildRelists ==
  /\ pc = "act"
  /\ kind[child] \in {"absent", "file"}
  /\ pc' = "batch"
  /\ exact' = (exact /\ kind[child] = "absent")
  /\ IF kind[child] = "absent"
       THEN SetTop([Last(stack) EXCEPT !.todo = Children(Last(stack).dir)])
       ELSE UNCHANGED stack
  /\ child' = Root
  /\ UNCHANGED <<control, top, g_total_bytes_freed_run, history, kind,
                 removed, aborted, sawOn, sinceOn, taken>>

\* lstat fails, or unlink does: the child is passed over.
SkipChild ==
  /\ pc = "act"
  /\ kind[child] \in {"absent", "file"}
  /\ pc' = "batch"
  /\ exact' = (exact /\ kind[child] = "absent")
  /\ child' = Root
  /\ UNCHANGED <<control, top, stack, g_total_bytes_freed_run, history, kind,
                 removed, aborted, sawOn, sinceOn, taken>>

\* The child is a directory: recurse, unless it cannot be opened any more.
Descend ==
  /\ pc = "act"
  /\ kind[child] = "dir"
  /\ \/ stack' = Append(stack, Open(child)) /\ pc' = "remove" /\ UNCHANGED aborted
     \/ ReturnFalse
  /\ child' = Root
  /\ UNCHANGED <<control, top, g_total_bytes_freed_run, history, kind,
                 removed, sawOn, sinceOn, exact, taken>>

RemoveFile ==
  /\ pc = "act"
  /\ kind[child] = "file"
  /\ kind' = [kind EXCEPT ![child] = "absent"]
  /\ SetTop([Last(stack) EXCEPT !.files_removed = @ + 1, !.bytes_freed = @ + 1])
  /\ pc' = "batch"
  /\ removed' = removed + 1
  /\ sinceOn' = IF screenOn THEN sinceOn + 1 ELSE sinceOn
  /\ child' = Root
  /\ UNCHANGED <<control, top, g_total_bytes_freed_run, history, aborted, sawOn, exact, taken>>

\* EndBatch adds the batch up and refuses to go on beyond the quota, or when
\* CheckSelfLimits fails; otherwise a new batch is started.
EndBatch(frame) ==
  /\ g_total_bytes_freed_run' = g_total_bytes_freed_run + frame.bytes_freed
  /\ \/ /\ g_total_bytes_freed_run' <= Quota
        /\ SetTop([frame EXCEPT !.files_removed = 0, !.bytes_freed = 0])
        /\ pc' = "remove"
        /\ UNCHANGED aborted
     \/ ReturnFalse

\* After every child, whatever became of it: a full batch is ended.
BatchCheck ==
  /\ pc = "batch"
  /\ \/ Last(stack).files_removed >= MaxFiles /\ EndBatch(Last(stack))
     \/ /\ Last(stack).files_removed < MaxFiles
        /\ pc' = "remove"
        /\ UNCHANGED <<stack, g_total_bytes_freed_run, aborted>>
  /\ UNCHANGED <<control, top, child, history, kind, removed, sawOn, sinceOn, exact, taken>>

\* Mutant of RemoveDirectory: the last batch is not ended.
RemoveDirectoryUncounted ==
  /\ pc = "remove"
  /\ Last(stack).todo = {}
  /\ \/ /\ Children(Last(stack).dir) = {}
        /\ kind' = [kind EXCEPT ![Last(stack).dir] = "absent"]
        /\ UNCHANGED exact
     \/ UNCHANGED kind /\ exact' = FALSE
  /\ stack' = Pop
  /\ pc' = IF Len(stack) = 1 THEN "top" ELSE "batch"
  /\ UNCHANGED <<control, top, child, g_total_bytes_freed_run, history,
                 removed, aborted, sawOn, sinceOn, taken>>

\* The last batch of a directory: its verdict is not looked at.  SafeRemove of
\* the directory fails when something is left in it.
RemoveDirectory ==
  /\ pc = "remove"
  /\ Last(stack).todo = {}
  /\ g_total_bytes_freed_run' = g_total_bytes_freed_run + Last(stack).bytes_freed
  /\ \/ /\ Children(Last(stack).dir) = {}
        /\ kind' = [kind EXCEPT ![Last(stack).dir] = "absent"]
        /\ UNCHANGED exact
     \/ UNCHANGED kind /\ exact' = FALSE
  /\ stack' = Pop
  /\ pc' = IF Len(stack) = 1 THEN "top" ELSE "batch"
  /\ UNCHANGED <<control, top, child, history, removed, aborted, sawOn, sinceOn, taken>>

-----------------------------------------------------------------------------
ScreenToggle ==
  /\ screenOn' = ~screenOn
  /\ sinceOn' = 0
  /\ UNCHANGED <<pc, caller, top, stack, child, g_total_bytes_freed_run, history, kind,
                 dirs, base, removed, aborted, sawOn, exact, taken>>

\* Applications create files and directories in their cache, and delete them,
\* at any time and without end.
AppWrites ==
  /\ \E n \in Nodes :
       /\ IsDir(Parent[n])
       /\ \E k \in Kinds \ {kind[n]} :
            /\ kind[n] = "absent" \/ (k = "absent" /\ Children(n) = {})
            /\ kind' = [kind EXCEPT ![n] = k]
  /\ exact' = FALSE
  /\ UNCHANGED <<pc, caller, top, stack, child, g_total_bytes_freed_run, history, screenOn,
                 dirs, base, removed, aborted, sawOn, sinceOn, taken>>

-----------------------------------------------------------------------------
Init ==
  /\ pc = "over"
  /\ caller = "sweep"
  /\ top = {}
  /\ stack = <<>>
  /\ child = Root
  /\ g_total_bytes_freed_run = 0
  /\ history = FALSE
  /\ kind \in [Nodes -> Kinds]
  /\ \A n \in Nodes : kind[n] # "absent" => IsDir(Parent[n])
  /\ screenOn = FALSE
  /\ dirs = MaxDirs
  /\ base = 0 /\ removed = 0 /\ aborted = FALSE /\ sawOn = FALSE /\ sinceOn = 0 /\ exact = FALSE
  /\ taken = {}

RemoveRecursiveBatched ==
  IdleCheck \/ SkipChild \/ Descend \/ RemoveFile \/ BatchCheck \/ RemoveDirectory
Clean == TakeTop \/ TopDone \/ RemoveRecursiveBatched
Next == StartRun \/ Begin \/ Clean \/ ScreenToggle \/ AppWrites

Spec == Init /\ [][Next]_vars /\ WF_vars(Clean)

-----------------------------------------------------------------------------
FlagsOK ==
  /\ history \in BOOLEAN /\ screenOn \in BOOLEAN /\ aborted \in BOOLEAN
  /\ sawOn \in BOOLEAN /\ exact \in BOOLEAN

TypeOK ==
  /\ FlagsOK
  /\ pc \in {"over", "idle", "top", "remove", "act", "batch"}
  /\ caller \in {"clean", "sweep"}
  /\ top \subseteq Nodes
  /\ stack \in Seq(Frame)
  /\ child \in Nodes \cup {Root} /\ (pc = "act" => child \in Nodes)
  /\ g_total_bytes_freed_run \in Nat
  /\ kind \in [Nodes -> Kinds]
  /\ dirs \in 0..MaxDirs
  /\ base \in Nat /\ removed \in Nat /\ sinceOn \in Nat
  /\ taken \subseteq Nodes

\* Once the screen has turned on, at most the one file whose check came first
\* is unlinked, however deep the recursion is and whichever caller runs it.
AtMostOneFileAfterWake == sinceOn <= 1

\* A directory recorded as cleaned was left by no failed check, and when only
\* the daemon touched it and no removal failed nothing is left in it.
RecordedMeansEmptied ==
  history => ~sawOn /\ (exact => Children(Root) = {})

\* Until some recursion of a maintenance run is aborted, every unit the run has
\* unlinked is counted once: in the total EndBatch has added up since the run
\* began, or in a frame that will add it.
RemovalsCounted == ~aborted => removed = g_total_bytes_freed_run - base + Pending

\* When EndBatch reports that the maximum "for this run" is reached, this run
\* has removed more than the maximum.  It need not have: the total it compares
\* is that of every run since the process started.
QuotaIsPerRun ==
  [][g_total_bytes_freed_run' > g_total_bytes_freed_run /\ g_total_bytes_freed_run' > Quota
       => removed > Quota]_vars

\* The step hands path n to RemoveRecursiveBatched or to its loop's body.
Takes(n) ==
  \/ pc = "top" /\ n \in top \ top'
  \/ pc = "remove" /\ pc' = "act" /\ n = child'

\* Within one clean or sweep no path is taken a second time, although removals
\* fail and applications put back what was removed: the work is bounded by the
\* paths that exist, not by how often they change.
NothingTakenTwice == [][\A n \in taken : ~Takes(n)]_vars

\* Listing once per directory makes every clean end, however often applications
\* write below it meanwhile.
CleanEnds == (pc \in {"top", "remove", "act", "batch"}) ~> (pc \in {"over", "idle"})
=============================================================================
