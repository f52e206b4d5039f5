---------------------------- MODULE CleanerProofs ---------------------------
(***************************************************************************)
(* Theorems about Cleaner: for every tree of paths, batch size and quota,   *)
(* whatever applications write, a removal that meets a lit screen stops, a  *)
(* directory recorded as clean was emptied unless a removal failed, every   *)
(* unit a run removed is counted until a removal is aborted, and no path is *)
(* taken twice in one clean.                                                *)
(***************************************************************************)
EXTENDS Cleaner, SequenceTheorems, FiniteSetTheorems, TLAPS

\* There are frames exactly inside the recursion.
StackInv == stack = <<>> <=> pc \in {"over", "idle", "top"}

\* Files are unlinked in a lit room only by the step after a check.
WakeInv ==
  /\ sinceOn \in 0..1
  /\ ~screenOn \/ pc = "act" => sinceOn = 0

\* The child of Root being removed.
Outermost == IF stack = <<>> THEN {} ELSE {stack[1].dir}

\* Inside CleanDirectorySafely or one path of the sweeps.
Busy == {"top", "remove", "act", "batch"}

\* While a directory is cleaned nothing is recorded, no check has failed, and
\* what is left in it is still to be taken or being removed.
CleanedInv ==
  /\ pc \in Busy => ~history
  /\ caller = "clean" /\ pc \in Busy =>
       ~sawOn /\ (exact => Children(Root) \subseteq top \cup Outermost)

CleanInv == TypeOK /\ StackInv /\ WakeInv /\ CleanedInv /\ RecordedMeansEmptied

-----------------------------------------------------------------------------
\* Every frame that is opened is one, and lists children only.
LEMMA OpenIsFrame == \A dir \in Nodes : Open(dir) \in Frame /\ Open(dir).dir = dir
  BY DEF Open, Frame, Children

\* Changing the top frame's counters or list keeps the stack and its
\* outermost directory.
LEMMA SetTopKeeps ==
  ASSUME TypeOK, stack # <<>>, NEW frame \in Frame, frame.dir = Last(stack).dir, SetTop(frame)
  PROVE  stack' \in Seq(Frame) /\ stack' # <<>> /\ stack'[1].dir = stack[1].dir
  BY DEF TypeOK, SetTop, Last

\* Counting in a frame.
LEMMA CountedFrame ==
  ASSUME NEW f \in Frame, NEW x \in Nat, NEW y \in Nat
  PROVE  LET frame == [f EXCEPT !.files_removed = x, !.bytes_freed = y]
         IN  frame \in Frame /\ frame.dir = f.dir /\ frame.bytes_freed = y
  BY DEF Frame

\* The top frame.
LEMMA TopIsFrame ==
  ASSUME TypeOK, stack # <<>>
  PROVE  Last(stack) \in Frame /\ Last(stack).dir \in Nodes
<1>1. Len(stack) \in 1..Len(stack)
  BY DEF TypeOK
<1>2. Last(stack) \in Frame
  BY <1>1 DEF TypeOK, Last
<1>3. QED
  BY <1>2 DEF Frame

\* Removals leave no child that was not there.
LEMMA RemovalShrinks ==
  ASSUME NEW n \in Nodes, kind \in [Nodes -> Kinds], kind' = [kind EXCEPT ![n] = "absent"]
  PROVE  /\ Children(Root)' \subseteq Children(Root)
         /\ n \notin Children(Root)'
         /\ kind' \in [Nodes -> Kinds]
  BY DEF Children, Kinds

\* Nothing is open or recorded at the start.
LEMMA InitClean == Init => CleanInv
<1> SUFFICES ASSUME Init PROVE CleanInv
  OBVIOUS
<1>1. FlagsOK
  BY Zenon DEF Init, FlagsOK
<1>2. TypeOK
  BY <1>1, CleanerAssumption DEF Init, TypeOK
<1>3. QED
  BY <1>2 DEF Init, CleanInv, Busy, StackInv, WakeInv, CleanedInv, RecordedMeansEmptied

\* A failed removal keeps the invariant, with or without a check that read
\* the screen on, in either caller.
LEMMA ReturnFalseKeeps ==
  ASSUME CleanInv, pc \in Busy, ReturnFalse,
         FlagsOK', kind' \in [Nodes -> Kinds], child' \in Nodes \cup {Root}, top' \subseteq Nodes,
         g_total_bytes_freed_run' \in Nat, removed' \in Nat, taken' \subseteq Nodes, WakeInv',
         UNCHANGED <<control, history>>
  PROVE  CleanInv'
<1>1. TypeOK'
  BY DEF ReturnFalse, CleanInv, TypeOK, control, WakeInv
<1>2. StackInv'
  BY DEF ReturnFalse, StackInv
<1>3. ~history'
  BY DEF CleanInv, CleanedInv
<1>4. CleanedInv'
  BY <1>3 DEF ReturnFalse, CleanInv, TypeOK, CleanedInv, control, Busy
<1>5. QED
  BY <1>1, <1>2, <1>3, <1>4 DEF CleanInv, RecordedMeansEmptied

\* A step inside the recursion that goes on with the same outermost directory.
LEMMA GoesOnKeeps ==
  ASSUME CleanInv, pc \in Busy, pc' \in {"remove", "act", "batch"},
         FlagsOK', child' \in Nodes \cup {Root}, pc' = "act" => child' \in Nodes, g_total_bytes_freed_run' \in Nat, removed' \in Nat,
         taken' \subseteq Nodes, WakeInv',
         stack' \in Seq(Frame), stack' # <<>>, Outermost \subseteq {stack'[1].dir},
         kind' \in [Nodes -> Kinds], Children(Root)' \subseteq Children(Root),
         exact' => exact, UNCHANGED <<control, top, history, sawOn>>
  PROVE  CleanInv'
<1>1. TypeOK'
  BY DEF CleanInv, TypeOK, control, WakeInv
<1>2. StackInv'
  BY DEF StackInv
<1>3. ~history'
  BY DEF CleanInv, CleanedInv
<1>4. CleanedInv'
  BY <1>3 DEF CleanInv, CleanedInv, control, Outermost, Busy
<1>5. QED
  BY <1>1, <1>2, <1>3, <1>4 DEF CleanInv, RecordedMeansEmptied

\* The outer loop: listing, taking a child, recording.
LEMMA OuterKeeps == ASSUME CleanInv, StartRun \/ Begin \/ TakeTop \/ TopDone PROVE CleanInv'
<1>0. CASE StartRun
  <2>1. FlagsOK'
    BY <1>0, Zenon DEF StartRun, CleanInv, TypeOK, FlagsOK
  <2>2. TypeOK'
    BY <1>0, <2>1 DEF StartRun, CleanInv, TypeOK
  <2>3. StackInv' /\ WakeInv'
    BY <1>0 DEF StartRun, CleanInv, StackInv, WakeInv
  <2>4. Children(Root)' = Children(Root)
    BY <1>0 DEF StartRun, Children
  <2>5. CleanedInv' /\ RecordedMeansEmptied'
    BY <1>0, <2>4 DEF StartRun, CleanInv, CleanedInv, RecordedMeansEmptied, Busy
  <2>6. QED
    BY <2>2, <2>3, <2>5 DEF CleanInv
<1>1. CASE Begin
  <2>1. FlagsOK'
    BY <1>1, Zenon DEF Begin, CleanInv, TypeOK, FlagsOK
  <2>2. TypeOK'
    <3>1. top' \subseteq Nodes /\ pc' \in {"idle", "top"}
      BY <1>1 DEF Begin, CleanInv, TypeOK, Children
    <3>2. dirs' \in 0..MaxDirs
      BY <1>1, CleanerAssumption DEF Begin, CleanInv, TypeOK
    <3>3. caller' \in {"clean", "sweep"}
      BY <1>1 DEF Begin, CleanInv, TypeOK
    <3>4. QED
      BY <1>1, <2>1, <3>1, <3>2, <3>3 DEF Begin, CleanInv, TypeOK
  <2>3. StackInv' /\ WakeInv'
    BY <1>1 DEF Begin, CleanInv, StackInv, WakeInv
  <2>4. Children(Root)' = Children(Root)
    BY <1>1 DEF Begin, Children
  <2>5. ~history' /\ ~sawOn' /\ (pc' = "idle" \/ top' = Children(Root)')
    <3>1. ~history' /\ ~sawOn'
      BY <1>1 DEF Begin
    <3>2. pc' = "idle" \/ top' = Children(Root)'
      BY <1>1, <2>4 DEF Begin
    <3>3. QED
      BY <3>1, <3>2
  <2>6. CleanedInv' /\ RecordedMeansEmptied'
    BY <2>5 DEF CleanedInv, RecordedMeansEmptied, Busy
  <2>7. QED
    BY <2>2, <2>3, <2>6 DEF CleanInv
<1>2. CASE TakeTop
  <2>1. PICK c \in top :
          /\ top' = top \ {c}
          /\ \/ kind[c] = "dir" /\ stack' = <<Open(c)>> /\ pc' = "remove" /\ UNCHANGED aborted
             \/ ReturnFalse
    BY <1>2 DEF TakeTop
  <2>2. FlagsOK'
    BY <1>2, <2>1, Zenon DEF TakeTop, ReturnFalse, control, CleanInv, TypeOK, FlagsOK
  <2>3. c \in Nodes /\ stack = <<>>
    BY <1>2 DEF TakeTop, CleanInv, TypeOK, StackInv
  <2>4. CASE ReturnFalse
    <3>1. WakeInv'
      BY <1>2, <2>4 DEF TakeTop, ReturnFalse, control, CleanInv, WakeInv
    <3>2. QED
      BY <1>2, <2>1, <2>2, <2>4, <3>1, ReturnFalseKeeps DEF TakeTop, CleanInv, TypeOK, Busy
  <2>5. CASE stack' = <<Open(c)>> /\ pc' = "remove"
    <3>1. stack' \in Seq(Frame) /\ stack' # <<>> /\ stack'[1].dir = c
      BY <2>3, <2>5, OpenIsFrame
    <3>2. TypeOK'
      BY <1>2, <2>1, <2>2, <2>5, <3>1 DEF TakeTop, control, CleanInv, TypeOK
    <3>3. StackInv' /\ WakeInv'
      BY <1>2, <2>5, <3>1 DEF TakeTop, control, CleanInv, StackInv, WakeInv
    <3>4. Children(Root)' = Children(Root)
      BY <1>2 DEF TakeTop, Children
    <3>5. ~history'
      BY <1>2 DEF TakeTop, CleanInv, CleanedInv, Busy
    <3>6. CleanedInv' /\ RecordedMeansEmptied'
      BY <1>2, <2>1, <2>3, <2>5, <3>1, <3>4, <3>5
      DEF TakeTop, control, CleanInv, CleanedInv, RecordedMeansEmptied, Outermost, Busy
    <3>7. QED
      BY <3>2, <3>3, <3>6 DEF CleanInv
  <2>6. QED
    BY <2>1, <2>4, <2>5
<1>3. CASE TopDone
  <2>1. FlagsOK'
    BY <1>3, Zenon DEF TopDone, control, ghosts, CleanInv, TypeOK, FlagsOK
  <2>2. TypeOK'
    BY <1>3, <2>1 DEF TopDone, control, ghosts, CleanInv, TypeOK
  <2>3. StackInv' /\ WakeInv'
    BY <1>3 DEF TopDone, control, ghosts, CleanInv, StackInv, WakeInv
  <2>4. Children(Root)' = Children(Root)
    BY <1>3 DEF TopDone, Children
  <2>5. CleanedInv' /\ RecordedMeansEmptied'
    BY <1>3, <2>4 DEF TopDone, control, ghosts, CleanInv, StackInv, CleanedInv,
         RecordedMeansEmptied, Outermost, Busy
  <2>6. QED
    BY <2>2, <2>3, <2>5 DEF CleanInv
<1>4. QED
  BY <1>0, <1>1, <1>2, <1>3

\* The recursion.
LEMMA RecursionKeeps == ASSUME CleanInv, RemoveRecursiveBatched PROVE CleanInv'
<1>1. stack # <<>> /\ pc \in Busy /\ Last(stack) \in Frame /\ Last(stack).dir \in Nodes
  BY TopIsFrame DEF RemoveRecursiveBatched, IdleCheck, SkipChild, Descend, RemoveFile,
       BatchCheck, RemoveDirectory, CleanInv, StackInv, Busy
<1>2. CASE IdleCheck
  <2>1. FlagsOK'
    BY <1>2, Zenon DEF IdleCheck, ReturnFalse, control, CleanInv, TypeOK, FlagsOK
  <2>2. CASE screenOn
    <3>1. WakeInv'
      BY <1>2, <2>2 DEF IdleCheck, ReturnFalse, control, CleanInv, WakeInv
    <3>2. QED
      BY <1>1, <1>2, <2>1, <2>2, <3>1, ReturnFalseKeeps DEF IdleCheck, CleanInv, TypeOK
  <2>3. CASE ~screenOn
    <3>1. PICK c \in Last(stack).todo :
            child' = c /\ SetTop([Last(stack) EXCEPT !.todo = @ \ {c}])
      BY <1>2, <2>3 DEF IdleCheck
    <3> DEFINE frame == [Last(stack) EXCEPT !.todo = @ \ {c}]
    <3>2. frame \in Frame /\ frame.dir = Last(stack).dir /\ c \in Nodes
      BY <1>1 DEF Frame
    <3>3. stack' \in Seq(Frame) /\ stack' # <<>> /\ stack'[1].dir = stack[1].dir
      BY <1>1, <3>1, <3>2, SetTopKeeps DEF CleanInv
    <3>4. WakeInv'
      BY <1>2, <2>3 DEF IdleCheck, control, CleanInv, WakeInv
    <3>5. Children(Root)' = Children(Root)
      BY <1>2 DEF IdleCheck, Children
    <3>6. pc' = "act" /\ UNCHANGED sawOn
      BY <1>2, <2>3 DEF IdleCheck
    <3>7. QED
      BY <1>1, <1>2, <2>1, <3>1, <3>2, <3>3, <3>4, <3>5, <3>6, GoesOnKeeps
      DEF IdleCheck, CleanInv, TypeOK, Outermost
  <2>4. QED
    BY <2>2, <2>3
<1>3. CASE SkipChild
  <2>1. FlagsOK' /\ (exact' => exact)
    BY <1>3, Zenon DEF SkipChild, control, CleanInv, TypeOK, FlagsOK
  <2>2. WakeInv'
    BY <1>3 DEF SkipChild, control, CleanInv, WakeInv
  <2>3. Children(Root)' = Children(Root)
    BY <1>3 DEF SkipChild, Children
  <2>4. QED
    BY <1>1, <1>3, <2>1, <2>2, <2>3, GoesOnKeeps DEF SkipChild, CleanInv, TypeOK, Outermost
<1>4. CASE Descend
  <2>1. FlagsOK'
    BY <1>4, Zenon DEF Descend, ReturnFalse, control, CleanInv, TypeOK, FlagsOK
  <2>2. WakeInv'
    BY <1>4 DEF Descend, ReturnFalse, control, CleanInv, WakeInv
  <2>3. CASE ReturnFalse
    BY <1>1, <1>4, <2>1, <2>2, <2>3, ReturnFalseKeeps DEF Descend, CleanInv, TypeOK
  <2>4. CASE stack' = Append(stack, Open(child)) /\ pc' = "remove"
    <3>1. Open(child) \in Frame
      BY <1>4, OpenIsFrame DEF Descend, CleanInv, TypeOK
    <3>2. stack' \in Seq(Frame) /\ stack' # <<>> /\ stack'[1] = stack[1]
      BY <1>1, <2>4, <3>1 DEF CleanInv, TypeOK
    <3>3. Children(Root)' = Children(Root)
      BY <1>4 DEF Descend, Children
    <3>4. QED
      BY <1>1, <1>4, <2>1, <2>2, <2>4, <3>2, <3>3, GoesOnKeeps
      DEF Descend, CleanInv, TypeOK, Outermost
  <2>5. QED
    BY <1>4, <2>3, <2>4 DEF Descend
<1>5. CASE RemoveFile
  <2> DEFINE frame == [Last(stack) EXCEPT !.files_removed = @ + 1, !.bytes_freed = @ + 1]
  <2>1. frame \in Frame /\ frame.dir = Last(stack).dir /\ frame.bytes_freed \in Nat
    <3>1. Last(stack).files_removed + 1 \in Nat /\ Last(stack).bytes_freed + 1 \in Nat
      BY <1>1 DEF Frame
    <3>2. QED
      BY <1>1, <3>1, CountedFrame
  <2>2. SetTop(frame) /\ pc' = "batch"
    BY <1>5 DEF RemoveFile
  <2> HIDE DEF frame
  <2>3. stack' \in Seq(Frame) /\ stack' # <<>> /\ stack'[1].dir = stack[1].dir
    BY <1>1, <2>1, <2>2, SetTopKeeps DEF CleanInv
  <2>4. FlagsOK'
    BY <1>5, Zenon DEF RemoveFile, control, CleanInv, TypeOK, FlagsOK
  <2>5. WakeInv'
    <3>1. sinceOn = 0 /\ screenOn' = screenOn
          /\ sinceOn' = IF screenOn THEN sinceOn + 1 ELSE sinceOn
      BY <1>5 DEF RemoveFile, control, CleanInv, WakeInv
    <3>2. QED
      BY <2>2, <3>1 DEF WakeInv
  <2>6. child \in Nodes
    BY <1>5 DEF RemoveFile, CleanInv, TypeOK
  <2>7. kind' \in [Nodes -> Kinds] /\ Children(Root)' \subseteq Children(Root)
    BY <1>5, <2>6, RemovalShrinks DEF RemoveFile, CleanInv, TypeOK
  <2>8. removed' \in Nat /\ g_total_bytes_freed_run' \in Nat /\ child' = Root
    BY <1>5 DEF RemoveFile, CleanInv, TypeOK
  <2>9. QED
    BY <1>1, <1>5, <2>2, <2>3, <2>4, <2>5, <2>7, <2>8, GoesOnKeeps
    DEF RemoveFile, CleanInv, TypeOK, Outermost
<1>6. CASE BatchCheck
  <2> DEFINE fresh == [Last(stack) EXCEPT !.files_removed = 0, !.bytes_freed = 0]
  <2>1. fresh \in Frame /\ fresh.dir = Last(stack).dir /\ Last(stack).bytes_freed \in Nat
    BY <1>1 DEF Frame
  <2>2. \/ ReturnFalse
        \/ (SetTop(fresh) \/ UNCHANGED stack) /\ pc' = "remove" /\ UNCHANGED aborted
    BY <1>6 DEF BatchCheck, EndBatch
  <2>3. g_total_bytes_freed_run' \in Nat
    BY <1>6, <2>1 DEF BatchCheck, EndBatch, CleanInv, TypeOK
  <2> HIDE DEF fresh
  <2>4. FlagsOK'
    BY <1>6, <2>2, Zenon DEF BatchCheck, ReturnFalse, control, CleanInv, TypeOK, FlagsOK
  <2>5. WakeInv'
    <3>1. pc' # "act"
      BY <2>2 DEF ReturnFalse
    <3>2. QED
      BY <1>6, <3>1 DEF BatchCheck, control, CleanInv, WakeInv
  <2>6. Children(Root)' = Children(Root)
    BY <1>6 DEF BatchCheck, Children
  <2>7. CASE ReturnFalse
    BY <1>1, <1>6, <2>3, <2>4, <2>5, <2>7, ReturnFalseKeeps DEF BatchCheck, CleanInv, TypeOK
  <2>8. CASE (SetTop(fresh) \/ UNCHANGED stack) /\ pc' = "remove"
    <3>1. stack' \in Seq(Frame) /\ stack' # <<>> /\ stack'[1].dir = stack[1].dir
      <4>1. CASE SetTop(fresh)
        BY <1>1, <2>1, <4>1, SetTopKeeps DEF CleanInv
      <4>2. CASE UNCHANGED stack
        BY <1>1, <4>2 DEF CleanInv, TypeOK
      <4>3. QED
        BY <2>8, <4>1, <4>2
    <3>2. QED
      BY <1>1, <1>6, <2>3, <2>4, <2>5, <2>6, <2>8, <3>1, GoesOnKeeps
      DEF BatchCheck, CleanInv, TypeOK, Outermost
  <2>9. QED
    BY <2>2, <2>7, <2>8
<1>7. CASE RemoveDirectory
  <2> DEFINE dir == Last(stack).dir
  <2>1. \/ kind' = [kind EXCEPT ![dir] = "absent"] /\ UNCHANGED exact
        \/ UNCHANGED kind /\ exact' = FALSE
    BY <1>7 DEF RemoveDirectory
  <2>2. FlagsOK' /\ (exact' => exact)
    <3>1. FlagsOK'
      BY <1>7, Zenon DEF RemoveDirectory, control, CleanInv, TypeOK, FlagsOK
    <3>2. exact' => exact
      BY <2>1
    <3>3. QED
      BY <3>1, <3>2
  <2>3. /\ kind' \in [Nodes -> Kinds]
        /\ Children(Root)' \subseteq Children(Root)
        /\ exact' => dir \notin Children(Root)'
    <3>1. CASE kind' = [kind EXCEPT ![dir] = "absent"]
      BY <1>1, <3>1, RemovalShrinks DEF CleanInv, TypeOK
    <3>2. CASE UNCHANGED kind /\ exact' = FALSE
      BY <3>2 DEF CleanInv, TypeOK, Children
    <3>3. QED
      BY <2>1, <3>1, <3>2
  <2>4. g_total_bytes_freed_run' \in Nat
    BY <1>1, <1>7 DEF RemoveDirectory, CleanInv, TypeOK, Frame
  <2>5. WakeInv'
    BY <1>7 DEF RemoveDirectory, control, CleanInv, WakeInv
  <2>6. stack' \in Seq(Frame)
    BY <1>1, <1>7 DEF RemoveDirectory, Pop, CleanInv, TypeOK
  <2>7. CASE Len(stack) = 1
    <3>1. stack' = <<>> /\ pc' = "top" /\ dir = stack[1].dir
      BY <1>7, <2>7 DEF RemoveDirectory, Pop, Last, CleanInv, TypeOK
    <3>2. TypeOK'
      BY <1>7, <2>2, <2>3, <2>4, <2>5, <3>1 DEF RemoveDirectory, control, CleanInv, TypeOK, WakeInv
    <3>3. StackInv' /\ ~history'
      BY <1>1, <1>7, <3>1 DEF RemoveDirectory, StackInv, CleanInv, CleanedInv, Busy
    <3>4. CleanedInv'
      BY <1>1, <1>7, <2>2, <2>3, <3>1, <3>3
      DEF RemoveDirectory, control, CleanInv, CleanedInv, Outermost, Busy
    <3>5. QED
      BY <2>5, <3>2, <3>3, <3>4 DEF CleanInv, RecordedMeansEmptied
  <2>8. CASE Len(stack) # 1
    <3>1. stack' # <<>> /\ stack'[1] = stack[1] /\ pc' = "batch"
      <4>1. stack \in Seq(Frame)
        BY DEF CleanInv, TypeOK
      <4>2. Len(stack) \in Nat /\ Len(stack) >= 2
        <5>1. Len(stack) \in Nat \ {0}
          BY <1>1, <4>1, EmptySeq, Zenon
        <5>2. \A n \in Nat \ {0} : n # 1 => n \in Nat /\ n >= 2
          OBVIOUS
        <5>3. QED
          BY <2>8, <5>1, <5>2, Zenon
      <4>3. stack' = SubSeq(stack, 1, Len(stack) - 1) /\ pc' = "batch"
        BY <1>7, <2>8 DEF RemoveDirectory, Pop
      <4>4. Len(stack') = Len(stack) - 1 /\ stack'[1] = stack[1]
        BY <4>1, <4>2, <4>3
      <4>5. stack' # <<>>
        BY <4>2, <4>4
      <4>6. QED
        BY <4>3, <4>4, <4>5
    <3>2. QED
      BY <1>1, <1>7, <2>2, <2>3, <2>4, <2>5, <2>6, <3>1, GoesOnKeeps
      DEF RemoveDirectory, CleanInv, TypeOK, Outermost
  <2>9. QED
    BY <2>7, <2>8
<1>8. QED
  BY <1>2, <1>3, <1>4, <1>5, <1>6, <1>7 DEF RemoveRecursiveBatched

\* The screen and the applications.
LEMMA WorldKeeps == ASSUME CleanInv, ScreenToggle \/ AppWrites PROVE CleanInv'
<1>1. CASE ScreenToggle
  <2>1. FlagsOK'
    BY <1>1, Zenon DEF ScreenToggle, CleanInv, TypeOK, FlagsOK
  <2>2. TypeOK' /\ StackInv' /\ WakeInv'
    BY <1>1, <2>1 DEF ScreenToggle, CleanInv, TypeOK, StackInv, WakeInv
  <2>3. Children(Root)' = Children(Root)
    BY <1>1 DEF ScreenToggle, Children
  <2>4. CleanedInv' /\ RecordedMeansEmptied'
    BY <1>1, <2>3 DEF ScreenToggle, CleanInv, CleanedInv, RecordedMeansEmptied, Outermost, Busy
  <2>5. QED
    BY <2>2, <2>4 DEF CleanInv
<1>2. CASE AppWrites
  <2>1. FlagsOK'
    BY <1>2, Zenon DEF AppWrites, CleanInv, TypeOK, FlagsOK
  <2>2. kind' \in [Nodes -> Kinds]
    BY <1>2 DEF AppWrites, CleanInv, TypeOK
  <2>3. TypeOK' /\ StackInv' /\ WakeInv'
    BY <1>2, <2>1, <2>2, CleanerAssumption
    DEF AppWrites, CleanInv, TypeOK, StackInv, WakeInv
  <2>4. CleanedInv' /\ RecordedMeansEmptied'
    BY <1>2 DEF AppWrites, CleanInv, CleanedInv, RecordedMeansEmptied
  <2>5. QED
    BY <2>3, <2>4 DEF CleanInv
<1>3. QED
  BY <1>1, <1>2

\* CleanInv is an invariant of the cleaner.
THEOREM CleanInvariant == Spec => []CleanInv
<1>1. CleanInv /\ [Next]_vars => CleanInv'
  <2> SUFFICES ASSUME CleanInv, [Next]_vars PROVE CleanInv'
    OBVIOUS
  <2>1. CASE UNCHANGED vars
    BY <2>1 DEF vars, CleanInv, TypeOK, FlagsOK, StackInv, WakeInv, CleanedInv,
         RecordedMeansEmptied, Children, Outermost
  <2>2. CASE Next
    BY <2>2, OuterKeeps, RecursionKeeps, WorldKeeps DEF Next, Clean
  <2>3. QED
    BY <2>1, <2>2
<1>2. QED
  BY InitClean, <1>1, PTL DEF Spec

\* The cleaner's variables keep their types.
THEOREM CleanerTypeCorrect == Spec => []TypeOK
  BY CleanInvariant, PTL DEF CleanInv

\* RemoveRecursiveBatched unlinks at most one file after the screen turns on.
THEOREM OneFileAfterWake == Spec => []AtMostOneFileAfterWake
<1>1. CleanInv => AtMostOneFileAfterWake
  BY DEF CleanInv, WakeInv, AtMostOneFileAfterWake
<1>2. QED
  BY CleanInvariant, <1>1, PTL

\* What CleanDirectorySafely records as clean was emptied.
THEOREM RecordedIsEmpty == Spec => []RecordedMeansEmptied
  BY CleanInvariant, PTL DEF CleanInv
-----------------------------------------------------------------------------
\* The frames below the top one.
LEMMA FrontProperties ==
  ASSUME NEW s \in Seq(Frame), s # <<>>
  PROVE  LET front == SubSeq(s, 1, Len(s) - 1)
         IN  Len(front) = Len(s) - 1 /\ \A i \in 1..Len(s) - 1 : front[i] = s[i]
<1> DEFINE n == Len(s)
           front == SubSeq(s, 1, n - 1)
<1>1. n \in Nat \ {0}
  BY EmptySeq
<1>2. \A i \in 1..n - 1 : s[i] \in Frame
  BY <1>1
<1>3. 1 \in Int /\ n - 1 \in Int /\ (n - 1) - 1 + 1 = n - 1 /\ \A i \in Int : 1 + i - 1 = i
  BY <1>1
<1>4. Len(front) = IF 1 <= n - 1 THEN (n - 1) - 1 + 1 ELSE 0
  BY <1>2, <1>3, SubSeqProperties
<1>5. \A i \in 1..(n - 1) - 1 + 1 : front[i] = s[1 + i - 1]
  BY <1>2, <1>3, SubSeqProperties
<1>6. QED
  BY <1>1, <1>3, <1>4, <1>5

\* The units of the top frame and those of the frames below it.
LEMMA UnitsSplit ==
  ASSUME NEW s \in Seq(Frame), s # <<>>
  PROVE  LET n == Len(s)
             column == {n} \X (1..s[n].bytes_freed)
             below == Units(SubSeq(s, 1, n - 1))
         IN  Units(s) = below \cup column /\ below \cap column = {}
<1> DEFINE n == Len(s)
           front == SubSeq(s, 1, n - 1)
           column == {n} \X (1..s[n].bytes_freed)
<1>1. n \in Nat \ {0}
  BY EmptySeq
<1>2. Len(front) = n - 1 /\ \A i \in 1..n - 1 : front[i] = s[i]
  BY FrontProperties
<1> HIDE DEF front, n
<1>3. Units(front) = UNION {{i} \X (1..s[i].bytes_freed) : i \in 1..n - 1}
  <2>1. \A u : u \in Units(front) <=> \E i \in 1..n - 1 : u \in {i} \X (1..front[i].bytes_freed)
    BY <1>2 DEF Units
  <2>2. QED
    BY <1>2, <2>1
<1>4. Units(s) = UNION {{i} \X (1..s[i].bytes_freed) : i \in 1..n}
  BY DEF Units, n
<1>5. \A i : i \in 1..n <=> i \in 1..n - 1 \/ i = n
  BY <1>1
<1>6. Units(s) = Units(front) \cup column
  BY <1>3, <1>4, <1>5
<1>7. Units(front) \cap column = {}
  <2>1. \A u \in Units(front) : \E i \in 1..n - 1 : u \in {i} \X (1..s[i].bytes_freed)
    BY <1>3
  <2>2. \A u \in Units(front) : u[1] \in 1..n - 1
    BY <2>1
  <2>3. \A u \in column : u[1] = n
    OBVIOUS
  <2>4. n \notin 1..n - 1
    BY <1>1
  <2>5. QED
    BY <2>2, <2>3, <2>4
<1>8. QED
  BY <1>6, <1>7 DEF front, n

\* So the units of the top frame add to those below.
LEMMA TopUnitsAdd ==
  ASSUME NEW s \in Seq(Frame), s # <<>>,
         IsFiniteSet(Units(SubSeq(s, 1, Len(s) - 1))) \/ IsFiniteSet(Units(s))
  PROVE  LET below == Units(SubSeq(s, 1, Len(s) - 1))
         IN  /\ IsFiniteSet(below) /\ IsFiniteSet(Units(s))
             /\ Cardinality(below) \in Nat
             /\ Cardinality(Units(s)) = Cardinality(below) + s[Len(s)].bytes_freed
<1> DEFINE n == Len(s)
           bytes == s[n].bytes_freed
           column == {n} \X (1..bytes)
           below == Units(SubSeq(s, 1, n - 1))
<1>1. Units(s) = below \cup column /\ below \cap column = {}
  BY UnitsSplit
<1>2. bytes \in Nat
  <2>1. n \in 1..n
    BY EmptySeq
  <2>2. s[n] \in Frame
    BY <2>1
  <2>3. QED
    BY <2>2 DEF Frame
<1> HIDE DEF n, bytes
<1>3. IsFiniteSet(column) /\ Cardinality(column) = bytes
  <2>1. IsFiniteSet(1..bytes) /\ Cardinality(1..bytes) = bytes
    BY <1>2, FS_Interval
  <2>2. IsFiniteSet({n}) /\ Cardinality({n}) = 1
    BY FS_Singleton
  <2>3. IsFiniteSet(column) /\ Cardinality(column) = Cardinality({n}) * Cardinality(1..bytes)
    BY <2>1, <2>2, FS_Product
  <2>4. QED
    BY <1>2, <2>1, <2>2, <2>3
<1> HIDE DEF column, below
<1>4. IsFiniteSet(below)
  <2>1. below \subseteq Units(s)
    BY <1>1
  <2>2. CASE IsFiniteSet(Units(s))
    BY <2>1, <2>2, FS_Subset
  <2>3. QED
    BY <2>2 DEF below, n
<1>5. Cardinality(below) \in Nat /\ Cardinality(below \cap column) = 0
  BY <1>1, <1>4, FS_CardinalityType, FS_EmptySet
<1>6. IsFiniteSet(below \cup column)
      /\ Cardinality(below \cup column)
           = Cardinality(below) + Cardinality(column) - Cardinality(below \cap column)
  BY <1>3, <1>4, FS_Union
<1>7. IsFiniteSet(Units(s)) /\ Cardinality(Units(s)) = Cardinality(below) + bytes
  BY <1>1, <1>2, <1>3, <1>5, <1>6
<1>8. QED
  BY <1>4, <1>5, <1>7 DEF below, bytes, n

\* RemovalsCounted with what makes Cardinality a number.
CountedInv ==
  ~aborted => IsFiniteSet(Units(stack)) /\ removed = g_total_bytes_freed_run - base + Pending

\* No frame, no unit.
LEMMA NoUnits == Units(<<>>) = {} /\ IsFiniteSet(Units(<<>>)) /\ Cardinality(Units(<<>>)) = 0
<1>1. Units(<<>>) = {}
  BY DEF Units
<1>2. QED
  BY <1>1, FS_EmptySet

\* A new frame on top has freed nothing yet.
LEMMA PushKeepsUnits ==
  ASSUME NEW s \in Seq(Frame), NEW dir \in Nodes, IsFiniteSet(Units(s))
  PROVE  LET t == Append(s, Open(dir))
         IN  IsFiniteSet(Units(t)) /\ Cardinality(Units(t)) = Cardinality(Units(s))
<1> DEFINE t == Append(s, Open(dir))
<1>1. Open(dir) \in Frame /\ Open(dir).bytes_freed = 0
  BY OpenIsFrame DEF Open
<1>2. t \in Seq(Frame) /\ t # <<>> /\ Len(t) = Len(s) + 1 /\ t[Len(t)] = Open(dir)
      /\ \A i \in 1..Len(s) : t[i] = s[i]
  BY <1>1, AppendProperties
<1>3. SubSeq(t, 1, Len(t) - 1) = s
  BY <1>1
<1> HIDE DEF t
<1>4. IsFiniteSet(Units(t)) /\ Cardinality(Units(s)) \in Nat
      /\ Cardinality(Units(t)) = Cardinality(Units(s)) + t[Len(t)].bytes_freed
  BY <1>2, <1>3, TopUnitsAdd
<1>5. QED
  BY <1>1, <1>2, <1>4 DEF t

\* A changed top frame changes the units by its own.
LEMMA SetTopUnits ==
  ASSUME TypeOK, stack # <<>>, NEW frame \in Frame, SetTop(frame), IsFiniteSet(Units(stack))
  PROVE  /\ IsFiniteSet(Units(stack)')
         /\ Pending \in Nat /\ Last(stack).bytes_freed \in Nat /\ frame.bytes_freed \in Nat
         /\ Pending' - frame.bytes_freed = Pending - Last(stack).bytes_freed
<1> DEFINE n == Len(stack)
           t == [stack EXCEPT ![n] = frame]
<1>1. stack \in Seq(Frame) /\ n \in 1..n /\ n \in Nat \ {0}
  BY EmptySeq DEF TypeOK
<1>2. stack' = t /\ Last(stack) = stack[n]
  BY DEF SetTop, Last
<1>3. t \in Seq(Frame) /\ Len(t) = n /\ t # <<>> /\ t[n] = frame
      /\ SubSeq(t, 1, n - 1) = SubSeq(stack, 1, n - 1)
  BY <1>1
<1>4. stack[n].bytes_freed \in Nat /\ frame.bytes_freed \in Nat
  BY <1>1, TopIsFrame, <1>2 DEF Frame
<1> DEFINE below == Units(SubSeq(stack, 1, n - 1))
<1> HIDE DEF t
<1>5. IsFiniteSet(below) /\ Cardinality(below) \in Nat
      /\ Cardinality(Units(stack)) = Cardinality(below) + stack[n].bytes_freed
  BY <1>1, TopUnitsAdd
<1>6. IsFiniteSet(Units(t)) /\ Cardinality(Units(t)) = Cardinality(below) + frame.bytes_freed
  BY <1>3, <1>5, TopUnitsAdd
<1>7. Units(stack)' = Units(t)
  BY <1>2 DEF Units
<1>8. QED
  BY <1>2, <1>4, <1>5, <1>6, <1>7 DEF Pending

\* Steps that neither unlink, nor count, nor change a frame's counters.
LEMMA CountedFrameRule ==
  ASSUME CountedInv, UNCHANGED <<removed, g_total_bytes_freed_run, base, aborted, stack>>
  PROVE  CountedInv'
  BY DEF CountedInv, Pending, Units

\* The outer loop.
LEMMA OuterKeepsCounted ==
  ASSUME CleanInv, CountedInv, StartRun \/ Begin \/ TakeTop \/ TopDone PROVE CountedInv'
<1>0. CASE StartRun
  <2>1. stack' = <<>> /\ removed' = 0 /\ base' = g_total_bytes_freed_run'
        /\ g_total_bytes_freed_run' \in Nat
    BY <1>0 DEF StartRun, CleanInv, StackInv, TypeOK
  <2>2. Units(stack)' = Units(<<>>)
    BY <2>1 DEF Units
  <2>3. IsFiniteSet(Units(stack)') /\ Pending' = 0
    BY <2>2, NoUnits DEF Pending
  <2>4. 0 = g_total_bytes_freed_run' - base' + 0
    <3>1. \A n \in Nat : 0 = n - n + 0
      OBVIOUS
    <3>2. QED
      BY <2>1, <3>1, Zenon
  <2>5. QED
    BY <2>1, <2>3, <2>4 DEF CountedInv
<1>1. CASE Begin \/ TopDone
  BY <1>1, CountedFrameRule DEF Begin, TopDone, ghosts, control
<1>2. CASE TakeTop
  <2>1. PICK c \in top :
          \/ stack' = <<Open(c)>> /\ UNCHANGED aborted
          \/ ReturnFalse
    BY <1>2 DEF TakeTop
  <2>2. CASE ReturnFalse
    BY <2>2 DEF ReturnFalse, CountedInv
  <2>3. CASE stack' = <<Open(c)>> /\ UNCHANGED aborted
    <3>1. stack = <<>> /\ c \in Nodes
      BY <1>2 DEF TakeTop, CleanInv, TypeOK, StackInv
    <3>2. <<Open(c)>> = Append(<<>>, Open(c))
      OBVIOUS
    <3>3. IsFiniteSet(Units(<<Open(c)>>)) /\ Cardinality(Units(<<Open(c)>>)) = 0
      <4>1. <<>> \in Seq(Frame)
        OBVIOUS
      <4>2. IsFiniteSet(Units(Append(<<>>, Open(c))))
            /\ Cardinality(Units(Append(<<>>, Open(c)))) = Cardinality(Units(<<>>))
        BY <3>1, <4>1, PushKeepsUnits, NoUnits
      <4>3. QED
        BY <3>2, <4>2, NoUnits
    <3>4. Units(stack)' = Units(<<Open(c)>>) /\ Units(stack) = Units(<<>>)
      BY <2>3, <3>1 DEF Units
    <3>5. Pending' = 0 /\ Pending = 0
      BY <3>3, <3>4, NoUnits DEF Pending
    <3>6. QED
      BY <1>2, <2>3, <3>3, <3>4, <3>5 DEF TakeTop, control, CountedInv
  <2>4. QED
    BY <2>1, <2>2, <2>3
<1>3. QED
  BY <1>0, <1>1, <1>2

\* The recursion.
LEMMA RecursionKeepsCounted ==
  ASSUME CleanInv, CountedInv, RemoveRecursiveBatched PROVE CountedInv'
<1>1. stack # <<>> /\ stack \in Seq(Frame) /\ Last(stack) \in Frame /\ TypeOK
  BY TopIsFrame DEF RemoveRecursiveBatched, IdleCheck, SkipChild, Descend, RemoveFile,
       BatchCheck, RemoveDirectory, CleanInv, StackInv, TypeOK
<1>2. CASE ReturnFalse
  BY <1>2 DEF ReturnFalse, CountedInv
<1> DEFINE bytes == Last(stack).bytes_freed
<1>3. bytes \in Nat /\ removed \in Nat /\ g_total_bytes_freed_run \in Nat /\ base \in Nat
  BY <1>1 DEF Frame, TypeOK
<1>4. CASE IdleCheck /\ ~ReturnFalse
  <2>1. PICK c \in Last(stack).todo : SetTop([Last(stack) EXCEPT !.todo = @ \ {c}])
    BY <1>4 DEF IdleCheck
  <2> DEFINE frame == [Last(stack) EXCEPT !.todo = @ \ {c}]
  <2>2. frame \in Frame /\ frame.bytes_freed = bytes
    BY <1>1 DEF Frame
  <2> HIDE DEF frame
  <2>3. SetTop(frame)
    BY <2>1 DEF frame
  <2>4. IsFiniteSet(Units(stack)) => IsFiniteSet(Units(stack)') /\ Pending \in Nat
          /\ Pending' - bytes = Pending - bytes
    BY <1>1, <2>2, <2>3, SetTopUnits
  <2>5. Pending' \in Int \/ ~IsFiniteSet(Units(stack)')
    BY FS_CardinalityType DEF Pending
  <2>6. IsFiniteSet(Units(stack)) => IsFiniteSet(Units(stack)') /\ Pending' = Pending
    BY <1>3, <2>4, <2>5
  <2>7. QED
    BY <1>4, <2>6 DEF IdleCheck, control, CountedInv
<1>5. CASE SkipChild
  BY <1>5, CountedFrameRule DEF SkipChild, control
<1>6. CASE Descend /\ ~ReturnFalse
  <2>1. stack' = Append(stack, Open(child)) /\ UNCHANGED <<aborted, removed, base, g_total_bytes_freed_run>>
    BY <1>6 DEF Descend, control
  <2>2. child \in Nodes
    BY <1>1, <1>6 DEF Descend, TypeOK
  <2>3. Units(stack)' = Units(Append(stack, Open(child)))
    BY <2>1 DEF Units
  <2>4. IsFiniteSet(Units(stack)) => IsFiniteSet(Units(stack)') /\ Pending' = Pending
    BY <1>1, <2>2, <2>3, PushKeepsUnits DEF Pending
  <2>5. QED
    BY <2>1, <2>4 DEF CountedInv
<1>7. CASE RemoveFile
  <2> DEFINE frame == [Last(stack) EXCEPT !.files_removed = @ + 1, !.bytes_freed = @ + 1]
  <2>1. frame \in Frame /\ frame.bytes_freed = bytes + 1
    <3>1. Last(stack).files_removed + 1 \in Nat /\ Last(stack).bytes_freed + 1 \in Nat
      BY <1>1 DEF Frame
    <3>2. frame \in Frame /\ frame.bytes_freed = Last(stack).bytes_freed + 1
      BY <1>1, <3>1 DEF Frame
    <3>3. QED
      BY <3>2
  <2>2. SetTop(frame) /\ removed' = removed + 1 /\ UNCHANGED <<g_total_bytes_freed_run, base, aborted>>
    BY <1>7 DEF RemoveFile, control
  <2> HIDE DEF frame
  <2>3. IsFiniteSet(Units(stack)) => IsFiniteSet(Units(stack)') /\ Pending \in Nat
          /\ Pending' - (bytes + 1) = Pending - bytes
    BY <1>1, <2>1, <2>2, SetTopUnits
  <2>4. IsFiniteSet(Units(stack)') => Pending' \in Nat
    BY FS_CardinalityType DEF Pending
  <2>5. QED
    BY <1>3, <2>2, <2>3, <2>4 DEF CountedInv
<1>8. CASE BatchCheck /\ ~ReturnFalse
  <2> DEFINE fresh == [Last(stack) EXCEPT !.files_removed = 0, !.bytes_freed = 0]
  <2>1. fresh \in Frame /\ fresh.bytes_freed = 0
    BY <1>1 DEF Frame
  <2>2. UNCHANGED <<removed, base, aborted>>
    BY <1>8 DEF BatchCheck, EndBatch, control
  <2>3. \/ SetTop(fresh) /\ g_total_bytes_freed_run' = g_total_bytes_freed_run + bytes
        \/ UNCHANGED <<stack, g_total_bytes_freed_run>>
    BY <1>8 DEF BatchCheck, EndBatch
  <2> HIDE DEF fresh
  <2>4. CASE UNCHANGED <<stack, g_total_bytes_freed_run>>
    BY <2>2, <2>4, CountedFrameRule
  <2>5. CASE SetTop(fresh) /\ g_total_bytes_freed_run' = g_total_bytes_freed_run + bytes
    <3>1. IsFiniteSet(Units(stack)) => IsFiniteSet(Units(stack)') /\ Pending \in Nat
            /\ Pending' - 0 = Pending - bytes
      BY <1>1, <2>1, <2>5, SetTopUnits
    <3>2. IsFiniteSet(Units(stack)') => Pending' \in Nat
      BY FS_CardinalityType DEF Pending
    <3>3. QED
      BY <1>3, <2>2, <2>5, <3>1, <3>2 DEF CountedInv
  <2>6. QED
    BY <2>3, <2>4, <2>5
<1>9. CASE RemoveDirectory
  <2>1. stack' = SubSeq(stack, 1, Len(stack) - 1) /\ UNCHANGED <<aborted, removed, base>>
        /\ g_total_bytes_freed_run' = g_total_bytes_freed_run + bytes
    BY <1>9 DEF RemoveDirectory, Pop, control
  <2>2. Units(stack)' = Units(SubSeq(stack, 1, Len(stack) - 1))
    BY <2>1 DEF Units
  <2>3. IsFiniteSet(Units(stack)) => IsFiniteSet(Units(stack)') /\ Pending' \in Nat
          /\ Pending = Pending' + bytes
    BY <1>1, <2>2, TopUnitsAdd DEF Pending, Last
  <2>4. QED
    BY <1>3, <2>1, <2>3 DEF CountedInv
<1>10. QED
  BY <1>2, <1>4, <1>5, <1>6, <1>7, <1>8, <1>9 DEF RemoveRecursiveBatched

\* Whatever the batch size and the quota, until a removal is aborted every unit
\* RemoveRecursiveBatched unlinked in a maintenance run is in what EndBatch has
\* added up since the run began, or in a frame that will add it.
THEOREM EveryRemovalCounted == Spec => []RemovalsCounted
<1>1. Init => CountedInv
  <2> SUFFICES ASSUME Init PROVE CountedInv
    OBVIOUS
  <2>1. stack = <<>> /\ removed = 0 /\ g_total_bytes_freed_run = 0 /\ base = 0
    BY DEF Init
  <2>2. QED
    BY <2>1, NoUnits DEF CountedInv, Pending
<1>2. CleanInv /\ CountedInv /\ [Next]_vars => CountedInv'
  <2> SUFFICES ASSUME CleanInv, CountedInv, [Next]_vars PROVE CountedInv'
    OBVIOUS
  <2>1. CASE ScreenToggle \/ AppWrites \/ UNCHANGED vars
    BY <2>1, CountedFrameRule DEF ScreenToggle, AppWrites, vars
  <2>2. QED
    BY <2>1, OuterKeepsCounted, RecursionKeepsCounted DEF Next, Clean
<1>3. CountedInv => RemovalsCounted
  BY DEF CountedInv, RemovalsCounted
<1>4. QED
  BY CleanInvariant, <1>1, <1>2, <1>3, PTL DEF Spec

-----------------------------------------------------------------------------
\* What the outer loop has left to take lies directly in Root.
TopInv == \A n \in top : Parent[n] = Root /\ n \notin taken

\* A path is taken after the directory it lies in.
TreeInv == \A n \in taken : Parent[n] = Root \/ Parent[n] \in taken

\* Every frame is about a directory of its own that was taken, and what it has
\* left to take lies in it and was not.
FramesInv ==
  /\ \A i \in 1..Len(stack) :
       /\ stack[i].dir \in taken
       /\ \A n \in stack[i].todo : Parent[n] = stack[i].dir /\ n \notin taken
  /\ \A i, j \in 1..Len(stack) : stack[i].dir = stack[j].dir => i = j

\* The child that passed the check has no frame, and nothing in it was taken.
ChildInv ==
  pc = "act" =>
    /\ child \in taken
    /\ \A i \in 1..Len(stack) : stack[i].dir # child
    /\ \A n \in taken : Parent[n] # child

TakenInv == TopInv /\ TreeInv /\ FramesInv /\ ChildInv

\* Steps that take nothing and leave the frames as they are.
LEMMA TakenFrameRule ==
  ASSUME TakenInv, UNCHANGED <<top, taken, stack>>, pc' = "act" => pc = "act" /\ UNCHANGED child
  PROVE  TakenInv'
  BY DEF TakenInv, TopInv, TreeInv, FramesInv, ChildInv

\* A failed removal drops every frame.
LEMMA ReturnFalseTakesNothing ==
  ASSUME TakenInv, ReturnFalse, UNCHANGED <<top, taken>>
  PROVE  TakenInv'
  BY DEF ReturnFalse, TakenInv, TopInv, TreeInv, FramesInv, ChildInv

\* A changed top frame that is still about its directory keeps the frames
\* apart, when what was taken meanwhile lies in that directory.
LEMMA SetTopKeepsFrames ==
  ASSUME TypeOK, FramesInv, stack # <<>>, NEW frame \in Frame, SetTop(frame),
         frame.dir = Last(stack).dir,
         \A n \in frame.todo : n \in Last(stack).todo /\ n \notin taken',
         taken \subseteq taken', \A n \in taken' : n \in taken \/ Parent[n] = Last(stack).dir
  PROVE  FramesInv' /\ Len(stack') = Len(stack)
         /\ \A i \in 1..Len(stack) : stack'[i].dir = stack[i].dir
<1> DEFINE n == Len(stack)
<1>1. stack \in Seq(Frame) /\ n \in Nat \ {0} /\ n \in 1..n
  BY EmptySeq DEF TypeOK
<1>2. stack' = [stack EXCEPT ![n] = frame] /\ Last(stack) = stack[n]
  BY DEF SetTop, Last
<1>3. Len(stack') = n /\ stack'[n] = frame /\ \A i \in 1..n : i # n => stack'[i] = stack[i]
  BY <1>1, <1>2
<1> HIDE DEF n
<1>4. \A i \in 1..n : stack'[i].dir = stack[i].dir
  BY <1>2, <1>3
<1>5. ASSUME NEW i \in 1..n, NEW m \in stack'[i].todo
      PROVE  Parent[m] = stack'[i].dir /\ m \notin taken'
  <2>1. CASE i = n
    <3>1. m \in stack[n].todo /\ m \notin taken'
      BY <1>2, <1>3, <1>5, <2>1
    <3>2. Parent[m] = stack[n].dir
      BY <1>1, <3>1 DEF FramesInv, n
    <3>3. QED
      BY <1>2, <1>3, <2>1, <3>1, <3>2
  <2>2. CASE i # n
    <3>1. stack'[i] = stack[i]
      BY <1>3, <2>2
    <3>2. Parent[m] = stack[i].dir /\ m \notin taken
      BY <1>5, <3>1 DEF FramesInv, n
    <3>3. stack[i].dir # stack[n].dir
      BY <1>1, <2>2 DEF FramesInv, n
    <3>4. QED
      BY <1>2, <3>1, <3>2, <3>3
  <2>3. QED
    BY <2>1, <2>2
<1>6. \A i \in 1..n : stack'[i].dir \in taken'
  BY <1>4 DEF FramesInv, n
<1>7. \A i, j \in 1..n : stack'[i].dir = stack'[j].dir => i = j
  BY <1>4 DEF FramesInv, n
<1>8. FramesInv'
  BY <1>3, <1>5, <1>6, <1>7 DEF FramesInv
<1>9. QED
  BY <1>3, <1>4, <1>8 DEF n

\* The outer loop takes a child of Root it has not taken before.
LEMMA OuterTakesOnce ==
  ASSUME CleanInv, TakenInv, StartRun \/ Begin \/ TakeTop \/ TopDone PROVE TakenInv'
<1>0. CASE StartRun
  BY <1>0, TakenFrameRule DEF StartRun
<1>1. CASE Begin
  <2>1. stack' = <<>> /\ taken' = {} /\ pc' # "act"
    BY <1>1 DEF Begin, CleanInv, StackInv
  <2>2. \A n \in top' : Parent[n] = Root
    BY <1>1 DEF Begin, Children, TakenInv, TopInv
  <2>3. QED
    BY <2>1, <2>2 DEF TakenInv, TopInv, TreeInv, FramesInv, ChildInv
<1>2. CASE TakeTop
  <2>1. PICK c \in top :
          /\ top' = top \ {c}
          /\ taken' = taken \cup {c}
          /\ \/ stack' = <<Open(c)>> /\ pc' = "remove"
             \/ ReturnFalse
    BY <1>2 DEF TakeTop
  <2>2. c \in Nodes /\ Parent[c] = Root /\ c \notin taken /\ c # Root
    BY <2>1, CleanerAssumption DEF CleanInv, TypeOK, TakenInv, TopInv
  <2>3. TopInv' /\ TreeInv'
    BY <2>1, <2>2 DEF TakenInv, TopInv, TreeInv
  <2>4. pc' # "act"
    BY <2>1 DEF ReturnFalse
  <2>5. FramesInv'
    <3>1. CASE ReturnFalse
      BY <3>1 DEF ReturnFalse, FramesInv
    <3>2. CASE stack' = <<Open(c)>>
      <4>1. \A n \in Open(c).todo : Parent[n] = c /\ n \notin taken'
        BY <2>1, <2>2 DEF Open, Children, TakenInv, TreeInv
      <4>2. Len(stack') = 1 /\ stack'[1] = Open(c) /\ Open(c).dir = c
        BY <3>2 DEF Open
      <4>3. \A i \in 1..Len(stack') : i = 1
        BY <4>2
      <4>4. QED
        BY <2>1, <4>1, <4>2, <4>3 DEF FramesInv
    <3>3. QED
      BY <2>1, <3>1, <3>2
  <2>6. QED
    BY <2>3, <2>4, <2>5 DEF TakenInv, ChildInv
<1>3. CASE TopDone
  BY <1>3, TakenFrameRule DEF TopDone, ghosts
<1>4. QED
  BY <1>0, <1>1, <1>2, <1>3

\* The recursion takes a child of the directory of its top frame.
LEMMA RecursionTakesOnce == ASSUME CleanInv, TakenInv, RemoveRecursiveBatched PROVE TakenInv'
<1>1. stack # <<>> /\ stack \in Seq(Frame) /\ Last(stack) \in Frame /\ TypeOK
      /\ Last(stack) = stack[Len(stack)] /\ Len(stack) \in 1..Len(stack) /\ Len(stack) \in Nat \ {0}
  <2>1. stack # <<>> /\ stack \in Seq(Frame) /\ Last(stack) \in Frame /\ TypeOK
    BY TopIsFrame DEF RemoveRecursiveBatched, IdleCheck, SkipChild, Descend, RemoveFile,
         BatchCheck, RemoveDirectory, CleanInv, StackInv, TypeOK
  <2>2. QED
    BY <2>1, EmptySeq DEF Last
<1>2. CASE IdleCheck /\ screenOn
  BY <1>2, ReturnFalseTakesNothing DEF IdleCheck
<1>3. CASE IdleCheck /\ ~screenOn
  <2>1. PICK c \in Last(stack).todo :
          child' = c /\ taken' = taken \cup {c} /\ SetTop([Last(stack) EXCEPT !.todo = @ \ {c}])
    BY <1>3 DEF IdleCheck
  <2> DEFINE frame == [Last(stack) EXCEPT !.todo = @ \ {c}]
             dir == Last(stack).dir
  <2>2. frame \in Frame /\ frame.dir = dir /\ frame.todo = Last(stack).todo \ {c}
        /\ c \in Nodes /\ dir \in Nodes
    BY <1>1 DEF Frame
  <2>3. SetTop(frame)
    BY <2>1
  <2> HIDE DEF frame
  <2>4. dir \in taken /\ Parent[c] = dir /\ \A n \in Last(stack).todo : n \notin taken
    BY <1>1 DEF TakenInv, FramesInv
  <2>5. c \notin taken /\ c # dir /\ dir # Root
    BY <2>2, <2>4, CleanerAssumption
  <2>6. FramesInv' /\ Len(stack') = Len(stack)
        /\ \A i \in 1..Len(stack) : stack'[i].dir = stack[i].dir
    BY <1>1, <2>1, <2>2, <2>3, <2>4, <2>5, SetTopKeepsFrames DEF TakenInv
  <2>7. TopInv'
    BY <1>3, <2>1, <2>4, <2>5 DEF IdleCheck, TakenInv, TopInv
  <2>8. TreeInv'
    BY <2>1, <2>4 DEF TakenInv, TreeInv
  <2>9. ChildInv'
    <3>1. \A i \in 1..Len(stack') : stack'[i].dir # c
      BY <2>5, <2>6 DEF TakenInv, FramesInv
    <3>2. \A n \in taken' : Parent[n] # c
      <4>1. c # Root
        BY <2>2, CleanerAssumption
      <4>2. QED
        BY <2>1, <2>4, <2>5, <4>1 DEF TakenInv, TreeInv
    <3>3. QED
      BY <2>1, <3>1, <3>2 DEF ChildInv
  <2>10. QED
    BY <2>6, <2>7, <2>8, <2>9 DEF TakenInv
<1>4. CASE SkipChild
  BY <1>4, TakenFrameRule DEF SkipChild
<1>5. CASE Descend
  <2>1. UNCHANGED <<top, taken>>
    BY <1>5 DEF Descend
  <2>2. CASE ReturnFalse
    BY <2>1, <2>2, ReturnFalseTakesNothing
  <2>3. CASE stack' = Append(stack, Open(child)) /\ pc' = "remove"
    <3> DEFINE n == Len(stack)
    <3>1. child \in taken /\ \A m \in taken : Parent[m] # child
          /\ \A i \in 1..n : stack[i].dir # child
      BY <1>5 DEF Descend, TakenInv, ChildInv
    <3>2. child \in Nodes
      BY <1>1, <1>5 DEF Descend, TypeOK
    <3>3. Open(child) \in Frame /\ Open(child).dir = child
          /\ \A m \in Open(child).todo : Parent[m] = child
      BY <3>2, OpenIsFrame DEF Open, Children
    <3>4. Len(stack') = n + 1 /\ stack'[n + 1] = Open(child) /\ \A i \in 1..n : stack'[i] = stack[i]
      BY <1>1, <2>3, <3>3, AppendProperties
    <3>5. n \in Nat /\ \A i \in 1..n + 1 : i \in 1..n \/ i = n + 1
      BY <1>1
    <3> HIDE DEF n
    <3>6. \A i \in 1..n + 1 :
            /\ stack'[i].dir \in taken'
            /\ \A m \in stack'[i].todo : Parent[m] = stack'[i].dir /\ m \notin taken'
      <4> TAKE i \in 1..n + 1
      <4>1. CASE i \in 1..n
        BY <2>1, <3>4, <4>1 DEF TakenInv, FramesInv, n
      <4>2. CASE i = n + 1
        BY <2>1, <3>1, <3>3, <3>4, <4>2
      <4>3. QED
        BY <3>5, <4>1, <4>2
    <3>7. ASSUME NEW i \in 1..n + 1, NEW j \in 1..n + 1, stack'[i].dir = stack'[j].dir
          PROVE  i = j
      <4>1. CASE i \in 1..n /\ j \in 1..n
        BY <3>4, <3>7, <4>1 DEF TakenInv, FramesInv, n
      <4>2. CASE i \in 1..n /\ j = n + 1
        BY <3>1, <3>3, <3>4, <3>7, <4>2
      <4>3. CASE i = n + 1 /\ j \in 1..n
        BY <3>1, <3>3, <3>4, <3>7, <4>3
      <4>4. QED
        BY <3>5, <4>1, <4>2, <4>3
    <3>8. FramesInv'
      BY <3>4, <3>6, <3>7 DEF FramesInv
    <3>9. QED
      BY <2>1, <2>3, <3>8 DEF TakenInv, TopInv, TreeInv, ChildInv
  <2>4. QED
    BY <1>5, <2>2, <2>3 DEF Descend
<1>6. CASE RemoveFile \/ (BatchCheck /\ ~ReturnFalse)
  <2> DEFINE counted == [Last(stack) EXCEPT !.files_removed = @ + 1, !.bytes_freed = @ + 1]
             fresh == [Last(stack) EXCEPT !.files_removed = 0, !.bytes_freed = 0]
  <2>1. Last(stack).files_removed + 1 \in Nat /\ Last(stack).bytes_freed + 1 \in Nat
    BY <1>1 DEF Frame
  <2>2. counted \in Frame /\ counted.dir = Last(stack).dir /\ counted.todo = Last(stack).todo
    BY <1>1, <2>1 DEF Frame
  <2>3. fresh \in Frame /\ fresh.dir = Last(stack).dir /\ fresh.todo = Last(stack).todo
    BY <1>1 DEF Frame
  <2>4. (SetTop(counted) \/ SetTop(fresh) \/ UNCHANGED stack) /\ pc' # "act"
    BY <1>6 DEF RemoveFile, BatchCheck, EndBatch
  <2> HIDE DEF counted, fresh
  <2>5. UNCHANGED <<top, taken>>
    BY <1>6 DEF RemoveFile, BatchCheck
  <2>6. ASSUME NEW f \in Frame, f.dir = Last(stack).dir, f.todo = Last(stack).todo, SetTop(f)
        PROVE  FramesInv'
    <3>1. \A n \in f.todo : n \in Last(stack).todo /\ n \notin taken'
      BY <1>1, <2>5, <2>6 DEF TakenInv, FramesInv
    <3>2. QED
      BY <1>1, <2>5, <2>6, <3>1, SetTopKeepsFrames DEF TakenInv
  <2>7. FramesInv'
    <3>1. CASE UNCHANGED stack
      BY <2>5, <3>1 DEF TakenInv, FramesInv
    <3>2. QED
      BY <2>2, <2>3, <2>4, <2>6, <3>1
  <2>8. QED
    BY <2>4, <2>5, <2>7 DEF TakenInv, TopInv, TreeInv, ChildInv
<1>7. CASE BatchCheck /\ ReturnFalse
  BY <1>7, ReturnFalseTakesNothing DEF BatchCheck
<1>8. CASE RemoveDirectory
  <2>1. stack' = SubSeq(stack, 1, Len(stack) - 1) /\ pc' # "act" /\ UNCHANGED <<top, taken>>
    BY <1>8 DEF RemoveDirectory, Pop
  <2>2. Len(stack') = Len(stack) - 1 /\ \A i \in 1..Len(stack) - 1 : stack'[i] = stack[i]
    BY <1>1, <2>1, FrontProperties
  <2>3. \A i \in 1..Len(stack) - 1 : i \in 1..Len(stack)
    BY <1>1
  <2> DEFINE m == Len(stack) - 1
  <2>4. FramesInv /\ taken' = taken /\ Len(stack') = m
        /\ \A i \in 1..m : i \in 1..Len(stack) /\ stack'[i] = stack[i]
    BY <2>1, <2>2, <2>3 DEF TakenInv
  <2> HIDE DEF m
  <2>5. ASSUME NEW i \in 1..m
        PROVE  /\ stack'[i].dir \in taken'
               /\ \A n \in stack'[i].todo : Parent[n] = stack'[i].dir /\ n \notin taken'
    BY <2>4 DEF FramesInv
  <2>6. ASSUME NEW i \in 1..m, NEW j \in 1..m, stack'[i].dir = stack'[j].dir
        PROVE  i = j
    BY <2>4, <2>6 DEF FramesInv
  <2>7. FramesInv'
    BY <2>4, <2>5, <2>6 DEF FramesInv
  <2>8. QED
    BY <2>1, <2>7 DEF TakenInv, TopInv, TreeInv, ChildInv
<1>9. QED
  BY <1>2, <1>3, <1>4, <1>5, <1>6, <1>7, <1>8 DEF RemoveRecursiveBatched

\* TakenInv is an invariant of the cleaner.
THEOREM TakenInvariant == Spec => []TakenInv
<1>1. Init => TakenInv
  BY DEF Init, TakenInv, TopInv, TreeInv, FramesInv, ChildInv
<1>2. CleanInv /\ TakenInv /\ [Next]_vars => TakenInv'
  <2> SUFFICES ASSUME CleanInv, TakenInv, [Next]_vars PROVE TakenInv'
    OBVIOUS
  <2>1. CASE ScreenToggle \/ AppWrites \/ UNCHANGED vars
    BY <2>1, TakenFrameRule DEF ScreenToggle, AppWrites, vars
  <2>2. QED
    BY <2>1, OuterTakesOnce, RecursionTakesOnce DEF Next, Clean
<1>3. QED
  BY CleanInvariant, <1>1, <1>2, PTL DEF Spec

\* For every tree of paths: within one clean or sweep CleanDirectorySafely,
\* the sweeps and RemoveRecursiveBatched take no path twice, whatever fails
\* and whatever applications write meanwhile.
THEOREM TakenOnce == Spec => NothingTakenTwice
<1>1. ASSUME CleanInv, TakenInv, [Next]_vars, NEW n \in taken PROVE ~Takes(n)
  <2>1. n \notin top
    BY <1>1 DEF TakenInv, TopInv
  <2>2. CASE pc = "remove" /\ pc' = "act"
    <3>1. IdleCheck /\ ~screenOn
      BY <1>1, <2>2 DEF Next, Clean, RemoveRecursiveBatched, StartRun, Begin, TakeTop, TopDone,
           IdleCheck, SkipChild, Descend, RemoveFile, BatchCheck, EndBatch, RemoveDirectory,
           ScreenToggle, AppWrites, ReturnFalse, vars
    <3>2. child' \in Last(stack).todo
      BY <3>1 DEF IdleCheck
    <3>3. stack # <<>>
      BY <2>2, <1>1 DEF CleanInv, StackInv
    <3>4. Last(stack) = stack[Len(stack)] /\ Len(stack) \in 1..Len(stack)
      BY <3>3, <1>1, EmptySeq DEF Last, CleanInv, TypeOK
    <3>5. child' \notin taken
      BY <1>1, <3>2, <3>4 DEF TakenInv, FramesInv
    <3>6. QED
      BY <1>1, <2>1, <3>5 DEF Takes
  <2>3. QED
    BY <2>1, <2>2 DEF Takes
<1>2. CleanInv /\ TakenInv /\ [Next]_vars => [\A n \in taken : ~Takes(n)]_vars
  BY <1>1
<1>3. QED
  BY CleanInvariant, TakenInvariant, <1>2, PTL DEF Spec, NothingTakenTwice
=============================================================================
