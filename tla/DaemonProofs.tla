---------------------------- MODULE DaemonProofs ----------------------------
(***************************************************************************)
(* Theorems about Daemon: the two threads and the report they share, for   *)
(* every size, age and number of lines and starts.                         *)
(***************************************************************************)
EXTENDS Daemon, TLAPS

\* A thread inside Log holds the mutex, and the mutex has such a holder.
MutexInv ==
  /\ \A t \in Threads : at[t] # "out" <=> g_log_mutex = t

\* The report is open for its holder, and closed only during a rotation.
HandleInv ==
  /\ \A t \in Threads : at[t] \in {"check", "write"} => g_log_file = "open"
  /\ g_log_file = "open" => exists
  /\ g_log_file = "closed" <=> \E t \in Threads : at[t] \in {"rename", "reopen"}

\* Which threads run, and log, where main is.  Once main has opened the
\* report, only a failed open leaves none.
ThreadInv ==
  /\ audio = "run" => main \in {"schedule", "stop", "join"}
  /\ at["audio"] # "out" => audio = "run"
  /\ at["main"] # "out" => main \in {"boot", "schedule"}
  /\ main \in {"off", "stat", "unlink", "open", "exit"} => g_log_file = "null"
  /\ main \notin {"off", "stat", "unlink", "open", "exit"} /\ g_log_file = "null" => openFailed

\* A thread that is about to write has not used up the lines, nor the size
\* that starts a rotation.
SizeInv ==
  /\ \A t \in Threads : at[t] # "out" => written < MaxLines
  /\ \/ renameFailed
     \/ /\ Len(old) <= MaxSize + 1 /\ Len(file) <= MaxSize + 1
        /\ \A t \in Threads : at[t] \in {"reopen", "write"} => Len(file) <= MaxSize

LogInv == TypeOK /\ MutexInv /\ HandleInv /\ ThreadInv /\ NoLineDropped /\ SizeInv

-----------------------------------------------------------------------------
\* The report is empty before its first line and after a rotation.
LEMMA EmptyReport == \A n : <<>> \in Seq(1..n) /\ Len(<<>>) = 0
  OBVIOUS

\* The daemon starts without a process and without a report.
LEMMA InitLog == Init => LogInv
<1> SUFFICES ASSUME Init PROVE LogInv
  OBVIOUS
<1>1. FlagsOK
  BY Zenon DEF Init, FlagsOK
<1>2. TypeOK
  BY <1>1, DaemonAssumption, EmptyReport DEF Init, TypeOK, Threads, MainPcs
<1>3. MutexInv /\ HandleInv /\ ThreadInv /\ NoLineDropped
  BY DEF Init, MutexInv, HandleInv, ThreadInv, NoLineDropped, Threads
<1>4. SizeInv
  BY DaemonAssumption, EmptyReport DEF Init, SizeInv, Threads
<1>5. QED
  BY <1>2, <1>3, <1>4 DEF LogInv

\* Initialize, before a second thread exists.
LEMMA InitializeKeepsLog ==
  LogInv /\ (Start \/ StatReport \/ UnlinkOld \/ OpenReport) => LogInv'
<1> USE DaemonAssumption DEF LogInv, TypeOK, MutexInv, HandleInv, ThreadInv, NoLineDropped,
      SizeInv, Threads, MainPcs
<1>1. LogInv /\ Start => LogInv'
  BY DEF Start, logVars, diskVars, FlagsOK
<1>2. LogInv /\ StatReport => LogInv'
  <2> SUFFICES ASSUME LogInv, StatReport PROVE LogInv'
    OBVIOUS
  <2>1. FlagsOK'
    BY Zenon DEF FlagsOK, StatReport, logVars, auxVars
  <2>2. TypeOK'
    BY <2>1, EmptyReport DEF StatReport, logVars, auxVars
  <2>3. (MutexInv /\ HandleInv /\ ThreadInv /\ NoLineDropped /\ SizeInv)'
    BY EmptyReport DEF StatReport, logVars, auxVars
  <2>4. QED
    BY <2>2, <2>3
<1>3. LogInv /\ UnlinkOld => LogInv'
  <2> SUFFICES ASSUME LogInv, UnlinkOld PROVE LogInv'
    OBVIOUS
  <2>1. FlagsOK'
    BY Zenon DEF FlagsOK, UnlinkOld
  <2>2. TypeOK'
    BY <2>1, EmptyReport DEF UnlinkOld, logVars
  <2>3. (MutexInv /\ HandleInv /\ ThreadInv /\ NoLineDropped)'
    BY DEF UnlinkOld, logVars
  <2>4. SizeInv'
    BY EmptyReport DEF UnlinkOld, logVars
  <2>5. QED
    BY <2>2, <2>3, <2>4
<1>4. LogInv /\ OpenReport => LogInv'
  <2> SUFFICES ASSUME LogInv, OpenReport PROVE LogInv'
    OBVIOUS
  <2>1. TypeOK'
    <3>1. FlagsOK'
      BY Zenon DEF FlagsOK, OpenReport, Fopen
    <3>2. QED
      BY <3>1 DEF OpenReport, Fopen
  <2>2. MutexInv'
    BY DEF OpenReport, Fopen
  <2>3. HandleInv'
    BY DEF OpenReport, Fopen
  <2>4. ThreadInv'
    BY DEF OpenReport, Fopen
  <2>5. NoLineDropped'
    BY DEF OpenReport, Fopen
  <2>6. SizeInv'
    BY DEF OpenReport, Fopen
  <2>7. QED
    BY <2>1, <2>2, <2>3, <2>4, <2>5, <2>6
<1>5. QED
  BY <1>1, <1>2, <1>3, <1>4

\* Every step of Log, by either thread.
LEMMA LogKeepsLog ==
  ASSUME LogInv, NEW t \in Threads, Enter(t) \/ InLog(t)
  PROVE  LogInv'
<1> USE DaemonAssumption DEF LogInv, TypeOK, MutexInv, HandleInv, ThreadInv, NoLineDropped,
      SizeInv, Threads, MainPcs
<1>1. CASE Enter(t)
  <2>1. TypeOK'
    <3>1. FlagsOK'
      BY <1>1, Zenon DEF FlagsOK, Enter, Unlocked, threadVars, logVars, diskVars
    <3>2. QED
      BY <1>1, <3>1 DEF Enter, Unlocked, threadVars, logVars, diskVars
  <2>2. MutexInv'
    BY <1>1 DEF Enter, Unlocked, threadVars, logVars, diskVars
  <2>3. HandleInv'
    BY <1>1 DEF Enter, Unlocked, threadVars, logVars, diskVars
  <2>4. ThreadInv'
    BY <1>1 DEF Enter, Unlocked, threadVars, logVars, diskVars
  <2>5. NoLineDropped'
    BY <1>1 DEF Enter, Unlocked, threadVars, logVars, diskVars
  <2>6. SizeInv'
    BY <1>1 DEF Enter, Unlocked, threadVars, logVars, diskVars
  <2>7. QED
    BY <2>1, <2>2, <2>3, <2>4, <2>5, <2>6
<1>2. CASE CheckSize(t)
  BY <1>2 DEF CheckSize, threadVars, diskVars, auxVars, FlagsOK
<1>3. CASE Rename(t)
  <2>1. TypeOK'
    <3>1. FlagsOK'
      BY <1>3, Zenon DEF FlagsOK, Rename, threadVars
    <3>2. QED
      BY <1>3, EmptyReport, <3>1 DEF Rename, threadVars
  <2>2. MutexInv'
    BY <1>3, EmptyReport DEF Rename, threadVars
  <2>3. HandleInv'
    BY <1>3, EmptyReport DEF Rename, threadVars
  <2>4. ThreadInv'
    BY <1>3, EmptyReport DEF Rename, threadVars
  <2>5. NoLineDropped'
    BY <1>3, EmptyReport DEF Rename, threadVars
  <2>6. SizeInv'
    BY <1>3, EmptyReport DEF Rename, threadVars
  <2>7. QED
    BY <2>1, <2>2, <2>3, <2>4, <2>5, <2>6
<1>4. CASE Reopen(t)
  <2>1. TypeOK'
    <3>1. FlagsOK'
      BY <1>4, Zenon DEF FlagsOK, Reopen, Fopen, threadVars
    <3>2. QED
      BY <1>4, <3>1 DEF Reopen, Fopen, threadVars
  <2>2. MutexInv'
    BY <1>4 DEF Reopen, Fopen, threadVars
  <2>3. HandleInv'
    BY <1>4 DEF Reopen, Fopen, threadVars
  <2>4. ThreadInv'
    BY <1>4 DEF Reopen, Fopen, threadVars
  <2>5. NoLineDropped'
    <3>1. CASE g_log_file' = "open"
      <4>1. UNCHANGED <<dropped, openFailed>>
        BY <1>4, <3>1 DEF Reopen, Fopen
      <4>2. QED
        BY <4>1
    <3>2. CASE g_log_file' # "open"
      BY <1>4, <3>2, Zenon DEF Reopen, Fopen
    <3>3. QED
      BY <3>1, <3>2
  <2>6. SizeInv'
    BY <1>4 DEF Reopen, Fopen, threadVars
  <2>7. QED
    BY <2>1, <2>2, <2>3, <2>4, <2>5, <2>6
<1>5. CASE Write(t)
  <2>1. TypeOK'
    <3>1. FlagsOK'
      BY <1>5, Zenon DEF FlagsOK, Write, threadVars, auxVars
    <3>2. written + 1 \in 1..MaxLines /\ written' \in 0..MaxLines
      BY <1>5 DEF Write
    <3>3. file' \in Seq(1..MaxLines)
      BY <1>5, <3>2 DEF Write
    <3>4. exists
      BY <1>5 DEF Write
    <3>5. QED
      BY <1>5, <3>1, <3>2, <3>3, <3>4 DEF Write, threadVars, auxVars
  <2>2. MutexInv'
    BY <1>5 DEF Write, threadVars, auxVars
  <2>3. HandleInv'
    BY <1>5 DEF Write, threadVars, auxVars
  <2>4. ThreadInv'
    BY <1>5 DEF Write, threadVars, auxVars
  <2>5. NoLineDropped'
    BY <1>5 DEF Write, threadVars, auxVars
  <2>6. SizeInv'
    BY <1>5 DEF Write, threadVars, auxVars
  <2>7. QED
    BY <2>1, <2>2, <2>3, <2>4, <2>5, <2>6
<1>6. QED
  BY <1>1, <1>2, <1>3, <1>4, <1>5 DEF InLog

\* Starting and stopping the threads, signals, kills and the calendar.
LEMMA LifeKeepsLog ==
  ASSUME LogInv,
         Boot \/ SchedulerStops \/ StopPolling \/ Join \/ Shutdown \/ Exit
           \/ AudioEnds \/ AudioFails \/ Signal \/ Kill \/ Day
  PROVE  LogInv'
<1> USE DaemonAssumption DEF LogInv, TypeOK, MutexInv, HandleInv, ThreadInv, NoLineDropped,
      SizeInv, Threads, MainPcs, logVars, diskVars, auxVars, FlagsOK
<1>1. CASE Boot
  BY <1>1 DEF Boot
<1>2. CASE SchedulerStops
  BY <1>2 DEF SchedulerStops
<1>3. CASE StopPolling
  BY <1>3 DEF StopPolling
<1>4. CASE Join
  BY <1>4 DEF Join
<1>5. CASE Shutdown
  BY <1>5 DEF Shutdown, Unlocked
<1>6. CASE AudioEnds
  BY <1>6 DEF AudioEnds
<1>7. CASE AudioFails
  BY <1>7 DEF AudioFails
<1>8. CASE Signal
  BY <1>8 DEF Signal
<1>9. CASE Kill
  BY <1>9 DEF Kill, Gone
<1>10. CASE Day
  BY <1>10 DEF Day, threadVars
<1>11. CASE Exit
  BY <1>11 DEF Exit, Gone
<1>12. QED
  BY <1>1, <1>2, <1>3, <1>4, <1>5, <1>6, <1>7, <1>8, <1>9, <1>10, <1>11

\* LogInv is an invariant of the daemon, through every interleaving of the two
\* threads (logging/logger.cpp, core/main.cpp).
THEOREM LogInvariant == Spec => []LogInv
<1>1. LogInv /\ [Next]_vars => LogInv'
  <2> SUFFICES ASSUME LogInv, [Next]_vars PROVE LogInv'
    OBVIOUS
  <2>1. CASE UNCHANGED vars
    BY <2>1 DEF vars, threadVars, logVars, diskVars, auxVars, LogInv, TypeOK, FlagsOK, MutexInv,
         HandleInv, ThreadInv, NoLineDropped, SizeInv
  <2>2. CASE Next
    BY <2>2, InitializeKeepsLog, LogKeepsLog, LifeKeepsLog
    DEF Next, MainStep, AudioStep, Environment, Threads
  <2>3. QED
    BY <2>1, <2>2
<1>2. QED
  BY InitLog, <1>1, PTL DEF Spec

\* The daemon's variables keep their types.
THEOREM DaemonTypeCorrect == Spec => []TypeOK
  BY LogInvariant, PTL DEF LogInv

\* No thread uses a report the other one or Shutdown has closed.
THEOREM ReportOpenWhenUsed == Spec => []NoUseAfterClose
<1>1. LogInv => NoUseAfterClose
  BY DEF LogInv, HandleInv, NoUseAfterClose
<1>2. QED
  BY LogInvariant, <1>1, PTL

\* No line is lost by the order in which main stops its parts.
THEOREM LinesKept == Spec => []NoLineDropped
  BY LogInvariant, PTL DEF LogInv

\* The two files stay within their size unless a rename failed.
THEOREM ReportBounded == Spec => []ReportIsBounded
<1>1. LogInv => ReportIsBounded
  BY DaemonAssumption DEF LogInv, TypeOK, SizeInv, ReportIsBounded
<1>2. QED
  BY LogInvariant, <1>1, PTL

-----------------------------------------------------------------------------
Consecutive(lines) == \A i \in 1..(Len(lines) - 1) : lines[i + 1] = lines[i] + 1
LastOf(lines) == lines[Len(lines)]

\* Each file is consecutive and the report ends with the last line.  The
\* rotated one ends where the report begins, or at the last line while the
\* report is empty; once a purge has removed the report alone, it may end
\* earlier.
OrderInv ==
  /\ Consecutive(old) /\ Consecutive(file)
  /\ file # <<>> => LastOf(file) = written
  /\ old # <<>> => LastOf(old) <= written
  /\ old # <<>> /\ file = <<>> => LastOf(old) = written \/ cut \/ (main = "unlink" /\ ~exists)
  /\ old # <<>> /\ file # <<>> =>
       \/ file[1] = LastOf(old) + 1
       \/ cut /\ file[1] > LastOf(old)

\* What a file holds are line numbers.
LEMMA LineNumber ==
  ASSUME NEW S, NEW lines \in Seq(S), NEW i \in 1..Len(lines)
  PROVE  lines[i] \in S
  OBVIOUS

\* Write extends the report by the next line.
LEMMA WriteKeepsOrder ==
  ASSUME LogInv, OrderInv, NEW t \in Threads, Write(t)
  PROVE  OrderInv'
<1>1. /\ file \in Seq(1..MaxLines) /\ old \in Seq(1..MaxLines) /\ written \in Nat
      /\ file' = Append(file, written + 1) /\ written' = written + 1
      /\ UNCHANGED <<old, cut, main>>
  BY DaemonAssumption DEF LogInv, TypeOK, Write, threadVars, auxVars
<1>2. main # "unlink"
  BY DEF LogInv, ThreadInv, Write, Threads
<1>3. /\ Len(file') = Len(file) + 1 /\ file' # <<>> /\ Len(file) \in Nat
      /\ \A i \in 1..Len(file) : file'[i] = file[i]
      /\ file'[Len(file) + 1] = written + 1
  BY <1>1
<1>4. Consecutive(file')
  <2> SUFFICES ASSUME NEW i \in 1..Len(file) PROVE file'[i + 1] = file'[i] + 1
    BY <1>3 DEF Consecutive
  <2>1. CASE i = Len(file)
    <3>1. file # <<>> /\ file[i] = written
      BY <1>1, <2>1 DEF OrderInv, LastOf
    <3>2. QED
      BY <1>3, <2>1, <3>1
  <2>2. CASE i # Len(file)
    <3>1. i \in 1..(Len(file) - 1) /\ i + 1 \in 1..Len(file)
      BY <1>3, <2>2
    <3>2. QED
      BY <1>3, <3>1 DEF OrderInv, Consecutive
  <2>3. QED
    BY <2>1, <2>2
<1>5. ASSUME old # <<>>
      PROVE  LastOf(old) \in Nat /\ LastOf(old) <= written
  <2>1. Len(old) \in 1..Len(old)
    BY <1>1, <1>5
  <2>2. old[Len(old)] \in 1..MaxLines
    BY <1>1, <2>1, LineNumber
  <2>3. QED
    BY <1>5, <2>2, DaemonAssumption DEF OrderInv, LastOf
<1>6. ASSUME old # <<>>
      PROVE  file'[1] = LastOf(old) + 1 \/ (cut /\ file'[1] > LastOf(old))
  <2>1. CASE file = <<>>
    <3>1. file'[1] = written + 1
      BY <1>3, <2>1
    <3>2. QED
      BY <1>1, <1>2, <1>5, <1>6, <2>1, <3>1 DEF OrderInv
  <2>2. CASE file # <<>>
    <3>1. file'[1] = file[1]
      BY <1>1, <1>3, <2>2
    <3>2. QED
      BY <1>6, <2>2, <3>1 DEF OrderInv
  <2>3. QED
    BY <2>1, <2>2
<1>7. LastOf(file') = written'
  BY <1>1, <1>3 DEF LastOf
<1>8. QED
  BY <1>1, <1>3, <1>4, <1>5, <1>6, <1>7 DEF OrderInv, LastOf

\* Rename and the two unlinks shorten what is on the disk; a purge cut short is
\* recorded.
LEMMA DiskKeepsOrder ==
  ASSUME LogInv, OrderInv,
         StatReport \/ UnlinkOld \/ Kill \/ \E t \in Threads : Rename(t)
  PROVE  OrderInv'
<1>1. Consecutive(<<>>)
  BY EmptyReport DEF Consecutive
<1>2. CASE StatReport
  BY <1>1, <1>2 DEF StatReport, OrderInv, auxVars, LastOf
<1>3. CASE UnlinkOld
  BY <1>1, <1>3 DEF UnlinkOld, OrderInv, auxVars, LastOf
<1>4. CASE Kill
  <2>1. UNCHANGED <<old, file, written>> /\ cut' = (cut \/ (main = "unlink" /\ ~exists))
    BY <1>4 DEF Kill, diskVars
  <2>2. QED
    BY <2>1 DEF OrderInv, LastOf
<1>5. ASSUME NEW t \in Threads, Rename(t)
      PROVE  OrderInv'
  <2>1. CASE UNCHANGED <<old, file>>
    BY <1>5, <2>1 DEF Rename, OrderInv, threadVars, LastOf
  <2>2. CASE old' = file /\ file' = <<>>
    <3>1. file # <<>> => LastOf(file) = written /\ written <= written
      BY DaemonAssumption DEF OrderInv, LogInv, TypeOK
    <3>2. QED
      BY <1>1, <1>5, <2>2, <3>1 DEF Rename, OrderInv, threadVars, LastOf
  <2>3. QED
    BY <1>5, <2>1, <2>2 DEF Rename
<1>6. QED
  BY <1>2, <1>3, <1>4, <1>5

\* Every other step leaves the lines alone, and main where they need it.
LEMMA RestKeepsOrder ==
  ASSUME OrderInv, UNCHANGED <<old, file, written, cut>>,
         main = "unlink" /\ ~exists => main' = "unlink" /\ ~exists'
  PROVE  OrderInv'
  BY DEF OrderInv, LastOf

\* Two consecutive files that meet are consecutive.
LEMMA OrderIsContiguous == ASSUME LogInv, OrderInv PROVE ReportIsContiguous
<1> DEFINE lines == old \o file
<1>1. /\ file \in Seq(1..MaxLines) /\ old \in Seq(1..MaxLines)
      /\ Len(file) \in Nat /\ Len(old) \in Nat
  BY DEF LogInv, TypeOK
<1>2. /\ Len(lines) = Len(old) + Len(file)
      /\ \A i \in 1..Len(lines) :
           lines[i] = IF i <= Len(old) THEN old[i] ELSE file[i - Len(old)]
  BY <1>1
<1> HIDE DEF lines
<1>3. ASSUME NEW i \in 1..(Len(lines) - 1)
      PROVE  \/ lines[i + 1] = lines[i] + 1
             \/ cut /\ i = Len(old) /\ lines[i + 1] > lines[i]
  <2>0. i \in 1..Len(lines) /\ i + 1 \in 1..Len(lines)
    BY <1>1, <1>2
  <2>1. CASE i < Len(old)
    <3>1. lines[i] = old[i] /\ lines[i + 1] = old[i + 1] /\ i \in 1..(Len(old) - 1)
      BY <1>1, <1>2, <2>0, <2>1
    <3>2. QED
      BY <3>1 DEF OrderInv, Consecutive
  <2>2. CASE i = Len(old)
    <3>1. /\ lines[i] = LastOf(old) /\ lines[i + 1] = file[1]
          /\ old # <<>> /\ file # <<>>
      BY <1>1, <1>2, <2>0, <2>2 DEF LastOf
    <3>2. QED
      BY <2>2, <3>1 DEF OrderInv
  <2>3. CASE i > Len(old)
    <3>1. /\ lines[i] = file[i - Len(old)]
          /\ lines[i + 1] = file[(i - Len(old)) + 1]
          /\ i - Len(old) \in 1..(Len(file) - 1)
      BY <1>1, <1>2, <2>0, <2>3
    <3>2. QED
      BY <3>1 DEF OrderInv, Consecutive
  <2>4. QED
    BY <1>1, <2>1, <2>2, <2>3
<1>4. ASSUME lines # <<>>
      PROVE  lines[Len(lines)] = written \/ cut \/ (main = "unlink" /\ ~exists)
  <2>1. CASE file # <<>>
    <3>1. lines[Len(lines)] = LastOf(file)
      BY <1>1, <1>2, <2>1 DEF LastOf
    <3>2. QED
      BY <2>1, <3>1 DEF OrderInv
  <2>2. CASE file = <<>> /\ old # <<>>
    <3>1. lines[Len(lines)] = LastOf(old)
      BY <1>1, <1>2, <2>2 DEF LastOf
    <3>2. QED
      BY <2>2, <3>1 DEF OrderInv
  <2>3. old # <<>> \/ file # <<>>
    BY <1>4 DEF lines
  <2>4. QED
    BY <2>1, <2>2, <2>3
<1>5. QED
  BY <1>3, <1>4 DEF ReportIsContiguous, lines

\* The two reports hold every line in order and without a gap up to the last
\* one, unless a purge removed the report and not the rotated one.
THEOREM ReportContiguous == Spec => []ReportIsContiguous
<1>1. Init => OrderInv
  BY EmptyReport DEF Init, OrderInv, Consecutive
<1>2. LogInv /\ OrderInv /\ [Next]_vars => OrderInv'
  <2> SUFFICES ASSUME LogInv, OrderInv, [Next]_vars PROVE OrderInv'
    OBVIOUS
  <2>1. CASE \E t \in Threads : Write(t)
    BY <2>1, WriteKeepsOrder
  <2>2. CASE StatReport \/ UnlinkOld \/ Kill \/ \E t \in Threads : Rename(t)
    BY <2>2, DiskKeepsOrder
  <2>3. CASE \/ Start \/ OpenReport \/ Boot \/ SchedulerStops \/ StopPolling \/ Join
             \/ Shutdown \/ Exit \/ AudioEnds \/ AudioFails \/ Signal \/ Day \/ UNCHANGED vars
             \/ \E t \in Threads : Enter(t) \/ CheckSize(t) \/ Reopen(t)
    <3>1. UNCHANGED <<old, file, written, cut>>
      BY <2>3 DEF Start, OpenReport, Boot, SchedulerStops, StopPolling, Join, Shutdown, Exit,
           AudioEnds, AudioFails, Signal, Day, Enter, CheckSize, Reopen, vars, diskVars, auxVars
    <3>2. ASSUME main = "unlink"
          PROVE  UNCHANGED <<main, exists>>
      <4>1. \A t \in Threads : at[t] = "out"
        BY <3>2 DEF LogInv, ThreadInv, Threads
      <4>2. QED
        BY <2>3, <3>2, <4>1
        DEF Start, OpenReport, Boot, SchedulerStops, StopPolling, Join, Shutdown, Exit, AudioEnds,
          AudioFails, Signal, Day, Enter, CheckSize, Reopen, vars, threadVars, diskVars
    <3>3. QED
      BY <3>1, <3>2, RestKeepsOrder
  <2>4. QED
    BY <2>1, <2>2, <2>3 DEF Next, MainStep, AudioStep, Environment, InLog, Threads
<1>3. QED
  BY LogInvariant, OrderIsContiguous, <1>1, <1>2, PTL DEF Spec
=============================================================================
