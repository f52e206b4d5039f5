------------------------------- MODULE Daemon -------------------------------
(***************************************************************************)
(* The life of the daemon: main (core/main.cpp) starts and stops the audio *)
(* thread and the scheduler, and both threads write the report through the *)
(* logger (logging/logger.cpp), which rotates it under one mutex and       *)
(* deletes an old one when it is initialized.  The process may be killed   *)
(* between any two steps and started again.                                *)
(*                                                                         *)
(* A line of the report is its number among all lines ever written, and    *)
(* sizes are counted in lines.  The loops of the two threads are modules   *)
(* Engine's and MicFixer's; here they log and return.                      *)
(***************************************************************************)
EXTENDS Naturals, Sequences

CONSTANTS
  MaxSize,    \* max_size_bytes, in lines
  Keep,       \* 3 days, the age at which Initialize deletes the report
  MaxLines,   \* bound: lines written
  MaxStarts   \* bound: starts of the daemon

ASSUME DaemonAssumption ==
  MaxSize \in Nat /\ Keep \in Nat /\ MaxLines \in Nat /\ MaxStarts \in Nat

VARIABLES
  main,          \* where main is; "off" without a process
  audio,         \* the audio thread: "none", "run" or "done"
  stopping,      \* the scheduler's g_running is false
  polling,       \* the audio thread's g_running
  g_log_mutex,   \* the thread that holds it, or "none"
  at,            \* where each thread is in Log; "out" of it
  g_log_file,    \* "null", "open", or "closed" and still pointed to
  \* The disk.
  file, old,     \* the lines of the report and of the rotated one
  exists,        \* there is a report
  age,           \* days since the report was last written, up to Keep + 1
  \* History variables, read by no action but for the bounds.
  written, starts,
  dropped,       \* Log returned without writing
  openFailed, renameFailed,
  cut            \* a purge removed the report and left the rotated one: the
                 \* process was killed between the two unlinks, or the second failed

threadVars == <<main, audio, stopping, polling>>
logVars    == <<g_log_mutex, at, g_log_file>>
diskVars   == <<file, old, exists, age, written>>
auxVars    == <<starts, dropped, openFailed, renameFailed, cut>>
vars == <<threadVars, logVars, diskVars, auxVars>>

Threads == {"main", "audio"}
MainPcs == {"off", "stat", "unlink", "open", "boot", "schedule", "stop", "join", "shutdown", "exit"}

-----------------------------------------------------------------------------
\* Initialize.  The report is deleted by the age of its last line; the
\* results of both unlinks are ignored.
Start ==
  /\ main = "off" /\ starts < MaxStarts
  /\ main' = "stat"
  /\ starts' = starts + 1
  /\ UNCHANGED <<audio, stopping, polling, logVars, diskVars, dropped, openFailed,
                 renameFailed, cut>>

StatReport ==
  /\ main = "stat"
  /\ IF exists /\ age > Keep
       THEN /\ main' = "unlink"
            /\ \/ file' = <<>> /\ exists' = FALSE
               \/ UNCHANGED <<file, exists>>
       ELSE main' = "open" /\ UNCHANGED <<file, exists>>
  /\ UNCHANGED <<audio, stopping, polling, logVars, old, age, written, auxVars>>

UnlinkOld ==
  /\ main = "unlink"
  /\ main' = "open"
  /\ \/ old' = <<>> /\ UNCHANGED cut
     \/ cut' = (cut \/ ~exists) /\ UNCHANGED old
  /\ UNCHANGED <<audio, stopping, polling, logVars, file, exists, age, written, starts,
                 dropped, openFailed, renameFailed>>

\* fopen for appending, which creates a report that is not there, or fails.
Fopen ==
  \/ /\ g_log_file' = "open"
     /\ exists' = TRUE
     /\ age' = IF exists THEN age ELSE 0
     /\ UNCHANGED openFailed
  \/ g_log_file' = "null" /\ openFailed' = TRUE /\ UNCHANGED <<exists, age>>

OpenReport ==
  /\ main = "open"
  /\ main' = "boot"
  /\ Fopen
  /\ UNCHANGED <<audio, stopping, polling, g_log_mutex, at, file, old, written, starts,
                 dropped, renameFailed, cut>>

-----------------------------------------------------------------------------
\* Mutant of Unlocked: the mutex is not taken.
AlwaysUnlocked == TRUE

\* std::lock_guard can proceed.
Unlocked == g_log_mutex = "none"

\* Log, up to its first return.
Enter(t) ==
  /\ CASE t = "main"  -> main \in {"boot", "schedule"}
       [] t = "audio" -> audio = "run"
  /\ written < MaxLines
  /\ at[t] = "out" /\ Unlocked
  /\ IF g_log_file = "null"
       THEN dropped' = TRUE /\ UNCHANGED logVars
       ELSE g_log_mutex' = t /\ at' = [at EXCEPT ![t] = "check"] /\ UNCHANGED <<g_log_file, dropped>>
  /\ UNCHANGED <<threadVars, diskVars, starts, openFailed, renameFailed, cut>>

\* "Check size and rotate".
CheckSize(t) ==
  /\ at[t] = "check"
  /\ IF Len(file) > MaxSize
       THEN at' = [at EXCEPT ![t] = "rename"] /\ g_log_file' = "closed"
       ELSE at' = [at EXCEPT ![t] = "write"] /\ UNCHANGED g_log_file
  /\ UNCHANGED <<threadVars, g_log_mutex, diskVars, auxVars>>

\* Mutant of Rename: the report is copied and goes on growing.
RenameCopies(t) ==
  /\ at[t] = "rename"
  /\ at' = [at EXCEPT ![t] = "reopen"]
  /\ old' = file
  /\ UNCHANGED <<threadVars, g_log_mutex, g_log_file, file, exists, age, written, auxVars>>

\* Mutant of Rename: the rotated report is appended to.
RenameAppends(t) ==
  /\ at[t] = "rename"
  /\ at' = [at EXCEPT ![t] = "reopen"]
  /\ old' = old \o file /\ file' = <<>> /\ exists' = FALSE
  /\ UNCHANGED <<threadVars, g_log_mutex, g_log_file, age, written, auxVars>>

\* The result of rename is not looked at.
Rename(t) ==
  /\ at[t] = "rename"
  /\ at' = [at EXCEPT ![t] = "reopen"]
  /\ \/ old' = file /\ file' = <<>> /\ exists' = FALSE /\ UNCHANGED renameFailed
     \/ renameFailed' = TRUE /\ UNCHANGED <<old, file, exists>>
  /\ UNCHANGED <<threadVars, g_log_mutex, g_log_file, age, written, starts, dropped,
                 openFailed, cut>>

Reopen(t) ==
  /\ at[t] = "reopen"
  /\ Fopen
  /\ IF g_log_file' = "open"
       THEN at' = [at EXCEPT ![t] = "write"] /\ UNCHANGED <<g_log_mutex, dropped>>
       ELSE at' = [at EXCEPT ![t] = "out"] /\ g_log_mutex' = "none" /\ dropped' = TRUE
  /\ UNCHANGED <<threadVars, file, old, written, starts, renameFailed, cut>>

\* fprintf, fflush and the release of the mutex.
Write(t) ==
  /\ at[t] = "write"
  /\ at' = [at EXCEPT ![t] = "out"]
  /\ g_log_mutex' = "none"
  /\ written' = written + 1
  /\ file' = Append(file, written + 1)
  /\ age' = 0
  /\ UNCHANGED <<threadVars, g_log_file, old, exists, auxVars>>

InLog(t) == CheckSize(t) \/ Rename(t) \/ Reopen(t) \/ Write(t)

-----------------------------------------------------------------------------
\* main after the banner: LoadConfig decides whether the daemon is enabled.
\* An enabled one applies the boot tweaks and starts the audio thread.
Boot ==
  /\ main = "boot" /\ at["main"] = "out"
  /\ \/ main' = "shutdown" /\ UNCHANGED <<audio, polling>>
     \/ main' = "schedule" /\ audio' = "run" /\ polling' = TRUE
  /\ UNCHANGED <<stopping, logVars, diskVars, auxVars>>

\* RunScheduler returns: after a signal, or because a descriptor fails.
SchedulerStops ==
  /\ main = "schedule" /\ at["main"] = "out"
  /\ main' = "stop"
  /\ UNCHANGED <<audio, stopping, polling, logVars, diskVars, auxVars>>

\* Mutant of StopPolling: the report is closed first.
StopPollingLast ==
  /\ main = "stop" /\ g_log_mutex = "none"
  /\ polling' = FALSE
  /\ main' = "join"
  /\ g_log_file' = "null"
  /\ UNCHANGED <<audio, stopping, g_log_mutex, at, diskVars, auxVars>>

\* Mutant of StopPolling: the flag is not cleared before the join.
StopPollingOnlyJoins ==
  /\ main = "stop"
  /\ main' = "join"
  /\ UNCHANGED <<audio, stopping, polling, logVars, diskVars, auxVars>>

StopPolling ==
  /\ main = "stop"
  /\ polling' = FALSE
  /\ main' = "join"
  /\ UNCHANGED <<audio, stopping, logVars, diskVars, auxVars>>

Join ==
  /\ main = "join" /\ audio = "done"
  /\ main' = "shutdown"
  /\ UNCHANGED <<audio, stopping, polling, logVars, diskVars, auxVars>>

\* What is left of a process that has ended.
Gone ==
  /\ main' = "off" /\ audio' = "none"
  /\ stopping' = FALSE /\ polling' = FALSE
  /\ g_log_mutex' = "none" /\ at' = [t \in Threads |-> "out"] /\ g_log_file' = "null"
  /\ openFailed' = FALSE /\ dropped' = FALSE

\* Shutdown of the logger.
Shutdown ==
  /\ main = "shutdown" /\ Unlocked
  /\ main' = "exit"
  /\ g_log_file' = "null"
  /\ UNCHANGED <<audio, stopping, polling, g_log_mutex, at, diskVars, auxVars>>

\* The return from main, with which every thread of the process ends.
Exit ==
  /\ main = "exit"
  /\ Gone
  /\ UNCHANGED <<diskVars, starts, renameFailed, cut>>

\* The audio thread sees the flag, or its loop fails.
AudioEnds ==
  /\ audio = "run" /\ at["audio"] = "out" /\ ~polling
  /\ audio' = "done"
  /\ UNCHANGED <<main, stopping, polling, logVars, diskVars, auxVars>>

AudioFails ==
  /\ audio = "run" /\ at["audio"] = "out" /\ polling
  /\ audio' = "done"
  /\ UNCHANGED <<main, stopping, polling, logVars, diskVars, auxVars>>

\* SIGINT or SIGTERM once RunScheduler has installed its handlers; before
\* that it is a Kill.
Signal ==
  /\ main \in {"schedule", "stop", "join", "shutdown", "exit"} /\ ~stopping
  /\ stopping' = TRUE
  /\ UNCHANGED <<main, audio, polling, logVars, diskVars, auxVars>>

Kill ==
  /\ main # "off"
  /\ Gone
  /\ cut' = (cut \/ (main = "unlink" /\ ~exists))
  /\ UNCHANGED <<diskVars, starts, renameFailed>>

Day ==
  /\ exists /\ age <= Keep
  /\ age' = age + 1
  /\ UNCHANGED <<threadVars, logVars, file, old, exists, written, auxVars>>

-----------------------------------------------------------------------------
Init ==
  /\ main = "off" /\ audio = "none"
  /\ stopping = FALSE /\ polling = FALSE
  /\ g_log_mutex = "none" /\ at = [t \in Threads |-> "out"] /\ g_log_file = "null"
  /\ file = <<>> /\ old = <<>> /\ exists = FALSE /\ age = 0
  /\ written = 0 /\ starts = 0
  /\ dropped = FALSE /\ openFailed = FALSE /\ renameFailed = FALSE /\ cut = FALSE

MainStep ==
  \/ StatReport \/ UnlinkOld \/ OpenReport \/ Boot
  \/ stopping /\ SchedulerStops
  \/ StopPolling \/ Join \/ Shutdown \/ Exit \/ InLog("main")
AudioStep == AudioEnds \/ InLog("audio")
Environment == Start \/ SchedulerStops \/ AudioFails \/ Signal \/ Kill \/ Day
Next == MainStep \/ AudioStep \/ Environment \/ \E t \in Threads : Enter(t)

\* Both threads are scheduled, the scheduler returns after a signal (shown
\* for Engine) and the audio loop after its flag is cleared (for MicFixer).
Fairness == WF_vars(MainStep) /\ WF_vars(AudioStep)

Spec == Init /\ [][Next]_vars /\ Fairness

-----------------------------------------------------------------------------
FlagsOK ==
  /\ stopping \in BOOLEAN /\ polling \in BOOLEAN
  /\ exists \in BOOLEAN /\ dropped \in BOOLEAN
  /\ openFailed \in BOOLEAN /\ renameFailed \in BOOLEAN /\ cut \in BOOLEAN

TypeOK ==
  /\ FlagsOK
  /\ main \in MainPcs /\ audio \in {"none", "run", "done"}
  /\ g_log_mutex \in Threads \cup {"none"}
  /\ at \in [Threads -> {"out", "check", "rename", "reopen", "write"}]
  /\ g_log_file \in {"null", "open", "closed"}
  /\ file \in Seq(1..MaxLines) /\ old \in Seq(1..MaxLines)
  /\ exists \/ file = <<>>
  /\ age \in 0..(Keep + 1)
  /\ written \in 0..MaxLines /\ starts \in 0..MaxStarts

\* No thread looks at or writes to a report that the other one has closed for
\* the rotation, or that Shutdown has closed.
NoUseAfterClose ==
  \A t \in Threads : at[t] \in {"check", "write"} => g_log_file = "open"

\* Every line either thread logs is written, up to the end of the audio
\* thread, unless a report could not be opened: main stops and joins the
\* audio thread before it shuts the logger down.
NoLineDropped == dropped => openFailed

\* The two files hold the lines in order, without a gap and up to the last
\* one, through rotations and purges that fail, kills and restarts.  Only a
\* purge that removed the report and not the rotated one, because its second
\* unlink failed or a kill came before it, can leave older lines before a gap.
ReportIsContiguous ==
  LET lines == old \o file IN
  /\ \A i \in 1..(Len(lines) - 1) :
       \/ lines[i + 1] = lines[i] + 1
       \/ cut /\ i = Len(old) /\ lines[i + 1] > lines[i]
  /\ lines # <<>> => lines[Len(lines)] = written \/ cut \/ (main = "unlink" /\ ~exists)

\* Together they stay within twice the size that starts a rotation, and one
\* line, unless a rename failed.
ReportIsBounded == renameFailed \/ Len(old) + Len(file) <= 2 * (MaxSize + 1)

\* A daemon that got a signal ends, whatever its threads are doing.
SignalEndsDaemon == stopping ~> main = "off"
=============================================================================
