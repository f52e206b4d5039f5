------------------------------ MODULE MicFixer ------------------------------
(***************************************************************************)
(* The microphone fixer (audio/mic_fixer.cpp): one background thread that  *)
(* runs either of two loops.  AlsaInotifyLoop watches the capture devices  *)
(* and counts their open streams from inotify events; PollLoop samples the *)
(* telephony mode every few seconds.  Both rebuild the microphone route by *)
(* muting the transmit line (ApplyPreInit) and unmuting it (ApplyMicFix).  *)
(*                                                                         *)
(* The mixer is reduced to its mute switch.  Any tinymix command may be    *)
(* refused, and its result is not looked at.                               *)
(***************************************************************************)
EXTENDS Integers, Sequences, FiniteSets

CONSTANTS
  MaxOpen,    \* bound: capture streams open at once
  MaxCount,   \* bound: how far stream_count may drift upwards
  QueueCap,   \* max_queued_events of the inotify instance
  BatchCap    \* events that fit the read buffer

ASSUME MicAssumption ==
  /\ MaxOpen \in Nat \ {0}  /\ MaxCount \in Nat
  /\ QueueCap \in Nat \ {0} /\ BatchCap \in Nat \ {0}

VARIABLES
  engine,        \* which loop StartPolling chose
  pc,            \* where the background thread is
  g_running,
  joined,        \* StopPolling has returned
  stream_count,  \* of AlsaInotifyLoop
  batch,         \* events read into the buffer and not yet handled
  active,        \* of PollLoop
  pre_init,      \* of PollLoop
  muted,         \* the transmit line is muted
  \* The environment.
  open,          \* capture streams open now
  queue,         \* events the kernel holds for the thread
  mode,          \* audio mode reported by dumpsys
  \* History variables, read by no action.
  mutedBy,       \* what last muted the line: "route", "ring", or "ringInCall"
                 \* for a ring sampled while active
  refused,       \* the last attempt to unmute the line failed
  lost           \* the events no longer tell which streams are open

alsaVars == <<stream_count, batch>>
pollVars == <<active, pre_init>>
lineVars == <<muted, mutedBy, refused>>
envVars  == <<open, queue, mode, lost>>
vars == <<engine, pc, g_running, joined, stream_count, batch, active, pre_init, muted,
          mutedBy, refused, open, queue, mode, lost>>

\* An inotify event; first: no other stream was open when it was raised.
Event == [kind : {"open", "close"}, first : BOOLEAN]
Modes == {"NORMAL", "RINGTONE", "CALL"}

CountKind(s, kind) == Cardinality({i \in 1..Len(s) : s[i].kind = kind})

-----------------------------------------------------------------------------
\* StartPolling: watch at least one capture device, else fall back.
StartPolling ==
  /\ engine = "none"
  /\ engine' \in {"alsa", "poll"}
  /\ g_running' = TRUE
  /\ pc' = "loop"
  /\ queue' = <<>>
  /\ lost' = (open > 0)
  /\ UNCHANGED <<joined, alsaVars, pollVars, lineVars, open, mode>>

\* StopPolling clears the flag; its join returns once the thread has ended.
StopPolling ==
  /\ g_running
  /\ g_running' = FALSE
  /\ UNCHANGED <<engine, pc, joined, alsaVars, pollVars, lineVars, envVars>>

Join ==
  /\ engine # "none" /\ ~g_running
  /\ pc = "exited"
  /\ ~joined
  /\ joined' = TRUE
  /\ UNCHANGED <<engine, pc, g_running, alsaVars, pollVars, lineVars, envVars>>

\* while (g_running)
LoopTest ==
  /\ pc = "loop"
  /\ pc' = IF ~g_running THEN "exited" ELSE IF engine = "alsa" THEN "wait" ELSE "sample"
  /\ UNCHANGED <<engine, g_running, joined, alsaVars, pollVars, lineVars, envVars>>

\* ApplyPreInit: mute and power the route up.  On a ringtone that is all.
ApplyPreInit ==
  /\ pc \in {"ring", "prime"}
  /\ \/ /\ muted' = TRUE
        /\ mutedBy' = IF pc = "prime" THEN "route" ELSE IF active THEN "ringInCall" ELSE "ring"
        /\ refused' = FALSE
     \/ UNCHANGED lineVars
  /\ pc' = IF pc = "ring" THEN "sleep" ELSE "fix"
  /\ UNCHANGED <<engine, g_running, joined, alsaVars, pollVars, envVars>>

\* Mutant of ApplyMicFix: the unmute is forgotten.
ApplyMicFixStaysMuted ==
  /\ pc = "fix"
  /\ pc' = IF engine = "alsa" THEN "events" ELSE "sleep"
  /\ UNCHANGED <<engine, g_running, joined, alsaVars, pollVars, lineVars, envVars>>

\* ApplyMicFix: rebuild the route, then unmute.  A refusal is only logged.
ApplyMicFix ==
  /\ pc = "fix"
  /\ \/ muted' = FALSE /\ refused' = FALSE
     \/ muted /\ refused' = TRUE /\ UNCHANGED muted
  /\ pc' = IF engine = "alsa" THEN "events" ELSE "sleep"
  /\ UNCHANGED <<engine, g_running, joined, alsaVars, pollVars, mutedBy, envVars>>

-----------------------------------------------------------------------------
\* AlsaInotifyLoop.
\* Mutant of PollTimeout: poll waits without a timeout.
PollWithoutTimeout ==
  /\ pc = "wait"
  /\ queue = <<>>
  /\ UNCHANGED vars

PollTimeout ==
  /\ pc = "wait"
  /\ queue = <<>>
  /\ pc' = "loop"
  /\ UNCHANGED <<engine, g_running, joined, alsaVars, pollVars, lineVars, envVars>>

\* poll or read fails (a signal handled by this thread is enough): the loop
\* ends for good although g_running is still true.
PollError ==
  /\ pc = "wait"
  /\ pc' = "exited"
  /\ UNCHANGED <<engine, g_running, joined, alsaVars, pollVars, lineVars, envVars>>

\* Mutant of ReadEvents: what does not fit the buffer is thrown away.
ReadEventsDropsRest ==
  /\ pc = "wait"
  /\ queue # <<>>
  /\ batch' = SubSeq(queue, 1, IF Len(queue) <= BatchCap THEN Len(queue) ELSE BatchCap)
  /\ queue' = <<>>
  /\ pc' = "events"
  /\ UNCHANGED <<engine, g_running, joined, stream_count, pollVars, lineVars, open, mode, lost>>

ReadEvents ==
  /\ pc = "wait"
  /\ queue # <<>>
  /\ LET n == IF Len(queue) <= BatchCap THEN Len(queue) ELSE BatchCap IN
       /\ batch' = SubSeq(queue, 1, n)
       /\ queue' = SubSeq(queue, n + 1, Len(queue))
  /\ pc' = "events"
  /\ UNCHANGED <<engine, g_running, joined, stream_count, pollVars, lineVars, open, mode, lost>>

\* Mutant of HandleOpen: every open triggers the routing.
HandleEveryOpen ==
  /\ pc = "events"
  /\ batch # <<>> /\ Head(batch).kind = "open"
  /\ stream_count' = stream_count + 1
  /\ batch' = Tail(batch)
  /\ pc' = "prime"
  /\ UNCHANGED <<engine, g_running, joined, pollVars, lineVars, envVars>>

\* Mutant of HandleOpen: the count is compared before it is raised.
HandleSecondOpen ==
  /\ pc = "events"
  /\ batch # <<>> /\ Head(batch).kind = "open"
  /\ stream_count' = stream_count + 1
  /\ batch' = Tail(batch)
  /\ pc' = IF stream_count = 1 THEN "prime" ELSE "events"
  /\ UNCHANGED <<engine, g_running, joined, pollVars, lineVars, envVars>>

\* IN_OPEN: only the count going to one triggers the routing.
HandleOpen ==
  /\ pc = "events"
  /\ batch # <<>> /\ Head(batch).kind = "open"
  /\ stream_count' = stream_count + 1
  /\ batch' = Tail(batch)
  /\ pc' = IF stream_count' = 1 THEN "prime" ELSE "events"
  /\ UNCHANGED <<engine, g_running, joined, pollVars, lineVars, envVars>>

\* Mutant of HandleClose: the count may go below zero.
HandleCloseUnguarded ==
  /\ pc = "events"
  /\ batch # <<>> /\ Head(batch).kind = "close"
  /\ stream_count' = stream_count - 1
  /\ batch' = Tail(batch)
  /\ UNCHANGED <<engine, pc, g_running, joined, pollVars, lineVars, envVars>>

\* IN_CLOSE_WRITE or IN_CLOSE_NOWRITE: the count stops at zero.
HandleClose ==
  /\ pc = "events"
  /\ batch # <<>> /\ Head(batch).kind = "close"
  /\ stream_count' = IF stream_count > 0 THEN stream_count - 1 ELSE 0
  /\ batch' = Tail(batch)
  /\ UNCHANGED <<engine, pc, g_running, joined, pollVars, lineVars, envVars>>

BatchDone ==
  /\ pc = "events"
  /\ batch = <<>>
  /\ pc' = "loop"
  /\ UNCHANGED <<engine, g_running, joined, alsaVars, pollVars, lineVars, envVars>>

-----------------------------------------------------------------------------
\* PollLoop, one branch per result of "dumpsys audio".
SampleRingtone ==
  /\ mode = "RINGTONE"
  /\ pre_init' = TRUE
  /\ pc' = IF pre_init THEN "sleep" ELSE "ring"
  /\ UNCHANGED active

\* Mutant of SampleCall: a call that rang counts as already routed.
SampleCallTrustsPreInit ==
  /\ mode = "CALL"
  /\ active' = TRUE
  /\ pc' = IF active \/ pre_init THEN "sleep" ELSE "prime"
  /\ UNCHANGED pre_init

SampleCall ==
  /\ mode = "CALL"
  /\ active' = TRUE
  /\ pc' = IF active THEN "sleep" ELSE "prime"
  /\ UNCHANGED pre_init

SampleIdle ==
  /\ active' = FALSE
  /\ pre_init' = FALSE
  /\ pc' = "sleep"

Sample ==
  /\ pc = "sample"
  /\ SampleRingtone \/ SampleCall \/ (mode = "NORMAL" /\ SampleIdle)
  /\ UNCHANGED <<engine, g_running, joined, alsaVars, lineVars, envVars>>

\* The two seconds given to dumpsys run out: the empty answer matches
\* neither pattern and takes the last branch.
SampleTimesOut ==
  /\ pc = "sample"
  /\ SampleIdle
  /\ UNCHANGED <<engine, g_running, joined, alsaVars, lineVars, envVars>>

Sleep ==
  /\ pc = "sleep"
  /\ pc' = "loop"
  /\ UNCHANGED <<engine, g_running, joined, alsaVars, pollVars, lineVars, envVars>>

-----------------------------------------------------------------------------
\* The kernel queues an event unless the queue is full (the overflow event it
\* then queues has neither mask).  It merges one that equals the newest unread
\* one; two of a kind are equal if they come from the same capture device.
Raise(event) ==
  \/ /\ engine = "alsa" /\ pc # "exited" /\ Len(queue) < QueueCap
     /\ queue' = Append(queue, event)
     /\ UNCHANGED lost
  \/ /\ \/ engine # "alsa" \/ pc = "exited" \/ Len(queue) >= QueueCap
        \/ queue # <<>> /\ queue[Len(queue)].kind = event.kind
     /\ lost' = TRUE
     /\ UNCHANGED queue

OpenStream ==
  /\ engine # "poll"
  /\ open < MaxOpen
  /\ stream_count + CountKind(queue \o batch, "open") < MaxCount
  /\ open' = open + 1
  /\ Raise([kind |-> "open", first |-> open = 0])
  /\ UNCHANGED <<engine, pc, g_running, joined, alsaVars, pollVars, lineVars, mode>>

CloseStream ==
  /\ engine # "poll"
  /\ open > 0
  /\ open' = open - 1
  /\ Raise([kind |-> "close", first |-> FALSE])
  /\ UNCHANGED <<engine, pc, g_running, joined, alsaVars, pollVars, lineVars, mode>>

\* A ringing call is answered or not, a call ends, and calls are also placed.
ModeChanges ==
  /\ engine # "alsa"
  /\ mode' \in (CASE mode = "NORMAL"   -> {"RINGTONE", "CALL"}
                  [] mode = "RINGTONE" -> {"CALL", "NORMAL"}
                  [] mode = "CALL"     -> {"NORMAL"})
  /\ UNCHANGED <<engine, pc, g_running, joined, alsaVars, pollVars, lineVars, open, queue, lost>>

-----------------------------------------------------------------------------
Init ==
  /\ engine = "none"
  /\ pc = "none"
  /\ g_running = FALSE
  /\ joined = FALSE
  /\ stream_count = 0
  /\ batch = <<>>
  /\ active = FALSE
  /\ pre_init = FALSE
  /\ muted = FALSE
  /\ mutedBy = "nobody"
  /\ refused = FALSE
  /\ open = 0
  /\ queue = <<>>
  /\ mode = "NORMAL"
  /\ lost = FALSE

Thread ==
  \/ LoopTest \/ ApplyPreInit \/ ApplyMicFix \/ Sleep
  \/ PollTimeout \/ ReadEvents \/ HandleOpen \/ HandleClose \/ BatchDone
Environment == OpenStream \/ CloseStream \/ ModeChanges

Next ==
  \/ StartPolling \/ StopPolling \/ Join
  \/ Thread \/ Sample \/ SampleTimesOut \/ PollError
  \/ Environment

\* The thread is scheduled even at nice 19, StopPolling's join is waited
\* for, and dumpsys does not time out at every sample.
Fairness == WF_vars(Thread) /\ WF_vars(Join) /\ SF_vars(Sample) /\ WF_vars(Sample \/ SampleTimesOut)

Spec == Init /\ [][Next]_vars /\ Fairness

-----------------------------------------------------------------------------
TypeOK ==
  /\ engine \in {"none", "alsa", "poll"}
  /\ pc \in {"none", "loop", "wait", "events", "sample", "ring", "prime", "fix", "sleep", "exited"}
  /\ g_running \in BOOLEAN /\ joined \in BOOLEAN
  /\ stream_count \in Nat
  /\ batch \in Seq(Event)
  /\ active \in BOOLEAN /\ pre_init \in BOOLEAN
  /\ muted \in BOOLEAN /\ refused \in BOOLEAN
  /\ mutedBy \in {"nobody", "route", "ring", "ringInCall"}
  /\ open \in 0..MaxOpen
  /\ queue \in Seq(Event)
  /\ mode \in Modes
  /\ lost \in BOOLEAN

\* Between two rounds, and at its end, the thread leaves the line muted for a
\* ring alone, unless the unmute was refused: the event-driven loop never, the
\* polling loop for a ring that no call it routed has followed, answered or
\* not, and for one sampled while it still took an earlier call for active.
MutedOnlyForRing ==
  pc \in {"loop", "wait", "sample", "sleep", "exited"} /\ muted /\ ~refused =>
    /\ engine = "poll"
    /\ mutedBy = "ringInCall" \/ (mutedBy = "ring" /\ ~active)

\* As long as no event was merged, dropped or missed, the count and the
\* events still on their way add up to the streams that are open.
CountConserved ==
  engine = "alsa" /\ ~lost =>
    open = stream_count + CountKind(batch \o queue, "open") - CountKind(batch \o queue, "close")

\* Under the same condition the routing runs for the open that found no other
\* stream and for no other: the line is never muted in the middle of a call.
RoutesExactlyFirst ==
  [][HandleOpen /\ ~lost => (pc' = "prime" <=> Head(batch).first)]_vars

\* A first open that reached the queue is routed, unless events are lost or
\* the thread ends before.
FirstStreamRouted ==
  (\E i \in 1..Len(queue) : queue[i].first) ~> (pc = "fix" \/ lost \/ pc = "exited")

\* A call that stays connected while PollLoop does not consider itself active
\* is unmuted, although samples may time out, unless the unmute is refused.
NewCallUnmuted ==
  (engine = "poll" /\ mode = "CALL" /\ muted /\ ~active)
    ~> (~muted \/ refused \/ mode # "CALL" \/ pc = "exited")

\* StopPolling returns: no wait of either loop outlives the flag.
StopJoins == (engine # "none" /\ ~g_running) ~> joined

\* The comment of ApplyMicFix: once the routes are rebuilt the transmission
\* line is unmuted, so a connected call does not stay muted unless the mixer
\* refuses.
ConnectedCallUnmuted ==
  (engine = "poll" /\ mode = "CALL" /\ muted)
    ~> (~muted \/ refused \/ mode # "CALL" \/ pc = "exited")
=============================================================================
