--------------------------- MODULE MicFixerProofs ---------------------------
(***************************************************************************)
(* Theorems about MicFixer: its types, that no round of either loop ends   *)
(* with the transmit line muted but for a ringtone, and that the stream    *)
(* count follows the open capture streams as long as no event is lost.     *)
(***************************************************************************)
EXTENDS MicFixer, SequenceTheorems, FiniteSetTheorems, TLAPS

FlagsOK ==
  /\ g_running \in BOOLEAN /\ joined \in BOOLEAN /\ active \in BOOLEAN
  /\ pre_init \in BOOLEAN /\ muted \in BOOLEAN /\ refused \in BOOLEAN /\ lost \in BOOLEAN

\* What is left of TypeOK.
ValuesOK ==
  /\ engine \in {"none", "alsa", "poll"}
  /\ pc \in {"none", "loop", "wait", "events", "sample", "ring", "prime", "fix", "sleep", "exited"}
  /\ stream_count \in Nat /\ batch \in Seq(Event)
  /\ open \in 0..MaxOpen /\ queue \in Seq(Event) /\ mode \in Modes
  /\ mutedBy \in {"nobody", "route", "ring", "ringInCall"}

\* Each loop keeps to its own steps.
LoopInv ==
  /\ engine = "none" => pc = "none" /\ ~muted
  /\ pc \in {"wait", "events"} => engine = "alsa"
  /\ pc \in {"sample", "ring", "sleep"} => engine = "poll"
  /\ pc = "none" => engine = "none"

\* A mute that the mixer did not refuse to lift belongs to the event-driven
\* loop only between its two routing steps, and to the polling one before a
\* call it is about to route or for a ring.
MuteInv ==
  muted /\ ~refused =>
    /\ engine = "alsa" => pc = "fix"
    /\ pc \in {"loop", "sample", "ring", "sleep", "exited"} =>
         mutedBy = "ringInCall" \/ (mutedBy = "ring" /\ ~active)

MicInv == FlagsOK /\ ValuesOK /\ LoopInv /\ MuteInv

-----------------------------------------------------------------------------
\* The fixer starts unmuted and without a thread.
LEMMA InitMic == Init => MicInv
<1> SUFFICES ASSUME Init PROVE MicInv
  OBVIOUS
<1>1. FlagsOK
  BY Zenon DEF Init, FlagsOK
<1>2. ValuesOK
  BY MicAssumption DEF Init, ValuesOK, Modes
<1>3. LoopInv /\ MuteInv
  BY DEF Init, LoopInv, MuteInv
<1>4. QED
  BY <1>1, <1>2, <1>3 DEF MicInv

\* Starting, stopping, the loop test, the routing and the end of a round.
LEMMA LoopKeepsMic ==
  ASSUME MicInv,
         StartPolling \/ StopPolling \/ Join \/ LoopTest \/ ApplyPreInit \/ ApplyMicFix \/ Sleep
  PROVE  MicInv'
<1> USE DEF MicInv, ValuesOK, LoopInv, MuteInv, alsaVars, pollVars, lineVars, envVars
<1>1. CASE StartPolling
  <2>1. FlagsOK'
    <3>1. lost' \in BOOLEAN
      BY <1>1 DEF StartPolling
    <3>2. QED
      BY <1>1, <3>1, Zenon DEF StartPolling, FlagsOK
  <2>2. queue' \in Seq(Event)
    BY <1>1 DEF StartPolling
  <2>3. QED
    BY <1>1, <2>1, <2>2 DEF StartPolling
<1>2. CASE StopPolling
  <2>1. FlagsOK'
    BY <1>2, Zenon DEF StopPolling, FlagsOK
  <2>2. ValuesOK' /\ LoopInv' /\ MuteInv'
    BY <1>2 DEF StopPolling
  <2>3. QED
    BY <2>1, <2>2
<1>3. CASE Join
  BY <1>3 DEF Join, FlagsOK
<1>4. CASE LoopTest
  BY <1>4 DEF LoopTest, FlagsOK
<1>5. CASE ApplyPreInit
  <2>1. FlagsOK'
    BY <1>5, Zenon DEF ApplyPreInit, FlagsOK
  <2>2. ValuesOK' /\ LoopInv' /\ MuteInv'
    BY <1>5 DEF ApplyPreInit, FlagsOK
  <2>3. QED
    BY <2>1, <2>2
<1>6. CASE ApplyMicFix
  <2>1. FlagsOK'
    BY <1>6, Zenon DEF ApplyMicFix, FlagsOK
  <2>2. ValuesOK' /\ LoopInv' /\ MuteInv'
    BY <1>6 DEF ApplyMicFix, FlagsOK
  <2>3. QED
    BY <2>1, <2>2
<1>7. CASE Sleep
  BY <1>7 DEF Sleep, FlagsOK
<1>8. QED
  BY <1>1, <1>2, <1>3, <1>4, <1>5, <1>6, <1>7

\* The steps of AlsaInotifyLoop.
LEMMA AlsaKeepsMic ==
  ASSUME MicInv,
         PollTimeout \/ PollError \/ ReadEvents \/ HandleOpen \/ HandleClose \/ BatchDone
  PROVE  MicInv'
<1> USE DEF MicInv, ValuesOK, LoopInv, MuteInv, alsaVars, pollVars, lineVars, envVars
<1>1. CASE PollTimeout
  BY <1>1 DEF PollTimeout, FlagsOK
<1>2. CASE PollError
  BY <1>2 DEF PollError, FlagsOK
<1>3. CASE ReadEvents
  <2> DEFINE n == IF Len(queue) <= BatchCap THEN Len(queue) ELSE BatchCap
  <2>1. n \in 0..Len(queue)
    BY MicAssumption
  <2>2. batch' = SubSeq(queue, 1, n) /\ queue' = SubSeq(queue, n + 1, Len(queue))
    BY <1>3 DEF ReadEvents
  <2> HIDE DEF n
  <2>3. batch' \in Seq(Event) /\ queue' \in Seq(Event)
    BY <2>1, <2>2
  <2>4. QED
    BY <1>3, <2>3 DEF ReadEvents, FlagsOK
<1>4. CASE HandleOpen
  BY <1>4 DEF HandleOpen, FlagsOK
<1>5. CASE HandleClose
  BY <1>5 DEF HandleClose, FlagsOK
<1>6. CASE BatchDone
  BY <1>6 DEF BatchDone, FlagsOK
<1>7. QED
  BY <1>1, <1>2, <1>3, <1>4, <1>5, <1>6

\* A sample of PollLoop, answered or timed out.
LEMMA PollKeepsMic == ASSUME MicInv, Sample \/ SampleTimesOut PROVE MicInv'
<1>1. FlagsOK'
  <2>1. active' \in BOOLEAN /\ pre_init' \in BOOLEAN
    BY Zenon DEF Sample, SampleTimesOut, SampleRingtone, SampleCall, SampleIdle, MicInv, FlagsOK
  <2>2. QED
    BY <2>1, Zenon DEF Sample, SampleTimesOut, lineVars, envVars, MicInv, FlagsOK
<1>2. ValuesOK' /\ LoopInv' /\ MuteInv'
  BY DEF Sample, SampleTimesOut, SampleRingtone, SampleCall, SampleIdle, MicInv, FlagsOK,
       ValuesOK, LoopInv, MuteInv, alsaVars, lineVars, envVars
<1>3. QED
  BY <1>1, <1>2 DEF MicInv

\* Streams and calls.
LEMMA EnvironmentKeepsMic == ASSUME MicInv, Environment PROVE MicInv'
<1> USE DEF MicInv, ValuesOK, LoopInv, MuteInv, alsaVars, pollVars, lineVars
<1>1. ASSUME NEW event \in Event, Raise(event)
      PROVE  queue' \in Seq(Event) /\ lost' \in BOOLEAN
  <2>1. queue' \in Seq(Event)
    BY <1>1 DEF Raise
  <2>2. lost' \in BOOLEAN
    BY <1>1, Zenon DEF Raise, FlagsOK
  <2>3. QED
    BY <2>1, <2>2
<1>2. CASE OpenStream
  <2>1. queue' \in Seq(Event) /\ lost' \in BOOLEAN
    <3>1. [kind |-> "open", first |-> open = 0] \in Event
      BY DEF Event
    <3>2. QED
      BY <1>2, <3>1, <1>1 DEF OpenStream
  <2>2. QED
    BY <1>2, <2>1, MicAssumption DEF OpenStream, FlagsOK
<1>3. CASE CloseStream
  <2>1. queue' \in Seq(Event) /\ lost' \in BOOLEAN
    <3>1. [kind |-> "close", first |-> FALSE] \in Event
      BY DEF Event
    <3>2. QED
      BY <1>3, <3>1, <1>1 DEF CloseStream
  <2>2. QED
    BY <1>3, <2>1, MicAssumption DEF CloseStream, FlagsOK
<1>4. CASE ModeChanges
  BY <1>4 DEF ModeChanges, FlagsOK, Modes
<1>5. QED
  BY <1>2, <1>3, <1>4 DEF Environment

\* MicInv is an invariant of the microphone fixer.
THEOREM MicInvariant == Spec => []MicInv
<1>1. MicInv /\ [Next]_vars => MicInv'
  <2> SUFFICES ASSUME MicInv, [Next]_vars PROVE MicInv'
    OBVIOUS
  <2>1. CASE UNCHANGED vars
    BY <2>1 DEF vars, MicInv, FlagsOK, ValuesOK, LoopInv, MuteInv
  <2>2. CASE Next
    BY <2>2, LoopKeepsMic, AlsaKeepsMic, PollKeepsMic, EnvironmentKeepsMic DEF Next, Thread
  <2>3. QED
    BY <2>1, <2>2
<1>2. QED
  BY InitMic, <1>1, PTL DEF Spec

\* The fixer's variables keep their types, the stream count never goes below
\* zero (HandleClose).
THEOREM MicTypeCorrect == Spec => []TypeOK
<1>1. MicInv => TypeOK
  BY DEF MicInv, FlagsOK, ValuesOK, TypeOK
<1>2. QED
  BY MicInvariant, <1>1, PTL

\* Unless an unmute was refused, AlsaInotifyLoop leaves no round with the line
\* muted, and PollLoop only for a ring it sampled itself: one no routed call has
\* followed, or one that came while it still took an earlier call for active.
THEOREM MuteIsForRing == Spec => []MutedOnlyForRing
<1>1. MicInv => MutedOnlyForRing
  BY DEF MicInv, ValuesOK, LoopInv, MuteInv, MutedOnlyForRing
<1>2. QED
  BY MicInvariant, <1>1, PTL
-----------------------------------------------------------------------------
\* The events counted by CountKind, by their places.
Places(s, kind) == {i \in 1..Len(s) : s[i].kind = kind}

\* Only finitely many events are counted.
LEMMA PlacesFinite ==
  ASSUME NEW s \in Seq(Event), NEW kind
  PROVE  IsFiniteSet(Places(s, kind)) /\ CountKind(s, kind) = Cardinality(Places(s, kind))
         /\ CountKind(s, kind) \in Nat
<1>1. Len(s) \in Nat
  OBVIOUS
<1>2. IsFiniteSet(1..Len(s))
  BY <1>1, FS_Interval
<1>3. IsFiniteSet(Places(s, kind))
  BY <1>2, FS_Subset DEF Places
<1>4. QED
  BY <1>3, FS_CardinalityType DEF Places, CountKind

\* An event that is queued is counted.
LEMMA CountAppend ==
  ASSUME NEW s \in Seq(Event), NEW e \in Event, NEW kind
  PROVE  CountKind(Append(s, e), kind)
           = IF e.kind = kind THEN CountKind(s, kind) + 1 ELSE CountKind(s, kind)
<1> DEFINE n == Len(s) + 1
<1>1. Len(s) \in Nat /\ Append(s, e) \in Seq(Event) /\ Len(Append(s, e)) = n
      /\ Append(s, e)[n] = e /\ \A i \in 1..Len(s) : Append(s, e)[i] = s[i]
  BY AppendProperties
<1>2. n \notin Places(s, kind)
  BY <1>1 DEF Places
<1>3. CASE e.kind = kind
  <2>1. Places(Append(s, e), kind) = Places(s, kind) \cup {n}
    BY <1>1, <1>3 DEF Places
  <2>2. IsFiniteSet(Places(s, kind)) /\ CountKind(s, kind) = Cardinality(Places(s, kind))
    BY PlacesFinite
  <2>3. Cardinality(Places(s, kind) \cup {n}) = CountKind(s, kind) + 1
    BY <1>2, <2>2, FS_AddElement
  <2>4. CountKind(Append(s, e), kind) = Cardinality(Places(Append(s, e), kind))
    BY <1>1, PlacesFinite
  <2>5. QED
    BY <1>3, <2>1, <2>3, <2>4
<1>4. CASE e.kind # kind
  <2>1. Places(Append(s, e), kind) = Places(s, kind)
    BY <1>1, <1>4 DEF Places
  <2>2. QED
    BY <1>1, <1>4, <2>1, PlacesFinite
<1>5. QED
  BY <1>3, <1>4

\* An event that is handled is no longer counted: the places of the others
\* move down by one.
LEMMA CountTail ==
  ASSUME NEW s \in Seq(Event), s # <<>>, NEW kind
  PROVE  CountKind(s, kind)
           = IF Head(s).kind = kind THEN CountKind(Tail(s), kind) + 1 ELSE CountKind(Tail(s), kind)
<1> DEFINE rest == Places(s, kind) \ {1}
           shift == [i \in Places(Tail(s), kind) |-> i + 1]
<1>1. Len(s) \in Nat \ {0} /\ Tail(s) \in Seq(Event) /\ Len(Tail(s)) = Len(s) - 1
      /\ \A i \in 1..Len(Tail(s)) : Tail(s)[i] = s[i + 1]
  BY EmptySeq, HeadTailProperties
<1>2. Head(s) = s[1]
  BY <1>1
<1>3. shift \in [Places(Tail(s), kind) -> rest]
  BY <1>1 DEF Places
<1>4. \A i, j \in Places(Tail(s), kind) : shift[i] = shift[j] => i = j
  BY <1>1 DEF Places
<1>5. \A j \in rest : \E i \in Places(Tail(s), kind) : shift[i] = j
  <2> TAKE j \in rest
  <2>1. j - 1 \in Places(Tail(s), kind)
    BY <1>1 DEF Places
  <2>2. shift[j - 1] = j
    BY <2>1, <1>1 DEF Places
  <2>3. QED
    BY <2>1, <2>2
<1> HIDE DEF shift, rest
<1>6. ExistsBijection(Places(Tail(s), kind), rest)
  BY <1>3, <1>4, <1>5, Zenon DEF ExistsBijection, Bijection, Injection, Surjection, IsInjective
<1>7. Cardinality(rest) = CountKind(Tail(s), kind)
  <2>1. IsFiniteSet(Places(Tail(s), kind))
        /\ CountKind(Tail(s), kind) = Cardinality(Places(Tail(s), kind))
    BY <1>1, PlacesFinite
  <2>2. QED
    BY <1>6, <2>1, FS_Bijection
<1>8. Cardinality(rest)
        = IF 1 \in Places(s, kind) THEN CountKind(s, kind) - 1 ELSE CountKind(s, kind)
  BY PlacesFinite, FS_RemoveElement DEF rest
<1>9. 1 \in Places(s, kind) <=> Head(s).kind = kind
  BY <1>1, <1>2 DEF Places
<1>10. QED
  BY <1>1, <1>7, <1>8, <1>9, PlacesFinite

-----------------------------------------------------------------------------
\* The events raised and not yet handled, oldest first.
Unread == batch \o queue

\* Reading moves the oldest events from the kernel to the buffer.
LEMMA ReadSplits ==
  ASSUME NEW s \in Seq(Event), NEW n \in 0..Len(s)
  PROVE  SubSeq(s, 1, n) \o SubSeq(s, n + 1, Len(s)) = s
<1>1. Len(s) \in Nat /\ n \in Int /\ 1 \in 1..Len(s) + 1 /\ n \in 1 - 1..Len(s) /\ Len(s) \in n..Len(s)
  OBVIOUS
<1>2. SubSeq(s, 1, n) \o SubSeq(s, n + 1, Len(s)) = SubSeq(s, 1, Len(s))
  BY <1>1, ConcatAdjacentSubSeq
<1>3. QED
  BY <1>2, SubSeqFull

\* An event that is queued is the newest unread one.
LEMMA QueuedIsNewest ==
  ASSUME NEW s \in Seq(Event), NEW t \in Seq(Event), NEW e \in Event
  PROVE  s \o Append(t, e) = Append(s \o t, e)
<1>1. <<e>> \in Seq(Event) /\ s \o t \in Seq(Event)
  BY ConcatProperties
<1>2. Append(t, e) = t \o <<e>> /\ Append(s \o t, e) = (s \o t) \o <<e>>
  BY <1>1, AppendIsConcat
<1>3. (s \o t) \o <<e>> = s \o (t \o <<e>>)
  BY <1>1, ConcatAssociative
<1>4. QED
  BY <1>2, <1>3

\* The first event of the buffer is the oldest unread one.
LEMMA HandledIsOldest ==
  ASSUME NEW s \in Seq(Event), s # <<>>, NEW t \in Seq(Event)
  PROVE  s \o t # <<>> /\ Head(s \o t) = Head(s) /\ Tail(s \o t) = Tail(s) \o t
<1>1. Len(s) \in Nat \ {0} /\ Len(t) \in Nat
  BY EmptySeq
<1>2. s \o t \in Seq(Event) /\ Len(s \o t) = Len(s) + Len(t)
      /\ \A i \in 1..Len(s) + Len(t) : (s \o t)[i] = IF i <= Len(s) THEN s[i] ELSE t[i - Len(s)]
  BY ConcatProperties
<1>3. s \o t # <<>>
  BY <1>1, <1>2
<1>4. Head(s \o t) = Head(s)
  BY <1>1, <1>2
<1>5. Tail(s) \in Seq(Event) /\ Len(Tail(s)) = Len(s) - 1
      /\ \A i \in 1..Len(Tail(s)) : Tail(s)[i] = s[i + 1]
  BY HeadTailProperties
<1>6. Tail(s \o t) \in Seq(Event) /\ Len(Tail(s \o t)) = Len(s \o t) - 1
      /\ \A i \in 1..Len(Tail(s \o t)) : Tail(s \o t)[i] = (s \o t)[i + 1]
  BY <1>2, <1>3, HeadTailProperties
<1>7. Tail(s) \o t \in Seq(Event) /\ Len(Tail(s) \o t) = Len(Tail(s)) + Len(t)
      /\ \A i \in 1..Len(Tail(s)) + Len(t) :
           (Tail(s) \o t)[i] = IF i <= Len(Tail(s)) THEN Tail(s)[i] ELSE t[i - Len(Tail(s))]
  BY <1>5, ConcatProperties
<1>8. Len(Tail(s \o t)) = Len(Tail(s) \o t)
  BY <1>1, <1>2, <1>5, <1>6, <1>7
<1>9. ASSUME NEW i \in 1..Len(Tail(s \o t)) PROVE Tail(s \o t)[i] = (Tail(s) \o t)[i]
  <2>1. i \in 1..Len(s) + Len(t) /\ i + 1 \in 1..Len(s) + Len(t) /\ i \in 1..Len(Tail(s)) + Len(t)
    BY <1>1, <1>2, <1>5, <1>6
  <2>2. CASE i <= Len(s) - 1
    <3>1. i \in 1..Len(Tail(s)) /\ i + 1 <= Len(s)
      BY <1>1, <1>5, <2>2
    <3>2. QED
      BY <1>2, <1>5, <1>6, <1>7, <2>1, <3>1
  <2>3. CASE ~(i <= Len(s) - 1)
    <3>1. ~(i + 1 <= Len(s)) /\ ~(i <= Len(Tail(s))) /\ i + 1 - Len(s) = i - Len(Tail(s))
      BY <1>1, <1>5, <2>3
    <3>2. QED
      BY <1>2, <1>6, <1>7, <2>1, <3>1
  <2>4. QED
    BY <2>2, <2>3
<1>10. Tail(s \o t) = Tail(s) \o t
  BY <1>6, <1>7, <1>8, <1>9, SeqEqual
<1>11. QED
  BY <1>3, <1>4, <1>10

-----------------------------------------------------------------------------
\* level[i] streams are open once the i-th event of s was raised: each event
\* changes the level by one, and only an open at level zero is a first one.
IsLevel(level, s, from, to) ==
  /\ level \in [0..Len(s) -> Nat]
  /\ level[0] = from
  /\ level[Len(s)] = to
  /\ \A i \in 1..Len(s) :
       IF s[i].kind = "open"
       THEN level[i] = level[i - 1] + 1 /\ (s[i].first <=> level[i - 1] = 0)
       ELSE level[i] = level[i - 1] - 1

\* The count the thread holds and the streams that are open are the two ends
\* of the unread events.
Explains(s, from, to) == \E level : IsLevel(level, s, from, to)

\* With nothing unread both ends are the same.
LEMMA ExplainsNothing == ASSUME NEW n \in Nat PROVE Explains(<<>>, n, n)
<1>1. IsLevel([i \in 0..0 |-> n], <<>>, n, n)
  BY DEF IsLevel
<1>2. QED
  BY <1>1 DEF Explains

\* Opening or closing a stream adds one event at the new end.
LEMMA ExplainsRaise ==
  ASSUME NEW s \in Seq(Event), NEW from, NEW to \in Nat, NEW next \in Nat, NEW e \in Event,
         Explains(s, from, to),
         IF e.kind = "open" THEN next = to + 1 /\ (e.first <=> to = 0) ELSE next = to - 1
  PROVE  Explains(Append(s, e), from, next)
<1>1. PICK level : IsLevel(level, s, from, to)
  BY DEF Explains
<1> DEFINE longer == [i \in 0..Len(s) + 1 |-> IF i <= Len(s) THEN level[i] ELSE next]
           t == Append(s, e)
<1>2. Len(s) \in Nat /\ Len(t) = Len(s) + 1
      /\ t[Len(s) + 1] = e /\ \A i \in 1..Len(s) : t[i] = s[i]
  BY AppendProperties
<1>3. longer \in [0..Len(t) -> Nat] /\ longer[0] = from /\ longer[Len(t)] = next
  BY <1>1, <1>2 DEF IsLevel
<1> HIDE DEF t
<1>4. ASSUME NEW i \in 1..Len(t)
      PROVE  IF t[i].kind = "open"
             THEN longer[i] = longer[i - 1] + 1 /\ (t[i].first <=> longer[i - 1] = 0)
             ELSE longer[i] = longer[i - 1] - 1
  <2>1. CASE i <= Len(s)
    <3>1. i \in 1..Len(s) /\ longer[i] = level[i] /\ longer[i - 1] = level[i - 1] /\ t[i] = s[i]
      BY <1>2, <2>1
    <3>2. QED
      BY <1>1, <3>1 DEF IsLevel
  <2>2. CASE ~(i <= Len(s))
    <3>1. i = Len(s) + 1 /\ longer[i] = next /\ longer[i - 1] = to /\ t[i] = e
      BY <1>1, <1>2, <2>2 DEF IsLevel
    <3>2. QED
      BY <3>1
  <2>3. QED
    BY <2>1, <2>2
<1>5. IsLevel(longer, t, from, next)
  BY <1>3, <1>4 DEF IsLevel
<1>6. QED
  BY <1>5 DEF Explains, t

\* Handling the oldest event moves the old end by that event.
LEMMA ExplainsHandle ==
  ASSUME NEW s \in Seq(Event), s # <<>>, NEW from \in Nat, NEW to, Explains(s, from, to)
  PROVE  IF Head(s).kind = "open"
         THEN Explains(Tail(s), from + 1, to) /\ (Head(s).first <=> from = 0)
         ELSE from > 0 /\ Explains(Tail(s), from - 1, to)
<1>1. PICK level : IsLevel(level, s, from, to)
  BY DEF Explains
<1> DEFINE t == Tail(s)
           shorter == [i \in 0..Len(t) |-> level[i + 1]]
<1>2. Len(s) \in Nat \ {0} /\ Len(t) = Len(s) - 1 /\ \A i \in 1..Len(t) : t[i] = s[i + 1]
  BY EmptySeq, HeadTailProperties
<1>3. Head(s) = s[1] /\ 1 \in 1..Len(s)
  BY <1>2
<1> HIDE DEF t
<1>4. IF Head(s).kind = "open"
      THEN level[1] = from + 1 /\ (Head(s).first <=> from = 0)
      ELSE level[1] = from - 1
  BY <1>1, <1>3 DEF IsLevel
<1>5. level[1] \in Nat
  BY <1>1, <1>2 DEF IsLevel
<1>6. shorter \in [0..Len(t) -> Nat] /\ shorter[0] = level[1] /\ shorter[Len(t)] = to
  BY <1>1, <1>2 DEF IsLevel
<1>7. ASSUME NEW i \in 1..Len(t)
      PROVE  IF t[i].kind = "open"
             THEN shorter[i] = shorter[i - 1] + 1 /\ (t[i].first <=> shorter[i - 1] = 0)
             ELSE shorter[i] = shorter[i - 1] - 1
  <2>1. i + 1 \in 1..Len(s) /\ t[i] = s[i + 1] /\ shorter[i] = level[i + 1]
        /\ shorter[i - 1] = level[i] /\ (i + 1) - 1 = i
    BY <1>2
  <2>2. QED
    BY <1>1, <2>1 DEF IsLevel
<1>8. IsLevel(shorter, t, level[1], to)
  BY <1>6, <1>7 DEF IsLevel
<1>9. Explains(t, level[1], to)
  BY <1>8 DEF Explains
<1>10. QED
  BY <1>4, <1>5, <1>9 DEF t

-----------------------------------------------------------------------------
\* Events are in the buffer only while the event-driven loop handles a batch,
\* and as long as none was lost they lead from the count to the open streams.
BatchInv ==
  /\ batch # <<>> => engine = "alsa" /\ pc \in {"events", "prime", "fix"}
  /\ engine = "none" => stream_count = 0

LevelInv == engine = "alsa" /\ ~lost => Explains(Unread, stream_count, open)

CountInv == BatchInv /\ LevelInv /\ CountConserved

\* What the proofs below use of the types.
LEMMA CountTypes ==
  ASSUME MicInv
  PROVE  /\ batch \in Seq(Event) /\ queue \in Seq(Event) /\ Unread \in Seq(Event)
         /\ stream_count \in Nat /\ open \in Nat
         /\ CountKind(Unread, "open") \in Nat /\ CountKind(Unread, "close") \in Nat
<1>1. batch \in Seq(Event) /\ queue \in Seq(Event) /\ stream_count \in Nat /\ open \in Nat
  BY MicAssumption DEF MicInv, ValuesOK
<1>2. Unread \in Seq(Event)
  BY <1>1, ConcatProperties DEF Unread
<1>3. QED
  BY <1>1, <1>2, PlacesFinite

\* Steps that touch neither the events nor the counts.
LEMMA CountFrame ==
  ASSUME LevelInv, CountConserved,
         UNCHANGED <<engine, stream_count, batch, open, queue, lost>>
  PROVE  LevelInv' /\ CountConserved'
<1>1. Unread' = Unread
  BY DEF Unread
<1>2. LevelInv'
  BY <1>1 DEF LevelInv
<1>3. CountConserved'
  BY DEF CountConserved
<1>4. QED
  BY <1>2, <1>3

\* The thread starts with no event, no count and, unless streams were missed,
\* no open stream.
LEMMA StartKeepsCount == ASSUME MicInv, CountInv, StartPolling PROVE CountInv'
<1>1. batch = <<>> /\ stream_count = 0
  BY DEF StartPolling, CountInv, BatchInv
<1>2. batch' = <<>> /\ queue' = <<>> /\ stream_count' = 0 /\ open' = open
  BY <1>1 DEF StartPolling, alsaVars
<1>3. BatchInv'
  BY <1>2 DEF BatchInv
<1>4. Unread' = <<>>
  BY <1>2 DEF Unread
<1>5. ASSUME ~lost' PROVE open' = 0
  <2>1. lost' = (open > 0)
    BY DEF StartPolling
  <2>2. ~(open > 0)
    BY <1>5, <2>1, Zenon
  <2>3. open \in Nat
    BY CountTypes
  <2>4. QED
    BY <1>2, <2>2, <2>3
<1>6. LevelInv'
  BY <1>2, <1>4, <1>5, ExplainsNothing DEF LevelInv
<1>7. CountKind(<<>>, "open") = 0 /\ CountKind(<<>>, "close") = 0
  <2>1. ASSUME NEW kind PROVE {i \in 1..Len(<<>>) : <<>>[i].kind = kind} = {}
    OBVIOUS
  <2>2. QED
    BY <2>1, FS_EmptySet DEF CountKind
<1>8. CountConserved'
  BY <1>2, <1>4, <1>5, <1>7 DEF CountConserved, Unread
<1>9. QED
  BY <1>3, <1>6, <1>8 DEF CountInv

\* Reading a batch leaves the unread events as they are, because the one
\* before has been handled.
LEMMA ReadKeepsCount == ASSUME MicInv, CountInv, ReadEvents PROVE CountInv'
<1> DEFINE n == IF Len(queue) <= BatchCap THEN Len(queue) ELSE BatchCap
<1>1. queue \in Seq(Event) /\ n \in 0..Len(queue)
  BY CountTypes, MicAssumption
<1>2. batch' = SubSeq(queue, 1, n) /\ queue' = SubSeq(queue, n + 1, Len(queue))
  BY DEF ReadEvents
<1> HIDE DEF n
<1>3. batch = <<>>
  BY DEF ReadEvents, CountInv, BatchInv
<1>4. Unread' = queue
  BY <1>1, <1>2, ReadSplits DEF Unread
<1>5. Unread = queue
  BY <1>1, <1>3, ConcatEmptySeq DEF Unread
<1>6. engine = "alsa"
  BY DEF ReadEvents, MicInv, LoopInv
<1>7. BatchInv'
  BY <1>6 DEF ReadEvents, BatchInv
<1>8. LevelInv'
  BY <1>4, <1>5 DEF ReadEvents, CountInv, LevelInv
<1>9. CountConserved'
  BY <1>4, <1>5 DEF ReadEvents, CountInv, CountConserved, Unread
<1>10. QED
  BY <1>7, <1>8, <1>9 DEF CountInv

\* What a handler finds: the oldest unread event, and what it leaves.
LEMMA HandlerStep ==
  ASSUME MicInv, batch # <<>>, batch' = Tail(batch), UNCHANGED queue
  PROVE  Unread # <<>> /\ Head(Unread) = Head(batch) /\ Unread' = Tail(Unread)
         /\ Tail(Unread) \in Seq(Event)
<1>1. Unread # <<>> /\ Head(Unread) = Head(batch) /\ Tail(Unread) = Tail(batch) \o queue
  BY CountTypes, HandledIsOldest DEF Unread
<1>2. Unread' = Tail(batch) \o queue
  BY DEF Unread
<1>3. Tail(Unread) \in Seq(Event)
  BY <1>1, CountTypes, HeadTailProperties
<1>4. QED
  BY <1>1, <1>2, <1>3

\* IN_OPEN takes one open from the unread events and adds it to the count.
LEMMA HandleOpenKeepsCount == ASSUME MicInv, CountInv, HandleOpen PROVE CountInv'
<1>1. batch # <<>> /\ batch' = Tail(batch) /\ UNCHANGED <<engine, queue, open, lost>>
      /\ stream_count' = stream_count + 1 /\ Head(batch).kind = "open"
      /\ pc = "events" /\ pc' \in {"prime", "events"}
  BY DEF HandleOpen, envVars
<1>2. Unread # <<>> /\ Head(Unread).kind = "open" /\ Unread' = Tail(Unread)
      /\ Tail(Unread) \in Seq(Event)
  BY <1>1, HandlerStep
<1>3. engine = "alsa"
  BY <1>1 DEF MicInv, LoopInv
<1>4. BatchInv'
  BY <1>1, <1>3 DEF BatchInv
<1>5. LevelInv'
  BY <1>1, <1>2, CountTypes, ExplainsHandle DEF CountInv, LevelInv
<1>6. CountKind(Unread, "open") = CountKind(Unread', "open") + 1
      /\ CountKind(Unread, "close") = CountKind(Unread', "close")
  BY <1>2, CountTypes, CountTail
<1>7. CountKind(Unread', "open") \in Nat /\ CountKind(Unread', "close") \in Nat
  BY <1>2, PlacesFinite
<1>8. CountConserved'
  BY <1>1, <1>6, <1>7, CountTypes DEF CountInv, CountConserved, Unread
<1>9. QED
  BY <1>4, <1>5, <1>8 DEF CountInv

\* IN_CLOSE takes one close away; unless events were lost the count it lowers
\* is above zero, so the guard against a negative count never loses a close.
LEMMA HandleCloseKeepsCount == ASSUME MicInv, CountInv, HandleClose PROVE CountInv'
<1>1. batch # <<>> /\ batch' = Tail(batch) /\ UNCHANGED <<engine, queue, open, lost>>
      /\ stream_count' = (IF stream_count > 0 THEN stream_count - 1 ELSE 0)
      /\ Head(batch).kind = "close" /\ pc = "events" /\ pc' = pc
  BY DEF HandleClose, envVars
<1>2. Unread # <<>> /\ Head(Unread).kind = "close" /\ Unread' = Tail(Unread)
      /\ Tail(Unread) \in Seq(Event)
  BY <1>1, HandlerStep
<1>3. engine = "alsa"
  BY <1>1 DEF MicInv, LoopInv
<1>4. BatchInv'
  BY <1>1, <1>3 DEF BatchInv
<1>5. ASSUME ~lost PROVE stream_count > 0 /\ Explains(Tail(Unread), stream_count - 1, open)
  BY <1>2, <1>3, <1>5, CountTypes, ExplainsHandle DEF CountInv, LevelInv
<1>6. LevelInv'
  BY <1>1, <1>2, <1>5 DEF LevelInv
<1>7. CountKind(Unread, "open") = CountKind(Unread', "open")
      /\ CountKind(Unread, "close") = CountKind(Unread', "close") + 1
  BY <1>2, CountTypes, CountTail
<1>8. CountKind(Unread', "open") \in Nat /\ CountKind(Unread', "close") \in Nat
  BY <1>2, PlacesFinite
<1>9. CountConserved'
  BY <1>1, <1>5, <1>7, <1>8, CountTypes DEF CountInv, CountConserved, Unread
<1>10. QED
  BY <1>4, <1>6, <1>9 DEF CountInv

\* The kernel queues the event of a stream, or the event is lost.
LEMMA RaiseKeepsCount ==
  ASSUME MicInv, CountInv, NEW e \in Event, Raise(e), open' \in Nat,
         UNCHANGED <<engine, pc, stream_count, batch>>,
         IF e.kind = "open" THEN open' = open + 1 /\ (e.first <=> open = 0) ELSE open' = open - 1
  PROVE  CountInv'
<1>1. BatchInv'
  BY DEF CountInv, BatchInv
<1>2. CASE queue' = Append(queue, e) /\ lost' = lost
  <2>1. Unread' = Append(Unread, e)
    BY <1>2, CountTypes, QueuedIsNewest DEF Unread
  <2>2. LevelInv'
    BY <1>2, <2>1, CountTypes, ExplainsRaise DEF CountInv, LevelInv
  <2>3. e.kind \in {"open", "close"}
    BY DEF Event
  <2>4. /\ CountKind(Unread', "open")
             = IF e.kind = "open" THEN CountKind(Unread, "open") + 1 ELSE CountKind(Unread, "open")
        /\ CountKind(Unread', "close")
             = IF e.kind = "close" THEN CountKind(Unread, "close") + 1 ELSE CountKind(Unread, "close")
    BY <2>1, CountTypes, CountAppend
  <2>5. CountConserved'
    <3> SUFFICES ASSUME engine = "alsa", ~lost
                 PROVE  open' = stream_count + CountKind(Unread', "open") - CountKind(Unread', "close")
      BY <1>2 DEF CountConserved, Unread
    <3>1. open = stream_count + CountKind(Unread, "open") - CountKind(Unread, "close")
      BY DEF CountInv, CountConserved, Unread
    <3>2. CountKind(Unread, "open") \in Nat /\ CountKind(Unread, "close") \in Nat
      BY CountTypes, PlacesFinite
    <3>3. CASE e.kind = "open"
      <4>1. open' = open + 1
        BY <3>3
      <4>2. CountKind(Unread', "open") = CountKind(Unread, "open") + 1
            /\ CountKind(Unread', "close") = CountKind(Unread, "close")
        BY <2>4, <3>3
      <4>3. QED
        BY <3>1, <3>2, <4>1, <4>2, CountTypes
    <3>4. CASE e.kind = "close"
      <4>1. open' = open - 1
        BY <3>4
      <4>2. CountKind(Unread', "open") = CountKind(Unread, "open")
            /\ CountKind(Unread', "close") = CountKind(Unread, "close") + 1
        BY <2>4, <3>4
      <4>3. QED
        BY <3>1, <3>2, <4>1, <4>2, CountTypes
    <3>5. QED
      BY <2>3, <3>3, <3>4
  <2>6. QED
    BY <1>1, <2>2, <2>5 DEF CountInv
<1>3. CASE lost'
  BY <1>1, <1>3 DEF CountInv, LevelInv, CountConserved
<1>4. QED
  BY <1>2, <1>3 DEF Raise

\* Streams are opened and closed at any time.
LEMMA StreamKeepsCount == ASSUME MicInv, CountInv, OpenStream \/ CloseStream PROVE CountInv'
<1>1. CASE OpenStream
  <2> DEFINE e == [kind |-> "open", first |-> open = 0]
  <2>1. e \in Event /\ e.kind = "open" /\ (e.first <=> open = 0)
    BY DEF Event
  <2>2. Raise(e) /\ open' = open + 1 /\ UNCHANGED <<engine, pc, stream_count, batch>>
    BY <1>1 DEF OpenStream, alsaVars
  <2> HIDE DEF e
  <2>3. QED
    BY <2>1, <2>2, CountTypes, RaiseKeepsCount
<1>2. CASE CloseStream
  <2> DEFINE e == [kind |-> "close", first |-> FALSE]
  <2>1. e \in Event /\ e.kind = "close"
    BY DEF Event
  <2>2. Raise(e) /\ open' = open - 1 /\ open > 0 /\ UNCHANGED <<engine, pc, stream_count, batch>>
    BY <1>2 DEF CloseStream, alsaVars
  <2> HIDE DEF e
  <2>3. QED
    BY <2>1, <2>2, CountTypes, RaiseKeepsCount
<1>3. QED
  BY <1>1, <1>2

\* The remaining steps handle no event and open no stream.
LEMMA QuietKeepsCount ==
  ASSUME MicInv, CountInv,
         \/ StopPolling \/ Join \/ LoopTest \/ ApplyPreInit \/ ApplyMicFix \/ Sleep
         \/ PollTimeout \/ PollError \/ BatchDone \/ Sample \/ SampleTimesOut \/ ModeChanges
         \/ UNCHANGED vars
  PROVE  CountInv'
<1> USE DEF StopPolling, Join, LoopTest, ApplyPreInit, ApplyMicFix, Sleep, PollTimeout, PollError,
        BatchDone, Sample, SampleTimesOut, ModeChanges, vars, alsaVars, pollVars, envVars
<1>1. UNCHANGED <<engine, stream_count, batch, open, queue, lost>>
  OBVIOUS
<1>2. batch # <<>> /\ pc' # pc => pc \in {"prime", "fix"} /\ pc' \in {"fix", "events"}
  BY DEF CountInv, BatchInv, SampleRingtone, SampleCall, SampleIdle
<1>3. BatchInv'
  BY <1>1, <1>2 DEF CountInv, BatchInv
<1>4. QED
  BY <1>1, <1>3, CountFrame DEF CountInv

\* CountInv is an invariant of the microphone fixer.
THEOREM CountInvariant == Spec => []CountInv
<1>1. Init => CountInv
  BY DEF Init, CountInv, BatchInv, LevelInv, CountConserved
<1>2. MicInv /\ CountInv /\ [Next]_vars => CountInv'
  BY StartKeepsCount, ReadKeepsCount, HandleOpenKeepsCount, HandleCloseKeepsCount,
     StreamKeepsCount, QuietKeepsCount DEF Next, Thread, Environment
<1>3. QED
  BY MicInvariant, <1>1, <1>2, PTL DEF Spec

\* Whatever the sizes of the queue and of the read buffer: as long as no event
\* was merged, dropped or missed, the stream count of AlsaInotifyLoop and the
\* unread events add up to the capture streams that are open.
THEOREM CountIsConserved == Spec => []CountConserved
<1>1. CountInv => CountConserved
  BY DEF CountInv
<1>2. QED
  BY CountInvariant, <1>1, PTL

\* Under the same condition IN_OPEN runs the routing for exactly the opens
\* that found no other stream, so a call in progress is never muted.
THEOREM RoutesFirstOnly == Spec => RoutesExactlyFirst
<1>1. ASSUME MicInv, CountInv, HandleOpen, ~lost PROVE pc' = "prime" <=> Head(batch).first
  <2>1. batch # <<>> /\ batch' = Tail(batch) /\ UNCHANGED queue /\ pc = "events"
        /\ Head(batch).kind = "open" /\ pc' = IF stream_count + 1 = 1 THEN "prime" ELSE "events"
    BY <1>1 DEF HandleOpen, envVars
  <2>2. Unread # <<>> /\ Head(Unread) = Head(batch)
    BY <1>1, <2>1, HandlerStep
  <2>3. Explains(Unread, stream_count, open)
    BY <1>1, <2>1 DEF MicInv, LoopInv, CountInv, LevelInv
  <2>4. Head(batch).first <=> stream_count = 0
    BY <1>1, <2>1, <2>2, <2>3, CountTypes, ExplainsHandle
  <2>5. QED
    BY <1>1, <2>1, <2>4, CountTypes
<1>2. MicInv /\ CountInv /\ [Next]_vars
        => [HandleOpen /\ ~lost => (pc' = "prime" <=> Head(batch).first)]_vars
  BY <1>1
<1>3. QED
  BY MicInvariant, CountInvariant, <1>2, PTL DEF Spec, RoutesExactlyFirst

=============================================================================
