--------------------------- MODULE AnalyzerProofs ---------------------------
(***************************************************************************)
(* Theorems about Analyzer: for every set of packages and directories and  *)
(* every choice of thresholds, a cleaned directory is left alone for the   *)
(* cooldown, and no other cause keeps one that is due from being a target.  *)
(***************************************************************************)
EXTENDS Analyzer, TLAPS

\* The history never knows an older cleanup of a package than the youngest
\* of its directories, and when the packages are analyzed the clock has
\* moved on since it was recorded.
AgeInv ==
  stepped \/
  /\ \A p \in Packages :
       /\ g_states[p].last_cleanup >= 0
       /\ pc \in {"ready", "analyze"} => g_states[p].last_cleanup >= 1
  /\ \A d \in Dirs : dirAge[d] >= Cooldown \/ g_states[Owner[d]].last_cleanup <= dirAge[d]

CooldownInv == TypeOK /\ AgeInv

-----------------------------------------------------------------------------
\* A rate fits its field, whatever was measured.
LEMMA GrowthIsNat ==
  ASSUME NEW state \in PackageState, NEW bytes \in Nat
  PROVE  Growth(state, bytes) \in Nat
<1>1. \A a \in Nat, b \in Nat \ {0} : a \div b \in Nat /\ a % b \in Nat
  OBVIOUS
<1>2. state.last_scan \in Int /\ state.last_size \in Nat /\ state.growth \in Nat
  BY DEF PackageState
<1>3. Days(state.last_scan) \in Nat
  <2>1. CASE state.last_scan > 0
    BY <1>1, <1>2, <2>1, AnalyzerAssumption DEF Days
  <2>2. CASE ~(state.last_scan > 0)
    BY <2>2 DEF Days
  <2>3. QED
    BY <2>1, <2>2
<1>4. CASE Days(state.last_scan) > 0 /\ bytes > state.last_size
  <2> DEFINE days == Days(state.last_scan)
             more == bytes - state.last_size
  <2>1. days \in Nat \ {0} /\ more \in Nat /\ Width \in Nat \ {0}
    BY <1>2, <1>3, <1>4, AnalyzerAssumption
  <2>2. Growth(state, bytes) = (more \div days) % Width
    BY <1>4 DEF Growth
  <2> HIDE DEF days, more
  <2>3. more \div days \in Nat
    BY <1>1, <2>1
  <2>4. (more \div days) % Width \in Nat
    BY <1>1, <2>1, <2>3
  <2>5. QED
    BY <2>2, <2>4
<1>5. CASE ~(Days(state.last_scan) > 0 /\ bytes > state.last_size)
  BY <1>2, <1>5 DEF Growth
<1>6. QED
  BY <1>4, <1>5

\* The bonuses add up to at most three.
LEMMA PriorityInRange ==
  ASSUME NEW bytes \in Nat, NEW growth \in Nat
  PROVE  Priority(bytes, growth) \in 1..4
  BY AnalyzerAssumption DEF Priority

\* What a cleanup leaves of an entry.
LEMMA CleanedEntry ==
  ASSUME NEW state \in PackageState, NEW time \in Int, NEW bytes \in Nat
  PROVE  LET entry == [state EXCEPT !.last_cleanup = time, !.last_size = bytes]
         IN  entry \in PackageState /\ entry.last_cleanup = time
  BY DEF PackageState

\* The directory being analyzed is one of them, with a package.
LEMMA CurrentDir ==
  ASSUME TypeOK, next <= Len(Order)
  PROVE  /\ Order[next] \in Dirs /\ Owner[Order[next]] \in Packages
         /\ next + 1 \in 1..(Len(Order) + 1)
<1>1. Len(Order) \in Nat
  BY AnalyzerAssumption
<1>2. next \in 1..Len(Order)
  BY <1>1 DEF TypeOK
<1>3. Order[next] \in Dirs
  BY <1>2 DEF Dirs
<1>4. QED
  BY <1>1, <1>2, <1>3, AnalyzerAssumption

\* The total stays in its range.
LEMMA CountedInRange ==
  ASSUME g_total_bytes_freed_run \in 0..(Quota + 1), NEW bytes \in Nat
  PROVE  Counted(bytes) \in 0..(Quota + 1)
  BY AnalyzerAssumption DEF Counted

\* A fresh history, nothing cleaned.
LEMMA InitCooldown == Init => CooldownInv
<1> SUFFICES ASSUME Init PROVE CooldownInv
  OBVIOUS
<1>1. Len(Order) \in Nat
  BY AnalyzerAssumption
<1>2. Fresh \in PackageState /\ Fresh.last_cleanup >= 1
  BY AnalyzerAssumption DEF Fresh, PackageState
<1> HIDE DEF Fresh
<1>3. TypeOK
  <2>1. g_states \in [Packages -> PackageState]
    BY <1>2 DEF Init
  <2>2. dirAge \in [Dirs -> 0..Cooldown]
    BY AnalyzerAssumption DEF Init
  <2>3. next \in 1..(Len(Order) + 1) /\ targets \subseteq Target
    BY <1>1 DEF Init
  <2>4. stepped \in BOOLEAN /\ pc \in {"wait", "ready", "analyze", "clean"}
    BY DEF Init
  <2>5. g_total_bytes_freed_run \in 0..(Quota + 1)
    BY AnalyzerAssumption DEF Init
  <2>6. QED
    BY <2>1, <2>2, <2>3, <2>4, <2>5 DEF Init, TypeOK
<1>4. AgeInv
  <2>1. \A p \in Packages : g_states[p].last_cleanup >= 1 /\ g_states[p].last_cleanup \in Int
    BY <1>2 DEF Init, PackageState
  <2>2. \A d \in Dirs : dirAge[d] >= Cooldown
    BY AnalyzerAssumption DEF Init
  <2>3. QED
    BY <2>1, <2>2 DEF AgeInv
<1>5. QED
  BY <1>3, <1>4 DEF CooldownInv

\* The analysis of one directory records a scan and keeps the cleanup.
LEMMA AnalyzeKeeps == ASSUME CooldownInv, AnalyzeDir PROVE CooldownInv'
<1> DEFINE dir    == Order[next]
           p      == Owner[dir]
           bytes  == Measured(dir)
           growth == Growth(g_states[p], bytes)
           entry  == [g_states[p] EXCEPT !.last_scan = 0, !.last_size = bytes, !.growth = growth]
           target == [dir |-> dir, priority |-> Priority(bytes, growth)]
<1>1. dir \in Dirs /\ p \in Packages /\ next + 1 \in 1..(Len(Order) + 1)
  BY CurrentDir DEF CooldownInv, AnalyzeDir
<1>2. bytes \in Nat
  BY <1>1, AnalyzerAssumption DEF Measured, CooldownInv, TypeOK, Absent
<1>3. g_states[p] \in PackageState
  BY <1>1 DEF CooldownInv, TypeOK
<1>4. growth \in Nat
  BY <1>2, <1>3, GrowthIsNat
<1>5. target \in Target
  BY <1>1, <1>2, <1>4, PriorityInRange DEF Target
<1>6. /\ \/ UNCHANGED <<g_states, targets>>
         \/ /\ g_states' = [g_states EXCEPT ![p] = entry]
            /\ targets' = targets \/ targets' = targets \cup {target}
      /\ next' = next + 1
      /\ UNCHANGED <<pc, size, g_total_bytes_freed_run, stepped, dirAge>>
  BY DEF AnalyzeDir
<1> HIDE DEF dir, p, bytes, growth, target
<1>7. entry \in PackageState /\ entry.last_cleanup = g_states[p].last_cleanup
  <2> DEFINE Scanned(time) ==
        [g_states[p] EXCEPT !.last_scan = time, !.last_size = bytes, !.growth = growth]
  <2>1. \A time \in Int : /\ Scanned(time) \in PackageState
                          /\ Scanned(time).last_cleanup = g_states[p].last_cleanup
    BY <1>2, <1>3, <1>4 DEF PackageState
  <2>2. entry = Scanned(0) /\ 0 \in Int
    OBVIOUS
  <2> HIDE DEF entry, Scanned
  <2>3. QED
    BY <2>1, <2>2, Zenon
<1> HIDE DEF entry
<1>8. /\ g_states' \in [Packages -> PackageState]
      /\ \A q \in Packages : g_states'[q].last_cleanup = g_states[q].last_cleanup
  BY <1>1, <1>6, <1>7 DEF CooldownInv, TypeOK
<1>9. TypeOK'
  BY <1>1, <1>5, <1>6, <1>8 DEF CooldownInv, TypeOK
<1>10. AgeInv'
  BY <1>6, <1>8, AnalyzerAssumption DEF CooldownInv, AgeInv
<1>11. QED
  BY <1>9, <1>10 DEF CooldownInv

\* Cleaning a target records its package's cleanup.
LEMMA CleanKeeps ==
  ASSUME CooldownInv, NEW target \in targets, CleanTarget(target)
  PROVE  CooldownInv'
<1> DEFINE d     == target.dir
           p     == Owner[d]
           entry == [g_states[p] EXCEPT !.last_cleanup = 0, !.last_size = 0]
<1>1. d \in Dirs /\ p \in Packages /\ g_states[p] \in PackageState
  BY AnalyzerAssumption DEF CooldownInv, TypeOK, Target
<1>2. /\ \E left \in 0..size[d] : /\ size' = [size EXCEPT ![d] = left]
                                 /\ g_total_bytes_freed_run' = Counted(size[d] - left)
      /\ g_states' = [g_states EXCEPT ![p] = entry]
      /\ dirAge' = [dirAge EXCEPT ![d] = 0]
      /\ targets' \subseteq targets /\ pc = "clean"
      /\ UNCHANGED <<pc, next, stepped>>
  BY DEF CleanTarget
<1> HIDE DEF d, p
<1>3. entry \in PackageState /\ entry.last_cleanup = 0
  <2>1. 0 \in Int /\ 0 \in Nat
    OBVIOUS
  <2>2. QED
    BY <1>1, <2>1, CleanedEntry, Zenon
<1> HIDE DEF entry
<1>4. TypeOK'
  <2>1. PICK left \in 0..size[d] : /\ size' = [size EXCEPT ![d] = left]
                                   /\ g_total_bytes_freed_run' = Counted(size[d] - left)
    BY <1>2
  <2>2. size[d] \in Absent..MaxSize /\ left \in Absent..MaxSize /\ size[d] - left \in Nat
    BY <1>1, AnalyzerAssumption DEF CooldownInv, TypeOK, Absent
  <2>3. g_total_bytes_freed_run' \in 0..(Quota + 1)
    BY <2>1, <2>2, CountedInRange DEF CooldownInv, TypeOK
  <2>4. size' \in [Dirs -> Absent..MaxSize]
    BY <2>1, <2>2 DEF CooldownInv, TypeOK
  <2>5. QED
    BY <1>1, <1>2, <1>3, <2>3, <2>4, AnalyzerAssumption DEF CooldownInv, TypeOK
<1>5. AgeInv'
  <2>1. \A q \in Packages : g_states'[q].last_cleanup = IF q = p THEN 0 ELSE g_states[q].last_cleanup
    BY <1>1, <1>2, <1>3 DEF CooldownInv, TypeOK
  <2>2. p = Owner[d]
    BY DEF p
  <2>3. \A x \in Dirs : dirAge'[x] = (IF x = d THEN 0 ELSE dirAge[x]) /\ dirAge[x] \in 0..Cooldown
    BY <1>1, <1>2 DEF CooldownInv, TypeOK
  <2>4. QED
    BY <1>2, <2>1, <2>2, <2>3, AnalyzerAssumption DEF CooldownInv, AgeInv
<1>6. QED
  BY <1>4, <1>5 DEF CooldownInv

\* Time moves every age, and the clock may be set back.
LEMMA TimeKeeps == ASSUME CooldownInv, Tick \/ ClockSetBack PROVE CooldownInv'
<1>1. CASE Tick
  <2>1. \A p \in Packages :
          /\ g_states'[p] \in PackageState
          /\ g_states'[p].last_cleanup = Older(g_states[p].last_cleanup)
          /\ g_states[p].last_cleanup \in Int
    <3> SUFFICES ASSUME NEW p \in Packages
                 PROVE  /\ g_states'[p] \in PackageState
                        /\ g_states'[p].last_cleanup = Older(g_states[p].last_cleanup)
                        /\ g_states[p].last_cleanup \in Int
      OBVIOUS
    <3>1. g_states[p] \in PackageState
      BY DEF CooldownInv, TypeOK
    <3>2. g_states'[p] = [g_states[p] EXCEPT !.last_scan = Older(@), !.last_cleanup = Older(@)]
      BY <1>1 DEF Tick, Shift
    <3>3. \A age \in Int : Older(age) \in Int
      BY AnalyzerAssumption DEF Older
    <3>4. QED
      BY <3>1, <3>2, <3>3 DEF PackageState
  <2>2. g_states' \in [Packages -> PackageState]
    BY <1>1, <2>1 DEF Tick, Shift
  <2>3. \A d \in Dirs : /\ dirAge[d] \in 0..Cooldown /\ dirAge'[d] \in 0..Cooldown
                        /\ dirAge'[d] = IF dirAge[d] < Cooldown THEN dirAge[d] + 1 ELSE Cooldown
    BY <1>1, AnalyzerAssumption DEF Tick, CooldownInv, TypeOK
  <2>4. TypeOK'
    BY <1>1, <2>2, <2>3 DEF Tick, CooldownInv, TypeOK
  <2>5. AgeInv'
    <3>1. CASE stepped
      BY <1>1, <3>1 DEF Tick, AgeInv
    <3>2. CASE ~stepped
      <4>1. \A p \in Packages : g_states'[p].last_cleanup >= 1 /\ g_states'[p].last_cleanup \in Int
        BY <2>1, <3>2, AnalyzerAssumption DEF Older, CooldownInv, AgeInv
      <4>2. \A d \in Dirs :
              dirAge'[d] >= Cooldown \/ g_states'[Owner[d]].last_cleanup <= dirAge'[d]
        <5> SUFFICES ASSUME NEW d \in Dirs, dirAge[d] < Cooldown
                     PROVE  g_states'[Owner[d]].last_cleanup <= dirAge'[d]
          BY <2>3, AnalyzerAssumption
        <5>1. Owner[d] \in Packages /\ dirAge'[d] = dirAge[d] + 1 /\ dirAge[d] \in Nat
          BY <2>3, AnalyzerAssumption
        <5>2. g_states[Owner[d]].last_cleanup <= dirAge[d]
          BY <3>2, <5>1, AnalyzerAssumption DEF CooldownInv, AgeInv
        <5>3. QED
          BY <2>1, <5>1, <5>2, AnalyzerAssumption DEF Older
      <4>3. QED
        BY <4>1, <4>2 DEF AgeInv
    <3>3. QED
      BY <3>1, <3>2
  <2>6. QED
    BY <2>4, <2>5 DEF CooldownInv
<1>2. CASE ClockSetBack
  <2> DEFINE Back(age) == IF age = EpochAge THEN age ELSE age - Setback
  <2>1. g_states' = [p \in Packages |->
          [g_states[p] EXCEPT !.last_scan = Back(@), !.last_cleanup = Back(@)]]
    BY <1>2 DEF ClockSetBack, Shift
  <2>2. \A age \in Int : Back(age) \in Int
    BY AnalyzerAssumption
  <2> HIDE DEF Back
  <2>3. g_states' \in [Packages -> PackageState]
    BY <2>1, <2>2 DEF CooldownInv, TypeOK, PackageState
  <2>4. QED
    BY <1>2, <2>3 DEF ClockSetBack, CooldownInv, TypeOK, AgeInv
<1>3. QED
  BY <1>1, <1>2

\* The rest of the loop, and the applications.
LEMMA RestKeeps ==
  ASSUME CooldownInv,
         \/ Scan \/ ScanAborted \/ NotScanned \/ Analyzed \/ Finished \/ AppWrites \/ AppRemoves
         \/ \E target \in targets : Vanished(target) \/ Aborted(target)
  PROVE  CooldownInv'
<1> USE AnalyzerAssumption DEF CooldownInv, TypeOK, AgeInv, Wait
<1>1. CASE Scan \/ ScanAborted \/ Finished
  BY <1>1 DEF Scan, ScanAborted, Finished, Sweep
<1>2. CASE NotScanned
  BY <1>2, CurrentDir DEF NotScanned
<1>3. CASE Analyzed
  BY <1>3 DEF Analyzed
<1>4. CASE AppWrites \/ AppRemoves
  <2>1. size' \in [Dirs -> Absent..MaxSize]
    <3>1. PICK d \in Dirs, bytes \in Absent..MaxSize : size' = [size EXCEPT ![d] = bytes]
      BY <1>4 DEF AppWrites, AppRemoves, Absent
    <3>2. QED
      BY <3>1
  <2>2. QED
    BY <1>4, <2>1 DEF AppWrites, AppRemoves
<1>5. CASE \E target \in targets : Vanished(target) \/ Aborted(target)
  <2>1. PICK target \in targets : Vanished(target) \/ Aborted(target)
    BY <1>5
  <2>2. CASE Vanished(target)
    BY <2>2 DEF Vanished
  <2>3. CASE Aborted(target)
    <3>1. PICK bytes \in 0..size[target.dir] :
            /\ size' = [size EXCEPT ![target.dir] = bytes]
            /\ \E counted \in 0..(size[target.dir] - bytes) :
                 g_total_bytes_freed_run' = Counted(counted)
      BY <2>3 DEF Aborted
    <3>2. size[target.dir] \in Absent..MaxSize
      BY DEF Target
    <3>3. size' \in [Dirs -> Absent..MaxSize]
      <4>1. bytes \in Absent..MaxSize
        BY <3>1, <3>2 DEF Absent
      <4>2. QED
        BY <3>1, <4>1
    <3>4. g_total_bytes_freed_run' \in 0..(Quota + 1)
      BY <3>1, <3>2, CountedInRange DEF Absent
    <3>5. QED
      BY <2>3, <3>3, <3>4 DEF Aborted
  <2>4. QED
    BY <2>1, <2>2, <2>3
<1>6. QED
  BY <1>1, <1>2, <1>3, <1>4, <1>5

\* CooldownInv is an invariant of the analyzer.
THEOREM CooldownInvariant == Spec => []CooldownInv
<1>1. CooldownInv /\ [Next]_vars => CooldownInv'
  <2> SUFFICES ASSUME CooldownInv, [Next]_vars PROVE CooldownInv'
    OBVIOUS
  <2>1. CASE UNCHANGED vars
    BY <2>1 DEF vars, CooldownInv, TypeOK, AgeInv
  <2>2. CASE Next
    BY <2>2, AnalyzeKeeps, CleanKeeps, TimeKeeps, RestKeeps DEF Next, Daemon, Clean
  <2>3. QED
    BY <2>1, <2>2
<1>2. QED
  BY InitCooldown, <1>1, PTL DEF Spec

\* The analyzer's variables keep their types: the rate stays within its field
\* and the priority between one and four.
THEOREM AnalyzerTypeCorrect == Spec => []TypeOK
  BY CooldownInvariant, PTL DEF CooldownInv

\* AnalyzeCaches makes a cleaned directory a target again only after the
\* cooldown, for a massive rate, or on a clock that was set back.
THEOREM CooldownIsKept == Spec => CooldownKept
<1> DEFINE Kept(target) ==
      \/ dirAge[target.dir] >= Cooldown
      \/ g_states[Owner[target.dir]].growth >= Massive
      \/ stepped
<1>1. CooldownInv /\ [Next]_vars => [\A target \in targets' \ targets : Kept(target)]_vars
  <2> SUFFICES ASSUME CooldownInv, Next, NEW target \in targets' \ targets
               PROVE  Kept(target)
    OBVIOUS
  <2>1. AnalyzeDir
    BY DEF Next, Daemon, Clean, Scan, ScanAborted, NotScanned, Analyzed, Finished, Wait,
         CleanTarget, Vanished, Aborted, Tick, ClockSetBack, AppWrites, AppRemoves
  <2>2. pc = "analyze" /\ target.dir = Order[next] /\ ~InCooldown(g_states[Owner[target.dir]])
    BY <2>1 DEF AnalyzeDir
  <2>3. target.dir \in Dirs /\ Owner[target.dir] \in Packages
    BY <2>1, <2>2, CurrentDir DEF AnalyzeDir, CooldownInv
  <2>4. /\ g_states[Owner[target.dir]].last_cleanup \in Int
        /\ g_states[Owner[target.dir]].growth \in Nat
        /\ dirAge[target.dir] \in Nat
    BY <2>3, AnalyzerAssumption DEF CooldownInv, TypeOK, PackageState
  <2>5. QED
    BY <2>2, <2>3, <2>4, AnalyzerAssumption DEF CooldownInv, AgeInv, InCooldown
<1>2. QED
  BY CooldownInvariant, <1>1, PTL DEF Spec, CooldownKept

-----------------------------------------------------------------------------
\* An entry that is young is so because a directory of its package was cleaned
\* that recently.
RecentInv ==
  stepped \/ \A p \in Packages :
    \/ g_states[p].last_cleanup >= Cooldown
    \/ \E d \in Dirs : Owner[d] = p /\ dirAge[d] <= g_states[p].last_cleanup

\* The analysis leaves the recorded cleanups alone.
LEMMA AnalyzeKeepsCleanups ==
  ASSUME CooldownInv, AnalyzeDir
  PROVE  /\ \A q \in Packages : g_states'[q].last_cleanup = g_states[q].last_cleanup
         /\ UNCHANGED <<stepped, dirAge>>
<1> DEFINE p == Owner[Order[next]]
           Entry(bytes, growth) ==
             [g_states[p] EXCEPT !.last_scan = 0, !.last_size = bytes, !.growth = growth]
<1>1. \/ UNCHANGED g_states
      \/ \E bytes, growth : g_states' = [g_states EXCEPT ![p] = Entry(bytes, growth)]
  BY DEF AnalyzeDir
<1>2. p \in Packages /\ g_states \in [Packages -> PackageState]
  BY CurrentDir DEF AnalyzeDir, CooldownInv, TypeOK
<1> HIDE DEF p
<1>3. \A bytes, growth : Entry(bytes, growth).last_cleanup = g_states[p].last_cleanup
  BY <1>2 DEF PackageState
<1> HIDE DEF Entry
<1>4. QED
  BY <1>1, <1>2, <1>3 DEF AnalyzeDir

\* Every step of the daemon and of time keeps an entry no younger than the
\* youngest directory of its package.
LEMMA RecentStep ==
  ASSUME CooldownInv, RecentInv, [Next]_vars
  PROVE  RecentInv'
<1>1. CASE AnalyzeDir
  BY <1>1, AnalyzeKeepsCleanups DEF RecentInv
<1>2. ASSUME NEW target \in targets, CleanTarget(target)
      PROVE  RecentInv'
  <2> DEFINE d == target.dir
             p == Owner[d]
             entry == [g_states[p] EXCEPT !.last_cleanup = 0, !.last_size = 0]
  <2>1. d \in Dirs /\ p \in Packages /\ g_states[p] \in PackageState
    BY AnalyzerAssumption DEF CooldownInv, TypeOK, Target
  <2>2. /\ g_states' = [g_states EXCEPT ![p] = entry]
        /\ dirAge' = [dirAge EXCEPT ![d] = 0] /\ stepped' = stepped
    BY <1>2 DEF CleanTarget
  <2>3. entry.last_cleanup = 0
    BY <2>1 DEF PackageState
  <2> HIDE DEF entry, d
  <2>4. \A q \in Packages : g_states'[q].last_cleanup = IF q = p THEN 0 ELSE g_states[q].last_cleanup
    BY <2>1, <2>2, <2>3 DEF CooldownInv, TypeOK
  <2>5. \A x \in Dirs : dirAge'[x] = (IF x = d THEN 0 ELSE dirAge[x]) /\ dirAge[x] \in Nat
    BY <2>1, <2>2, AnalyzerAssumption DEF CooldownInv, TypeOK
  <2>6. QED
    <3> SUFFICES ASSUME ~stepped, NEW q \in Packages,
                        ~(g_states'[q].last_cleanup >= Cooldown)
                 PROVE  \E x \in Dirs : Owner[x] = q /\ dirAge'[x] <= g_states'[q].last_cleanup
      BY <2>2 DEF RecentInv
    <3>1. CASE q = p
      BY <2>1, <2>4, <2>5, <3>1
    <3>2. CASE q # p
      <4>1. g_states'[q].last_cleanup = g_states[q].last_cleanup
        BY <2>4, <3>2
      <4>2. PICK x \in Dirs : Owner[x] = q /\ dirAge[x] <= g_states[q].last_cleanup
        BY <4>1 DEF RecentInv
      <4>3. x # d
        BY <3>2, <4>2
      <4>4. QED
        BY <2>5, <4>1, <4>2, <4>3
    <3>3. QED
      BY <3>1, <3>2
<1>3. CASE Tick
  <2> SUFFICES ASSUME ~stepped, NEW p \in Packages,
                      ~(g_states'[p].last_cleanup >= Cooldown)
               PROVE  \E d \in Dirs : Owner[d] = p /\ dirAge'[d] <= g_states'[p].last_cleanup
    BY <1>3 DEF Tick, RecentInv
  <2>1. g_states[p].last_cleanup \in Int
    BY DEF CooldownInv, TypeOK, PackageState
  <2>2. g_states'[p].last_cleanup = Older(g_states[p].last_cleanup)
    <3>1. g_states'[p] = [g_states[p] EXCEPT !.last_scan = Older(@), !.last_cleanup = Older(@)]
      BY <1>3 DEF Tick, Shift
    <3>2. QED
      BY <3>1 DEF CooldownInv, TypeOK, PackageState
  <2>3. /\ g_states[p].last_cleanup < Cooldown
        /\ g_states'[p].last_cleanup = g_states[p].last_cleanup + 1
    BY <2>1, <2>2, AnalyzerAssumption DEF Older
  <2>4. PICK d \in Dirs : Owner[d] = p /\ dirAge[d] <= g_states[p].last_cleanup
    BY <2>1, <2>3, AnalyzerAssumption DEF RecentInv
  <2>5. dirAge[d] \in Nat
    BY AnalyzerAssumption DEF CooldownInv, TypeOK
  <2>6. dirAge'[d] = dirAge[d] + 1
    BY <1>3, <2>1, <2>3, <2>4, <2>5, AnalyzerAssumption DEF Tick
  <2>7. QED
    BY <2>1, <2>3, <2>4, <2>5, <2>6
<1>4. CASE ClockSetBack
  BY <1>4 DEF ClockSetBack, RecentInv
<1>5. CASE UNCHANGED <<g_states, dirAge, stepped>>
  BY <1>5 DEF RecentInv
<1>6. QED
  BY <1>1, <1>2, <1>3, <1>4, <1>5
     DEF Next, Daemon, Clean, Scan, ScanAborted, NotScanned, Analyzed, Finished,
         Vanished, Aborted, AppWrites, AppRemoves, vars

\* AnalyzeCaches passes over a directory that is due only because a directory
\* of the same package was cleaned within the cooldown.
THEOREM OnlyRecentPassedOver == Spec => PassedOverOnlyIfRecent
<1> DEFINE Passed == AnalyzeDir /\ ~stepped /\ size[Order[next]] >= Threshold
           Excused == \/ \E target \in targets' : target.dir = Order[next]
                      \/ \E d \in Dirs : Owner[d] = Owner[Order[next]] /\ dirAge[d] < Cooldown
<1>1. Init => RecentInv
  <2> SUFFICES ASSUME Init, NEW p \in Packages PROVE g_states[p].last_cleanup >= Cooldown
    BY DEF RecentInv
  <2>1. g_states[p].last_cleanup = EpochAge
    BY DEF Init, Fresh
  <2>2. QED
    BY <2>1, AnalyzerAssumption
<1>2. CooldownInv /\ RecentInv /\ [Next]_vars => RecentInv'
  BY RecentStep
<1>3. CooldownInv /\ RecentInv /\ [Next]_vars => [Passed => Excused]_vars
  <2> SUFFICES ASSUME CooldownInv, RecentInv, Passed PROVE Excused
    OBVIOUS
  <2>1. Order[next] \in Dirs /\ Owner[Order[next]] \in Packages
    BY CurrentDir DEF AnalyzeDir, CooldownInv
  <2>2. g_states[Owner[Order[next]]].last_cleanup \in Int
    BY <2>1 DEF CooldownInv, TypeOK, PackageState
  <2>3. CASE InCooldown(g_states[Owner[Order[next]]])
    <3>1. PICK d \in Dirs : /\ Owner[d] = Owner[Order[next]]
                            /\ dirAge[d] <= g_states[Owner[Order[next]]].last_cleanup
      BY <2>1, <2>2, <2>3, AnalyzerAssumption DEF RecentInv, InCooldown
    <3>2. dirAge[d] \in Nat
      BY AnalyzerAssumption DEF CooldownInv, TypeOK
    <3>3. QED
      BY <2>2, <2>3, <3>1, <3>2, AnalyzerAssumption DEF InCooldown
  <2>4. CASE ~InCooldown(g_states[Owner[Order[next]]])
    <3>1. Measured(Order[next]) = size[Order[next]]
      BY <2>1, AnalyzerAssumption DEF Measured, Absent
    <3>2. ShouldCleanCache(Measured(Order[next]))
      BY <3>1 DEF ShouldCleanCache
    <3>3. \E priority : [dir |-> Order[next], priority |-> priority] \in targets'
      BY <2>4, <3>2 DEF AnalyzeDir
    <3>4. QED
      BY <3>3
  <2>5. QED
    BY <2>3, <2>4
<1>4. QED
  BY CooldownInvariant, <1>1, <1>2, <1>3, PTL DEF Spec, PassedOverOnlyIfRecent
=============================================================================
