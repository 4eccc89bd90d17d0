----------------------------- MODULE TimerProofs ---------------------------
(* Proofs about Timer, for every period, maximum wait and bound.           *)
EXTENDS Timer, TLAPS

\* The thread begins with the timer off.
LEMMA TimerInit == Init => TimerInv
<1> SUFFICES ASSUME Init PROVE TimerInv
  OBVIOUS
<1>1. TypeOK
  <2>1. shifted \in BOOLEAN /\ pc \in PCs
    BY DEF Init, PCs
  <2> QED
    BY <2>1, TimerAssumption DEF Init, TypeOK
<1>2. AlarmPhase
  BY DEF Init, AlarmPhase, Disarmed
<1>3. LeastWholePeriods /\ NeverLate
  BY DEF Init, LeastWholePeriods, NeverLate
<1> QED
  BY <1>1, <1>2, <1>3 DEF TimerInv

\* A cycle that begins with the next alarm one period away.
LEMMA FirstPeriod ==
  ASSUME worked' = 0, since' = 0, toAlarm' = Period
  PROVE  InPhase'
<1>1. 0 * Period <= 0 /\ 0 < (0 + 1) * Period /\ 0 + Period = (0 + 1) * Period
  BY TimerAssumption
<1>2. Lost(0)'
  BY <1>1 DEF Lost
<1> QED
  BY <1>1, <1>2 DEF InPhase

\* A unit of time keeps the types.
LEMMA ElapseType ==
  ASSUME TypeOK, Elapse, pc' \in PCs, woke' \in {"alarm", "timeout", "signal"},
         slept' <= maxWait
  PROVE  TypeOK'
<1>1. shifted' \in BOOLEAN /\ ret' \in {"ok", "late", "max_wait"}
      /\ handler' \in {"ignore", "default"}
      /\ maxWait' = maxWait /\ maxWait \in MaxWaits
  BY DEF TypeOK, Elapse
<1>2. toAlarm' \in 0 .. Period
  BY TimerAssumption DEF TypeOK, Elapse
<1>3. since' \in Nat /\ worked' \in Nat /\ slept' \in 0 .. maxWait
  BY TimerAssumption DEF TypeOK, Elapse
<1> QED
  BY <1>1, <1>2, <1>3 DEF TypeOK

\* While the thread works, an alarm that comes is one more that is lost.
LEMMA WorkKeepsPhase ==
  ASSUME TypeOK, InPhase, Elapse, since = worked, toAlarm # 0, pc # "asleep"
  PROVE  InPhase'
<1>1. PICK k \in 0 .. worked : Lost(k) /\ since + toAlarm = (k + 1) * Period
  BY DEF InPhase
<1>2. worked' = worked + 1 /\ since' = since + 1
      /\ worked \in Nat /\ toAlarm \in 1 .. Period
  BY DEF TypeOK, Elapse
<1> DEFINE p == k * Period
<1>3. p \in Int /\ Period \in Nat \ {0}
  BY TimerAssumption
<1>4. /\ (k + 1) * Period = p + Period
      /\ (k + 1 + 1) * Period = p + Period + Period
  BY <1>3
<1>5. p <= worked /\ worked < p + Period /\ since + toAlarm = p + Period
  BY <1>1, <1>4 DEF Lost
<1> HIDE DEF p
<1>6. CASE toAlarm = 1
  <2>1. toAlarm' = Period
    BY <1>6 DEF Elapse
  <2>2. p + Period <= worked' /\ worked' < p + Period + Period
        /\ since' + toAlarm' = p + Period + Period
    BY <1>2, <1>3, <1>5, <1>6, <2>1
  <2>3. Lost(k + 1)' /\ since' + toAlarm' = (k + 1 + 1) * Period
    BY <2>2, <1>4 DEF Lost
  <2>4. k + 1 \in 0 .. worked'
    BY <1>2
  <2> QED
    BY <2>3, <2>4 DEF InPhase
<1>7. CASE toAlarm # 1
  <2>1. toAlarm' = toAlarm - 1
    BY <1>2, <1>7 DEF Elapse
  <2>2. p <= worked' /\ worked' < p + Period /\ since' + toAlarm' = p + Period
    BY <1>2, <1>3, <1>5, <1>7, <2>1
  <2>3. Lost(k)' /\ since' + toAlarm' = (k + 1) * Period
    BY <2>2, <1>4 DEF Lost, p
  <2>4. k \in 0 .. worked'
    BY <1>2
  <2> QED
    BY <2>3, <2>4 DEF InPhase
<1> QED
  BY <1>6, <1>7

\* Asleep, the next alarm comes nearer as the time since the last one grows.
LEMMA SleepKeepsPhase ==
  ASSUME TypeOK, InPhase, Elapse, toAlarm \notin {0, 1}, pc = "asleep"
  PROVE  InPhase'
<1>1. PICK k \in 0 .. worked : Lost(k) /\ since + toAlarm = (k + 1) * Period
  BY DEF InPhase
<1>2. worked' = worked
  BY DEF Elapse
<1>3. since' + toAlarm' = since + toAlarm
  BY DEF Elapse, TypeOK
<1>4. Lost(k)' /\ since' + toAlarm' = (k + 1) * Period /\ k \in 0 .. worked'
  BY <1>1, <1>2, <1>3 DEF Lost
<1> QED
  BY <1>4 DEF InPhase

\* The steps that start and stop the timer.
LEMMA SwitchStep ==
  ASSUME TimerInv, StartArm \/ StartHandle \/ StopDisarm \/ StopHandle
  PROVE  TimerInv'
<1> USE DEF TimerInv
<1>1. CASE StartArm
  <2>1. TypeOK'
    <3>1. shifted' \in BOOLEAN /\ pc' \in PCs /\ handler' \in {"ignore", "default"}
      BY <1>1 DEF StartArm, TypeOK, PCs
    <3> QED
      BY <1>1, <3>1, TimerAssumption DEF StartArm, TypeOK
  <2>2. InPhase'
    BY <1>1, FirstPeriod DEF StartArm
  <2>3. AlarmPhase'
    BY <1>1, <2>2, TimerAssumption DEF StartArm, AlarmPhase, Disarmed, TypeOK
  <2> QED
    BY <1>1, <2>1, <2>3 DEF StartArm, LeastWholePeriods, NeverLate
<1>2. CASE StartHandle
  <2>1. TypeOK'
    BY <1>2 DEF StartHandle, TypeOK, PCs
  <2>2. InPhase' <=> InPhase
    BY <1>2 DEF StartHandle, InPhase, Lost
  <2>3. AlarmPhase'
    BY <1>2, <2>2 DEF StartHandle, AlarmPhase, Disarmed
  <2> QED
    BY <1>2, <2>1, <2>3 DEF StartHandle, LeastWholePeriods, NeverLate
<1>3. CASE StopDisarm
  <2>1. TypeOK'
    BY <1>3, TimerAssumption DEF StopDisarm, TypeOK, PCs
  <2>2. AlarmPhase'
    BY <1>3 DEF StopDisarm, AlarmPhase, Disarmed
  <2> QED
    BY <1>3, <2>1, <2>2 DEF StopDisarm, LeastWholePeriods, NeverLate
<1>4. CASE StopHandle
  <2>1. TypeOK'
    BY <1>4, TimerAssumption DEF StopHandle, TypeOK, PCs
  <2>2. AlarmPhase'
    BY <1>4 DEF StopHandle, AlarmPhase, Disarmed
  <2> QED
    BY <1>4, <2>1, <2>2 DEF StopHandle, LeastWholePeriods, NeverLate
<1> QED
  BY <1>1, <1>2, <1>3, <1>4

\* The steps of wait() before and after nanosleep, and SIGINT in it.
LEMMA WaitStep ==
  ASSUME TimerInv, WaitBegin \/ WaitEnd \/ SigInt
  PROVE  TimerInv'
<1> USE DEF TimerInv
<1>1. CASE WaitBegin
  <2>1. TypeOK'
    BY <1>1, TimerAssumption DEF WaitBegin, TypeOK, PCs
  <2>2. InPhase' <=> InPhase
    BY <1>1 DEF WaitBegin, InPhase, Lost
  <2>3. AlarmPhase'
    BY <1>1, <2>2, TimerAssumption DEF WaitBegin, AlarmPhase, Disarmed, TypeOK
  <2> QED
    BY <1>1, <2>1, <2>3 DEF WaitBegin, LeastWholePeriods, NeverLate
<1>2. CASE WaitEnd
  <2>1. TypeOK'
    <3>1. shifted' \in BOOLEAN /\ pc' \in PCs /\ handler' \in {"ignore", "default"}
          /\ ret' \in {"ok", "late", "max_wait"}
      BY <1>2 DEF WaitEnd, Verdict, TypeOK, PCs
    <3> QED
      BY <1>2, <3>1 DEF WaitEnd, TypeOK
  <2>2. ~shifted' => InPhase'
    <3>1. ~shifted' => toAlarm' = Period
      BY <1>2 DEF WaitEnd, AlarmPhase
    <3> QED
      BY <1>2, <3>1, FirstPeriod DEF WaitEnd
  <2>3. AlarmPhase'
    <3>1. toAlarm' # 0 /\ since' = worked'
      BY <1>2 DEF WaitEnd, AlarmPhase, Disarmed
    <3>2. handler' # "default"
      BY <1>2 DEF WaitEnd, AlarmPhase, TypeOK
    <3> QED
      BY <1>2, <2>2, <3>1, <3>2 DEF WaitEnd, AlarmPhase, Disarmed
  <2>4. NeverLate'
    <3>1. woke = "timeout" => maxWait <= Period
      BY <1>2 DEF WaitEnd, AlarmPhase
    <3>2. ret' = "late" => woke = "timeout"
      BY <1>2 DEF WaitEnd, Verdict
    <3>3. maxWait' = maxWait /\ maxWait \in Nat
      BY <1>2, TimerAssumption DEF WaitEnd, TypeOK
    <3> QED
      BY <3>1, <3>2, <3>3, TimerAssumption DEF NeverLate
  <2> QED
    BY <1>2, <2>1, <2>3, <2>4 DEF WaitEnd, LeastWholePeriods
<1>3. CASE SigInt
  <2>1. TypeOK'
    BY <1>3 DEF SigInt, TypeOK, PCs
  <2>2. AlarmPhase'
    BY <1>3, TimerAssumption DEF SigInt, AlarmPhase, Disarmed, TypeOK
  <2> QED
    BY <1>3, <2>1, <2>2 DEF SigInt, LeastWholePeriods, NeverLate
<1> QED
  BY <1>1, <1>2, <1>3

\* The steps in which time passes and nanosleep goes on, if it has begun.
LEMMA WorkStep ==
  ASSUME TimerInv, Pass \/ AlarmLost
  PROVE  TimerInv'
<1> USE DEF TimerInv
<1>1. Elapse /\ pc' = pc /\ woke' = woke
  BY DEF Pass, AlarmLost
<1>2. TypeOK'
  <2>1. slept' <= maxWait
    BY TimerAssumption DEF Pass, AlarmLost, Elapse, TypeOK
  <2> QED
    BY <1>1, <2>1, ElapseType DEF TypeOK
<1>3. pc \in {"arming", "working", "asleep"} /\ ~shifted => InPhase'
  <2>1. CASE pc \in {"arming", "working"} /\ ~shifted
    BY <1>1, <2>1, WorkKeepsPhase DEF AlarmPhase, Disarmed
  <2>2. CASE pc = "asleep" /\ ~shifted
    <3>1. toAlarm \notin {0, 1}
      BY <2>2 DEF Pass, AlarmLost, AlarmPhase, Disarmed
    <3> QED
      BY <1>1, <2>2, <3>1, SleepKeepsPhase DEF AlarmPhase
  <2> QED
    BY <2>1, <2>2
<1>4. pc = "asleep" => toAlarm # 1
  BY DEF Pass, AlarmLost
<1>7. pc = "asleep" => slept' < maxWait
  BY DEF Pass, AlarmLost
<1>5. AlarmPhase'
  <2>1. (Disarmed <=> toAlarm = 0)'
    BY <1>1, TimerAssumption DEF AlarmPhase, Disarmed, Elapse, TypeOK
  <2>2. pc' \in {"arming", "working"} => since' = worked'
    BY <1>1 DEF AlarmPhase, Elapse
  <2>3. pc' = "asleep" => /\ since' = worked' + slept' /\ slept' + toAlarm' <= Period
                          /\ slept' < maxWait
    BY <1>1, <1>7, <1>4, TimerAssumption DEF AlarmPhase, Disarmed, Elapse, TypeOK
  <2>4. /\ pc # "awake" /\ shifted' = shifted /\ handler' = handler
        /\ maxWait' = maxWait
    BY <1>1 DEF Elapse
  <2> QED
    BY <1>1, <1>3, <2>1, <2>2, <2>3, <2>4 DEF AlarmPhase
<1>6. LeastWholePeriods' /\ NeverLate'
  BY <1>1 DEF Elapse, LeastWholePeriods, NeverLate
<1> QED
  BY <1>2, <1>5, <1>6

\* The steps that end nanosleep.
LEMMA WakeStep ==
  ASSUME TimerInv, AlarmWakes \/ SleepEnds
  PROVE  TimerInv'
<1> USE DEF TimerInv
<1>1. Elapse /\ pc = "asleep" /\ pc' = "awake"
  BY DEF AlarmWakes, SleepEnds
<1>2. toAlarm \in 1 .. Period /\ slept + toAlarm <= Period
      /\ since = worked + slept /\ worked' = worked /\ since' = since + 1
      /\ slept' = slept + 1 /\ worked \in Nat /\ slept \in 0 .. maxWait
      /\ ret' = ret /\ handler' = handler /\ shifted' = shifted
      /\ maxWait' = maxWait /\ maxWait \in Nat
  BY <1>1, TimerAssumption DEF AlarmPhase, Disarmed, TypeOK, Elapse
<1>3. toAlarm' # 0
  BY <1>1, <1>2, TimerAssumption DEF Elapse
<1>4. CASE AlarmWakes
  <2>1. toAlarm = 1 /\ toAlarm' = Period /\ woke' = "alarm"
    BY <1>4, <1>2 DEF AlarmWakes, Elapse
  <2>2. slept' <= Period /\ since' <= worked' + Period
    BY <1>2, <2>1, TimerAssumption
  <2>3. AlarmPhase'
    BY <1>1, <1>2, <1>3, <2>1, <2>2 DEF AlarmPhase, Disarmed
  <2>4. LeastWholePeriods'
    <3>1. SUFFICES ASSUME ~shifted
                   PROVE  \E k \in 0 .. worked' : Lost(k)' /\ since' = (k + 1) * Period
      BY <1>2 DEF LeastWholePeriods
    <3>2. PICK k \in 0 .. worked : Lost(k) /\ since + toAlarm = (k + 1) * Period
      BY <3>1, <1>1 DEF AlarmPhase, InPhase
    <3>3. Lost(k)' /\ since' = (k + 1) * Period
      BY <3>2, <1>2, <2>1 DEF Lost
    <3> QED
      BY <3>3, <1>2
  <2>5. slept' <= maxWait
    BY <1>1, <1>2, TimerAssumption DEF AlarmPhase
  <2>6. TypeOK'
    BY <1>1, <2>1, <2>5, ElapseType DEF PCs
  <2> QED
    BY <1>2, <2>3, <2>4, <2>6 DEF NeverLate
<1>5. CASE SleepEnds
  <2>1. slept' = maxWait /\ woke' = "timeout"
    BY <1>5 DEF SleepEnds
  <2>2. maxWait <= Period /\ since' <= worked' + Period
    BY <1>2, <2>1, TimerAssumption
  <2>3. AlarmPhase'
    BY <1>1, <1>2, <1>3, <2>1, <2>2 DEF AlarmPhase, Disarmed
  <2>4. TypeOK'
    <3>1. slept' <= maxWait
      BY <1>2, <2>1
    <3> QED
      BY <1>1, <2>1, <3>1, ElapseType DEF PCs
  <2> QED
    BY <1>2, <2>1, <2>3, <2>4 DEF LeastWholePeriods, NeverLate
<1> QED
  BY <1>4, <1>5

\* A step that changes nothing.
LEMMA StutterStep ==
  ASSUME TimerInv, UNCHANGED vars
  PROVE  TimerInv'
<1>1. InPhase' <=> InPhase
  BY DEF vars, InPhase, Lost
<1>2. LeastWholePeriods' <=> LeastWholePeriods
  BY DEF vars, LeastWholePeriods, Lost
<1> QED
  BY <1>1, <1>2 DEF vars, TimerInv, TypeOK, AlarmPhase, Disarmed, NeverLate

\* The timer keeps the phase of its alarms, for every period and maximum wait:
\* cycles last whole periods, and wait() does not sleep through an alarm.
THEOREM TimerInvariance == Spec => []TimerInv
<1>1. TimerInv /\ [Next]_vars => TimerInv'
  <2> SUFFICES ASSUME TimerInv, [Next]_vars PROVE TimerInv'
    OBVIOUS
  <2>1. CASE StartArm \/ StartHandle \/ StopDisarm \/ StopHandle
    BY <2>1, SwitchStep
  <2>2. CASE WaitBegin \/ WaitEnd \/ SigInt
    BY <2>2, WaitStep
  <2>3. CASE Pass \/ AlarmLost
    BY <2>3, WorkStep
  <2>4. CASE AlarmWakes \/ SleepEnds
    BY <2>4, WakeStep
  <2>5. CASE AlarmKills
    <3>1. TypeOK'
      <4>1. slept' <= maxWait
        BY <2>5, TimerAssumption
           DEF AlarmKills, Elapse, TimerInv, TypeOK, AlarmPhase
      <4> QED
        BY <2>5, <4>1, ElapseType DEF AlarmKills, TimerInv, TypeOK, PCs
    <3>2. AlarmPhase'
      BY <2>5, TimerAssumption DEF AlarmKills, Elapse, AlarmPhase, Disarmed
    <3> QED
      BY <2>5, <3>1, <3>2
      DEF AlarmKills, Elapse, TimerInv, LeastWholePeriods, NeverLate
  <2>6. CASE Killed \/ UNCHANGED vars
    BY <2>6, StutterStep DEF Killed
  <2> QED
    BY <2>1, <2>2, <2>3, <2>4, <2>5, <2>6 DEF Next
<1> QED
  BY <1>1, TimerInit, PTL DEF Spec

\* The cycles that end at an alarm last the least whole number of periods.
THEOREM Paced == Spec => []LeastWholePeriods
<1>1. TimerInv => LeastWholePeriods
  BY DEF TimerInv
<1> QED
  BY <1>1, TimerInvariance, PTL

\* No late signal is reported when the maximum wait is above the period.
THEOREM SignalNeverLate == Spec => []NeverLate
<1>1. TimerInv => NeverLate
  BY DEF TimerInv
<1> QED
  BY <1>1, TimerInvariance, PTL

\* A cycle reported as too long did work for that long.
THEOREM ReportsAreOfWork == Spec => ReportedCyclesWorked
<1>1. TimerInv /\ [Next]_vars =>
        [ret' = "max_wait" /\ pc = "awake" => worked + Period > maxWait]_vars
  <2> SUFFICES ASSUME TimerInv, Next, ret' = "max_wait", pc = "awake"
               PROVE  worked + Period > maxWait \/ UNCHANGED vars
    OBVIOUS
  <2>1. CASE WaitEnd
    <3>1. since > maxWait
      BY <2>1 DEF WaitEnd, Verdict
    <3>2. since <= worked + Period
      BY DEF TimerInv, AlarmPhase
    <3> QED
      BY <3>1, <3>2, TimerAssumption DEF TimerInv, TypeOK
  <2>2. CASE ~WaitEnd
    BY <2>2 DEF Next, StartArm, StartHandle, StopDisarm, StopHandle, WaitBegin,
                Pass, AlarmLost, AlarmWakes, AlarmKills, SleepEnds, SigInt,
                Killed, Elapse
  <2> QED
    BY <2>1, <2>2
<1> QED
  BY <1>1, TimerInvariance, PTL DEF Spec, ReportedCyclesWorked

\* SIGALRM kills the process inside start() or not at all.
THEOREM KilledStarting == Spec => KilledInStartOnly
<1>1. TimerInv /\ [Next]_vars =>
        [pc' = "killed" /\ pc # "killed" => pc = "arming"]_vars
  <2> SUFFICES ASSUME TimerInv, Next, pc' = "killed", pc # "killed"
               PROVE  pc = "arming"
    OBVIOUS
  <2>1. AlarmKills
    BY DEF Next, StartArm, StartHandle, StopDisarm, StopHandle, WaitBegin,
           WaitEnd, Pass, AlarmLost, AlarmWakes, SleepEnds, SigInt, Killed
  <2>2. handler = "default" /\ toAlarm = 1 /\ pc # "stopped"
    BY <2>1 DEF AlarmKills, Elapse
  <2> QED
    BY <2>2 DEF TimerInv, AlarmPhase
<1> QED
  BY <1>1, TimerInvariance, PTL DEF Spec, KilledInStartOnly
=============================================================================
