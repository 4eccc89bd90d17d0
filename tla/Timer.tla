------------------------------- MODULE Timer -------------------------------
(***************************************************************************)
(* The timer that paces the loop of the controller (timer.hpp, built       *)
(* without ENABLE_RT_SCHEDULER): a periodic SIGALRM whose only effect is to *)
(* interrupt the nanosleep of wait().  Time is counted in units; between    *)
(* two waits the loop works, and do_idle may stop the timer and start it    *)
(* again.  A start and a stop are two system calls each, and time passes    *)
(* between them.                                                            *)
(***************************************************************************)
EXTENDS Integers

CONSTANTS
  Period,    \* _interval
  MaxWaits,  \* values of _max_wait a timer is constructed with
  MaxWork    \* bound of the time between two waits

ASSUME TimerAssumption ==
  /\ Period \in Nat \ {0}
  /\ MaxWaits \subseteq Nat \ {0}
  /\ MaxWork \in Nat

VARIABLES
  maxWait,   \* _max_wait
  pc,        \* where the thread is
  handler,   \* disposition of SIGALRM
  toAlarm,   \* time to the next SIGALRM, 0 when the interval timer is off
  since,     \* time since _last
  slept,     \* time in nanosleep
  woke,      \* what ended the nanosleep
  ret,       \* what the last wait() returned
  worked,    \* history: the part of since outside nanosleep
  shifted    \* history: since does not count from an alarm or a start

vars ==
  <<maxWait, pc, handler, toAlarm, since, slept, woke, ret, worked, shifted>>

PCs == {"stopped", "arming", "working", "asleep", "awake", "disarming",
        "killed"}

TypeOK ==
  /\ maxWait \in MaxWaits
  /\ pc \in PCs
  /\ handler \in {"ignore", "default"}
  /\ toAlarm \in 0 .. Period
  /\ since \in Nat
  /\ slept \in 0 .. maxWait
  /\ woke \in {"alarm", "timeout", "signal"}
  /\ ret \in {"ok", "late", "max_wait"}
  /\ worked \in Nat
  /\ shifted \in BOOLEAN

Init ==
  /\ maxWait \in MaxWaits
  /\ pc = "stopped"
  /\ handler = "default"
  /\ toAlarm = 0 /\ since = 0 /\ slept = 0 /\ worked = 0
  /\ woke = "alarm" /\ ret = "ok"
  /\ shifted = FALSE

-----------------------------------------------------------------------------
\* Mutant of StartArm: _last is the one of before the stop.
StartArmKeepsLast ==
  /\ pc = "stopped" /\ pc' = "arming"
  /\ toAlarm' = Period
  /\ worked' = 0 /\ shifted' = FALSE
  /\ UNCHANGED <<maxWait, handler, since, slept, woke, ret>>

\* start(): _last is now, the interval timer is armed.
StartArm ==
  /\ pc = "stopped" /\ pc' = "arming"
  /\ since' = 0
  /\ toAlarm' = Period
  /\ worked' = 0 /\ shifted' = FALSE
  /\ UNCHANGED <<maxWait, handler, slept, woke, ret>>

\* start(): then the handler, which does nothing, is installed.
StartHandle ==
  /\ pc = "arming" /\ pc' = "working"
  /\ handler' = "ignore"
  /\ UNCHANGED <<maxWait, toAlarm, since, slept, woke, ret, worked, shifted>>

\* Mutant of StopDisarm: the disposition is reset first.
StopDefaultFirst ==
  /\ pc = "working" /\ pc' = "disarming"
  /\ handler' = "default"
  /\ UNCHANGED <<maxWait, toAlarm, since, slept, woke, ret, worked, shifted>>

\* stop(): the interval timer is disarmed.
StopDisarm ==
  /\ pc = "working" /\ pc' = "disarming"
  /\ toAlarm' = 0
  /\ UNCHANGED <<maxWait, handler, since, slept, woke, ret, worked, shifted>>

\* stop(): then the disposition is reset.
StopHandle ==
  /\ pc = "disarming" /\ pc' = "stopped"
  /\ handler' = "default"
  /\ toAlarm' = 0
  /\ UNCHANGED <<maxWait, since, slept, woke, ret, worked, shifted>>

\* wait() up to nanosleep.
WaitBegin ==
  /\ pc = "working" /\ pc' = "asleep"
  /\ slept' = 0
  /\ UNCHANGED <<maxWait, handler, toAlarm, since, woke, ret, worked, shifted>>

\* What nanosleep and the comparison with _max_wait make wait() return.
Verdict ==
  CASE since > maxWait                       -> "max_wait"
    [] since <= maxWait /\ woke = "timeout"  -> "late"
    [] OTHER                                 -> "ok"

\* Mutant of WaitEnd: _last is not updated.
WaitEndKeepsLast ==
  /\ pc = "awake" /\ pc' = "working"
  /\ ret' = Verdict
  /\ worked' = 0 /\ shifted' = (woke # "alarm")
  /\ UNCHANGED <<maxWait, handler, toAlarm, since, slept, woke>>

\* wait() after nanosleep; wait_throw() throws for what is not "ok", and main
\* logs it.
WaitEnd ==
  /\ pc = "awake" /\ pc' = "working"
  /\ ret' = Verdict
  /\ since' = 0
  /\ worked' = 0 /\ shifted' = (woke # "alarm")
  /\ UNCHANGED <<maxWait, handler, toAlarm, slept, woke>>

-----------------------------------------------------------------------------
\* Time and signals.

\* One unit of time; the interval timer reloads itself.
Elapse ==
  /\ pc \in {"arming", "working", "asleep", "disarming"}
  /\ pc # "asleep" => worked < MaxWork
  /\ since' = since + 1
  /\ toAlarm' = CASE toAlarm = 0 -> 0
                  [] toAlarm = 1 -> Period
                  [] OTHER       -> toAlarm - 1
  /\ IF pc = "asleep"
     THEN slept' = slept + 1 /\ UNCHANGED worked
     ELSE worked' = worked + 1 /\ UNCHANGED slept
  /\ UNCHANGED <<maxWait, handler, ret, shifted>>

Pass ==
  /\ Elapse
  /\ toAlarm # 1
  /\ pc = "asleep" => slept' < maxWait
  /\ UNCHANGED <<pc, woke>>

\* SIGALRM while the thread works: nothing remembers it.
AlarmLost ==
  /\ Elapse
  /\ toAlarm = 1 /\ handler = "ignore"
  /\ pc # "asleep"
  /\ UNCHANGED <<pc, woke>>

AlarmWakes ==
  /\ Elapse
  /\ toAlarm = 1 /\ handler = "ignore"
  /\ pc = "asleep" /\ pc' = "awake"
  /\ woke' = "alarm"

\* The default action of SIGALRM.
AlarmKills ==
  /\ Elapse
  /\ toAlarm = 1 /\ handler = "default"
  /\ pc' = "killed"
  /\ UNCHANGED woke

\* nanosleep is given the maximum wait.
SleepEnds ==
  /\ Elapse
  /\ pc = "asleep" /\ pc' = "awake"
  /\ slept' = maxWait
  /\ woke' = "timeout"

\* SIGINT, whose handler only sets a flag, interrupts nanosleep too.
SigInt ==
  /\ pc = "asleep" /\ pc' = "awake"
  /\ woke' = "signal"
  /\ UNCHANGED <<maxWait, handler, toAlarm, since, slept, ret, worked, shifted>>

Killed == pc = "killed" /\ UNCHANGED vars

Next ==
  \/ StartArm \/ StartHandle \/ StopDisarm \/ StopHandle \/ WaitBegin \/ WaitEnd
  \/ Pass \/ AlarmLost \/ AlarmWakes \/ AlarmKills \/ SleepEnds \/ SigInt
  \/ Killed

Spec == Init /\ [][Next]_vars

-----------------------------------------------------------------------------
\* k alarms came while the thread worked.
Lost(k) == k * Period <= worked /\ worked < (k + 1) * Period

\* The loop is paced without drift: a cycle that began at an alarm (or with the
\* timer) and is ended by one lasts the least whole number of periods above the
\* time it worked, however many alarms were lost in it.
LeastWholePeriods ==
  pc = "awake" /\ woke = "alarm" /\ ~shifted =>
    \E k \in 0 .. worked : Lost(k) /\ since = (k + 1) * Period

\* A cycle reported as too long worked for longer than the tolerance less one
\* period: neither the time a user takes at the prompt, with the timer stopped,
\* nor a lost alarm by itself is reported.
ReportedCyclesWorked ==
  [][ret' = "max_wait" /\ pc = "awake" => worked + Period > maxWait]_vars

\* With a maximum wait above the period, as the machine's defaults and mads.ini
\* have it, wait() never sleeps through: it reports no late signal, and an alarm
\* or SIGINT ended it.
NeverLate == Period < maxWait => ret # "late"

\* SIGALRM can kill the process in the middle of start() only.
KilledInStartOnly == [][pc' = "killed" /\ pc # "killed" => pc = "arming"]_vars

\* The inductive invariant: while the interval timer runs, when the next alarm
\* comes is known from what the thread did since the last one.
Disarmed == pc \in {"stopped", "disarming"}

InPhase ==
  \E k \in 0 .. worked : Lost(k) /\ since + toAlarm = (k + 1) * Period

AlarmPhase ==
  /\ Disarmed <=> toAlarm = 0
  /\ handler = "default" => pc \in {"stopped", "arming", "killed"}
  /\ pc \in {"arming", "working"} => since = worked
  /\ pc = "asleep" => /\ since = worked + slept /\ slept + toAlarm <= Period
                      /\ slept < maxWait
  /\ pc = "awake" => since <= worked + Period
  /\ pc \in {"arming", "working", "asleep"} /\ ~shifted => InPhase
  /\ pc = "awake" /\ woke = "timeout" => maxWait <= Period
  /\ pc = "awake" /\ woke = "alarm" => toAlarm = Period

TimerInv == TypeOK /\ AlarmPhase /\ LeastWholePeriods /\ NeverLate
=============================================================================
