--------------------------- MODULE MotionProfile ---------------------------
(***************************************************************************)
(* The motion profile of a LINE or an arc (Block::compute, Machine::       *)
(* quantize, Profile::lambda) and the two loops that sample it: the        *)
(* controller's (do_interp_motion) and Block::walk.  Arithmetic is exact:  *)
(* the units are those in which the acceleration _acc is 1, the times of a *)
(* block are integers in units of 1/scale, and distances and speeds        *)
(* integers over a denominator of the profile.  Rounding is kept where it  *)
(* decides: at a multiple of tq, and at the end of walk.  BlockPath puts   *)
(* these steps together.                                                   *)
(***************************************************************************)
EXTENDS Integers

CONSTANTS
  Motions,   \* lengths, F words per second, and radii, 0 of a line: [l, word, r]
  Tq         \* machine.tq()

\* The F word, or where an arc would take more than the acceleration at it, the
\* speed at which it takes just that.
ArcFeed(word, r) ==
  IF r = 0 \/ word * word <= r THEN word ELSE CHOOSE w \in 1 .. word : w * w = r

Feed(m) == ArcFeed(m.word, m.r)

\* The roots of an arc's radius and of a short block's length are exact.
ASSUME ProfileAssumption ==
  /\ Tq \in Nat \ {0}
  /\ Motions \subseteq [l : Nat \ {0}, word : Nat \ {0}, r : Nat]
  /\ \A m \in Motions :
       /\ m.word * m.word > m.r => \E w \in 0 .. m.word : w * w = m.r
       /\ m.l <= Feed(m) * Feed(m) => \E w \in 1 .. Feed(m) : w * w = m.l

VARIABLES
  pc,        \* where the block's client is
  profile,   \* _profile
  time,      \* t_blk of the controller or t of walk, in 1/scale
  walked,    \* r of the last sample, in 1/Grain
  speed      \* s of the last sample, in 1/SpeedGrain

vars == <<pc, profile, time, walked, speed>>

-----------------------------------------------------------------------------
\* Mutant of Quantized: the integer part without the tick more.
QuantizedDown(t, tick) == {(t \div tick) * tick}

\* quantize(t): the multiple of the tick that follows t.  Where t is a multiple
\* itself the quotient is rounded to either side, and t itself may be returned.
Quantized(t, tick) ==
  {q \in {(t \div tick) * tick, (t \div tick + 1) * tick} : q >= t}

\* dt_m > 0.
Long(m) == m.l > Feed(m) * Feed(m)

\* Mutant of Trapezoid: the feedrate stays nominal.
TrapezoidNominal(m, dt) ==
  LET dt1 == Feed(m) * Feed(m)
      dtm == dt - 2 * dt1
  IN  [motion |-> m, scale |-> Feed(m), dt1 |-> dt1, dtm |-> dtm, dt2 |-> dt1,
       dt |-> dt, f |-> Feed(m), over |-> 1]

\* Long block: dt_m grows by dq, and the feedrate f/over is that of the area.
Trapezoid(m, dt) ==
  LET dt1 == Feed(m) * Feed(m)
      dq  == dt - (dt1 + m.l)
      dtm == m.l - dt1 + dq
  IN  [motion |-> m, scale |-> Feed(m), dt1 |-> dt1, dtm |-> dtm, dt2 |-> dt1,
       dt |-> dt, f |-> 2 * m.l * Feed(m), over |-> 2 * dt1 + 2 * dtm]

Root(m) == CHOOSE w \in 1 .. Feed(m) : w * w = m.l

\* Short block: dt_2 grows by dq.
Triangle(m, dt) ==
  LET dt1 == Root(m)
      dq  == dt - 2 * dt1
      dt2 == dt1 + dq
  IN  [motion |-> m, scale |-> 1, dt1 |-> dt1, dtm |-> 0, dt2 |-> dt2,
       dt |-> dt, f |-> 2 * m.l, over |-> dt1 + dt2]

\* The profiles compute() may leave.
Profiles(m) ==
  IF Long(m)
  THEN {Trapezoid(m, q) : q \in Quantized(Feed(m) * Feed(m) + m.l, Feed(m) * Tq)}
  ELSE {Triangle(m, q) : q \in Quantized(2 * Root(m), Tq)}

SpeedGrain(p) == p.over * p.dt1 * p.dt2
Grain(p)      == 2 * p.scale * SpeedGrain(p)
Full(p)       == p.motion.l * Grain(p)

\* Mutant of Walked: the deceleration is timed from the end of the first phase.
WalkedFromRampUp(p, t) ==
  LET left == t - p.dt1
  IN  CASE t < p.dt1 -> p.f * t * t * p.dt2
        [] p.dt1 <= t /\ t < p.dt1 + p.dtm -> p.f * (2 * t - p.dt1) * p.dt1 * p.dt2
        [] p.dt1 + p.dtm <= t /\ t < p.dt1 + p.dtm + p.dt2 ->
             p.f * ((p.dt1 + 2 * p.dtm + 2 * left) * p.dt2 - left * left) * p.dt1
        [] OTHER -> Full(p)

\* r of lambda(t): acceleration, cruise, deceleration, end.
Walked(p, t) ==
  LET left == t - (p.dt1 + p.dtm)
  IN  CASE t < p.dt1 -> p.f * t * t * p.dt2
        [] p.dt1 <= t /\ t < p.dt1 + p.dtm -> p.f * (2 * t - p.dt1) * p.dt1 * p.dt2
        [] p.dt1 + p.dtm <= t /\ t < p.dt1 + p.dtm + p.dt2 ->
             p.f * ((p.dt1 + 2 * p.dtm + 2 * left) * p.dt2 - left * left) * p.dt1
        [] OTHER -> Full(p)

\* s of lambda(t).
Speed(p, t) ==
  LET left == t - (p.dt1 + p.dtm)
  IN  CASE t < p.dt1 -> p.f * t * p.dt2
        [] p.dt1 <= t /\ t < p.dt1 + p.dtm -> p.f * p.dt1 * p.dt2
        [] p.dt1 + p.dtm <= t /\ t < p.dt1 + p.dtm + p.dt2 ->
             p.f * (p.dt2 - left) * p.dt1
        [] OTHER -> 0

-----------------------------------------------------------------------------
Init ==
  /\ \E m \in Motions : profile \in Profiles(m)
  /\ pc \in {"run", "walk"}
  /\ time = 0 /\ walked = 0 /\ speed = 0

Tick == profile.scale * Tq

Sample ==
  /\ walked' = Walked(profile, time)
  /\ speed' = Speed(profile, time)
  /\ time' = time + Tick
  /\ UNCHANGED profile

\* Mutant of BlockOver: the controller looks one tick ahead.
BlockOverEarly == 10 * (time + 2 * Tick) > 10 * profile.dt + Tick

\* The controller's test: the end and a tenth of a tick have passed.
BlockOver == 10 * time > 10 * profile.dt + Tick

\* One call of do_interp_motion.
InterpTick ==
  /\ pc = "run"
  /\ Sample
  /\ pc' = IF BlockOver THEN "done" ELSE "run"

\* One turn of walk.  At the end of the block the sum of the ticks is rounded to
\* either side of dt, so that the test may fail.
WalkTick ==
  /\ pc = "walk"
  /\ time <= profile.dt
  /\ Sample
  /\ UNCHANGED pc

WalkReturns ==
  /\ pc = "walk" /\ pc' = "walked"
  /\ time >= profile.dt
  /\ UNCHANGED <<profile, time, walked, speed>>

-----------------------------------------------------------------------------
\* A sample with one before it.
SampleAfter == time > 0 /\ time' > time

\* lambda grows from each sample of a block to the next, never above 1, and is
\* constant only once it is 1: no setpoint goes back or beyond the end, whatever
\* quantize adds to the block.
SetpointsAdvance ==
  [][SampleAfter =>
       /\ walked' <= Full(profile)
       /\ walked < walked' \/ walked = Full(profile)]_vars

\* From one setpoint to the next the machine need not exceed the F word of the
\* block nor change the speed, or along an arc the direction, by more than the
\* acceleration allows: quantizing only slows a block down.
WithinLimits ==
  [][SampleAfter =>
       /\ walked' - walked <= profile.motion.word * Tq * Grain(profile)
       /\ profile.motion.r > 0 =>
            speed' * speed' <= profile.motion.r * SpeedGrain(profile) * SpeedGrain(profile)
       /\ speed' - speed <= Tq * SpeedGrain(profile)
       /\ speed - speed' <= Tq * SpeedGrain(profile)]_vars

\* The speed that is reported and the distance between setpoints are of the
\* same motion: while the block lasts, a tick covers at least what the slower of
\* its two reported speeds covers.
Slower == IF speed <= speed' THEN speed ELSE speed'

SpeedMatchesPath ==
  [][SampleAfter => walked' - walked >= 2 * Tick * Slower]_vars

\* The controller leaves a block at lambda 1 and at rest.  walk may return
\* without that sample, its sum of ticks being rounded above the duration, but
\* never further from the end than the machine brakes in one tick.
RestsAtEnd ==
  /\ pc = "done" => walked = Full(profile) /\ speed = 0
  /\ pc = "walked" => 2 * (Full(profile) - walked) <= Tq * Tq * Grain(profile)
=============================================================================
