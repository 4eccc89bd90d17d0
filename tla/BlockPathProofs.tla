-------------------------- MODULE BlockPathProofs --------------------------
(***************************************************************************)
(* The motion profile for every motion and every tick: what a client sees  *)
(* of a block between two samples of it.  All of it follows from one fact, *)
(* that the distance walked in a unit of time is the mean of the speeds at *)
(* its two ends, and from what the profile may be.                         *)
(***************************************************************************)
EXTENDS BlockPath, TLAPS, WellFoundedInduction

\* A set of naturals has a least member.
LEMMA Least ==
  ASSUME NEW T \in SUBSET Nat, T # {}
  PROVE  \E x \in T : \A y \in T : x <= y
<1>1. PICK x \in T : \A y \in T : ~(<<y, x>> \in OpToRel(<, Nat))
  BY NatLessThanWellFounded, WFMin
<1>2. \A y \in T : y \in Nat /\ x \in Nat
  OBVIOUS
<1>3. \A y \in T : ~(y < x)
  BY <1>1, <1>2 DEF OpToRel
<1>4. QED
  BY <1>2, <1>3

\* A function that does not decrease in any unit of an interval does not
\* decrease over it.
LEMMA StepByStep ==
  ASSUME NEW f, NEW s \in Nat, NEW t \in Nat, s <= t,
         \A x \in s .. t : f[x] \in Int,
         \A x \in s .. t : x < t => f[x] <= f[x + 1]
  PROVE  f[s] <= f[t]
<1>1. SUFFICES ASSUME f[t] < f[s] PROVE FALSE
  OBVIOUS
<1> DEFINE T == {x \in s .. t : f[x] < f[s]}
<1>2. T \in SUBSET Nat /\ t \in T
  BY <1>1
<1>3. PICK x \in T : \A y \in T : x <= y
  BY <1>2, Least
<1>4. x - 1 \in s .. t /\ x - 1 < t /\ (x - 1) + 1 = x
  BY <1>3
<1>5. ~(f[x - 1] < f[s])
  BY <1>3, <1>4
<1>6. f[x - 1] <= f[(x - 1) + 1]
  BY <1>4
<1>7. QED
  BY <1>3, <1>4, <1>5, <1>6

-----------------------------------------------------------------------------
\* What compute() leaves: whole phases, the second no shorter than the first,
\* that cover the length at a feedrate within the block's.
Shaped(p) ==
  /\ p.motion \in Motions
  /\ p.scale \in Nat \ {0}
  /\ p.dt1 \in Nat \ {0} /\ p.dtm \in Nat /\ p.dt2 \in Nat /\ p.dt2 >= p.dt1
  /\ p.dt = p.dt1 + p.dtm + p.dt2
  /\ p.f \in Nat \ {0} /\ p.over \in Nat \ {0}
  /\ p.f * (p.dt1 + 2 * p.dtm + p.dt2) = 2 * p.motion.l * p.scale * p.over
  /\ p.f <= Feed(p.motion) * p.over
  /\ p.f * p.scale <= p.over * p.dt1

\* The feedrate of a motion is positive, within the F word, and on an arc
\* within what the acceleration allows.
LEMMA FeedWord ==
  ASSUME NEW m \in Motions
  PROVE  /\ Feed(m) \in 1 .. m.word
         /\ m.r > 0 => Feed(m) * Feed(m) <= m.r
<1>1. m.word \in Nat \ {0} /\ m.r \in Nat
  BY ProfileAssumption
<1>2. CASE m.r = 0 \/ m.word * m.word <= m.r
  BY <1>1, <1>2 DEF Feed, ArcFeed
<1>3. CASE ~(m.r = 0 \/ m.word * m.word <= m.r)
  <2>1. PICK w \in 0 .. m.word : w * w = m.r
    BY <1>1, <1>3, ProfileAssumption
  <2>2. w \in 1 .. m.word
    BY <1>1, <1>3, <2>1
  <2>3. Feed(m) = CHOOSE v \in 1 .. m.word : v * v = m.r
    BY <1>3 DEF Feed, ArcFeed
  <2>4. Feed(m) \in 1 .. m.word /\ Feed(m) * Feed(m) = m.r
    BY <2>1, <2>2, <2>3
  <2>5. QED
    BY <1>1, <2>4
<1>4. QED
  BY <1>2, <1>3

\* quantize() never shortens a time.
LEMMA QuantizedUp ==
  ASSUME NEW t \in Nat, NEW tick \in Nat \ {0}, NEW q \in Quantized(t, tick)
  PROVE  q \in Nat /\ q >= t
<1>1. t \div tick \in Int
  OBVIOUS
<1>2. (t \div tick) * tick \in Int /\ (t \div tick + 1) * tick \in Int
  BY <1>1
<1>3. q \in Int /\ q >= t
  BY <1>2 DEF Quantized
<1>4. QED
  BY <1>3

\* A long block.
LEMMA TrapezoidShaped ==
  ASSUME NEW m \in Motions, Long(m), NEW dt \in Nat, dt >= Feed(m) * Feed(m) + m.l
  PROVE  Shaped(Trapezoid(m, dt))
<1> DEFINE F  == Feed(m)
           l  == m.l
           dm == l - F * F + (dt - (F * F + l))
           p  == Trapezoid(m, dt)
<1>1. F \in Nat \ {0} /\ l \in Nat \ {0}
  BY FeedWord, ProfileAssumption
<1>2. F * F \in Nat \ {0}
  BY <1>1
<1>3. dm \in Nat /\ dm >= l - F * F /\ dm + 2 * (F * F) = dt /\ l > F * F
  BY <1>1, <1>2 DEF Long
<1>4. /\ p.motion = m /\ p.scale = F /\ p.dt1 = F * F /\ p.dtm = dm /\ p.dt2 = F * F
      /\ p.dt = dt /\ p.f = 2 * l * F /\ p.over = 2 * (F * F) + 2 * dm
  BY DEF Trapezoid
<1> HIDE DEF p, dm, F, l
<1>5. p.over \in Nat \ {0} /\ p.over >= 2 * l
  BY <1>1, <1>2, <1>3, <1>4
<1>6. p.f \in Nat \ {0}
  BY <1>1, <1>4
<1>7. p.f * (p.dt1 + 2 * p.dtm + p.dt2) = 2 * l * F * p.over
  BY <1>1, <1>2, <1>3, <1>4
<1>8. p.f <= F * p.over
  BY <1>1, <1>4, <1>5
<1>9. p.f * F <= p.over * (F * F)
  BY <1>1, <1>2, <1>5, <1>6, <1>8
<1>10. Shaped(p)
  BY <1>1, <1>2, <1>3, <1>4, <1>5, <1>6, <1>7, <1>8, <1>9 DEF Shaped, F, l
<1>11. QED
  BY <1>10 DEF p

\* A short block.
LEMMA TriangleShaped ==
  ASSUME NEW m \in Motions, ~Long(m), NEW dt \in Nat, dt >= 2 * Root(m)
  PROVE  Shaped(Triangle(m, dt)) /\ Root(m) \in Nat
<1> DEFINE F == Feed(m)
           l == m.l
           w == Root(m)
           b == w + (dt - 2 * w)
           p == Triangle(m, dt)
<1>1. F \in Nat \ {0} /\ l \in Nat \ {0}
  BY FeedWord, ProfileAssumption
<1>2. w \in 1 .. F /\ w * w = l
  <2>1. l <= F * F
    BY <1>1 DEF Long
  <2>2. \E v \in 1 .. F : v * v = l
    BY <2>1, ProfileAssumption
  <2>3. QED
    BY <2>2 DEF Root
<1>3. w \in Nat \ {0} /\ b \in Nat /\ b >= w /\ dt = w + b
  BY <1>1, <1>2
<1>4. /\ p.motion = m /\ p.scale = 1 /\ p.dt1 = w /\ p.dtm = 0 /\ p.dt2 = b
      /\ p.dt = dt /\ p.f = 2 * l /\ p.over = w + b
  BY DEF Triangle
<1> HIDE DEF p, b, w, F, l
<1>5. p.over \in Nat \ {0} /\ p.over >= 2 * w
  BY <1>3, <1>4
<1>6. p.f \in Nat \ {0} /\ p.f * 1 = p.f
  BY <1>1, <1>4
<1>7. p.f * (p.dt1 + 2 * p.dtm + p.dt2) = 2 * l * 1 * p.over
  BY <1>1, <1>3, <1>4
<1>8. w * p.over >= w * (2 * w) /\ w * (2 * w) = 2 * l
  BY <1>2, <1>3, <1>5
<1>9. F * p.over >= w * p.over
  BY <1>1, <1>2, <1>3, <1>5
<1>10. p.f <= F * p.over /\ p.f * 1 <= p.over * w
  BY <1>1, <1>3, <1>4, <1>5, <1>6, <1>8, <1>9
<1>11. Shaped(p)
  BY <1>3, <1>4, <1>5, <1>6, <1>7, <1>10 DEF Shaped, F, l
<1>12. QED
  BY <1>3, <1>11 DEF p, w

\* Whatever quantize() adds.
LEMMA ProfilesShaped ==
  ASSUME NEW m \in Motions, NEW p \in Profiles(m)
  PROVE  Shaped(p)
<1>1. Feed(m) \in Nat \ {0} /\ m.l \in Nat \ {0} /\ Tq \in Nat \ {0}
  BY FeedWord, ProfileAssumption
<1>2. CASE Long(m)
  <2>1. Feed(m) * Feed(m) + m.l \in Nat /\ Feed(m) * Tq \in Nat \ {0}
    BY <1>1
  <2>2. QED
    BY <1>2, <2>1, QuantizedUp, TrapezoidShaped DEF Profiles
<1>3. CASE ~Long(m)
  <2>1. 2 * Root(m) \in Nat
    <3>1. \E v \in 1 .. Feed(m) : v * v = m.l
      BY <1>1, <1>3, ProfileAssumption DEF Long
    <3>2. Root(m) \in 1 .. Feed(m)
      BY <3>1 DEF Root
    <3>3. QED
      BY <1>1, <3>2
  <2>2. QED
    BY <1>1, <1>3, <2>1, QuantizedUp, TriangleShaped DEF Profiles
<1>4. QED
  BY <1>2, <1>3
-----------------------------------------------------------------------------
\* lambda in each phase of the profile, its ends included: where two phases
\* meet they agree.
LEMMA Phases ==
  ASSUME NEW p, Shaped(p), NEW x \in Nat
  PROVE  /\ x <= p.dt1 =>
              /\ Walked(p, x) = p.f * x * x * p.dt2
              /\ Speed(p, x) = p.f * x * p.dt2
         /\ p.dt1 <= x /\ x <= p.dt1 + p.dtm =>
              /\ Walked(p, x) = p.f * (2 * x - p.dt1) * p.dt1 * p.dt2
              /\ Speed(p, x) = p.f * p.dt1 * p.dt2
         /\ p.dt1 + p.dtm <= x /\ x <= p.dt =>
              /\ Walked(p, x) = Full(p) - p.f * (p.dt - x) * (p.dt - x) * p.dt1
              /\ Speed(p, x) = p.f * (p.dt - x) * p.dt1
         /\ p.dt <= x => Walked(p, x) = Full(p) /\ Speed(p, x) = 0
<1> DEFINE A == p.f  a == p.dt1  m == p.dtm  b == p.dt2  e == p.dt
           W == Walked(p, x)  S == Speed(p, x)  L == Full(p)  u == x - (a + m)
<1>1. /\ A \in Nat \ {0} /\ a \in Nat \ {0} /\ m \in Nat /\ b \in Nat \ {0}
      /\ e = a + m + b
  BY DEF Shaped
<1>2. L \in Int /\ L = A * (a + 2 * m + b) * a * b
  <2>1. /\ p.motion.l \in Nat /\ p.scale \in Nat /\ p.over \in Nat
        /\ A * (a + 2 * m + b) = 2 * p.motion.l * p.scale * p.over
    BY ProfileAssumption DEF Shaped
  <2>2. L = p.motion.l * (2 * p.scale * (p.over * a * b))
    BY DEF Full, Grain, SpeedGrain
  <2> HIDE DEF A, a, m, b, L
  <2>3. L = (2 * p.motion.l * p.scale * p.over) * a * b
    BY <1>1, <2>1, <2>2
  <2>4. QED
    BY <1>1, <2>1, <2>3
<1>3. x < a => W = A * x * x * b /\ S = A * x * b
  BY <1>1 DEF Walked, Speed
<1>4. a <= x /\ x < a + m => W = A * (2 * x - a) * a * b /\ S = A * a * b
  <2>1. SUFFICES ASSUME a <= x, x < a + m
                 PROVE  W = A * (2 * x - a) * a * b /\ S = A * a * b
    OBVIOUS
  <2>2. ~(x < a)
    BY <1>1, <2>1
  <2>3. W = A * (2 * x - a) * a * b
    BY <1>1, <2>1, <2>2 DEF Walked
  <2>4. S = A * a * b
    BY <1>1, <2>1, <2>2 DEF Speed
  <2>5. QED
    BY <2>3, <2>4
<1>5. a + m <= x /\ x < e =>
        W = A * ((a + 2 * m + 2 * u) * b - u * u) * a /\ S = A * (b - u) * a
  BY <1>1 DEF Walked, Speed
<1>6. e <= x => W = L /\ S = 0
  BY <1>1 DEF Walked, Speed
<1> HIDE DEF A, a, m, b, e, W, S, L
<1>7. a + m <= x /\ x < e =>
        W = L - A * (e - x) * (e - x) * a /\ S = A * (e - x) * a
  <2>1. SUFFICES ASSUME a + m <= x, x < e
                 PROVE  W = L - A * (e - x) * (e - x) * a /\ S = A * (e - x) * a
    OBVIOUS
  <2>2. e - x = b - u /\ u \in Int
    BY <1>1
  <2>3. A * ((a + 2 * m + 2 * u) * b - u * u) * a
          = A * (a + 2 * m + b) * a * b - A * (b - u) * (b - u) * a
    BY <1>1, <2>2
  <2>4. QED
    BY <1>2, <1>5, <2>1, <2>2, <2>3
<1>8. x <= a => W = A * x * x * b /\ S = A * x * b
  <2>1. CASE x = a /\ m > 0
    <3>1. 2 * x - a = x
      BY <1>1, <2>1
    <3>2. QED
      BY <1>1, <1>4, <2>1, <3>1
  <2>2. CASE x = a /\ m = 0
    <3>1. u = 0 /\ x < e /\ x = a + m
      BY <1>1, <2>2
    <3>2. W = A * ((a + 2 * m + 2 * u) * b - u * u) * a /\ S = A * (b - u) * a
      BY <1>1, <1>5, <3>1
    <3>3. QED
      BY <1>1, <2>2, <3>1, <3>2
  <2>3. QED
    BY <1>1, <1>3, <2>1, <2>2
<1>9. a <= x /\ x <= a + m => W = A * (2 * x - a) * a * b /\ S = A * a * b
  <2>1. CASE x = a + m
    <3>1. u = 0 /\ x < e
      BY <1>1, <2>1
    <3>2. W = A * ((a + 2 * m + 2 * u) * b - u * u) * a /\ S = A * (b - u) * a
      BY <1>1, <1>5, <2>1, <3>1
    <3>3. 2 * x - a = a + 2 * m
      BY <1>1, <2>1
    <3>4. QED
      BY <1>1, <3>1, <3>2, <3>3
  <2>2. QED
    BY <1>1, <1>4, <2>1
<1>10. x = e => A * (e - x) * (e - x) * a = 0 /\ A * (e - x) * a = 0
  BY <1>1
<1>11. a + m <= x /\ x <= e =>
         W = L - A * (e - x) * (e - x) * a /\ S = A * (e - x) * a
  <2>1. CASE x = e
    BY <1>2, <1>6, <1>10, <2>1
  <2>2. CASE x # e
    BY <1>1, <1>7, <2>2
  <2>3. QED
    BY <2>1, <2>2
<1>12. QED
  BY <1>6, <1>8, <1>9, <1>11 DEF A, a, m, b, e, W, S, L

\* The speeds are whole and no higher than that of the cruise; a block moves
\* from its first instant to its last, and brakes in time for its end.
LEMMA SpeedBounds ==
  ASSUME NEW p, Shaped(p), NEW x \in Nat
  PROVE  /\ Speed(p, x) \in Nat /\ Speed(p, x) <= p.f * p.dt1 * p.dt2
         /\ 0 < x /\ x < p.dt => Speed(p, x) > 0
         /\ x <= p.dt => Speed(p, x) <= p.f * (p.dt - x) * p.dt1
<1> DEFINE A == p.f  a == p.dt1  m == p.dtm  b == p.dt2  e == p.dt
           S == Speed(p, x)
<1>1. /\ A \in Nat \ {0} /\ a \in Nat \ {0} /\ m \in Nat /\ b \in Nat \ {0}
      /\ b >= a /\ e = a + m + b
  BY DEF Shaped
<1>2. /\ x <= a => S = A * x * b
      /\ a <= x /\ x <= a + m => S = A * a * b
      /\ a + m <= x /\ x <= e => S = A * (e - x) * a
      /\ e <= x => S = 0
  BY Phases
<1> HIDE DEF A, a, m, b, e, S
<1>3. A * a \in Nat \ {0} /\ A * b \in Nat \ {0} /\ A * a * b \in Nat \ {0}
  BY <1>1
<1>4. CASE x <= a
  <2>1. S = A * b * x /\ A * b * x <= A * b * a /\ A * b * a = A * a * b
    BY <1>1, <1>2, <1>3, <1>4
  <2>2. S \in Nat /\ (x > 0 => S > 0)
    BY <1>1, <1>3, <2>1
  <2>3. S <= A * (e - x) * a
    <3>1. A * (e - x) * a = A * a * (e - x) /\ e - x >= b
      BY <1>1, <1>4
    <3>2. A * a * (e - x) >= A * a * b
      BY <1>1, <1>3, <1>4, <3>1
    <3>3. QED
      BY <1>1, <1>3, <2>1, <3>1, <3>2
  <2>4. QED
    BY <2>1, <2>2, <2>3 DEF A, a, b, e, S
<1>5. CASE a <= x /\ x <= a + m
  <2>1. S = A * a * b
    BY <1>2, <1>5
  <2>2. A * (e - x) * a = A * a * (e - x) /\ e - x >= b
    BY <1>1, <1>5
  <2>3. A * a * (e - x) >= A * a * b
    BY <1>1, <1>3, <1>5, <2>2
  <2>4. QED
    BY <1>3, <2>1, <2>2, <2>3 DEF A, a, b, e, S
<1>6. CASE a + m <= x /\ x <= e
  <2>1. S = A * a * (e - x) /\ e - x \in Nat /\ e - x <= b
    BY <1>1, <1>2, <1>6
  <2>2. A * a * (e - x) <= A * a * b /\ S \in Nat /\ (x < e => S > 0)
    BY <1>1, <1>3, <1>6, <2>1
  <2>3. S <= A * (e - x) * a
    BY <1>2, <1>6, <2>1, <2>2
  <2>4. QED
    BY <1>3, <2>1, <2>2, <2>3 DEF A, a, b, e, S
<1>7. CASE e < x
  BY <1>1, <1>2, <1>3, <1>7 DEF A, a, b, e, S
<1>8. QED
  BY <1>1, <1>4, <1>5, <1>6, <1>7

\* One unit of time: the distance is the mean of the two speeds, and the speed
\* grows and falls, up to the end of the cruise and from there, at most as fast
\* as in the two ramps.
LEMMA UnitOfTime ==
  ASSUME NEW p, Shaped(p), NEW x \in Nat
  PROVE  /\ Walked(p, x) \in Int
         /\ Walked(p, x + 1) = Walked(p, x) + Speed(p, x) + Speed(p, x + 1)
         /\ x < p.dt1 + p.dtm => /\ Speed(p, x) <= Speed(p, x + 1)
                                 /\ Speed(p, x + 1) - Speed(p, x) <= p.f * p.dt2
         /\ x >= p.dt1 + p.dtm => /\ Speed(p, x + 1) <= Speed(p, x)
                                  /\ Speed(p, x) - Speed(p, x + 1) <= p.f * p.dt1
<1> DEFINE A == p.f  a == p.dt1  m == p.dtm  b == p.dt2  e == p.dt
           W == Walked(p, x)  V == Walked(p, x + 1)  L == Full(p)
           S == Speed(p, x)   R == Speed(p, x + 1)
<1>1. /\ A \in Nat \ {0} /\ a \in Nat \ {0} /\ m \in Nat /\ b \in Nat \ {0}
      /\ b >= a /\ e = a + m + b /\ L \in Int
  BY ProfileAssumption DEF Shaped, Full, Grain, SpeedGrain
<1>2. /\ x <= a => W = A * x * x * b /\ S = A * x * b
      /\ a <= x /\ x <= a + m => W = A * (2 * x - a) * a * b /\ S = A * a * b
      /\ a + m <= x /\ x <= e => /\ W = L - A * (e - x) * (e - x) * a
                                 /\ S = A * (e - x) * a
      /\ e <= x => W = L /\ S = 0
  BY Phases
<1>3. /\ x + 1 <= a => V = A * (x + 1) * (x + 1) * b /\ R = A * (x + 1) * b
      /\ a <= x + 1 /\ x + 1 <= a + m =>
           V = A * (2 * (x + 1) - a) * a * b /\ R = A * a * b
      /\ a + m <= x + 1 /\ x + 1 <= e =>
           /\ V = L - A * (e - (x + 1)) * (e - (x + 1)) * a
           /\ R = A * (e - (x + 1)) * a
      /\ e <= x + 1 => V = L /\ R = 0
  BY Phases
<1> HIDE DEF A, a, m, b, e, W, V, S, R, L
<1>4. A * a \in Nat /\ A * b \in Nat
  BY <1>1
<1>5. CASE x + 1 <= a
  <2>1. W = A * x * x * b /\ S = A * x * b
    BY <1>1, <1>2, <1>5
  <2>2. V = A * (x + 1) * (x + 1) * b /\ R = A * (x + 1) * b
    BY <1>3, <1>5
  <2>3. W \in Int /\ V = W + S + R /\ R - S = A * b /\ S \in Int /\ R \in Int
    BY <1>1, <1>4, <2>1, <2>2
  <2>4. QED
    BY <1>1, <1>4, <1>5, <2>3 DEF A, a, m, b, e, W, V, S, R
<1>6. CASE a <= x /\ x + 1 <= a + m
  <2>1. W = A * (2 * x - a) * a * b /\ S = A * a * b
    BY <1>1, <1>2, <1>6
  <2>2. V = A * (2 * (x + 1) - a) * a * b /\ R = A * a * b
    BY <1>1, <1>3, <1>6
  <2>3. W \in Int /\ V = W + S + R /\ R = S /\ S \in Int
    BY <1>1, <1>4, <2>1, <2>2
  <2>4. QED
    BY <1>1, <1>4, <1>6, <2>3 DEF A, a, m, b, e, W, V, S, R
<1>7. CASE a + m <= x /\ x + 1 <= e
  <2>1. W = L - A * (e - x) * (e - x) * a /\ S = A * (e - x) * a
    BY <1>1, <1>2, <1>7
  <2>2. /\ V = L - A * (e - (x + 1)) * (e - (x + 1)) * a
        /\ R = A * (e - (x + 1)) * a
    BY <1>1, <1>3, <1>7
  <2>3. W \in Int /\ V = W + S + R /\ S - R = A * a /\ S \in Int /\ R \in Int
    BY <1>1, <1>4, <2>1, <2>2
  <2>4. QED
    BY <1>1, <1>4, <1>7, <2>3 DEF A, a, m, b, e, W, V, S, R
<1>8. CASE e <= x
  BY <1>1, <1>2, <1>3, <1>4, <1>8 DEF A, a, m, b, e, W, V, S, R, L
<1>9. QED
  BY <1>1, <1>5, <1>6, <1>7, <1>8

\* The types over an interval, and where the speed is at least that of one end.
LEMMA Lowest ==
  ASSUME NEW p, Shaped(p), NEW s \in Nat, NEW t \in Nat, NEW x \in s .. t
  PROVE  Speed(p, x) >= Speed(p, s) \/ Speed(p, x) >= Speed(p, t)
<1> DEFINE up   == [y \in Nat |-> Speed(p, y)]
           down == [y \in Nat |-> 0 - Speed(p, y)]
<1>1. /\ p.dt1 \in Nat /\ p.dtm \in Nat /\ x \in Nat /\ s <= x /\ x <= t
      /\ \A y \in Nat : Speed(p, y) \in Nat
  BY SpeedBounds DEF Shaped
<1>2. CASE x <= p.dt1 + p.dtm
  <2>1. \A y \in s .. x : y \in Nat /\ (y < x => y < p.dt1 + p.dtm)
    BY <1>1, <1>2
  <2>2. \A y \in s .. x : y < x => up[y] <= up[y + 1]
    BY <1>1, <2>1, UnitOfTime
  <2>3. \A y \in s .. x : up[y] \in Int
    BY <1>1, <2>1
  <2> HIDE DEF up
  <2>4. up[s] <= up[x]
    BY <1>1, <2>2, <2>3, StepByStep
  <2>5. QED
    BY <1>1, <2>4 DEF up
<1>3. CASE x > p.dt1 + p.dtm
  <2>1. \A y \in x .. t : y \in Nat /\ y >= p.dt1 + p.dtm
    BY <1>1, <1>3
  <2>2. \A y \in x .. t : Speed(p, y + 1) <= Speed(p, y)
    BY <1>1, <2>1, UnitOfTime
  <2>3. \A y \in x .. t : y < t => down[y] <= down[y + 1]
    <3>1. \A y \in x .. t : y + 1 \in Nat
      BY <2>1
    <3>2. QED
      BY <1>1, <2>1, <2>2, <3>1
  <2>4. \A y \in x .. t : down[y] \in Int
    BY <1>1, <2>1
  <2> HIDE DEF down
  <2>5. down[x] <= down[t]
    BY <1>1, <2>3, <2>4, StepByStep
  <2>6. QED
    BY <1>1, <2>5 DEF down
<1>4. QED
  BY <1>1, <1>2, <1>3

\* The distance between two samples is at least what the slower of their speeds
\* makes of the time, and at most what the speed of the cruise makes of it.
LEMMA Distance ==
  ASSUME NEW p, Shaped(p), NEW s \in Nat, NEW t \in Nat, s <= t,
         NEW low \in Nat, low <= Speed(p, s), low <= Speed(p, t)
  PROVE  /\ Walked(p, s) \in Int /\ Walked(p, t) \in Int
         /\ Walked(p, t) - Walked(p, s) >= 2 * (t - s) * low
         /\ Walked(p, t) - Walked(p, s) <= 2 * (t - s) * (p.f * p.dt1 * p.dt2)
<1> DEFINE high == p.f * p.dt1 * p.dt2
           least == [y \in Nat |-> Walked(p, y) - 2 * low * y]
           most  == [y \in Nat |-> 2 * high * y - Walked(p, y)]
<1>1. high \in Nat
  BY DEF Shaped
<1>2. /\ \A y \in s .. t : y \in Nat /\ y + 1 \in Nat
      /\ \A y \in s .. t : y < t => y + 1 \in s .. t
  OBVIOUS
<1>3. /\ \A y \in Nat : Walked(p, y) \in Int
      /\ \A y \in Nat : Speed(p, y) \in Nat /\ Speed(p, y) <= high
      /\ \A y \in Nat : Walked(p, y + 1) = Walked(p, y) + Speed(p, y) + Speed(p, y + 1)
  BY UnitOfTime, SpeedBounds
<1>4. ASSUME NEW y \in s .. t PROVE Speed(p, y) >= low
  <2>1. /\ y \in Nat /\ Speed(p, y) \in Nat
        /\ Speed(p, s) \in Nat /\ Speed(p, t) \in Nat
    BY <1>3
  <2>2. Speed(p, y) >= Speed(p, s) \/ Speed(p, y) >= Speed(p, t)
    BY Lowest
  <2>3. QED
    BY <2>1, <2>2
<1> HIDE DEF high
<1>5. \A y \in s .. t : y < t => least[y] <= least[y + 1]
  <2>1. SUFFICES ASSUME NEW y \in s .. t, y < t PROVE least[y] <= least[y + 1]
    OBVIOUS
  <2>2. y \in Nat /\ y + 1 \in Nat /\ Speed(p, y) >= low /\ Speed(p, y + 1) >= low
    BY <1>2, <1>4, <2>1
  <2>3. Walked(p, y + 1) - Walked(p, y) >= 2 * low
    BY <1>3, <2>2
  <2>4. 2 * low * (y + 1) = 2 * low * y + 2 * low /\ 2 * low * y \in Int
    BY <2>2
  <2>5. QED
    BY <1>3, <2>2, <2>3, <2>4
<1>6. \A y \in s .. t : y < t => most[y] <= most[y + 1]
  <2>1. SUFFICES ASSUME NEW y \in s .. t, y < t PROVE most[y] <= most[y + 1]
    OBVIOUS
  <2>2. y \in Nat /\ y + 1 \in Nat /\ Speed(p, y) <= high /\ Speed(p, y + 1) <= high
    BY <1>2, <1>3, <2>1
  <2>3. Walked(p, y + 1) - Walked(p, y) <= 2 * high
    BY <1>1, <1>3, <2>2
  <2>4. 2 * high * (y + 1) = 2 * high * y + 2 * high /\ 2 * high * y \in Int
    BY <1>1, <2>2
  <2>5. QED
    BY <1>1, <1>3, <2>2, <2>3, <2>4
<1>7. \A y \in s .. t : least[y] \in Int /\ most[y] \in Int
  BY <1>1, <1>2, <1>3
<1>8. /\ least[s] = Walked(p, s) - 2 * low * s /\ least[t] = Walked(p, t) - 2 * low * t
      /\ most[s] = 2 * high * s - Walked(p, s) /\ most[t] = 2 * high * t - Walked(p, t)
  OBVIOUS
<1> HIDE DEF least, most
<1>9. least[s] <= least[t] /\ most[s] <= most[t]
  BY <1>5, <1>6, <1>7, StepByStep
<1>10. Walked(p, t) - Walked(p, s) >= 2 * (t - s) * low
  BY <1>3, <1>8, <1>9
<1>11. Walked(p, t) - Walked(p, s) <= 2 * (t - s) * high
  BY <1>1, <1>3, <1>8, <1>9
<1>12. QED
  BY <1>3, <1>10, <1>11 DEF high

\* Between two samples the speed changes no faster than in the ramps.
LEMMA Change ==
  ASSUME NEW p, Shaped(p), NEW s \in Nat, NEW t \in Nat, s <= t
  PROVE  /\ Speed(p, t) - Speed(p, s) <= (t - s) * (p.f * p.dt2)
         /\ Speed(p, s) - Speed(p, t) <= (t - s) * (p.f * p.dt1)
<1> DEFINE ab == p.f * p.dt2
           aa == p.f * p.dt1
           up   == [y \in Nat |-> ab * y - Speed(p, y)]
           down == [y \in Nat |-> aa * y + Speed(p, y)]
<1>1. ab \in Nat /\ aa \in Nat /\ p.dt1 + p.dtm \in Nat
  BY DEF Shaped
<1>2. \A y \in Nat : Speed(p, y) \in Nat
  BY SpeedBounds
<1>3. \A y \in Nat : /\ Speed(p, y + 1) - Speed(p, y) <= ab
                     /\ Speed(p, y) - Speed(p, y + 1) <= aa
  <2>1. SUFFICES ASSUME NEW y \in Nat
                 PROVE  /\ Speed(p, y + 1) - Speed(p, y) <= ab
                        /\ Speed(p, y) - Speed(p, y + 1) <= aa
    OBVIOUS
  <2>2. y + 1 \in Nat /\ Speed(p, y) \in Nat /\ Speed(p, y + 1) \in Nat
    BY <1>2
  <2>3. CASE y < p.dt1 + p.dtm
    BY <1>1, <2>2, <2>3, UnitOfTime
  <2>4. CASE y >= p.dt1 + p.dtm
    BY <1>1, <2>2, <2>4, UnitOfTime
  <2>5. QED
    BY <1>1, <2>3, <2>4
<1> HIDE DEF ab, aa
<1>4. \A y \in s .. t : /\ y \in Nat /\ y + 1 \in Nat
                        /\ ab * (y + 1) = ab * y + ab /\ ab * y \in Int
                        /\ aa * (y + 1) = aa * y + aa /\ aa * y \in Int
  BY <1>1
<1>5. \A y \in s .. t : up[y] <= up[y + 1] /\ down[y] <= down[y + 1]
  BY <1>1, <1>2, <1>3, <1>4
<1>6. \A y \in s .. t : up[y] \in Int /\ down[y] \in Int
  BY <1>2, <1>4
<1>7. /\ up[s] = ab * s - Speed(p, s) /\ up[t] = ab * t - Speed(p, t)
      /\ down[s] = aa * s + Speed(p, s) /\ down[t] = aa * t + Speed(p, t)
  OBVIOUS
<1> HIDE DEF up, down
<1>8. up[s] <= up[t] /\ down[s] <= down[t]
  BY <1>5, <1>6, StepByStep
<1>9. Speed(p, t) - Speed(p, s) <= (t - s) * ab
  BY <1>1, <1>2, <1>7, <1>8
<1>10. Speed(p, s) - Speed(p, t) <= (t - s) * aa
  BY <1>1, <1>2, <1>7, <1>8
<1>11. QED
  BY <1>9, <1>10 DEF ab, aa

\* A block goes on until its end, where lambda is 1.
LEMMA Onward ==
  ASSUME NEW p, Shaped(p), NEW s \in Nat, NEW t \in Nat, s < t
  PROVE  /\ Walked(p, t) <= Full(p)
         /\ Walked(p, s) < Walked(p, t) \/ Walked(p, s) = Full(p)
<1>1. /\ p.dt \in Nat /\ p.dt >= 2 /\ s + 1 \in Nat /\ s + 1 <= t
      /\ \A x \in Nat : Speed(p, x) \in Nat
  BY SpeedBounds DEF Shaped
<1>2. \A x \in Nat : p.dt <= x => Walked(p, x) = Full(p)
  BY Phases
<1>3. /\ Walked(p, s) \in Int /\ Walked(p, t) \in Int /\ Walked(p, s + 1) \in Int
      /\ Walked(p, s + 1) = Walked(p, s) + Speed(p, s) + Speed(p, s + 1)
  BY <1>1, UnitOfTime
<1>4. Walked(p, s + 1) <= Walked(p, t)
  <2>1. Walked(p, t) - Walked(p, s + 1) >= 2 * (t - (s + 1)) * 0
    BY <1>1, Distance
  <2>2. QED
    BY <1>3, <2>1
<1>5. Walked(p, t) <= Full(p)
  <2>1. CASE t <= p.dt
    <3>1. 0 <= Speed(p, t) /\ 0 <= Speed(p, p.dt) /\ t \in Nat /\ 0 \in Nat
      BY <1>1
    <3>2. Walked(p, p.dt) - Walked(p, t) >= 2 * (p.dt - t) * 0 /\ Walked(p, p.dt) \in Int
      BY <1>1, <2>1, <3>1, Distance
    <3>3. QED
      BY <1>1, <1>2, <1>3, <3>2
  <2>2. CASE t > p.dt
    BY <1>1, <1>2, <1>3, <2>2
  <2>3. QED
    BY <1>1, <2>1, <2>2
<1>6. CASE s < p.dt
  <2>1. Speed(p, s) > 0 \/ Speed(p, s + 1) > 0
    <3>1. CASE s > 0
      BY <1>1, <1>6, <3>1, SpeedBounds
    <3>2. CASE s = 0
      BY <1>1, <3>2, SpeedBounds
    <3>3. QED
      BY <3>1, <3>2
  <2>2. QED
    BY <1>1, <1>3, <1>4, <1>5, <2>1
<1>7. CASE s >= p.dt
  BY <1>2, <1>5, <1>7
<1>8. QED
  BY <1>1, <1>6, <1>7

\* What is left of a block is no more than the braking distance of its time.
LEMMA Remaining ==
  ASSUME NEW p, Shaped(p), NEW s \in Nat, s <= p.dt
  PROVE  Full(p) - Walked(p, s) <= p.f * p.dt1 * ((p.dt - s) * (p.dt - s))
<1> DEFINE aa == p.f * p.dt1
           e == p.dt
           left == [y \in Nat |-> 0 - aa * ((e - y) * (e - y)) - Walked(p, y)]
<1>1. aa \in Nat /\ e \in Nat
  BY DEF Shaped
<1>2. \A y \in Nat : /\ Speed(p, y) \in Nat /\ Walked(p, y) \in Int
                     /\ Walked(p, y + 1) = Walked(p, y) + Speed(p, y) + Speed(p, y + 1)
  BY UnitOfTime, SpeedBounds
<1>3. Walked(p, e) = Full(p)
  BY <1>1, Phases
<1>4. \A y \in Nat : y <= e => Speed(p, y) <= aa * (e - y)
  <2>1. SUFFICES ASSUME NEW y \in Nat, y <= e PROVE Speed(p, y) <= aa * (e - y)
    OBVIOUS
  <2>2. Speed(p, y) <= p.f * (e - y) * p.dt1
    BY <2>1, SpeedBounds
  <2>3. p.f * (e - y) * p.dt1 = aa * (e - y)
    BY <1>1, <2>1 DEF Shaped
  <2>4. QED
    BY <2>2, <2>3
<1> HIDE DEF aa, e
<1>5. \A y \in s .. e : left[y] \in Int
  BY <1>1, <1>2
<1>6. ASSUME NEW y \in s .. e, y < e PROVE left[y] <= left[y + 1]
  <2>1. y \in Nat /\ y + 1 \in Nat /\ y + 1 <= e
    BY <1>1, <1>6
  <2>2. Speed(p, y) <= aa * (e - y) /\ Speed(p, y + 1) <= aa * (e - (y + 1))
    BY <1>1, <1>4, <2>1
  <2>3. aa * (e - y) + aa * (e - (y + 1))
          = aa * ((e - y) * (e - y)) - aa * ((e - (y + 1)) * (e - (y + 1)))
    BY <1>1, <2>1
  <2>4. /\ aa * (e - y) \in Int /\ aa * (e - (y + 1)) \in Int
        /\ aa * ((e - y) * (e - y)) \in Int
        /\ aa * ((e - (y + 1)) * (e - (y + 1))) \in Int
    BY <1>1, <2>1
  <2>5. Walked(p, y + 1) - Walked(p, y) <= aa * (e - y) + aa * (e - (y + 1))
    BY <1>2, <2>1, <2>2, <2>4
  <2>6. QED
    BY <1>2, <2>1, <2>3, <2>4, <2>5
<1>7. /\ left[s] = 0 - aa * ((e - s) * (e - s)) - Walked(p, s)
      /\ left[e] = 0 - Full(p)
  BY <1>1, <1>2, <1>3
<1> HIDE DEF left
<1>8. left[s] <= left[e]
  BY <1>1, <1>5, <1>6, StepByStep DEF e
<1>9. aa * ((e - s) * (e - s)) \in Int /\ Full(p) \in Int
  BY <1>1, <1>2, <1>3
<1>10. QED
  BY <1>2, <1>7, <1>8, <1>9 DEF aa, e

-----------------------------------------------------------------------------
\* The last sample is of one tick before the block's time.
Sampled ==
  /\ time >= Tick
  /\ walked = Walked(profile, time - Tick)
  /\ speed = Speed(profile, time - Tick)

\* The inductive invariant of a block's client: the profile is one of compute's,
\* what was sampled last is of its last tick, and the client has left the block
\* only after the test for it.
SampleInv ==
  /\ Shaped(profile)
  /\ pc \in {"run", "walk", "done", "walked"}
  /\ time \in Nat
  /\ time # 0 => Sampled
  /\ pc = "done" => time # 0 /\ time - Tick > profile.dt
  /\ pc = "walked" => time >= profile.dt

\* A tick lasts.
LEMMA TickLasts ==
  ASSUME Shaped(profile)
  PROVE  Tick \in Nat \ {0} /\ Tq \in Nat \ {0} /\ Tick = profile.scale * Tq
BY ProfileAssumption DEF Tick, Shaped

\* The first parsing, and every later one.
LEMMA ParsedSampleInv ==
  ASSUME NEW m \in Motions, profile' \in Profiles(m), pc' \in {"run", "walk"},
         time' = 0
  PROVE  SampleInv'
<1>1. Shaped(profile)'
  BY ProfilesShaped DEF Shaped
<1>2. QED
  BY <1>1 DEF SampleInv

\* One sample of either loop.
LEMMA SampleKeeps ==
  ASSUME SampleInv, Sample
  PROVE  /\ Shaped(profile)' /\ time' \in Nat /\ time' # 0 /\ Sampled'
         /\ time' - Tick' = time
<1>1. /\ profile' = profile /\ time' = time + Tick /\ time \in Nat
      /\ Tick \in Nat \ {0} /\ Shaped(profile)
  BY TickLasts DEF SampleInv, Sample
<1>2. Tick' = Tick
  BY <1>1 DEF Tick
<1>3. time' - Tick' = time /\ time' \in Nat /\ time' # 0 /\ time' >= Tick'
  BY <1>1, <1>2
<1>4. Sampled'
  BY <1>1, <1>3 DEF Sampled, Sample
<1>5. Shaped(profile)'
  BY <1>1 DEF Shaped
<1>6. QED
  BY <1>3, <1>4, <1>5

\* Every step of the client keeps the invariant.
LEMMA SampleInvStep ==
  ASSUME SampleInv, [PathNext]_pathVars
  PROVE  SampleInv'
<1>1. CASE ParseAgain
  <2>1. PICK m \in {profile.motion} \cup SameWords(profile.motion) :
          profile' \in Profiles(m)
    BY <1>1 DEF ParseAgain
  <2>2. m \in Motions
    BY DEF SampleInv, Shaped, SameWords
  <2>3. QED
    BY <1>1, <2>1, <2>2, ParsedSampleInv DEF ParseAgain
<1>2. CASE InterpTick
  <2>1. Sample /\ pc' \in {"run", "done"} /\ (pc' = "done" => BlockOver)
    BY <1>2 DEF InterpTick
  <2>2. BlockOver => time > profile.dt
    BY TickLasts DEF BlockOver, SampleInv, Shaped
  <2>3. profile' = profile
    BY <2>1 DEF Sample
  <2>4. QED
    BY <2>1, <2>2, <2>3, SampleKeeps DEF SampleInv
<1>3. CASE WalkTick
  <2>1. Sample /\ pc' = "walk"
    BY <1>3 DEF WalkTick
  <2>2. QED
    BY <2>1, SampleKeeps DEF SampleInv
<1>4. CASE WalkReturns
  BY <1>4 DEF WalkReturns, SampleInv, Sampled, Tick, Shaped
<1>5. CASE UNCHANGED pathVars
  BY <1>5 DEF pathVars, vars, SampleInv, Sampled, Tick, Shaped
<1>6. QED
  BY <1>1, <1>2, <1>3, <1>4, <1>5 DEF PathNext, SamplePath

\* What is known of a sample that follows another.
LEMMA ConsecutiveSamples ==
  ASSUME SampleInv, [PathNext]_pathVars, SampleAfter
  PROVE  /\ Shaped(profile) /\ time - Tick \in Nat /\ time \in Nat
         /\ Tick \in Nat \ {0}
         /\ walked = Walked(profile, time - Tick)
         /\ speed = Speed(profile, time - Tick)
         /\ walked' = Walked(profile, time) /\ speed' = Speed(profile, time)
<1>1. /\ Shaped(profile) /\ time \in Nat /\ time > 0 /\ Sampled
      /\ Tick \in Nat \ {0}
  BY TickLasts DEF SampleInv, SampleAfter
<1>2. Sample
  <2>1. ~ParseAgain
    BY <1>1 DEF ParseAgain, SampleAfter
  <2>2. ~WalkReturns /\ ~UNCHANGED pathVars
    BY <1>1 DEF WalkReturns, SampleAfter, pathVars, vars
  <2>3. QED
    BY <2>1, <2>2 DEF PathNext, SamplePath, InterpTick, WalkTick
<1>3. QED
  BY <1>1, <1>2 DEF Sample, Sampled

\* The invariant holds in every reachable state.
LEMMA Sampling == PathSpec => []SampleInv
<1>1. PathInit => SampleInv
  <2>1. SUFFICES ASSUME PathInit PROVE SampleInv
    OBVIOUS
  <2>2. /\ \E m \in Motions : profile \in Profiles(m)
        /\ pc \in {"run", "walk"} /\ time = 0
    BY <2>1 DEF PathInit, Init
  <2>3. Shaped(profile)
    BY <2>2, ProfilesShaped
  <2>4. QED
    BY <2>2, <2>3 DEF SampleInv
<1>2. QED
  BY <1>1, SampleInvStep, PTL DEF PathSpec

\* No setpoint of a block goes back, beyond the end, or stays where it is before
\* the end, whatever quantize() adds.
THEOREM SamplesAdvance == PathSpec => SetpointsAdvance
<1>1. SampleInv /\ [PathNext]_pathVars =>
        [SampleAfter =>
           /\ walked' <= Full(profile)
           /\ walked < walked' \/ walked = Full(profile)]_vars
  <2>1. SUFFICES ASSUME SampleInv, [PathNext]_pathVars, SampleAfter
                 PROVE  /\ walked' <= Full(profile)
                        /\ walked < walked' \/ walked = Full(profile)
    OBVIOUS
  <2>2. /\ Shaped(profile) /\ time - Tick \in Nat /\ time \in Nat
        /\ time - Tick < time
        /\ walked = Walked(profile, time - Tick) /\ walked' = Walked(profile, time)
    BY <2>1, ConsecutiveSamples
  <2>3. QED
    BY <2>2, Onward
<1>2. QED
  BY <1>1, Sampling, PTL DEF PathSpec, SetpointsAdvance

\* The speed of the cruise is within the feedrate, and the ramps within the
\* acceleration, in the units of the profile.
LEMMA Limits ==
  ASSUME NEW p, Shaped(p)
  PROVE  /\ SpeedGrain(p) \in Nat \ {0}
         /\ p.f * p.dt1 * p.dt2 \in Nat
         /\ p.f * p.dt1 * p.dt2 <= Feed(p.motion) * SpeedGrain(p)
         /\ p.scale * (p.f * p.dt2) \in Nat /\ p.scale * (p.f * p.dt1) \in Nat
         /\ p.scale * (p.f * p.dt2) <= SpeedGrain(p)
         /\ p.scale * (p.f * p.dt1) <= SpeedGrain(p)
<1> DEFINE A == p.f  a == p.dt1  b == p.dt2  o == p.over  c == p.scale
           F == Feed(p.motion)  G == SpeedGrain(p)
<1>1. /\ A \in Nat \ {0} /\ a \in Nat \ {0} /\ b \in Nat \ {0} /\ b >= a
      /\ o \in Nat \ {0} /\ c \in Nat \ {0} /\ F \in Nat
      /\ A <= F * o /\ A * c <= o * a /\ G = o * a * b
  BY FeedWord DEF Shaped, SpeedGrain
<1> HIDE DEF A, a, b, o, c, F, G
<1>2. a * b \in Nat \ {0} /\ G = o * (a * b) /\ G \in Nat \ {0}
  BY <1>1
<1>3. A * a * b \in Nat /\ A * a * b <= F * G
  <2>1. A * a * b = A * (a * b) /\ F * G = (F * o) * (a * b)
    BY <1>1, <1>2
  <2>2. A * (a * b) <= (F * o) * (a * b)
    BY <1>1, <1>2
  <2>3. QED
    BY <1>1, <2>1, <2>2
<1>4. c * (A * b) \in Nat /\ c * (A * b) <= G
  <2>1. c * (A * b) = (A * c) * b /\ G = (o * a) * b
    BY <1>1
  <2>2. (A * c) * b <= (o * a) * b
    BY <1>1
  <2>3. QED
    BY <1>1, <2>1, <2>2
<1>5. c * (A * a) \in Nat /\ c * (A * a) <= c * (A * b)
  <2>1. c * (A * a) = (c * A) * a /\ c * (A * b) = (c * A) * b /\ c * A \in Nat
    BY <1>1
  <2>2. (c * A) * a <= (c * A) * b
    BY <1>1, <2>1
  <2>3. QED
    BY <1>1, <2>1, <2>2
<1>6. c * (A * a) <= G
  BY <1>1, <1>2, <1>4, <1>5
<1>7. QED
  BY <1>2, <1>3, <1>4, <1>5, <1>6 DEF A, a, b, c, F, G

\* What a bound per unit of the profile makes of a tick, of c units times q.
LEMMA Rate ==
  ASSUME NEW d \in Int, NEW c \in Nat, NEW q \in Nat, NEW x \in Nat, NEW G \in Nat,
         d <= (c * q) * x, c * x <= G
  PROVE  d <= q * G
<1>1. (c * q) * x = q * (c * x) /\ q * (c * x) <= q * G
  OBVIOUS
<1>2. (c * q) * x \in Int /\ q * G \in Int
  OBVIOUS
<1>3. QED
  BY <1>1, <1>2

\* The square of a speed within the feedrate F, in a grain of G.
LEMMA SquareOfSpeed ==
  ASSUME NEW v \in Nat, NEW F \in Nat, NEW G \in Nat, NEW r \in Nat,
         v <= F * G, F * F <= r
  PROVE  v * v <= r * G * G
<1>1. F * G \in Nat /\ G * G \in Nat /\ F * F \in Nat
  OBVIOUS
<1>2. v * v <= (F * G) * (F * G)
  BY <1>1
<1>3. (F * G) * (F * G) = (F * F) * (G * G) /\ (F * F) * (G * G) <= r * (G * G)
  BY <1>1
<1>4. r * (G * G) = r * G * G /\ v * v \in Int /\ r * (G * G) \in Int
      /\ (F * G) * (F * G) \in Int
  BY <1>1
<1>5. QED
  BY <1>2, <1>3, <1>4

\* Between two setpoints the machine exceeds neither the F word nor the
\* acceleration, along the path and across it.
THEOREM SamplesWithinLimits == PathSpec => WithinLimits
<1>1. SampleInv /\ [PathNext]_pathVars =>
        [SampleAfter =>
           /\ walked' - walked <= profile.motion.word * Tq * Grain(profile)
           /\ profile.motion.r > 0 =>
                speed' * speed' <= profile.motion.r * SpeedGrain(profile) * SpeedGrain(profile)
           /\ speed' - speed <= Tq * SpeedGrain(profile)
           /\ speed - speed' <= Tq * SpeedGrain(profile)]_vars
  <2>1. SUFFICES ASSUME SampleInv, [PathNext]_pathVars, SampleAfter
                 PROVE  /\ walked' - walked <= profile.motion.word * Tq * Grain(profile)
                        /\ profile.motion.r > 0 =>
                             speed' * speed' <= profile.motion.r * SpeedGrain(profile) * SpeedGrain(profile)
                        /\ speed' - speed <= Tq * SpeedGrain(profile)
                        /\ speed - speed' <= Tq * SpeedGrain(profile)
    OBVIOUS
  <2> DEFINE p == profile
             s == time - Tick
             t == time
             G == SpeedGrain(p)
             F == Feed(p.motion)
             high == p.f * p.dt1 * p.dt2
             rise == p.f * p.dt2
             fall == p.f * p.dt1
             c    == p.scale
             word == p.motion.word
             r    == p.motion.r
  <2>2. /\ Shaped(p) /\ s \in Nat /\ t \in Nat /\ Tick \in Nat \ {0}
        /\ walked = Walked(p, s) /\ speed = Speed(p, s)
        /\ walked' = Walked(p, t) /\ speed' = Speed(p, t)
    BY <2>1, ConsecutiveSamples
  <2>3. s <= t /\ t - s = c * Tq /\ Tq \in Nat \ {0} /\ c \in Nat \ {0}
    BY <2>2, TickLasts DEF Shaped
  <2>4. /\ G \in Nat \ {0} /\ high \in Nat /\ high <= F * G
        /\ c * rise \in Nat /\ c * rise <= G /\ c * fall \in Nat /\ c * fall <= G
        /\ rise \in Nat /\ fall \in Nat
    BY <2>2, Limits DEF Shaped
  <2>5. F \in Nat /\ word \in Nat /\ F <= word /\ r \in Nat /\ (r > 0 => F * F <= r)
    BY <2>2, FeedWord, ProfileAssumption DEF Shaped
  <2>6. /\ speed \in Nat /\ speed' \in Nat /\ speed' <= high
        /\ walked \in Int /\ walked' \in Int
        /\ walked' - walked <= 2 * (t - s) * high
    <3>1. /\ Speed(p, s) \in Nat /\ Speed(p, t) \in Nat /\ Speed(p, t) <= high
          /\ 0 <= Speed(p, s) /\ 0 <= Speed(p, t) /\ 0 \in Nat
      BY <2>2, SpeedBounds
    <3>2. /\ Walked(p, s) \in Int /\ Walked(p, t) \in Int
          /\ Walked(p, t) - Walked(p, s) <= 2 * (t - s) * high
      BY <2>2, <2>3, <3>1, Distance
    <3>3. QED
      BY <2>2, <3>1, <3>2
  <2>7. /\ speed' - speed <= (t - s) * rise
        /\ speed - speed' <= (t - s) * fall
    BY <2>2, <2>3, Change
  <2>8. Grain(p) = 2 * c * G
    BY DEF Grain
  <2> HIDE DEF p, s, t, G, F, high, rise, fall, c, word, r
  <2>9. walked' - walked <= word * Tq * Grain(p)
    <3>1. high <= word * G
      <4>1. F * G <= word * G
        BY <2>4, <2>5
      <4>2. QED
        BY <2>4, <2>5, <4>1
    <3>2. /\ 2 * high \in Nat /\ c * (2 * high) <= c * (2 * (word * G))
          /\ c * (2 * (word * G)) \in Nat
      BY <2>3, <2>4, <2>5, <3>1
    <3>3. walked' - walked \in Int /\ walked' - walked <= (c * Tq) * (2 * high)
      <4>1. c * Tq \in Nat /\ 2 * (c * Tq) * high = (c * Tq) * (2 * high)
        BY <2>3, <2>4
      <4>2. walked' - walked <= 2 * (c * Tq) * high
        BY <2>3, <2>6
      <4>3. QED
        BY <2>6, <4>1, <4>2
    <3>4. walked' - walked <= Tq * (c * (2 * (word * G)))
      BY <2>3, <3>2, <3>3, Rate
    <3>5. Tq * (c * (2 * (word * G))) = word * Tq * (2 * c * G)
      BY <2>3, <2>4, <2>5
    <3>6. QED
      BY <2>8, <3>4, <3>5
  <2>10. ASSUME r > 0 PROVE speed' * speed' <= r * G * G
    <3>1. speed' <= F * G
      BY <2>4, <2>5, <2>6
    <3>2. QED
      BY <2>4, <2>5, <2>6, <2>10, <3>1, SquareOfSpeed
  <2>11. speed' - speed <= Tq * G /\ speed - speed' <= Tq * G
    <3>1. /\ speed' - speed \in Int /\ speed - speed' \in Int
          /\ speed' - speed <= (c * Tq) * rise /\ speed - speed' <= (c * Tq) * fall
      BY <2>3, <2>6, <2>7
    <3>2. speed' - speed <= Tq * G
      BY <2>3, <2>4, <3>1, Rate
    <3>3. speed - speed' <= Tq * G
      BY <2>3, <2>4, <3>1, Rate
    <3>4. QED
      BY <3>2, <3>3
  <2>12. QED
    BY <2>9, <2>10, <2>11 DEF p, G, word, r
<1>2. QED
  BY <1>1, Sampling, PTL DEF PathSpec, WithinLimits

\* The reported speed is that of the path between the setpoints.
THEOREM SpeedsMatch == PathSpec => SpeedMatchesPath
<1>1. SampleInv /\ [PathNext]_pathVars =>
        [SampleAfter => walked' - walked >= 2 * Tick * Slower]_vars
  <2>1. SUFFICES ASSUME SampleInv, [PathNext]_pathVars, SampleAfter
                 PROVE  walked' - walked >= 2 * Tick * Slower
    OBVIOUS
  <2>2. /\ Shaped(profile) /\ time - Tick \in Nat /\ time \in Nat /\ Tick \in Nat \ {0}
        /\ walked = Walked(profile, time - Tick) /\ speed = Speed(profile, time - Tick)
        /\ walked' = Walked(profile, time) /\ speed' = Speed(profile, time)
    BY <2>1, ConsecutiveSamples
  <2>3. speed \in Nat /\ speed' \in Nat
    BY <2>2, SpeedBounds
  <2>4. Slower \in Nat /\ Slower <= speed /\ Slower <= speed'
    BY <2>3 DEF Slower
  <2>5. time - Tick <= time /\ time - (time - Tick) = Tick
    BY <2>2
  <2>6. walked' - walked >= 2 * (time - (time - Tick)) * Slower
    BY <2>2, <2>4, <2>5, Distance
  <2>7. QED
    BY <2>5, <2>6
<1>2. QED
  BY <1>1, Sampling, PTL DEF PathSpec, SpeedMatchesPath

\* The controller leaves a block at its end and at rest, and walk no further
\* from it than the machine brakes in one tick.
THEOREM EndsAtRest == PathSpec => []RestsAtEnd
<1>1. SampleInv => RestsAtEnd
  <2>1. SUFFICES ASSUME SampleInv PROVE RestsAtEnd
    OBVIOUS
  <2>2. /\ Shaped(profile) /\ time \in Nat /\ Tick \in Nat \ {0}
        /\ profile.dt \in Nat \ {0} /\ Tick = profile.scale * Tq /\ Tq \in Nat \ {0}
    <3>1. Shaped(profile) /\ time \in Nat
      BY <2>1 DEF SampleInv
    <3>2. profile.dt \in Nat \ {0}
      BY <3>1 DEF Shaped
    <3>3. QED
      BY <3>1, <3>2, TickLasts
  <2>3. ASSUME pc = "done" PROVE walked = Full(profile) /\ speed = 0
    <3>1. time - Tick \in Nat /\ profile.dt <= time - Tick /\ Sampled
      BY <2>1, <2>2, <2>3 DEF SampleInv, Sampled
    <3>2. QED
      BY <2>2, <3>1, Phases DEF Sampled
  <2>4. ASSUME pc = "walked"
        PROVE  2 * (Full(profile) - walked) <= Tq * Tq * Grain(profile)
    <3> DEFINE s == time - Tick
               c == profile.scale
               e == profile.dt
               aa == profile.f * profile.dt1
               G == SpeedGrain(profile)
               L == Full(profile)
    <3>1. s \in Nat /\ walked = Walked(profile, s) /\ time >= e
      BY <2>1, <2>2, <2>4 DEF SampleInv, Sampled
    <3>2. /\ c \in Nat \ {0} /\ aa \in Nat /\ G \in Nat \ {0} /\ c * aa <= G
          /\ Grain(profile) = 2 * c * G /\ e \in Nat /\ L \in Int /\ walked \in Int
      <4>1. L \in Int
        BY <2>2, Phases, UnitOfTime
      <4>2. walked \in Int
        BY <2>2, <3>1, UnitOfTime
      <4>3. QED
        BY <2>2, <4>1, <4>2, Limits DEF Shaped, Grain
    <3>3. CASE s <= e
      <4>1. L - walked <= aa * ((e - s) * (e - s))
        BY <2>2, <3>1, <3>3, Remaining
      <4>2. e - s \in Nat /\ e - s <= c * Tq
        BY <2>2, <3>1, <3>2, <3>3
      <4> HIDE DEF s, c, e, aa, G, L
      <4>3. /\ (e - s) * (e - s) \in Nat /\ (c * Tq) * (c * Tq) \in Nat
            /\ (e - s) * (e - s) <= (c * Tq) * (c * Tq)
        BY <2>2, <3>2, <4>2
      <4>4. aa * ((e - s) * (e - s)) <= aa * ((c * Tq) * (c * Tq))
        BY <3>2, <4>3
      <4>5. /\ aa * ((c * Tq) * (c * Tq)) = (Tq * Tq * c) * (c * aa)
            /\ Tq * Tq * c \in Nat /\ c * aa \in Nat
        BY <2>2, <3>2
      <4>6. (Tq * Tq * c) * (c * aa) <= (Tq * Tq * c) * G
        BY <3>2, <4>5
      <4>7. (Tq * Tq * c) * G * 2 = Tq * Tq * (2 * c * G)
        BY <2>2, <3>2
      <4>8. L - walked <= (Tq * Tq * c) * G
        BY <3>2, <4>1, <4>3, <4>4, <4>5, <4>6
      <4>9. 2 * (L - walked) <= Tq * Tq * Grain(profile)
        BY <2>2, <3>2, <4>5, <4>7, <4>8
      <4>10. QED
        BY <4>9 DEF L
    <3>4. CASE s > e
      <4>1. walked = L
        BY <2>2, <3>1, <3>2, <3>4, Phases
      <4>2. 2 * (L - walked) = 0
        BY <3>2, <4>1
      <4>3. Tq * Tq * Grain(profile) \in Nat
        BY <2>2, <3>2
      <4>4. QED
        BY <4>2, <4>3
    <3>5. QED
      BY <3>1, <3>2, <3>3, <3>4
  <2>5. QED
    BY <2>3, <2>4 DEF RestsAtEnd
<1>2. QED
  BY <1>1, Sampling, PTL

-----------------------------------------------------------------------------
\* The circle holds every integer point as far from its centre.
LEMMA OnCircle ==
  ASSUME NEW d \in Int \X Int
  PROVE  d \in Directions <=> Square(d) = Radius * Radius
<1>1. PICK x \in Int, y \in Int : d = <<x, y>>
  OBVIOUS
<1>2. Square(d) = x * x + y * y /\ Radius \in Nat \ {0}
  BY <1>1, CircleAssumption DEF Square
<1>3. ASSUME x * x + y * y = Radius * Radius
      PROVE  x \in -Radius .. Radius /\ y \in -Radius .. Radius
  <2>1. x * x >= 0 /\ y * y >= 0
    OBVIOUS
  <2>2. x * x <= Radius * Radius /\ y * y <= Radius * Radius
    BY <1>2, <1>3, <2>1
  <2>3. \A z \in Int : z * z <= Radius * Radius => z <= Radius /\ -z <= Radius
    BY <1>2
  <2>4. QED
    BY <1>2, <2>2, <2>3
<1>4. QED
  BY <1>1, <1>2, <1>3, CircleAssumption

\* A direction has a rank, and the opposite one is a direction too.
LEMMA Ranked ==
  ASSUME NEW d \in Directions
  PROVE  /\ d \in Int \X Int /\ N \in Nat \ {0}
         /\ Rank(d) \in 1 .. N /\ Circle[Rank(d)] = d
         /\ Minus(Start, d) \in Directions
<1>1. d \in Int \X Int /\ Square(d) = Radius * Radius
  BY CircleAssumption
<1>2. PICK k \in 1 .. N : Circle[k] = d
  BY DEF Directions
<1>3. N \in Nat
  BY CircleAssumption DEF N
<1>4. Rank(d) \in 1 .. N /\ Circle[Rank(d)] = d
  BY <1>2 DEF Rank
<1>5. PICK x \in Int, y \in Int : d = <<x, y>>
  BY <1>1
<1>6. Minus(Start, d) = <<-x, -y>>
  BY <1>5 DEF Minus, Start
<1>7. Square(<<-x, -y>>) = Square(d)
  BY <1>5 DEF Square
<1>8. Minus(Start, d) \in Directions
  BY <1>1, <1>5, <1>6, <1>7, OnCircle
<1>9. QED
  BY <1>1, <1>2, <1>3, <1>4, <1>8

\* From the start of an arc to its end, counterclockwise, and where the centre
\* is then: on the left of the chord up to half a turn, on its right beyond.
Net(e, c) == (Rank(Minus(e, c)) - Rank(Minus(Start, c))) % N

LEMMA NetTurn ==
  ASSUME NEW e \in Int \X Int, NEW c \in Directions, Minus(e, c) \in Directions
  PROVE  /\ N \in Nat \ {0} /\ Net(e, c) \in 0 .. N - 1
         /\ Cross(e, c) \in Int
         /\ Cross(e, c) > 0 <=> Net(e, c) > 0 /\ 2 * Net(e, c) < N
         /\ Cross(e, c) < 0 <=> 2 * Net(e, c) > N
         /\ Net(e, c) = 0 => e = Start
         /\ \A s \in {Net(e, c), Net(e, c) - N} :
              ((Rank(Minus(Start, c)) - 1 + s) % N) + 1 = Rank(Minus(e, c))
<1> DEFINE f == Minus(Start, c)
           g == Minus(e, c)
           k == Rank(f)
           l == Rank(g)
           d == Net(e, c)
<1>1. /\ N \in Nat \ {0} /\ f \in Directions /\ c \in Int \X Int
      /\ k \in 1 .. N /\ Circle[k] = f /\ l \in 1 .. N /\ Circle[l] = g
  BY Ranked
<1>2. PICK x \in Int, y \in Int : c = <<x, y>>
  BY <1>1
<1>3. PICK u \in Int, v \in Int : e = <<u, v>>
  OBVIOUS
<1>4. f = <<-x, -y>> /\ g = <<u - x, v - y>> /\ Cross(e, c) = u * y - v * x
  BY <1>2, <1>3 DEF Minus, Start, Cross
<1>5. Cross(f, g) = Cross(e, c) /\ Cross(g, f) = -Cross(e, c)
  BY <1>4 DEF Cross
<1>6. /\ Cross(f, g) > 0 <=> 0 < (l - k) % N /\ 2 * ((l - k) % N) < N
      /\ Cross(g, f) > 0 <=> 0 < (k - l) % N /\ 2 * ((k - l) % N) < N
  <2> HIDE DEF f, g, k, l
  <2>1. QED
    BY <1>1, CircleAssumption
<1>7. d = (l - k) % N
  BY DEF Net
<1>8. k = l => e = Start
  BY <1>1, <1>3, <1>4 DEF Start
<1> HIDE DEF f, g, k, l, d
<1>9. /\ k <= l => (l - k) % N = l - k
      /\ l < k => (l - k) % N = l - k + N
      /\ l <= k => (k - l) % N = k - l
      /\ k < l => (k - l) % N = k - l + N
  BY <1>1
<1>10. d \in 0 .. N - 1 /\ (d = 0 => k = l)
  BY <1>1, <1>7, <1>9
<1>11. (Cross(e, c) > 0 <=> d > 0 /\ 2 * d < N) /\ Cross(e, c) \in Int
  BY <1>4, <1>5, <1>6, <1>7
<1>12. 0 < (k - l) % N /\ 2 * ((k - l) % N) < N <=> 2 * d > N
  BY <1>1, <1>7, <1>9
<1>13. Cross(e, c) < 0 <=> 2 * d > N
  BY <1>4, <1>5, <1>6, <1>12
<1>14. ASSUME NEW s \in {d, d - N} PROVE ((k - 1 + s) % N) + 1 = l
  <2>1. k - 1 + s \in {l - 1, l - 1 + N, l - 1 - N}
    BY <1>1, <1>7, <1>9, <1>14
  <2>2. l - 1 \in Int /\ l - 1 + N \in Int /\ l - 1 - N \in Int
    BY <1>1
  <2>3. (l - 1) % N = l - 1
    BY <1>1, <2>2
  <2>4. (l - 1 + N) % N = l - 1
    BY <1>1, <2>2
  <2>5. (l - 1 - N) % N = l - 1
    BY <1>1, <2>2
  <2>6. QED
    BY <1>1, <2>1, <2>3, <2>4, <2>5
<1>15. QED
  BY <1>1, <1>8, <1>10, <1>11, <1>13, <1>14 DEF f, g, k, l, d

\* Two numbers of the same square.
LEMMA SameSquare ==
  ASSUME NEW x \in Int, NEW y \in Int, x * x = y * y
  PROVE  x = y \/ x = -y
<1>1. (x - y) * (x + y) = 0
  OBVIOUS
<1>2. x - y = 0 \/ x + y = 0
  BY <1>1
<1>3. QED
  BY <1>2

\* There is one centre on each side of a chord.
LEMMA OneCentre ==
  ASSUME NEW e \in Int \X Int, NEW c \in Int \X Int, NEW k \in Int \X Int,
         e # Start, Square(c) = Square(k),
         Square(Minus(e, c)) = Square(c), Square(Minus(e, k)) = Square(k),
         \/ Cross(e, c) >= 0 /\ Cross(e, k) >= 0
         \/ Cross(e, c) <= 0 /\ Cross(e, k) <= 0
  PROVE  c = k
<1>1. PICK x \in Int, y \in Int : e = <<x, y>>
  OBVIOUS
<1>2. PICK a \in Int, b \in Int : c = <<a, b>>
  OBVIOUS
<1>3. PICK p \in Int, q \in Int : k = <<p, q>>
  OBVIOUS
<1> DEFINE X == x * b - y * a
           Y == x * q - y * p
           C == x * a + y * b
           K == x * p + y * q
           R == a * a + b * b
           S == x * x + y * y
<1>4. X \in Int /\ Y \in Int /\ S \in Int /\ C \in Int /\ K \in Int /\ R \in Int
  OBVIOUS
<1>5. R = p * p + q * q
  BY <1>2, <1>3 DEF Square
<1>6. 2 * C = S
  <2>1. (x - a) * (x - a) + (y - b) * (y - b) = a * a + b * b
    BY <1>1, <1>2 DEF Square, Minus
  <2>2. QED
    BY <2>1
<1>7. 2 * K = S
  <2>1. (x - p) * (x - p) + (y - q) * (y - q) = p * p + q * q
    BY <1>1, <1>3 DEF Square, Minus
  <2>2. QED
    BY <2>1
<1>8. \/ X >= 0 /\ Y >= 0
      \/ X <= 0 /\ Y <= 0
  BY <1>1, <1>2, <1>3 DEF Cross
<1>9. x # 0 \/ y # 0
  BY <1>1 DEF Start
<1>10. S > 0
  BY <1>9
<1>11. X * X + C * C = S * R
  OBVIOUS
<1>12. Y * Y + K * K = S * (p * p + q * q)
  OBVIOUS
<1>13. C = K
  BY <1>4, <1>6, <1>7
<1>14. X * X = Y * Y
  <2> HIDE DEF X, Y, C, K, R, S
  <2>1. Y * Y + K * K = S * R
    BY <1>5, <1>12
  <2>2. QED
    BY <1>4, <1>11, <1>13, <2>1
<1>15. X = Y
  <2> HIDE DEF X, Y
  <2>1. X = Y \/ X = -Y
    BY <1>4, <1>14, SameSquare
  <2>2. QED
    BY <1>4, <1>8, <2>1
<1>16. x * (a - p) + y * (b - q) = 0 /\ x * (b - q) - y * (a - p) = 0
  BY <1>13, <1>15
<1>17. S * (a - p) = 0 /\ S * (b - q) = 0
  <2>1. /\ S * (a - p) = x * (x * (a - p) + y * (b - q)) - y * (x * (b - q) - y * (a - p))
        /\ S * (b - q) = y * (x * (a - p) + y * (b - q)) + x * (x * (b - q) - y * (a - p))
    OBVIOUS
  <2>2. QED
    BY <1>16, <2>1
<1>18. a = p /\ b = q
  <2> HIDE DEF S
  <2>1. QED
    BY <1>4, <1>10, <1>17
<1>19. QED
  BY <1>2, <1>3, <1>18

\* A chord of the diameter has the centre on it.
LEMMA CentreOfDiameter ==
  ASSUME NEW e \in Int \X Int, NEW c \in Int \X Int, NEW r \in Int,
         Square(c) = r * r, Square(Minus(e, c)) = r * r, 4 * r * r = Square(e)
  PROVE  Cross(e, c) = 0
<1>1. PICK x \in Int, y \in Int : e = <<x, y>>
  OBVIOUS
<1>2. PICK a \in Int, b \in Int : c = <<a, b>>
  OBVIOUS
<1> DEFINE X == x * b - y * a
           D == x * a + y * b
           S == x * x + y * y
           R == r * r
<1>3. X \in Int /\ D \in Int /\ S \in Int /\ R \in Int /\ Cross(e, c) = X
  BY <1>1, <1>2 DEF Cross
<1>4. a * a + b * b = R /\ (x - a) * (x - a) + (y - b) * (y - b) = R /\ 4 * R = S
  BY <1>1, <1>2 DEF Square, Minus
<1>5. 2 * D = S
  BY <1>4
<1>6. X * X + D * D = S * R
  <2>1. X * X + D * D = S * (a * a + b * b)
    OBVIOUS
  <2>2. QED
    BY <1>4, <2>1
<1> HIDE DEF X, D, S, R
<1>7. D = 2 * R /\ S * R = D * D
  BY <1>3, <1>4, <1>5
<1>8. X * X = 0
  BY <1>3, <1>6, <1>7
<1>9. QED
  BY <1>3, <1>8

-----------------------------------------------------------------------------
\* The inductive invariant of the parsing: an arc is one that calc_arc finds in
\* a new block, or in one whose radius it has found before.
ArcInv ==
  \/ line = Straight /\ arc = NoArc
  \/ line \in ArcLines /\ arc \in Arcs(0) \cup Arcs(Radius)

\* The side of the chord a radius r wants the centre of the line's arc on.
OnSide(r, c) ==
  IF (r > 0) = (line.type = "CCWA") THEN Cross(line.end, c) >= 0
  ELSE Cross(line.end, c) <= 0

\* The candidates of calc_arc for a centre.
LEMMA CentreFound ==
  ASSUME line \in ArcLines, NEW r \in Int, NEW c \in Directions
  PROVE  (/\ Square(c) = r * r /\ Square(Minus(line.end, c)) = r * r
          /\ Side(r) * Cross(line.end, c) >= 0)
           <=> /\ r * r = Radius * Radius
               /\ Minus(line.end, c) \in Directions
               /\ OnSide(r, c)
<1>1. /\ c \in Int \X Int /\ Square(c) = Radius * Radius
      /\ line.end \in Int \X Int
  BY Ranked, OnCircle, PathAssumption
<1>2. PICK x \in Int, y \in Int : c = <<x, y>>
  BY <1>1
<1>3. PICK u \in Int, v \in Int : line.end = <<u, v>>
  BY <1>1
<1>4. Minus(line.end, c) = <<u - x, v - y>> /\ Cross(line.end, c) \in Int
  BY <1>2, <1>3 DEF Minus, Cross
<1>5. Minus(line.end, c) \in Directions
        <=> Square(Minus(line.end, c)) = Radius * Radius
  <2>1. Minus(line.end, c) \in Int \X Int
    BY <1>4
  <2>2. QED
    BY <2>1, OnCircle
<1>6. Side(r) * Cross(line.end, c) >= 0 <=> OnSide(r, c)
  BY <1>4 DEF Side, OnSide
<1> HIDE DEF OnSide
<1>7. CASE r * r = Radius * Radius
  BY <1>1, <1>5, <1>6, <1>7
<1>8. CASE r * r # Radius * Radius
  BY <1>1, <1>8
<1>9. QED
  BY <1>7, <1>8

\* A parsed arc with a centre: of which circle, on which side, and how far.
LEMMA ArcShape ==
  ASSUME line \in ArcLines, NEW old \in {0, Radius}, NEW a \in Arcs(old),
         a.centre # NoCentre
  PROVE  /\ a.centre \in Directions /\ Minus(line.end, a.centre) \in Directions
         /\ a.sweep = Sweep(line.type, a.centre)
         /\ RadiusWord(old) # 0 =>
              /\ RadiusWord(old) \in {Radius, -Radius}
              /\ OnSide(RadiusWord(old), a.centre) /\ line.end # Start
         /\ RadiusWord(old) = 0 => a.centre = <<line.i, line.j>>
         /\ a.r = Radius
<1> DEFINE r == RadiusWord(old)
<1>1. r \in Int /\ line.word \in {"R", "IJ"} /\ Radius \in Nat \ {0}
  <2>1. line.r \in Int /\ line.word \in {"R", "IJ"}
    BY PathAssumption
  <2>2. Radius \in Nat \ {0} /\ old \in Int
    BY CircleAssumption
  <2>3. QED
    BY <2>1, <2>2 DEF RadiusWord
<1>2. PICK c \in IF r # 0 THEN Centres(r) ELSE {<<line.i, line.j>>} :
        a = [r |-> IF r # 0 THEN Absolute(r) ELSE Radius, centre |-> c,
             sweep |-> IF c = NoCentre THEN 0 ELSE Sweep(line.type, c)]
  BY DEF Arcs
<1>3. a.centre = c /\ a.sweep = Sweep(line.type, c)
  BY <1>2
<1>4. CASE r = 0
  <2>1. line.word = "IJ"
    BY <1>1, <1>4, PathAssumption, CircleAssumption DEF RadiusWord
  <2>2. c = <<line.i, line.j>>
    BY <1>2, <1>4
  <2>3. c \in Directions /\ Minus(line.end, c) \in Directions
    BY <2>1, <2>2, PathAssumption
  <2>4. QED
    BY <1>2, <1>3, <1>4, <2>2, <2>3
<1>5. CASE r # 0
  <2>1. c \in Centres(r)
    BY <1>2, <1>5
  <2>2. /\ c \in Directions /\ Square(c) = r * r
        /\ Square(Minus(line.end, c)) = r * r
        /\ Side(r) * Cross(line.end, c) >= 0
        /\ line.end # Start
    BY <1>3, <2>1 DEF Centres
  <2>3. /\ r * r = Radius * Radius /\ Minus(line.end, c) \in Directions
        /\ OnSide(r, c)
    BY <1>1, <2>2, CentreFound
  <2>4. r = Radius \/ r = -Radius
    <3> HIDE DEF r
    <3>1. QED
      BY <1>1, <2>3, SameSquare
  <2>5. a.r = Radius
    BY <1>1, <1>2, <1>5, <2>4 DEF Absolute
  <2>6. QED
    BY <1>3, <1>5, <2>2, <2>3, <2>4, <2>5
<1>6. QED
  BY <1>4, <1>5

\* The sweep of a centre: net to the left, the rest of a turn to the right.
LEMMA SweepIsNet ==
  ASSUME NEW t, NEW c
  PROVE  Sweep(t, c) = IF t = "CCWA" THEN Net(line.end, c) ELSE Net(line.end, c) - N
BY DEF Sweep, Net

\* Parsing keeps the invariant: I and J leave no other radius behind than the
\* circle's, and an R word does not look at the radius before.
LEMMA ArcInvStep ==
  ASSUME ArcInv, [PathNext]_pathVars
  PROVE  ArcInv'
<1>1. line' = line
  BY DEF PathNext, ParseAgain, SamplePath, pathVars
<1>2. \A old : Arcs(old)' = Arcs(old)
  BY <1>1 DEF Arcs, RadiusWord, Centres, Side, Sweep
<1>3. CASE UNCHANGED arc
  BY <1>1, <1>2, <1>3 DEF ArcInv
<1>4. CASE ParseAgain /\ line = Straight
  BY <1>1, <1>4 DEF ParseAgain, ArcInv
<1>5. CASE ParseAgain /\ line # Straight
  <2>1. line \in ArcLines /\ arc \in Arcs(0) \cup Arcs(Radius) /\ arc' \in Arcs(arc.r)
    BY <1>5 DEF ParseAgain, ArcInv
  <2>2. line.word \in {"R", "IJ"}
    BY <2>1, PathAssumption
  <2>3. CASE line.word = "R"
    <3>1. Arcs(arc.r) = Arcs(0)
      BY <2>3 DEF Arcs, RadiusWord
    <3>2. QED
      BY <1>1, <1>2, <2>1, <3>1 DEF ArcInv
  <2>4. CASE line.word = "IJ"
    <3>1. Radius \in Nat \ {0}
      BY CircleAssumption
    <3>2. PICK old \in {0, Radius} : arc \in Arcs(old)
      BY <2>1
    <3>3. RadiusWord(old) = old
      BY <2>4 DEF RadiusWord
    <3>4. arc.r = IF old # 0 THEN Absolute(old) ELSE Radius
      BY <3>2, <3>3 DEF Arcs
    <3>5. arc.r = Radius
      BY <3>1, <3>2, <3>4 DEF Absolute
    <3>6. QED
      BY <1>1, <1>2, <2>1, <3>5 DEF ArcInv
  <2>5. QED
    BY <2>2, <2>3, <2>4
<1>6. QED
  BY <1>3, <1>4, <1>5 DEF PathNext, SamplePath, pathVars

\* It holds in every reachable state.
LEMMA Parsing == PathSpec => []ArcInv
<1>1. PathInit => ArcInv
  BY DEF PathInit, ArcInv
<1>2. QED
  BY <1>1, ArcInvStep, PTL DEF PathSpec

\* An arc ends on its target, after a turn in the direction and of the kind its
\* words give.
THEOREM ArcsGiven == PathSpec => []ArcsAsGiven
<1>1. ArcInv => ArcsAsGiven
  <2>1. SUFFICES ASSUME ArcInv, Parsed
                 PROVE  /\ EndOf(arc) = line.end
                        /\ Absolute(arc.sweep) <= N
                        /\ IF line.type = "CCWA" THEN arc.sweep >= 0 ELSE arc.sweep < 0
                        /\ line.word = "R" =>
                             IF line.r > 0 THEN 2 * Absolute(arc.sweep) <= N
                             ELSE 2 * Absolute(arc.sweep) >= N
    BY DEF ArcsAsGiven
  <2>2. line \in ArcLines /\ \E old \in {0, Radius} : arc \in Arcs(old)
    BY <2>1 DEF ArcInv, Parsed, NoArc
  <2>3. PICK old \in {0, Radius} : arc \in Arcs(old)
    BY <2>2
  <2> DEFINE c == arc.centre
             d == Net(line.end, c)
  <2>4. /\ c \in Directions /\ Minus(line.end, c) \in Directions
        /\ arc.sweep = Sweep(line.type, c)
        /\ RadiusWord(old) # 0 => /\ RadiusWord(old) \in {Radius, -Radius}
                                  /\ OnSide(RadiusWord(old), c)
                                  /\ line.end # Start
    BY <2>1, <2>2, <2>3, ArcShape DEF Parsed
  <2>5. line.end \in Int \X Int /\ line.type \in {"CWA", "CCWA"} /\ line.r \in Int
    BY <2>2, PathAssumption
  <2>6. /\ N \in Nat \ {0} /\ d \in 0 .. N - 1 /\ Cross(line.end, c) \in Int
        /\ Cross(line.end, c) > 0 <=> d > 0 /\ 2 * d < N
        /\ Cross(line.end, c) < 0 <=> 2 * d > N
        /\ d = 0 => line.end = Start
        /\ \A s \in {d, d - N} :
             ((Rank(Minus(Start, c)) - 1 + s) % N) + 1 = Rank(Minus(line.end, c))
    BY <2>4, <2>5, NetTurn
  <2>7. arc.sweep = IF line.type = "CCWA" THEN d ELSE d - N
    BY <2>4, SweepIsNet
  <2>8. EndOf(arc) = line.end
    <3>1. arc.sweep \in {d, d - N}
      BY <2>7
    <3>2. ((Rank(Minus(Start, c)) - 1 + arc.sweep) % N) + 1 = Rank(Minus(line.end, c))
      BY <2>6, <3>1
    <3>3. EndOf(arc) = Plus(c, Circle[Rank(Minus(line.end, c))])
      BY <3>2 DEF EndOf
    <3>4. EndOf(arc) = Plus(c, Minus(line.end, c)) /\ c \in Int \X Int
      BY <2>4, <3>3, Ranked
    <3>5. Plus(c, Minus(line.end, c)) = line.end
      <4>1. PICK x \in Int, y \in Int : c = <<x, y>>
        BY <3>4
      <4>2. PICK u \in Int, v \in Int : line.end = <<u, v>>
        BY <2>5
      <4>3. Plus(c, Minus(line.end, c)) = <<x + (u - x), y + (v - y)>>
        BY <4>1, <4>2 DEF Plus, Minus
      <4>4. QED
        BY <4>2, <4>3
    <3>6. QED
      BY <3>4, <3>5
  <2> HIDE DEF c, d
  <2>9. Absolute(arc.sweep) = IF line.type = "CCWA" THEN d ELSE N - d
    BY <2>6, <2>7 DEF Absolute
  <2>10. /\ Absolute(arc.sweep) <= N
         /\ IF line.type = "CCWA" THEN arc.sweep >= 0 ELSE arc.sweep < 0
    BY <2>6, <2>7, <2>9
  <2>11. ASSUME line.word = "R"
         PROVE  IF line.r > 0 THEN 2 * Absolute(arc.sweep) <= N
                ELSE 2 * Absolute(arc.sweep) >= N
    <3>1. line.r # 0
      <4>1. Radius \in Nat \ {0}
        BY CircleAssumption
      <4>2. line.r \notin {Radius, -Radius} => line.r # 0
        BY <2>2, <2>11, PathAssumption
      <4>3. QED
        BY <4>1, <4>2
    <3>2. OnSide(line.r, c) /\ d # 0
      BY <2>4, <2>6, <2>11, <3>1 DEF RadiusWord
    <3>3. CASE line.type = "CCWA"
      <4>1. Absolute(arc.sweep) = d
        BY <2>9, <3>3
      <4>2. IF line.r > 0 THEN Cross(line.end, c) >= 0 ELSE Cross(line.end, c) <= 0
        BY <3>2, <3>3 DEF OnSide
      <4>3. QED
        BY <2>5, <2>6, <3>2, <4>1, <4>2
    <3>4. CASE line.type = "CWA"
      <4>1. Absolute(arc.sweep) = N - d
        BY <2>9, <3>4
      <4>2. IF line.r > 0 THEN Cross(line.end, c) <= 0 ELSE Cross(line.end, c) >= 0
        BY <3>2, <3>4 DEF OnSide
      <4>3. QED
        BY <2>5, <2>6, <3>2, <4>1, <4>2
    <3>5. QED
      BY <2>5, <3>3, <3>4
  <2>12. QED
    BY <2>8, <2>10, <2>11
<1>2. QED
  BY <1>1, Parsing, PTL

\* A radius has one centre on its side of a chord, and none in doubt unless the
\* chord is a diameter.
LEMMA CentresUnique ==
  ASSUME line \in ArcLines, NEW r \in {Radius, -Radius}, NEW c \in Directions,
         Minus(line.end, c) \in Directions, OnSide(r, c),
         Cross(line.end, c) # 0, line.end # Start
  PROVE  Centres(r) = {c}
<1> DEFINE exact == {k \in Directions : /\ Square(k) = r * r
                                        /\ Square(Minus(line.end, k)) = r * r
                                        /\ Side(r) * Cross(line.end, k) >= 0}
<1>1. r \in Int /\ r * r = Radius * Radius
  BY CircleAssumption
<1>2. line.end \in Int \X Int /\ c \in Int \X Int
  BY Ranked, PathAssumption
<1>3. c \in exact
  BY <1>1, CentreFound
<1>4. ASSUME NEW k \in exact PROVE k = c
  <2>1. /\ k \in Int \X Int /\ Square(k) = r * r /\ Square(Minus(line.end, k)) = r * r
        /\ Square(c) = r * r /\ Square(Minus(line.end, c)) = r * r
    BY <1>3, <1>4, Ranked
  <2>2. OnSide(r, k)
    BY <1>1, <1>4, CentreFound
  <2>3. \/ Cross(line.end, c) >= 0 /\ Cross(line.end, k) >= 0
        \/ Cross(line.end, c) <= 0 /\ Cross(line.end, k) <= 0
    BY <2>2 DEF OnSide
  <2>4. QED
    BY <1>2, <2>1, <2>3, OneCentre
<1>5. 4 * r * r # Square(line.end)
  BY <1>1, <1>2, <1>3, CentreOfDiameter
<1>6. exact = {c}
  BY <1>3, <1>4
<1>7. Centres(r) = exact
  BY <1>5, <1>6 DEF Centres
<1>8. QED
  BY <1>6, <1>7

\* A block that is parsed again goes the same way, if it turns less than half
\* around, or more and by an R word.
THEOREM PathAgain == PathSpec => SamePathAgain
<1>1. ArcInv /\ [PathNext]_pathVars =>
        [(/\ arc.centre # NoCentre /\ arc.sweep # 0
          /\ \/ 2 * Absolute(arc.sweep) < N
             \/ line.word = "R" /\ 2 * Absolute(arc.sweep) > N)
           => arc' = arc]_pathVars
  <2>1. SUFFICES ASSUME ArcInv, ParseAgain, arc.centre # NoCentre, arc.sweep # 0,
                        \/ 2 * Absolute(arc.sweep) < N
                        \/ line.word = "R" /\ 2 * Absolute(arc.sweep) > N
                 PROVE  arc' = arc
    BY DEF PathNext, SamplePath
  <2>2. line # Straight /\ line \in ArcLines /\ \E old \in {0, Radius} : arc \in Arcs(old)
    <3>1. line \in ArcLines /\ \E old \in {0, Radius} : arc \in Arcs(old)
      BY <2>1 DEF ArcInv, NoArc
    <3>2. line.type # "LINE"
      BY <3>1, PathAssumption
    <3>3. QED
      BY <3>1, <3>2 DEF Straight
  <2>3. PICK old \in {0, Radius} : arc \in Arcs(old)
    BY <2>2
  <2> DEFINE c == arc.centre
             d == Net(line.end, c)
             r == RadiusWord(Radius)
  <2>4. /\ c \in Directions /\ Minus(line.end, c) \in Directions
        /\ arc.sweep = Sweep(line.type, c) /\ arc.r = Radius
        /\ RadiusWord(old) # 0 => /\ RadiusWord(old) \in {Radius, -Radius}
                                  /\ OnSide(RadiusWord(old), c)
    BY <2>1, <2>2, <2>3, ArcShape
  <2>5. /\ line.end \in Int \X Int /\ line.type \in {"CWA", "CCWA"}
        /\ line.word \in {"R", "IJ"} /\ Radius \in Nat \ {0}
    BY <2>2, PathAssumption, CircleAssumption
  <2>6. /\ N \in Nat \ {0} /\ d \in 0 .. N - 1 /\ Cross(line.end, c) \in Int
        /\ Cross(line.end, c) > 0 <=> d > 0 /\ 2 * d < N
        /\ Cross(line.end, c) < 0 <=> 2 * d > N
        /\ line.end = Start => Cross(line.end, c) = 0
    <3>1. line.end = Start => Cross(line.end, c) = 0
      <4>1. c \in Int \X Int
        BY <2>4, Ranked
      <4>2. PICK x \in Int, y \in Int : c = <<x, y>>
        BY <4>1
      <4>3. QED
        BY <4>2 DEF Cross, Start
    <3>2. QED
      BY <2>4, <2>5, <3>1, NetTurn
  <2>7. arc.sweep = IF line.type = "CCWA" THEN d ELSE d - N
    BY <2>4, SweepIsNet
  <2> HIDE DEF c, d
  <2>8. Absolute(arc.sweep) = IF line.type = "CCWA" THEN d ELSE N - d
    BY <2>6, <2>7 DEF Absolute
  <2>9. ASSUME 2 * Absolute(arc.sweep) < N PROVE OnSide(Radius, c) /\ Cross(line.end, c) # 0
    <3>1. CASE line.type = "CCWA"
      <4>1. Cross(line.end, c) > 0
        BY <2>1, <2>6, <2>7, <2>8, <2>9, <3>1
      <4>2. QED
        BY <2>5, <2>6, <3>1, <4>1 DEF OnSide
    <3>2. CASE line.type = "CWA"
      <4>1. Cross(line.end, c) < 0
        BY <2>6, <2>8, <2>9, <3>2
      <4>2. QED
        BY <2>5, <2>6, <3>2, <4>1 DEF OnSide
    <3>3. QED
      BY <2>5, <3>1, <3>2
  <2>10. r \in {Radius, -Radius} /\ OnSide(r, c) /\ Cross(line.end, c) # 0
    <3>1. CASE line.word = "R"
      <4>1. RadiusWord(old) = r /\ r # 0
        <5>1. line.r # 0
          <6>1. line.r \notin {Radius, -Radius} => line.r # 0
            BY <2>2, <3>1, PathAssumption
          <6>2. QED
            BY <2>5, <6>1
        <5>2. QED
          BY <3>1, <5>1 DEF RadiusWord
      <4>2. Cross(line.end, c) # 0
        <5>1. 2 * d # N /\ d # 0
          <6>1. CASE line.type = "CCWA"
            BY <2>1, <2>6, <2>7, <2>8, <6>1
          <6>2. CASE line.type = "CWA"
            <7>1. 2 * d # N
              BY <2>1, <2>5, <2>6, <2>8, <6>2
            <7>2. line.end # Start
              BY <2>2, <2>3, <2>1, <4>1, ArcShape
            <7>3. d # 0
              BY <2>4, <2>5, <7>2, NetTurn DEF c, d
            <7>4. QED
              BY <7>1, <7>3
          <6>3. QED
            BY <2>5, <6>1, <6>2
        <5>2. QED
          BY <2>6, <5>1
      <4>3. QED
        BY <2>4, <4>1, <4>2
    <3>2. CASE line.word = "IJ"
      BY <2>1, <2>5, <2>9, <3>2 DEF RadiusWord
    <3>3. QED
      BY <2>5, <3>1, <3>2
  <2>11. Centres(r) = {c}
    BY <2>2, <2>4, <2>6, <2>10, CentresUnique
  <2>12. arc' \in Arcs(Radius)
    BY <2>1, <2>2, <2>4 DEF ParseAgain
  <2>13. \A a \in Arcs(Radius) : a = [r |-> Absolute(r), centre |-> c,
                                      sweep |-> Sweep(line.type, c)]
    <3>1. r # 0 /\ c # NoCentre
      BY <2>1, <2>5, <2>10 DEF c
    <3>2. QED
      BY <2>11, <3>1 DEF Arcs
  <2>14. arc = [r |-> Radius, centre |-> c, sweep |-> Sweep(line.type, c)]
    <3>1. arc = [r |-> arc.r, centre |-> arc.centre, sweep |-> arc.sweep]
      BY <2>3 DEF Arcs
    <3>2. QED
      BY <2>4, <3>1 DEF c
  <2>15. Absolute(r) = Radius
    BY <2>5, <2>10 DEF Absolute
  <2>16. QED
    BY <2>12, <2>13, <2>14, <2>15
<1>2. QED
  BY <1>1, Parsing, PTL DEF PathSpec, SamePathAgain
=============================================================================
