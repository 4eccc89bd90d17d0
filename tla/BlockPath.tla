------------------------------ MODULE BlockPath -----------------------------
(***************************************************************************)
(* A LINE or arc block of a client, from its parsing to its samples and    *)
(* through its next parsing: the circle calc_arc finds, with the profile   *)
(* of MotionProfile along it.  The arcs are of one radius, between the     *)
(* points of a circle that have integer coordinates; angles are ranks of   *)
(* these points, which keeps their order, opposite ones and a full turn.   *)
(***************************************************************************)
EXTENDS MotionProfile, Sequences

CONSTANTS
  Circle,   \* the directions of these points, in the order of atan2
  Radius,
  ArcLines  \* words of arcs: [type, end, word, r, i, j], from the origin

VARIABLES
  line,     \* the words of the arc, or those of a line
  arc       \* _r, _center (or NoCentre) and _dtheta

pathVars == <<vars, line, arc>>

N == Len(Circle)
Directions == {Circle[k] : k \in 1 .. N}
NoCentre == <<>>
Straight == [type |-> "LINE"]

Plus(p, q)  == <<p[1] + q[1], p[2] + q[2]>>
Minus(p, q) == <<p[1] - q[1], p[2] - q[2]>>
Cross(p, q) == p[1] * q[2] - p[2] * q[1]
Square(p)   == p[1] * p[1] + p[2] * p[2]
Start       == <<0, 0>>

\* The circle is all of its integer points, and by their ranks a point is less
\* than half a turn ahead of those that have it on their left.
ASSUME CircleAssumption ==
  /\ Radius \in Nat \ {0}
  /\ Circle \in Seq(Int \X Int)
  /\ Directions =
       {d \in (-Radius .. Radius) \X (-Radius .. Radius) : Square(d) = Radius * Radius}
  /\ \A k, l \in 1 .. N :
       Cross(Circle[k], Circle[l]) > 0 <=> 0 < (l - k) % N /\ 2 * ((l - k) % N) < N

\* The end is on the circle of I and J; a radius given by R is that of the
\* circle or less than half the chord.
ASSUME PathAssumption ==
  \A a \in ArcLines :
    /\ a.type \in {"CWA", "CCWA"} /\ a.word \in {"R", "IJ"}
    /\ a.end \in Int \X Int /\ a.r \in Int
    /\ a.word = "IJ" => /\ <<a.i, a.j>> \in Directions
                        /\ Minus(a.end, <<a.i, a.j>>) \in Directions
    /\ a.word = "R" /\ a.r \notin {Radius, -Radius} =>
         a.r # 0 /\ 4 * a.r * a.r < Square(a.end)

-----------------------------------------------------------------------------
Rank(d) == CHOOSE k \in 1 .. N : Circle[k] = d

\* _dtheta: counterclockwise to the end, or its complement to a full turn.
Sweep(type, centre) ==
  LET net == (Rank(Minus(line.end, centre)) - Rank(Minus(Start, centre))) % N
  IN  IF type = "CCWA" THEN net ELSE net - N

\* Mutant of Side: the sign table is read without the type.
SideOfRadius(r) == IF r > 0 THEN 1 ELSE -1

\* On which side of the chord the centre is: 1 on the left.
Side(r) == IF (r > 0) = (line.type = "CCWA") THEN 1 ELSE -1

\* The centres a radius r may give: on the given side of the chord and as far
\* from both ends.  A chord of no length, or one longer than twice the radius,
\* gives coordinates that are no numbers; one of twice the radius may, the
\* square root being of 0 or of a rounding error.
Centres(r) ==
  LET opposite == 4 * r * r = Square(line.end)
      exact == {c \in Directions : /\ Square(c) = r * r
                                   /\ Square(Minus(line.end, c)) = r * r
                                   /\ Side(r) * Cross(line.end, c) >= 0}
  IN  IF line.end = Start \/ exact = {} THEN {NoCentre}
      ELSE exact \cup (IF opposite THEN {NoCentre} ELSE {})

\* Mutant of RadiusWord: a radius found before stands.
RadiusWordOnce(old) ==
  IF line.word = "R" /\ old = 0 THEN line.r ELSE old

\* _r once the words are read: I and J leave it as it was.
RadiusWord(old) == IF line.word = "R" THEN line.r ELSE old

Absolute(r) == IF r < 0 THEN -r ELSE r

\* calc_arc, in a block whose radius was old: without a radius I and J give the
\* centre.  A radius that is a number is never refused.
Arcs(old) ==
  LET r == RadiusWord(old)
      found == IF r # 0 THEN Centres(r) ELSE {<<line.i, line.j>>}
  IN  {[r |-> IF r # 0 THEN Absolute(r) ELSE Radius, centre |-> c,
        sweep |-> IF c = NoCentre THEN 0 ELSE Sweep(line.type, c)] : c \in found}

NoArc == [r |-> 0, centre |-> NoCentre, sweep |-> 0]

\* An arc without a centre, or that does not turn, has no profile.
HasPath == line = Straight \/ (arc.centre # NoCentre /\ arc.sweep # 0)

\* A block parsed for the first time.
PathInit ==
  /\ Init
  /\ line \in {Straight} \cup (IF profile.motion.r > 0 THEN ArcLines ELSE {})
  /\ arc \in IF line = Straight THEN {NoArc} ELSE Arcs(0)

-----------------------------------------------------------------------------
\* Motions of the same words.
SameWords(m) == {k \in Motions : k.word = m.word /\ k.r = m.r}

\* Block::parse of the block once more: an arc that changes has another length.
ParseAgain ==
  /\ pc \in {"done", "walked"} \/ ~HasPath
  /\ arc' \in IF line = Straight THEN {NoArc} ELSE Arcs(arc.r)
  /\ profile' \in UNION {Profiles(m) : m \in IF arc' = arc THEN {profile.motion}
                                              ELSE SameWords(profile.motion)}
  /\ pc' \in {"run", "walk"}
  /\ time' = 0 /\ walked' = 0 /\ speed' = 0
  /\ UNCHANGED line

\* The samples of a parsed block.
SamplePath ==
  /\ HasPath
  /\ InterpTick \/ WalkTick \/ WalkReturns
  /\ UNCHANGED <<line, arc>>

PathNext == ParseAgain \/ SamplePath

PathSpec == PathInit /\ [][PathNext]_pathVars

-----------------------------------------------------------------------------
\* Where interpolate(1) of an arc is.
EndOf(a) ==
  Plus(a.centre, Circle[((Rank(Minus(Start, a.centre)) - 1 + a.sweep) % N) + 1])

Parsed == arc.centre # NoCentre

\* A parsed arc with a centre ends on the block's target, after a turn in the
\* direction of its type (a closed one: clockwise only).  If an R word gives
\* it, a positive radius takes it half around at most, and a negative one at
\* least, as the table of signs in calc_arc wants.
ArcsAsGiven ==
  Parsed =>
    /\ EndOf(arc) = line.end
    /\ Absolute(arc.sweep) <= N
    /\ IF line.type = "CCWA" THEN arc.sweep >= 0 ELSE arc.sweep < 0
    /\ line.word = "R" => IF line.r > 0 THEN 2 * Absolute(arc.sweep) <= N
                          ELSE 2 * Absolute(arc.sweep) >= N

\* A block that is parsed again goes the same way, although the radius found
\* before takes the place of I and J: for these it is so only of less than half
\* a turn, and half a turn may have no centre the next time.
SamePathAgain ==
  [][(/\ arc.centre # NoCentre /\ arc.sweep # 0
      /\ \/ 2 * Absolute(arc.sweep) < N
         \/ line.word = "R" /\ 2 * Absolute(arc.sweep) > N)
       => arc' = arc]_pathVars
=============================================================================
