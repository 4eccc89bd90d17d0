---------------------------- MODULE MC_BlockPath ----------------------------
(* An instance of BlockPath for TLC: the blocks of MC_MotionProfile, straight *)
(* or along the circle of radius 5 with its twelve integer points.            *)
EXTENDS BlockPath

Motion(l, word) == [l |-> l, word |-> word, r |-> 0]
Along(l, word, r) == [l |-> l, word |-> word, r |-> r]

\* Short blocks of square length, the length where the profile changes from
\* triangle to trapezoid, and long blocks, at three feedrates; arcs that keep
\* their F word and arcs slowed down.
MCMotions ==
  {Motion(w * w, f) : w \in 1 .. 2, f \in 2 .. 3} \cup {Motion(9, 3)}
    \cup {Motion(l, 1) : l \in 2 .. 9} \cup {Motion(l, 2) : l \in 5 .. 16}
    \cup {Motion(l, 3) : l \in 10 .. 24}
    \cup {Along(l, 3, 1) : l \in 2 .. 4} \cup {Along(l, 3, 4) : l \in 4 .. 6}
    \cup {Along(4, 2, 9), Along(11, 2, 9)}

MCCircle ==
  <<<<-4, -3>>, <<-3, -4>>, <<0, -5>>, <<3, -4>>, <<4, -3>>, <<5, 0>>,
    <<4, 3>>, <<3, 4>>, <<0, 5>>, <<-3, 4>>, <<-4, 3>>, <<-5, 0>>>>

\* From a corner and from the side of the circle to each of its points.
From == {Circle[5], Circle[6]}
Ends == {Minus(d, f) : d \in Directions, f \in From}

ArcLine(type, end, word, r, c) ==
  [type |-> type, end |-> end, word |-> word, r |-> r, i |-> c[1], j |-> c[2]]

MCArcLines ==
  UNION {
    {ArcLine(t, Minus(d, f), "IJ", 0, Minus(Start, f)) : d \in Directions, f \in From}
    \cup {ArcLine(t, e, "R", r, Start) : e \in Ends, r \in {5, -5}}
    \cup {ArcLine(t, e, "R", 1, Start) : e \in {x \in Ends : Square(x) > 4}}
    : t \in {"CWA", "CCWA"}}
=============================================================================
