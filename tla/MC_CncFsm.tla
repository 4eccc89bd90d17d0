------------------------------ MODULE MC_CncFsm ----------------------------
(* Instances of CncFsm for TLC: a few program files made of a few lines.   *)
EXTENDS CncFsm

CONSTANTS zero, a

MCPoints == {zero, a}

Words(n, g, pt, full, ticks) ==
  [n |-> n, g |-> g, nAfterG |-> FALSE, pt |-> pt, full |-> full,
   ticks |-> ticks, mismatch |-> 0, sweeps |-> TRUE, bad |-> "none"]

RapidA   == Words(1, RAPID, a, TRUE, 1)
RapidZ   == Words(Absent, RAPID, zero, TRUE, 1)
LineZ    == Words(Absent, LINE, zero, FALSE, 2)
LineA    == Words(Absent, LINE, a, FALSE, 1)
Remark   == Words(Absent, Absent, NoPoint, FALSE, 1)
SpindleN == Words(7, Absent, NoPoint, FALSE, 1)
ArcOff   == [LineA EXCEPT !.g = CWA, !.mismatch = 2]
FeedOnly == Words(Absent, LINE, NoPoint, FALSE, 1)
BadRapid == [RapidZ EXCEPT !.full = FALSE, !.bad = "last"]
BadLine  == [LineZ EXCEPT !.bad = "last"]
BadWord  == [RapidA EXCEPT !.bad = "first"]

\* Every kind of block, programs that end early, and files that fail to parse
\* at each kind of block.
MCFiles == {<<RapidA, LineZ, LineA>>, <<LineA, SpindleN, RapidZ>>,
            <<RapidA, Remark, BadLine>>, <<LineA, BadRapid>>,
            <<RapidA, BadWord>>, <<LineA, ArcOff, LineZ>>,
            <<LineA, FeedOnly, LineZ>>, <<>>}

SmallFiles == {<<RapidA, LineZ>>, <<LineA, SpindleN>>, <<RapidA, BadRapid>>}
=============================================================================
