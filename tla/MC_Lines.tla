------------------------------- MODULE MC_Lines -------------------------------
(* Lines and files for the instances of ProgramUse and BindingCursor: lines  *)
(* with and without numbers, arcs that miss their target by less and by     *)
(* more than the tolerance, and lines that fail to parse in each of the     *)
(* ways a line can.                                                         *)
EXTENDS Gcode

CONSTANTS zero, a

MCPoints == {zero, a}

Words(n, g, pt) ==
  [n |-> n, g |-> g, nAfterG |-> FALSE, pt |-> pt, full |-> (pt # NoPoint),
   ticks |-> 1, mismatch |-> 0, sweeps |-> TRUE, bad |-> "none"]

Numbered   == Words(1, LINE, a)
Higher     == Words(3, RAPID, NoPoint)
Wrapping   == Words(-1, LINE, zero)
Plain      == Words(Absent, RAPID, a)
Unnumbered == Words(Absent, Absent, NoPoint)
ArcSlight  == [Words(Absent, CCWA, a) EXCEPT !.mismatch = 1]
ArcOff     == [Words(Absent, CWA, a) EXCEPT !.mismatch = 3]
NumberLast == [Words(2, RAPID, a) EXCEPT !.nAfterG = TRUE]
BadFirst   == [Plain EXCEPT !.bad = "first"]
BadLast    == [Words(2, LINE, zero) EXCEPT !.bad = "last"]

\* Every N word is followed by a G word.
MCFiles == {<<Numbered, Plain, Higher>>, <<Wrapping, Unnumbered>>,
            <<Plain, ArcSlight>>, <<ArcOff, Plain>>, <<Plain, BadFirst>>,
            <<NumberLast, BadLast>>}
===============================================================================
