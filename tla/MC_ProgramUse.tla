---------------------------- MODULE MC_ProgramUse -----------------------------
(* Instances of ProgramUse for TLC.                                         *)
EXTENDS ProgramUse, MC_Lines

SpindleN == Words(2, Absent, NoPoint)

\* Every program keeps the order of words N, G.
TypeFiles == {<<Numbered, Higher>>, <<Plain, SpindleN>>}
=============================================================================
