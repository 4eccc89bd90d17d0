---------------------------- MODULE MC_MadsLink -----------------------------
(* An instance of MadsLink for TLC: one point and elsewhere.                *)
EXTENDS MadsLink

CONSTANT zero

MCPoints == {zero}
=============================================================================
