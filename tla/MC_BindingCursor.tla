-------------------------- MODULE MC_BindingCursor ----------------------------
(* The instance of BindingCursor for TLC.                                   *)
EXTENDS BindingCursor, MC_Lines
===============================================================================
