------------------------------ MODULE FsmGraph -----------------------------
(***************************************************************************)
(* What fsm.dot promises of the controller: its states and the edges drawn *)
(* between them, and the emergency edges to STOP that SIGINT adds in the   *)
(* states whose generated header comment announces one.                    *)
(***************************************************************************)

VARIABLE state

States == {"INIT", "IDLE", "LOAD_BLOCK", "RAPID_MOTION", "INTERP_MOTION",
           "NO_MOTION", "GO_TO_ZERO", "STOP"}

\* The states whose wrapper has a "SIGINT transition override".
Interruptible == {"IDLE", "RAPID_MOTION", "INTERP_MOTION", "GO_TO_ZERO"}

\* The edges of fsm.dot.
Edge ==
  {<<"INIT", "IDLE">>, <<"INIT", "STOP">>,
   <<"IDLE", "IDLE">>, <<"IDLE", "LOAD_BLOCK">>, <<"IDLE", "STOP">>,
   <<"IDLE", "GO_TO_ZERO">>,
   <<"LOAD_BLOCK", "NO_MOTION">>, <<"NO_MOTION", "LOAD_BLOCK">>,
   <<"LOAD_BLOCK", "RAPID_MOTION">>, <<"RAPID_MOTION", "RAPID_MOTION">>,
   <<"RAPID_MOTION", "LOAD_BLOCK">>,
   <<"LOAD_BLOCK", "INTERP_MOTION">>, <<"INTERP_MOTION", "INTERP_MOTION">>,
   <<"INTERP_MOTION", "LOAD_BLOCK">>, <<"LOAD_BLOCK", "IDLE">>,
   <<"GO_TO_ZERO", "GO_TO_ZERO">>, <<"GO_TO_ZERO", "IDLE">>}

Emergency == Interruptible \X {"STOP"}

Init == state = "INIT"

Follow(s) ==
  /\ <<state, s>> \in Edge \cup Emergency
  /\ state' = s

Next == \E s \in States : Follow(s)

Spec == Init /\ [][Next]_state
=============================================================================
