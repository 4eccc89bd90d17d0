------------------------------ MODULE Machine ------------------------------
(***************************************************************************)
(* The machine as the controller sees it (machine.cpp): the setpoint it    *)
(* commands and the position and positioning error it last computed, with  *)
(* the FMU simulator at the other end of the MADS broker.  Without an      *)
(* agent (a local configuration file) nothing is published and nothing is  *)
(* ever received.                                                          *)
(***************************************************************************)
EXTENDS Program

CONSTANTS
  HasAgent,    \* the machine was built from a tcp:// address
  Lossy,       \* a message may be lost, late or malformed
  NearErrors,  \* errors of a position that is at the setpoint
  FarErrors    \* errors of a position that is not

VARIABLES
  setpoint,    \* _setpoint
  position,    \* _position, NoPoint while a coordinate is missing
  error,       \* _error
  fmuCmd,      \* the last setpoint that reached the FMU
  fmuPos       \* where the FMU's machine is

machVars == <<setpoint, position, error, fmuCmd, fmuPos>>

Complete == Points \cup {Elsewhere}

ASSUME MachineAssumption ==
  /\ HasAgent \in BOOLEAN /\ Lossy \in BOOLEAN
  /\ NearErrors \subseteq 0 .. (MaxError - 1) /\ NearErrors # {}
  /\ FarErrors \subseteq Nat /\ FarErrors # {}
  /\ \A e \in FarErrors : e >= MaxError

MachineTypeOK ==
  /\ setpoint \in Complete \cup {NoPoint, NaNPoint}
  /\ position \in Complete \cup {NoPoint}
  /\ error \in NearErrors \cup FarErrors \cup {NaN}
  /\ fmuCmd \in Complete
  /\ fmuPos \in Complete

\* Mutant of MachineInit: the error starts as 0.
MachineInitNoError ==
  /\ setpoint = NoPoint
  /\ position = NoPoint
  /\ error = 0
  /\ fmuCmd = Zero
  /\ fmuPos \in {Zero, Elsewhere}

MachineInit ==
  /\ setpoint = NoPoint
  /\ position = NoPoint
  /\ error = NaN
  /\ fmuCmd = Zero
  /\ fmuPos \in {Zero, Elsewhere}

\* |setpoint - position|, NaN when the subtraction throws or gives no number.
\* Two points that are both Elsewhere may or may not be close.
ErrorsOf(s, p) ==
  IF s \in {NoPoint, NaNPoint} \/ p = NoPoint THEN {NaN}
  ELSE (IF s = p THEN NearErrors ELSE {})
       \cup (IF s # p \/ s = Elsewhere THEN FarErrors ELSE {})

\* error() < max_error(), false for NaN.
WithinMaxError(e) == e # NaN /\ e < MaxError

\* One exchange with the broker: whether the setpoint arrives, and what is
\* received within the timeout: the FMU's state, one of before or after the
\* call (an old message, or a move while receive() waits), nothing new (the
\* last message is parsed again or the parsing throws), or a state of which
\* only some coordinates could be read before the exception.
Exchange == [sent : BOOLEAN, got : {"state", "other", "nothing", "torn"}]
Delivered == [sent |-> TRUE, got |-> "state"]
Exchanges == IF HasAgent /\ Lossy THEN Exchange ELSE {Delivered}

\* The x, y and z of a received state are assigned one by one.
PositionsAfter(x) ==
  CASE x.got = "state"   -> {fmuPos}
    [] x.got = "other"   -> Complete
    [] x.got = "nothing" -> {position}
    [] x.got = "torn"    -> IF position = NoPoint THEN {NoPoint} ELSE Complete

\* What the FMU makes of a setpoint: JSON has no NaN, it reads nulls.
Understood(p) == IF p = NaNPoint THEN {fmuCmd, Elsewhere} ELSE {p}

\* sync(): publish the command, receive, recompute the error.
Sync(p, x) ==
  /\ fmuCmd' \in IF x.sent THEN Understood(p) ELSE {fmuCmd}
  /\ position' \in PositionsAfter(x)
  /\ error' \in ErrorsOf(p, position')
  /\ UNCHANGED fmuPos

\* set_setpoint() throws while building the command from an incomplete point,
\* after _setpoint was assigned.
SetpointThrows(p) == HasAgent /\ p = NoPoint

\* set_setpoint(p), through exchange x when there is an agent.
SetSetpoint(p, x) ==
  /\ setpoint' = p
  /\ IF HasAgent /\ p # NoPoint
     THEN Sync(p, x)
     ELSE UNCHANGED <<position, error, fmuCmd, fmuPos>>

\* reset(): what the FMU does then is its own affair.
ResetMachine(x) ==
  /\ fmuCmd' \in IF x.sent THEN Complete ELSE {fmuCmd}
  /\ position' \in PositionsAfter(x)
  /\ error' \in ErrorsOf(setpoint, position')
  /\ UNCHANGED <<setpoint, fmuPos>>

\* The simulated machine moves to p.
FmuMove(p) ==
  /\ HasAgent
  /\ fmuPos' = p
  /\ UNCHANGED <<setpoint, position, error, fmuCmd>>

-----------------------------------------------------------------------------
\* The machine on its own, as an abstract specification: every call is one
\* step, and its error is that of the setpoint and the position it leaves.
MachineNext ==
  \/ \E x \in Exchanges :
       \/ \E p \in Complete \cup {NoPoint, NaNPoint} : SetSetpoint(p, x)
       \/ ResetMachine(x)
  \/ \E p \in Complete : FmuMove(p)

MachineSpec == MachineInit /\ [][MachineNext]_machVars
=============================================================================
