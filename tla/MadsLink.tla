------------------------------ MODULE MadsLink -----------------------------
(***************************************************************************)
(* The machine's link to the FMU simulator, step by step (connect, sync,   *)
(* set_setpoint, reset and send_metrics of machine.cpp): what is published *)
(* and received through the MADS broker while the simulator runs at its    *)
(* own pace.  The agent keeps at most HighWatermark messages for receive() *)
(* and the last one it returned; the broker also sends it its own metrics, *)
(* published on the simulator's topic.  Shown to implement Machine, where  *)
(* a call is one step.                                                     *)
(***************************************************************************)
EXTENDS Gcode

CONSTANTS
  NearErrors, FarErrors,   \* as in Machine
  None,                    \* no rapid under way, no setpoint in a command
  WireCap                  \* bound of the messages on their way to the agent

VARIABLES
  step,        \* where the thread is; "aborted" after an uncaught exception
  call,        \* the call made last
  setpoint, position, error,    \* _setpoint, _position, _error
  command,     \* _command: fmu_input.setpoint and fmu_reset
  last,        \* _agent->last_message()
  queue,       \* what the agent holds for receive()
  wire,        \* on the way to the agent
  fmuCmd,      \* the last setpoint that reached the FMU
  fmuPos,      \* where the FMU's machine is
  goal,        \* the target of the rapid under way
  before       \* history: setpoint and fmuCmd before the call under way

ASSUME LinkAssumption ==
  /\ None \notin Points
  /\ WireCap \in Nat

thread == <<step, call, setpoint, position, error, command, goal, before>>
agent  == <<last, queue>>
fmu    == <<fmuCmd, fmuPos>>
vars   == <<thread, agent, wire, fmu>>

HighWatermark == 1

\* A call of the abstract machine happens when its sync() returns.
InCall == step = "receive"

Abs == INSTANCE Machine WITH
         HasAgent <- TRUE, Lossy <- TRUE,
         blocks <- <<>>, current <- 0, done <- FALSE, rest <- <<>>,
         setpoint <- IF InCall THEN before.setpoint ELSE setpoint,
         fmuCmd   <- IF InCall THEN before.fmuCmd ELSE fmuCmd

Complete == Abs!Complete

\* What may come on the FMU's topic: a state, one of which a coordinate of the
\* position cannot be read, and the agent's own metrics.  No message yet.
State(p) == [kind |-> "state", at |-> p]
Partial  == [kind |-> "partial", at |-> NoPoint]
Own      == [kind |-> "metrics", at |-> NoPoint]
Empty    == [kind |-> "empty", at |-> NoPoint]
Messages == {State(p) : p \in Complete} \cup {Partial, Own}

Command == [setpoint : Complete \cup {NaNPoint, None}, reset : BOOLEAN]

\* clear_command()
Cleared == [setpoint |-> None, reset |-> FALSE]

Init ==
  /\ step = "boot" /\ call = "connect"
  /\ setpoint = NoPoint /\ position = NoPoint /\ error = NaN
  /\ command = Cleared
  /\ last = Empty /\ queue = <<>> /\ wire = <<>>
  /\ fmuCmd = Zero /\ fmuPos \in {Zero, Elsewhere}
  /\ goal = None
  /\ before = [setpoint |-> NoPoint, fmuCmd |-> Zero]

-----------------------------------------------------------------------------
\* The thread.

\* connect(): the settings of the broker may be refused.
Connect ==
  /\ step = "boot"
  /\ command' = Cleared
  /\ step' \in {"idle", "aborted"}
  /\ UNCHANGED <<call, setpoint, position, error, goal, before, agent, wire,
                 fmu>>

\* Where a call returns to: a rapid repeats it until the error is small.
Resume(e) ==
  IF goal = None THEN "idle"
  ELSE IF Abs!WithinMaxError(e) THEN "end" ELSE "tick"

\* Mutant of Settle: the error is computed before the position is assigned.
SettleEarly ==
  /\ error' \in Abs!ErrorsOf(setpoint', position)
  /\ command' = Cleared
  /\ step' = Resume(error')
  /\ before' = [setpoint |-> NoPoint, fmuCmd |-> Zero]

\* Mutant of Settle: only the setpoint of the command is cleared.
SettleKeepsReset ==
  /\ error' \in Abs!ErrorsOf(setpoint', position')
  /\ command' = [command EXCEPT !.setpoint = None]
  /\ step' = Resume(error')
  /\ before' = [setpoint |-> NoPoint, fmuCmd |-> Zero]

\* The end of sync(), reached whatever was thrown before it.
Settle ==
  /\ error' \in Abs!ErrorsOf(setpoint', position')
  /\ command' = Cleared
  /\ step' = Resume(error')
  /\ before' = [setpoint |-> NoPoint, fmuCmd |-> Zero]

\* Mutant of Publish: the exception of publish leaves sync().
PublishEscapes(c, meant, how) ==
  IF how = "throws"
  THEN step' = "aborted" /\ UNCHANGED <<fmuCmd, position, error, command, before>>
  ELSE /\ command' = c
       /\ fmuCmd' \in IF how = "arrives" THEN meant ELSE {fmuCmd}
       /\ before' = [setpoint |-> setpoint, fmuCmd |-> fmuCmd]
       /\ step' = "receive"
       /\ UNCHANGED <<position, error>>

\* The beginning of sync(): command c is published, and means to the FMU one of
\* the setpoints in meant.  It may be lost; publish may throw, which skips
\* receive().
Publish(c, meant, how) ==
  IF how = "throws"
  THEN UNCHANGED <<fmuCmd, position>> /\ Settle
  ELSE /\ command' = c
       /\ fmuCmd' \in IF how = "arrives" THEN meant ELSE {fmuCmd}
       /\ before' = [setpoint |-> setpoint, fmuCmd |-> fmuCmd]
       /\ step' = "receive"
       /\ UNCHANGED <<position, error>>

Outcomes == {"arrives", "lost", "throws"}

\* set_setpoint(p): a missing coordinate throws after _setpoint was assigned.
SetSetpoint(p, how) ==
  /\ call' = "set"
  /\ setpoint' = p
  /\ IF p = NoPoint
     THEN step' = "aborted"
          /\ UNCHANGED <<position, error, command, before, fmuCmd>>
     ELSE Publish([setpoint |-> p, reset |-> command.reset],
                  Abs!Understood(p), how)
  /\ UNCHANGED <<goal, agent, wire, fmuPos>>

\* reset()
Reset(how) ==
  /\ step = "idle"
  /\ call' = "reset"
  /\ UNCHANGED <<setpoint, goal, agent, wire, fmuPos>>
  /\ Publish([setpoint |-> command.setpoint, reset |-> TRUE], Complete, how)

\* x, y and z are assigned one by one: a state that lacks one leaves a mixture
\* of two positions, one without any leaves the position as it is.
PositionsFrom(m) ==
  CASE m.kind = "state"   -> {m.at}
    [] m.kind = "partial" -> IF position = NoPoint THEN {NoPoint} ELSE Complete
    [] OTHER              -> {position}

\* Mutant of Receive: the message received is not kept.
ReceiveForgets ==
  /\ step = "receive"
  /\ queue' = IF queue = <<>> THEN queue ELSE Tail(queue)
  /\ position' \in PositionsFrom(last)
  /\ UNCHANGED <<call, setpoint, goal, last, wire, fmu>>
  /\ Settle

\* receive() and the parsing: after the timeout the last message once more.
Receive ==
  /\ step = "receive"
  /\ IF queue = <<>> THEN UNCHANGED agent
     ELSE last' = Head(queue) /\ queue' = Tail(queue)
  /\ position' \in PositionsFrom(last')
  /\ UNCHANGED <<call, setpoint, goal, wire, fmu>>
  /\ Settle

\* receive() or the parsing throws.
ReceiveThrows ==
  /\ step = "receive"
  /\ UNCHANGED <<call, setpoint, position, goal, agent, wire, fmu>>
  /\ Settle

\* send_metrics, outside any handler.  The message comes back, unless it is
\* lost.
SendMetrics(next) ==
  /\ call' = "metrics"
  /\ \/ step' = "aborted" /\ UNCHANGED wire
     \/ step' = next /\ UNCHANGED wire
     \/ step' = next /\ Len(wire) < WireCap /\ wire' = Append(wire, Own)
  /\ UNCHANGED <<setpoint, position, error, command, before, agent, fmu>>

\* do_load_block
ReportLine == step = "idle" /\ SendMetrics("idle") /\ UNCHANGED goal

\* begin_rapid
BeginRapid(p) == step = "idle" /\ goal' = p /\ SendMetrics("tick")

\* end_rapid
EndRapid == step = "end" /\ goal' = None /\ SendMetrics("idle")

\* do_rapid_motion
RapidTick(how) == step = "tick" /\ SetSetpoint(goal, how)

\* A setpoint of an interpolated block, or of a block that was not parsed.
OtherSetpoint(p, how) == step = "idle" /\ SetSetpoint(p, how)

-----------------------------------------------------------------------------
\* The other end.

\* The simulator moves as long as it is not at its command.
FmuMove(p) ==
  /\ fmuPos # fmuCmd
  /\ fmuPos' = p
  /\ UNCHANGED <<thread, agent, wire, fmuCmd>>

\* The simulator publishes its state, or part of it, and it gets on the wire: a
\* message that is lost is none.
FmuPublish(m) ==
  /\ m \in {State(fmuPos), Partial}
  /\ Len(wire) < WireCap
  /\ wire' = Append(wire, m)
  /\ UNCHANGED <<thread, agent, fmu>>

\* The agent takes a message in as long as it holds less than it may.
Deliver ==
  /\ step # "boot"
  /\ wire # <<>>
  /\ Len(queue) < HighWatermark
  /\ queue' = Append(queue, Head(wire))
  /\ wire' = Tail(wire)
  /\ UNCHANGED <<thread, last, fmu>>

\* The process is gone.
Gone == step = "aborted" /\ UNCHANGED vars

Next ==
  \/ Connect
  \/ \E how \in Outcomes :
       \/ \E p \in Complete \cup {NoPoint, NaNPoint} : OtherSetpoint(p, how)
       \/ RapidTick(how) \/ Reset(how)
  \/ Receive \/ ReceiveThrows
  \/ ReportLine \/ EndRapid \/ \E p \in Points : BeginRapid(p)
  \/ \E p \in Complete : FmuMove(p)
  \/ \E m \in Messages : FmuPublish(m)
  \/ Deliver \/ Gone

Spec == Init /\ [][Next]_vars

\* What the thread does in a rapid.
InRapid ==
  \/ Receive \/ ReceiveThrows \/ EndRapid
  \/ \E how \in Outcomes : RapidTick(how)

\* The thread goes on in a rapid, and the simulator comes to a command that
\* stays; a setpoint or a state that is published over and over is not lost each
\* time, and receive() does not throw each time.
Fairness ==
  /\ WF_vars(InRapid)
  /\ SF_vars(RapidTick("arrives"))
  /\ WF_vars(FmuMove(fmuCmd))
  /\ SF_vars(FmuPublish(State(fmuPos)))
  /\ WF_vars(Deliver)
  /\ SF_vars(Receive)

FairSpec == Spec /\ Fairness

-----------------------------------------------------------------------------
\* Properties.

TypeOK ==
  /\ step \in {"boot", "idle", "tick", "receive", "end", "aborted"}
  /\ call \in {"connect", "set", "reset", "metrics"}
  /\ setpoint \in Complete \cup {NoPoint, NaNPoint}
  /\ position \in Complete \cup {NoPoint}
  /\ error \in NearErrors \cup FarErrors \cup {NaN}
  /\ command \in Command
  /\ last \in Messages \cup {Empty}
  /\ queue \in Seq(Messages) /\ Len(queue) <= HighWatermark
  /\ wire \in Seq(Messages) /\ Len(wire) <= WireCap
  /\ fmuCmd \in Complete /\ fmuPos \in Complete
  /\ goal \in Points \cup {None}
  /\ before \in [setpoint : Complete \cup {NoPoint, NaNPoint}, fmuCmd : Complete]

\* What is published is the order of the call under way and nothing left over
\* from an earlier one, whatever exceptions ended those.
PublishedIsOrdered ==
  InCall =>
    command = IF call = "reset" THEN [setpoint |-> None, reset |-> TRUE]
              ELSE [setpoint |-> setpoint, reset |-> FALSE]

\* No message, timeout or exception of an exchange ends the process: only
\* connecting, reporting, and an incomplete setpoint do.
DiesOutsideSync ==
  step = "aborted" =>
    call \in {"connect", "metrics"} \/ (call = "set" /\ setpoint = NoPoint)

\* The link implements the machine whose calls are single steps: the error is
\* always that of the last setpoint and of the position assigned in its call,
\* and the FMU's command is the last one or an earlier one.
MachineRefined == Abs!MachineSpec

\* A rapid comes to an end although its setpoints, states and messages are lost
\* for as long as one likes and its own reports are received as states.
MotionEnds == goal # None ~> (goal = None \/ step = "aborted")
=============================================================================
