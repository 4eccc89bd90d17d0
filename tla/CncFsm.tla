------------------------------- MODULE CncFsm ------------------------------
(***************************************************************************)
(* The controller (fsm.hpp, fsm_impl.hpp, main/cnc.cpp): the loop of       *)
(* FiniteStateMachine::run over its program and machine, with SIGINT at    *)
(* any point of it.  One iteration of the loop is the steps                *)
(*   body    the do_xxx function of the state (IDLE waits at "key" for the *)
(*           user; loading a program goes through "load", line by line),   *)
(*   ret     the wrapper around it: the filter of the returned state, the  *)
(*           SIGINT override, and the assignments of eval_state,           *)
(*   trans   the transition function,                                      *)
(*   wait    the timing function,                                          *)
(* and after the loop "exit" (the STOP state once more) and "leave".       *)
(***************************************************************************)
EXTENDS Machine

CONSTANT TickCap   \* bound of t_blk, in ticks: it is not read beyond it

VARIABLES
  state,     \* _state.second
  prev,      \* _state.first
  pc,        \* the step of the loop that is next
  ret,       \* what the body returned
  stopReq,   \* stop_requested
  handler,   \* disposition of SIGINT
  timerOn,   \* the interval timer is running
  tBlk,      \* t_blk, in ticks of tq
  metrics,   \* the last metric published
  late       \* history: setpoints commanded while a stop request was pending

fsmVars == <<state, prev, pc, ret, stopReq, handler, timerOn, tBlk, metrics,
             late>>
vars == <<progVars, machVars, fsmVars>>

Graph == INSTANCE FsmGraph WITH state <- state

PCs == {"body", "key", "load", "ret", "trans", "wait", "exit", "leave",
        "ended", "aborted", "killed"}
Returns == Graph!States \cup {"NO_CHANGE"}
Metrics == {"none", "line", "rapid_start", "rapid_end"}

ASSUME TickAssumption ==
  /\ TickCap \in Nat
  /\ \A f \in Files : \A i \in DOMAIN f : f[i].ticks < TickCap

TypeOK ==
  /\ ProgramTypeOK
  /\ MachineTypeOK
  /\ state \in Graph!States
  /\ prev \in Graph!States
  /\ pc \in PCs
  /\ ret \in Returns
  /\ stopReq \in BOOLEAN
  /\ handler \in {"flag", "default"}
  /\ timerOn \in BOOLEAN
  /\ tBlk \in 0 .. TickCap
  /\ metrics \in Metrics
  /\ late \in 0 .. 2

\* main has built the machine and started the timer; run() has cleared the
\* flag and installed its handler.
Init ==
  /\ ProgramInit
  /\ MachineInit
  /\ state = "INIT" /\ prev = "INIT"
  /\ pc = "body" /\ ret = "NO_CHANGE"
  /\ stopReq = FALSE /\ handler = "flag"
  /\ timerOn = TRUE
  /\ tBlk = 0
  /\ metrics = "none"
  /\ late = 0

-----------------------------------------------------------------------------
\* Helpers of the bodies.

CurBlock == blocks[current]

InBody(s) == pc = "body" /\ state = s

Return(r) == ret' = r /\ pc' = "ret"

\* An exception nobody catches: std::terminate.
Abort == pc' = "aborted" /\ UNCHANGED ret

\* t_blk += tq; the value is read up to one tick after the end of a block.
Tick == IF tBlk < TickCap THEN tBlk + 1 ELSE tBlk

\* send_metrics does nothing without an agent.
Publish(m) == metrics' = IF HasAgent THEN m ELSE metrics

\* History of set_setpoint calls made while a stop request is pending.
CountLate(pending) ==
  late' = IF ~pending THEN 0 ELSE IF late < 2 THEN late + 1 ELSE late

-----------------------------------------------------------------------------
\* The state functions.

\* do_init: the file is opened by the constructor of Program.
InitOpen ==
  /\ InBody("INIT")
  /\ \E f \in Files : OpenFile(f, FALSE)
  /\ pc' = "load"
  /\ UNCHANGED <<machVars, state, prev, ret, stopReq, handler, timerOn, tBlk,
                 metrics, late>>

\* do_init: the file cannot be opened.
InitOpenFails ==
  /\ InBody("INIT")
  /\ Return("STOP")
  /\ UNCHANGED <<progVars, machVars, state, prev, stopReq, handler, timerOn,
                 tBlk, metrics, late>>

\* One line of the file, in do_init or in the reload of do_idle.
LoadLine ==
  /\ pc = "load"
  /\ ReadLine(error)
  /\ ~PushFails(Head(rest), error)
  /\ UNCHANGED <<machVars, fsmVars>>

\* A line throws in do_init: the Program under construction is destroyed and
\* the exception is caught there.
InitLoadFails ==
  /\ pc = "load" /\ state = "INIT"
  /\ rest # <<>>
  /\ PushFails(Head(rest), error)
  /\ Clear
  /\ rest' = <<>>
  /\ Return("STOP")
  /\ UNCHANGED <<machVars, state, prev, stopReq, handler, timerOn, tBlk,
                 metrics, late>>

\* Mutant of ReloadFails: the exception skips the restart of the timer.
ReloadFailsNoTimer ==
  /\ pc = "load" /\ state = "IDLE"
  /\ ReadLine(error)
  /\ PushFails(Head(rest), error)
  /\ Return("NO_CHANGE")
  /\ UNCHANGED <<machVars, state, prev, stopReq, handler, timerOn, tBlk, metrics,
                 late>>

\* A line throws in the reload of do_idle: what was read of the new program
\* stays, the exception is caught there.
ReloadFails ==
  /\ pc = "load" /\ state = "IDLE"
  /\ ReadLine(error)
  /\ PushFails(Head(rest), error)
  /\ timerOn' = TRUE
  /\ Return("NO_CHANGE")
  /\ UNCHANGED <<machVars, state, prev, stopReq, handler, tBlk, metrics, late>>

\* The whole file was read.
LoadDone ==
  /\ pc = "load"
  /\ rest = <<>>
  /\ timerOn' = TRUE
  /\ Return(IF state = "INIT" THEN "IDLE" ELSE "NO_CHANGE")
  /\ UNCHANGED <<progVars, machVars, state, prev, stopReq, handler, tBlk,
                 metrics, late>>

\* do_idle up to read_key: the timer is stopped.
IdlePrompt ==
  /\ InBody("IDLE")
  /\ timerOn' = FALSE
  /\ pc' = "key"
  /\ UNCHANGED <<progVars, machVars, state, prev, ret, stopReq, handler, tBlk,
                 metrics, late>>

\* do_idle: the state a key selects; Z is accepted with or without an agent.
KeyReturns ==
  [k \in {"space", "z", "q", "r", "other"} |->
     CASE k = "space" -> "LOAD_BLOCK"
       [] k = "z"     -> "GO_TO_ZERO"
       [] k = "q"     -> "STOP"
       [] OTHER       -> "NO_CHANGE"]

\* do_idle after read_key; for "r", when the file cannot be opened (load throws
\* before it touches the program).
IdleKey(k) ==
  /\ pc = "key"
  /\ timerOn' = TRUE
  /\ Return(KeyReturns[k])
  /\ UNCHANGED <<progVars, machVars, state, prev, stopReq, handler, tBlk,
                 metrics, late>>

\* do_idle, key "r": the program is cleared and read again.
IdleReload ==
  /\ pc = "key"
  /\ \E f \in Files : OpenFile(f, FALSE)
  /\ pc' = "load"
  /\ UNCHANGED <<machVars, state, prev, ret, stopReq, handler, timerOn, tBlk,
                 metrics, late>>

\* do_load_block: the state for a type; any other number ends the program.
StateForType(t) ==
  CASE t = NO_MOTION        -> "NO_MOTION"
    [] t = RAPID            -> "RAPID_MOTION"
    [] t \in InterpTypes    -> "INTERP_MOTION"
    [] OTHER                -> "IDLE"

DoLoadBlock ==
  /\ InBody("LOAD_BLOCK")
  /\ LoadNext
  /\ IF done'
     THEN Return("IDLE") /\ UNCHANGED metrics
     ELSE Return(StateForType(blocks[current'].type)) /\ Publish("line")
  /\ UNCHANGED <<machVars, state, prev, stopReq, handler, timerOn, tBlk, late>>

\* Mutant of RapidTick: the error is read before the setpoint is commanded.
RapidTickStaleError(x) ==
  /\ InBody("RAPID_MOTION")
  /\ SetSetpoint(CurBlock.target, x)
  /\ IF SetpointThrows(CurBlock.target)
     THEN Abort /\ UNCHANGED <<stopReq, tBlk>>
     ELSE /\ Return(IF stopReq \/ ~HasAgent \/ WithinMaxError(error)
                    THEN "LOAD_BLOCK" ELSE "NO_CHANGE")
          /\ stopReq' = FALSE
          /\ tBlk' = Tick
  /\ CountLate(stopReq')
  /\ UNCHANGED <<progVars, state, prev, handler, timerOn, metrics>>

\* Mutant of RapidTick: a machine without an agent is waited for.
RapidTickWaits(x) ==
  /\ InBody("RAPID_MOTION")
  /\ SetSetpoint(CurBlock.target, x)
  /\ IF SetpointThrows(CurBlock.target)
     THEN Abort /\ UNCHANGED <<stopReq, tBlk>>
     ELSE /\ Return(IF stopReq \/ WithinMaxError(error')
                    THEN "LOAD_BLOCK" ELSE "NO_CHANGE")
          /\ stopReq' = FALSE
          /\ tBlk' = Tick
  /\ CountLate(stopReq')
  /\ UNCHANGED <<progVars, state, prev, handler, timerOn, metrics>>

\* Mutant of RapidTick: the setpoint is commanded in the first tick only.
RapidTickOnce(x) ==
  /\ InBody("RAPID_MOTION")
  /\ IF tBlk = 0 THEN SetSetpoint(CurBlock.target, x) ELSE UNCHANGED machVars
  /\ IF SetpointThrows(CurBlock.target)
     THEN Abort /\ UNCHANGED <<stopReq, tBlk>>
     ELSE /\ Return(IF stopReq \/ ~HasAgent \/ WithinMaxError(error')
                    THEN "LOAD_BLOCK" ELSE "NO_CHANGE")
          /\ stopReq' = FALSE
          /\ tBlk' = Tick
  /\ CountLate(stopReq')
  /\ UNCHANGED <<progVars, state, prev, handler, timerOn, metrics>>

\* do_rapid_motion: the setpoint is commanded whether connected or not; a
\* pending stop request is consumed here and skips the block.
RapidTick(x) ==
  /\ InBody("RAPID_MOTION")
  /\ SetSetpoint(CurBlock.target, x)
  /\ IF SetpointThrows(CurBlock.target)
     THEN Abort /\ UNCHANGED <<stopReq, tBlk>>
     ELSE /\ Return(IF stopReq \/ ~HasAgent \/ WithinMaxError(error')
                    THEN "LOAD_BLOCK" ELSE "NO_CHANGE")
          /\ stopReq' = FALSE
          /\ tBlk' = Tick
  /\ CountLate(stopReq')
  /\ UNCHANGED <<progVars, state, prev, handler, timerOn, metrics>>

DoRapidMotion == \E x \in Exchanges : RapidTick(x)

\* An arc that does not end on its target, because its radii differ.
Misses(b) == b.type \in ArcTypes /\ b.line.mismatch > 0

\* The end an interpolated block reaches: 0 / 0 of the way when it has no length.
EndPoint(i) ==
  CASE NoLength(blocks, i)                         -> NaNPoint
    [] ~NoLength(blocks, i) /\ Misses(blocks[i])   -> Elsewhere
    [] OTHER                                       -> blocks[i].target

\* interpolate(t_blk): the start at time 0, the end from the block's duration
\* on, some point of the path in between.
Interpolated(i, t) ==
  CASE NoLength(blocks, i) \/ t >= blocks[i].line.ticks  -> EndPoint(i)
    [] ~NoLength(blocks, i) /\ t = 0                     -> StartPoint(blocks, i)
    [] OTHER                                             -> Elsewhere

\* Mutant of BlockEnded: the block is left one tick before its end.
BlockEndedEarly(b, t) == t + 1 >= b.line.ticks

\* t_blk > dt + tq / 10: dt is a whole number of ticks.
BlockEnded(b, t) == t > b.line.ticks

\* Mutant of DoInterpMotion: interpolating past the end of the block throws.
DoInterpMotionStrict ==
  /\ InBody("INTERP_MOTION")
  /\ IF CurBlock.parsed /\ tBlk <= CurBlock.line.ticks
     THEN /\ \E x \in Exchanges : SetSetpoint(Interpolated(current, tBlk), x)
          /\ Return(IF BlockEnded(CurBlock, tBlk) THEN "LOAD_BLOCK" ELSE "NO_CHANGE")
          /\ tBlk' = Tick
          /\ CountLate(stopReq)
     ELSE Abort /\ UNCHANGED <<machVars, tBlk, late>>
  /\ UNCHANGED <<progVars, state, prev, stopReq, handler, timerOn, metrics>>

\* do_interp_motion; interpolating a block that was not parsed throws before
\* anything is commanded.
DoInterpMotion ==
  /\ InBody("INTERP_MOTION")
  /\ IF CurBlock.parsed
     THEN /\ \E x \in Exchanges : SetSetpoint(Interpolated(current, tBlk), x)
          /\ Return(IF BlockEnded(CurBlock, tBlk) THEN "LOAD_BLOCK" ELSE "NO_CHANGE")
          /\ tBlk' = Tick
          /\ CountLate(stopReq)
     ELSE Abort /\ UNCHANGED <<machVars, tBlk, late>>
  /\ UNCHANGED <<progVars, state, prev, stopReq, handler, timerOn, metrics>>

\* do_no_motion prints the block; printing one that was not parsed throws.
DoNoMotion ==
  /\ InBody("NO_MOTION")
  /\ IF CurBlock.parsed THEN Return("LOAD_BLOCK") ELSE Abort
  /\ UNCHANGED <<progVars, machVars, state, prev, stopReq, handler, timerOn,
                 tBlk, metrics, late>>

\* Mutant of ZeroTick: the state returned at zero is one the wrapper filters.
ZeroTickFiltered(x) ==
  /\ InBody("GO_TO_ZERO")
  /\ SetSetpoint(Zero, x)
  /\ Return(IF WithinMaxError(error') THEN "LOAD_BLOCK" ELSE "NO_CHANGE")
  /\ CountLate(stopReq)
  /\ UNCHANGED <<progVars, state, prev, stopReq, handler, timerOn, tBlk,
                 metrics>>

\* do_go_to_zero: no test of the connection.
ZeroTick(x) ==
  /\ InBody("GO_TO_ZERO")
  /\ SetSetpoint(Zero, x)
  /\ Return(IF WithinMaxError(error') THEN "IDLE" ELSE "NO_CHANGE")
  /\ CountLate(stopReq)
  /\ UNCHANGED <<progVars, state, prev, stopReq, handler, timerOn, tBlk,
                 metrics>>

DoGoToZero == \E x \in Exchanges : ZeroTick(x)

-----------------------------------------------------------------------------
\* The loop around them.

\* The returned states each wrapper lets through.
ValidReturns ==
  [s \in Graph!States |->
     CASE s = "INIT"          -> {"IDLE", "STOP"}
       [] s = "IDLE"          -> {"NO_CHANGE", "IDLE", "LOAD_BLOCK", "STOP",
                                  "GO_TO_ZERO"}
       [] s = "LOAD_BLOCK"    -> {"NO_MOTION", "RAPID_MOTION",
                                  "INTERP_MOTION", "IDLE"}
       [] s = "RAPID_MOTION"  -> {"NO_CHANGE", "RAPID_MOTION", "LOAD_BLOCK"}
       [] s = "INTERP_MOTION" -> {"NO_CHANGE", "INTERP_MOTION", "LOAD_BLOCK"}
       [] s = "NO_MOTION"     -> {"LOAD_BLOCK"}
       [] s = "GO_TO_ZERO"    -> {"NO_CHANGE", "GO_TO_ZERO", "IDLE"}
       [] s = "STOP"          -> {"NO_CHANGE"}]

\* Mutants of Overridden: a wrapper without the override, and an override in a
\* wrapper that has none.
OverriddenNotInterp == {"IDLE", "RAPID_MOTION", "GO_TO_ZERO"}
OverriddenNotZero   == {"IDLE", "RAPID_MOTION", "INTERP_MOTION"}
OverriddenNoMotion  ==
  {"IDLE", "RAPID_MOTION", "INTERP_MOTION", "NO_MOTION", "GO_TO_ZERO"}

\* The states whose wrapper looks at stop_requested.
Overridden == {"IDLE", "RAPID_MOTION", "INTERP_MOTION", "GO_TO_ZERO"}

\* What operator()(state) returns: the override, or the body's valid choice.
NextState ==
  IF stopReq /\ state \in Overridden THEN "STOP"
  ELSE IF ret \in ValidReturns[state] \ {"NO_CHANGE"} THEN ret ELSE state

\* The wrapper's last lines and the assignments of eval_state.
Evaluate ==
  /\ pc = "ret"
  /\ prev' = state
  /\ state' = NextState
  /\ pc' = "trans"
  /\ UNCHANGED <<progVars, machVars, ret, stopReq, handler, timerOn, tBlk,
                 metrics, late>>

InTransition(from, to) == pc = "trans" /\ prev = from /\ state = to

\* Mutant of Reset: the program is not rewound.
ResetTimesOnly ==
  /\ InTransition("IDLE", "LOAD_BLOCK")
  /\ tBlk' = 0
  /\ UNCHANGED <<progVars, metrics>>

\* reset
Reset ==
  /\ InTransition("IDLE", "LOAD_BLOCK")
  /\ Rewind
  /\ tBlk' = 0
  /\ UNCHANGED metrics

\* Mutant of BeginRapid: the program is rewound along with the time.
BeginRapidRewinds ==
  /\ InTransition("LOAD_BLOCK", "RAPID_MOTION")
  /\ tBlk' = 0
  /\ Publish("rapid_start")
  /\ Rewind

\* begin_rapid
BeginRapid ==
  /\ InTransition("LOAD_BLOCK", "RAPID_MOTION")
  /\ tBlk' = 0
  /\ Publish("rapid_start")
  /\ UNCHANGED progVars

\* Mutant of EndRapid: nothing is published.
EndRapidSilent ==
  /\ InTransition("RAPID_MOTION", "LOAD_BLOCK")
  /\ UNCHANGED <<progVars, tBlk, metrics>>

\* end_rapid
EndRapid ==
  /\ InTransition("RAPID_MOTION", "LOAD_BLOCK")
  /\ Publish("rapid_end")
  /\ UNCHANGED <<progVars, tBlk>>

\* Mutant of BeginInterp: the block time goes on from the previous block.
BeginInterpKeepsTime ==
  /\ InTransition("LOAD_BLOCK", "INTERP_MOTION")
  /\ UNCHANGED <<progVars, tBlk, metrics>>

\* begin_interp
BeginInterp ==
  /\ InTransition("LOAD_BLOCK", "INTERP_MOTION")
  /\ tBlk' = 0
  /\ UNCHANGED <<progVars, metrics>>

\* The pairs of states that have a transition function with an effect.
Installed == {<<"IDLE", "LOAD_BLOCK">>, <<"LOAD_BLOCK", "RAPID_MOTION">>,
              <<"RAPID_MOTION", "LOAD_BLOCK">>, <<"LOAD_BLOCK", "INTERP_MOTION">>}

\* No function is installed, or it is end_interp, which is empty.
NoTransition ==
  /\ pc = "trans"
  /\ <<prev, state>> \notin Installed
  /\ UNCHANGED <<progVars, tBlk, metrics>>

\* operator()(from, to)
TransitionCall ==
  /\ Reset \/ BeginRapid \/ EndRapid \/ BeginInterp \/ NoTransition
  /\ pc' = "wait"
  /\ UNCHANGED <<machVars, state, prev, ret, stopReq, handler, timerOn, late>>

\* The timing function (its errors are only logged) and the loop condition.
Wait ==
  /\ pc = "wait"
  /\ pc' = IF state = "STOP" THEN "exit" ELSE "body"
  /\ UNCHANGED <<progVars, machVars, state, prev, ret, stopReq, handler,
                 timerOn, tBlk, metrics, late>>

\* The STOP state, called once after the loop: do_stop.
DoStop ==
  /\ pc = "exit"
  /\ handler' = "default"
  /\ pc' = "leave"
  /\ UNCHANGED <<progVars, machVars, state, prev, ret, stopReq, timerOn, tBlk,
                 metrics, late>>

\* run() and main return.
Leave ==
  /\ pc = "leave"
  /\ pc' = "ended"
  /\ UNCHANGED <<progVars, machVars, state, prev, ret, stopReq, handler,
                 timerOn, tBlk, metrics, late>>

-----------------------------------------------------------------------------
Terminal == {"ended", "aborted", "killed"}

\* SIGINT, between any two steps.
SigInt ==
  /\ pc \notin Terminal
  /\ IF handler = "flag"
     THEN ~stopReq /\ stopReq' = TRUE /\ UNCHANGED pc
     ELSE pc' = "killed" /\ UNCHANGED stopReq
  /\ UNCHANGED <<progVars, machVars, state, prev, ret, handler, timerOn, tBlk,
                 metrics, late>>

\* The simulator moves as long as it is not at its command.
FmuStep ==
  /\ fmuPos # fmuCmd
  /\ \E p \in Complete : FmuMove(p)
  /\ pc \notin Terminal
  /\ UNCHANGED <<progVars, fsmVars>>

\* The process is gone.
Gone == pc \in Terminal /\ UNCHANGED vars

Body ==
  \/ InitOpen \/ InitOpenFails \/ LoadLine \/ InitLoadFails \/ ReloadFails
  \/ LoadDone \/ IdlePrompt \/ DoLoadBlock \/ DoRapidMotion \/ DoInterpMotion
  \/ DoNoMotion \/ DoGoToZero

Controller == Body \/ Evaluate \/ TransitionCall \/ Wait \/ DoStop \/ Leave

User == (\E k \in DOMAIN KeyReturns : IdleKey(k)) \/ IdleReload

Next == Controller \/ User \/ SigInt \/ FmuStep \/ Gone

Spec == Init /\ [][Next]_vars

\* The single thread runs while it can; the FMU reaches a setpoint that stays;
\* the exchanges of a motion that goes on do not all go wrong.
FmuArrives ==
  FmuMove(fmuCmd) /\ fmuPos # fmuCmd /\ pc \notin Terminal /\ UNCHANGED <<progVars, fsmVars>>
Fairness ==
  /\ WF_vars(Controller)
  /\ WF_vars(FmuArrives)
  /\ SF_vars(RapidTick(Delivered))
  /\ SF_vars(ZeroTick(Delivered))

FairSpec == Spec /\ Fairness
-----------------------------------------------------------------------------
\* Properties.

\* The states that dereference program->current().
Motion == {"RAPID_MOTION", "INTERP_MOTION", "NO_MOTION"}

\* In every motion state the iterator is on a block of the program, and the
\* block is of the type the state is for: no interleaving of reloads, stop
\* requests, skipped blocks and early ends makes a do_xxx dereference end() or
\* interpolate a block of another kind.
CurrentDereferenceable ==
  state \in Motion =>
    /\ current \in 1 .. Len(blocks)
    /\ StateForType(CurBlock.type) = state

\* The process dies of an uncaught exception only while it executes the
\* unparsed block that a failed reload left at the end of the program.
AbortOnlyOnStuckTail ==
  pc = "aborted" => StuckTail /\ current = Len(blocks)

\* The timing function always finds the timer running, although do_idle stops
\* it and a reload may fail in between.
TimerRunsAtWait == pc = "wait" => timerOn

\* While a stop request is pending at most one more setpoint is commanded: the
\* next motion state either stops or, in a rapid, takes the request.
OneLateSetpoint == late <= 1

\* The iterator is already on the block of the state that was chosen.
LoadedBlockMatches ==
  pc = "ret" /\ state = "LOAD_BLOCK" /\ ret \in Motion =>
    /\ current \in 1 .. Len(blocks)
    /\ StateForType(CurBlock.type) = ret

\* The waits for a key and for a line of the file belong to their states, the
\* timer is off only there, and SIGINT kills only after the loop.
StepsInTheirStates ==
  /\ pc = "key" => state = "IDLE"
  /\ pc = "load" => state \in {"INIT", "IDLE"}
  /\ timerOn \/ pc = "key" \/ (pc = "load" /\ state = "IDLE")
  /\ handler = "default" => pc \in {"leave", "ended", "killed"}

\* A setpoint commanded after a stop request leaves nothing but the stop.
LateMeansStopping ==
  late # 0 =>
    /\ late = 1
    /\ stopReq
    /\ \/ state = "STOP"
       \/ pc = "ret" /\ state \in Overridden
       \/ pc = "aborted"

\* The inductive invariant of the controller: how the iterator, the blocks, the
\* state of the machine and the steps of the loop hang together.
IInv ==
  /\ TypeOK
  /\ OnlyTailUnparsed
  /\ ParsedTargetsComplete
  /\ CurrentDereferenceable
  /\ LoadedBlockMatches
  /\ AbortOnlyOnStuckTail
  /\ StepsInTheirStates
  /\ LateMeansStopping

\* Every run of the program, also after one that ended in the middle, starts at
\* the first block.
RunStartsAtFirst ==
  [][InBody("LOAD_BLOCK") /\ prev = "IDLE" /\ pc' = "ret"
       => current' = (IF blocks = <<>> THEN End ELSE 1)]_vars

\* The block before block i is a motion that ends on its target.
JoinedBefore(i) ==
  /\ i > 1
  /\ blocks[i - 1].type \in InterpTypes \cup {RAPID}
  /\ blocks[i - 1].type \in InterpTypes
       => EndPoint(i - 1) = blocks[i - 1].target

\* The setpoints of consecutive motion blocks join: the first setpoint of an
\* interpolated block is the one commanded last, unless the block before it is
\* an arc that misses its target, or one of the two has no length.
PathContinuous ==
  [][(InBody("INTERP_MOTION") /\ prev = "LOAD_BLOCK" /\ pc' = "ret"
        /\ JoinedBefore(current) /\ ~NoLength(blocks, current))
       => setpoint' = setpoint]_vars

\* An interpolated block is left for the next one only when its end point has
\* been commanded.
InterpEndsOnTarget ==
  [][state = "INTERP_MOTION" /\ state' = "LOAD_BLOCK"
       => setpoint = EndPoint(current)]_vars

\* A rapid that nobody interrupts is left only when the last position received
\* is the target of this block, not of an earlier one.
RapidReachesTarget ==
  [][InBody("RAPID_MOTION") /\ HasAgent /\ ~stopReq /\ pc' = "ret"
       /\ ret' = "LOAD_BLOCK" => position' = CurBlock.target]_vars

\* Metrics come in the order line, rapid_start, rapid_end: no rapid is
\* reported started twice or ended without having started, and no further line
\* is reported while one is open.
RapidMetricsPaired ==
  [][metrics' # metrics =>
       <<metrics, metrics'>> \in
         {<<"none", "line">>, <<"line", "rapid_start">>,
          <<"rapid_start", "rapid_end">>, <<"rapid_end", "line">>}]_vars

\* Without an agent the error stays NaN: the move to zero, which Z starts all
\* the same, ends only by a stop request.
ZeroNeedsAgent ==
  [][state = "GO_TO_ZERO" /\ ~HasAgent => state' \in {"GO_TO_ZERO", "STOP"}]_vars

\* The controller moves only along the edges of fsm.dot and the emergency edges.
FollowsGraph == Graph!Spec

\* A stop request is served: it ends the process or is taken by a rapid, at the
\* latest when the program ends and the controller waits for a key.
InterruptServed ==
  stopReq ~> (~stopReq \/ pc \in Terminal \/ pc = "key")

\* A started program comes to an end.
ProgramEnds ==
  state = "LOAD_BLOCK" ~> (state \in {"IDLE", "STOP"} \/ pc \in Terminal)

\* With an agent a move to zero comes to an end.
ZeroReached ==
  HasAgent /\ state = "GO_TO_ZERO" ~> (state \in {"IDLE", "STOP"} \/ pc \in Terminal)

\* As the comment on do_rapid_motion has it: a stop request that is pending in
\* a rapid leads to STOP, it is never dropped.
InterruptStopsRapid ==
  [][state = "RAPID_MOTION" /\ stopReq => stopReq' \/ state' = "STOP"]_vars

\* As tests/TODO.md and block.hpp have it: lambda is 1 from the end of the block
\* on, so that a line is left with its target commanded.
LineEndsOnTarget ==
  [][state = "INTERP_MOTION" /\ state' = "LOAD_BLOCK" /\ CurBlock.type = LINE
       => setpoint = CurBlock.target]_vars
=============================================================================
