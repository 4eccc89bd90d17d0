---------------------------- MODULE CncFsmProofs ---------------------------
(***************************************************************************)
(* The controller for every set of program files, every width of a block   *)
(* number, with and without an agent, on a perfect or a lossy link: IInv   *)
(* is inductive, the controller implements the graph of fsm.dot, and what  *)
(* a step may never do follows from IInv and one more invariant each.      *)
(***************************************************************************)
EXTENDS CncFsm, ProgramProofs

\* The types of the controller's own variables.
FsmTypeOK ==
  /\ state \in Graph!States
  /\ prev \in Graph!States
  /\ pc \in PCs
  /\ ret \in Returns
  /\ stopReq \in BOOLEAN
  /\ handler \in {"flag", "default"}
  /\ timerOn \in BOOLEAN
  /\ tBlk \in 0 .. TickCap
  /\ metrics \in Metrics
  /\ late \in 0 .. 2

\* IInv, by the component each part is about.
LEMMA IInvParts ==
  IInv <=> /\ ProgramWF /\ MachineTypeOK /\ FsmTypeOK
           /\ CurrentDereferenceable /\ LoadedBlockMatches
           /\ AbortOnlyOnStuckTail /\ StepsInTheirStates /\ LateMeansStopping
BY DEF IInv, TypeOK, ProgramWF, FsmTypeOK

\* A step that leaves the program alone keeps it well formed.
LEMMA ProgramFrame ==
  ASSUME ProgramWF, UNCHANGED progVars
  PROVE  ProgramWF'
BY DEF ProgramWF, ProgramTypeOK, OnlyTailUnparsed, ParsedTargetsComplete, progVars

\* A step that leaves the machine alone keeps its types.
LEMMA MachineFrame ==
  ASSUME MachineTypeOK, UNCHANGED machVars
  PROVE  MachineTypeOK'
BY DEF MachineTypeOK, machVars

\* The error computed for any two points is one of the errors.
LEMMA ErrorsOfType ==
  ASSUME NEW s, NEW p
  PROVE  ErrorsOf(s, p) \subseteq NearErrors \cup FarErrors \cup {NaN}
BY DEF ErrorsOf

\* set_setpoint keeps the machine's types, whatever the exchange brings.
LEMMA SetSetpointType ==
  ASSUME MachineTypeOK, NEW p \in Complete \cup {NoPoint, NaNPoint}, NEW x \in Exchanges,
         SetSetpoint(p, x)
  PROVE  MachineTypeOK'
<1>1. setpoint' \in Complete \cup {NoPoint, NaNPoint}
  BY DEF SetSetpoint
<1>2. CASE HasAgent /\ p # NoPoint
  <2>1. Sync(p, x)
    BY <1>2 DEF SetSetpoint
  <2>2. x.got \in {"state", "other", "nothing", "torn"}
    BY DEF Exchanges, Exchange, Delivered
  <2>3. position' \in Complete \cup {NoPoint}
    <3>1. PositionsAfter(x) \subseteq Complete \cup {NoPoint}
      BY <2>2 DEF PositionsAfter, MachineTypeOK, Complete
    <3>2. QED
      BY <2>1, <3>1 DEF Sync
  <2>4. error' \in NearErrors \cup FarErrors \cup {NaN}
    BY <2>1, ErrorsOfType DEF Sync
  <2>5. fmuCmd' \in Complete /\ fmuPos' \in Complete
    BY <1>2, <2>1 DEF Sync, Understood, MachineTypeOK, Complete
  <2>6. QED
    BY <1>1, <2>3, <2>4, <2>5 DEF MachineTypeOK
<1>3. CASE ~(HasAgent /\ p # NoPoint)
  BY <1>1, <1>3 DEF SetSetpoint, MachineTypeOK
<1>4. QED
  BY <1>2, <1>3

\* The block under the iterator, when there is one.
LEMMA CurBlockType ==
  ASSUME ProgramWF, current \in 1 .. Len(blocks)
  PROVE  CurBlock \in Block
BY DEF ProgramWF, ProgramTypeOK, CurBlock

\* A target, a start point and an end point are points.
LEMMA InterpolatedType ==
  ASSUME ProgramWF, current \in 1 .. Len(blocks), NEW t
  PROVE  Interpolated(current, t) \in Complete \cup {NoPoint, NaNPoint}
<1>1. /\ blocks \in Seq(Block) /\ Len(blocks) \in Nat
      /\ blocks[current] \in Block
  BY CurBlockType DEF ProgramWF, ProgramTypeOK, CurBlock
<1>2. StartPoint(blocks, current) \in Points \cup {NoPoint}
  <2>1. CASE current = 1
    BY <2>1, PointsAssumption DEF StartPoint
  <2>2. CASE current # 1
    <3>1. blocks[current - 1] \in Block
      BY <1>1, <2>2
    <3>2. QED
      BY <2>2, <3>1 DEF StartPoint, Block
  <2>3. QED
    BY <2>1, <2>2
<1>3. EndPoint(current) \in Complete \cup {NoPoint, NaNPoint}
  BY <1>1 DEF EndPoint, Block, Complete
<1>4. QED
  BY <1>2, <1>3 DEF Interpolated, Complete

\* t_blk stays in its bound.
LEMMA TickType ==
  ASSUME tBlk \in 0 .. TickCap
  PROVE  Tick \in 0 .. TickCap
BY TickAssumption DEF Tick

\* main, the constructors and run() establish the invariant.
LEMMA InitIInv == Init => IInv
<1>1. SUFFICES ASSUME Init PROVE IInv
  OBVIOUS
<1>2. /\ blocks = <<>> /\ current = 0 /\ done = FALSE /\ rest = <<>>
      /\ Len(blocks) = 0
  BY <1>1 DEF Init, ProgramInit, End
<1>3. ProgramWF
  <2>1. current \in 0 .. Len(blocks)
    BY <1>2
  <2>2. done \in BOOLEAN
    BY <1>2
  <2>3. blocks \in Seq(Block) /\ rest \in Seq(Line)
    BY <1>2
  <2>4. OnlyTailUnparsed /\ ParsedTargetsComplete
    BY <1>2 DEF OnlyTailUnparsed, ParsedTargetsComplete
  <2>5. QED
    BY <2>1, <2>2, <2>3, <2>4 DEF ProgramWF, ProgramTypeOK
<1>4. MachineTypeOK
  BY <1>1, PointsAssumption DEF Init, MachineInit, MachineTypeOK, Complete
<1>5. FsmTypeOK
  <2>1. stopReq \in BOOLEAN /\ timerOn \in BOOLEAN
    BY <1>1 DEF Init
  <2>2. tBlk \in 0 .. TickCap /\ late \in 0 .. 2
    BY <1>1, TickAssumption DEF Init
  <2>3. QED
    BY <1>1, <2>1, <2>2 DEF Init, FsmTypeOK, Graph!States, PCs, Returns, Metrics
<1>6. /\ CurrentDereferenceable /\ LoadedBlockMatches /\ AbortOnlyOnStuckTail
      /\ StepsInTheirStates /\ LateMeansStopping
  BY <1>1 DEF Init, CurrentDereferenceable, LoadedBlockMatches, Motion,
       AbortOnlyOnStuckTail, StepsInTheirStates, LateMeansStopping
<1>7. QED
  BY <1>3, <1>4, <1>5, <1>6, IInvParts

-----------------------------------------------------------------------------
\* Steps that change neither the program nor the state nor the machine: what is
\* left to check of IInv.
LEMMA ControlStep ==
  ASSUME IInv, UNCHANGED progVars, UNCHANGED machVars, UNCHANGED state,
         FsmTypeOK', StepsInTheirStates', LateMeansStopping',
         pc' # "aborted",
         pc' = "ret" /\ state = "LOAD_BLOCK" => pc = "ret" /\ ret' = ret
  PROVE  IInv'
<1>1. /\ ProgramWF /\ MachineTypeOK /\ CurrentDereferenceable
      /\ LoadedBlockMatches
  BY IInvParts
<1>2. ProgramWF' /\ MachineTypeOK'
  BY <1>1, ProgramFrame, MachineFrame
<1>3. CurrentDereferenceable'
  BY <1>1 DEF CurrentDereferenceable, progVars, CurBlock
<1>4. LoadedBlockMatches'
  BY <1>1 DEF LoadedBlockMatches, progVars, CurBlock
<1>5. AbortOnlyOnStuckTail'
  BY DEF AbortOnlyOnStuckTail
<1>6. QED
  BY <1>2, <1>3, <1>4, <1>5 DEF IInv, TypeOK, ProgramWF, FsmTypeOK

\* The steps of do_init and do_idle that only wait, choose or fail to open.
LEMMA QuietBodyStep ==
  ASSUME IInv,
         \/ InitOpenFails \/ LoadDone \/ IdlePrompt
         \/ \E k \in DOMAIN KeyReturns : IdleKey(k)
  PROVE  IInv'
<1>1. FsmTypeOK /\ StepsInTheirStates /\ LateMeansStopping
  BY IInvParts
<1>2. CASE InitOpenFails
  <2>1. FsmTypeOK'
    BY <1>1, <1>2 DEF InitOpenFails, Return, FsmTypeOK, Graph!States, Returns, PCs
  <2>2. StepsInTheirStates' /\ LateMeansStopping'
    BY <1>1, <1>2 DEF InitOpenFails, Return, InBody, StepsInTheirStates,
         LateMeansStopping
  <2>3. QED
    BY <1>2, <2>1, <2>2, ControlStep DEF InitOpenFails, Return, InBody
<1>3. CASE LoadDone
  <2>1. FsmTypeOK'
    BY <1>1, <1>3 DEF LoadDone, Return, FsmTypeOK, Graph!States, Returns, PCs
  <2>2. StepsInTheirStates' /\ LateMeansStopping' /\ state # "LOAD_BLOCK"
    BY <1>1, <1>3 DEF LoadDone, Return, StepsInTheirStates, LateMeansStopping
  <2>3. QED
    BY <1>3, <2>1, <2>2, ControlStep DEF LoadDone, Return
<1>4. CASE IdlePrompt
  <2>1. FsmTypeOK'
    BY <1>1, <1>4 DEF IdlePrompt, FsmTypeOK, PCs
  <2>2. StepsInTheirStates' /\ LateMeansStopping'
    BY <1>1, <1>4 DEF IdlePrompt, InBody, StepsInTheirStates, LateMeansStopping
  <2>3. QED
    BY <1>4, <2>1, <2>2, ControlStep DEF IdlePrompt
<1>5. ASSUME NEW k \in DOMAIN KeyReturns, IdleKey(k) PROVE IInv'
  <2>1. KeyReturns[k] \in Returns
    BY DEF KeyReturns, Returns, Graph!States
  <2>2. FsmTypeOK'
    BY <1>1, <1>5, <2>1 DEF IdleKey, Return, FsmTypeOK, PCs
  <2>3. StepsInTheirStates' /\ LateMeansStopping' /\ state # "LOAD_BLOCK"
    BY <1>1, <1>5 DEF IdleKey, Return, StepsInTheirStates, LateMeansStopping
  <2>4. QED
    BY <1>5, <2>2, <2>3, ControlStep DEF IdleKey, Return
<1>6. QED
  BY <1>2, <1>3, <1>4, <1>5

\* The end of an iteration, the end of the loop and SIGINT.
LEMMA LoopStep ==
  ASSUME IInv, Wait \/ DoStop \/ Leave \/ SigInt
  PROVE  IInv'
<1>1. FsmTypeOK /\ StepsInTheirStates /\ LateMeansStopping
  BY IInvParts
<1>2. CASE Wait
  <2>1. FsmTypeOK' /\ StepsInTheirStates' /\ LateMeansStopping'
    BY <1>1, <1>2 DEF Wait, FsmTypeOK, PCs, StepsInTheirStates, LateMeansStopping
  <2>2. QED
    BY <1>2, <2>1, ControlStep DEF Wait
<1>3. CASE DoStop
  <2>1. FsmTypeOK' /\ StepsInTheirStates' /\ LateMeansStopping'
    BY <1>1, <1>3 DEF DoStop, FsmTypeOK, PCs, StepsInTheirStates, LateMeansStopping
  <2>2. QED
    BY <1>3, <2>1, ControlStep DEF DoStop
<1>4. CASE Leave
  <2>1. FsmTypeOK' /\ StepsInTheirStates' /\ LateMeansStopping'
    BY <1>1, <1>4 DEF Leave, FsmTypeOK, PCs, StepsInTheirStates, LateMeansStopping
  <2>2. QED
    BY <1>4, <2>1, ControlStep DEF Leave
<1>5. CASE SigInt
  <2>1. CASE handler = "flag"
    <3>1. FsmTypeOK' /\ StepsInTheirStates' /\ LateMeansStopping'
      BY <1>1, <1>5, <2>1 DEF SigInt, FsmTypeOK, StepsInTheirStates,
           LateMeansStopping
    <3>2. QED
      BY <1>5, <2>1, <3>1, ControlStep DEF SigInt, Terminal
  <2>2. CASE handler # "flag"
    <3>1. FsmTypeOK'
      BY <1>1, <1>5, <2>2 DEF SigInt, FsmTypeOK, PCs
    <3>2. pc = "leave" /\ pc' = "killed"
      BY <1>1, <1>5, <2>2 DEF SigInt, FsmTypeOK, StepsInTheirStates, Terminal
    <3>3. LateMeansStopping' /\ StepsInTheirStates'
      BY <1>1, <1>5, <2>2, <3>2 DEF SigInt, LateMeansStopping, StepsInTheirStates
    <3>4. QED
      BY <1>5, <2>2, <3>1, <3>2, <3>3, ControlStep DEF SigInt
  <2>3. QED
    BY <2>1, <2>2
<1>6. QED
  BY <1>2, <1>3, <1>4, <1>5

\* Reading the program's file, in do_init and in the reload of do_idle.
LEMMA LoadingStep ==
  ASSUME IInv,
         InitOpen \/ LoadLine \/ InitLoadFails \/ ReloadFails \/ IdleReload
  PROVE  IInv'
<1>1. /\ ProgramWF /\ MachineTypeOK /\ FsmTypeOK
      /\ StepsInTheirStates /\ LateMeansStopping
  BY IInvParts
<1>2. ASSUME ProgramWF', UNCHANGED machVars, UNCHANGED state, FsmTypeOK',
             StepsInTheirStates', LateMeansStopping',
             state \in {"INIT", "IDLE"}, pc' # "aborted"
      PROVE  IInv'
  <2>1. MachineTypeOK'
    BY <1>1, <1>2, MachineFrame
  <2>2. CurrentDereferenceable' /\ LoadedBlockMatches' /\ AbortOnlyOnStuckTail'
    BY <1>2 DEF CurrentDereferenceable, LoadedBlockMatches, Motion,
         AbortOnlyOnStuckTail
  <2>3. QED
    BY <1>2, <2>1, <2>2 DEF IInv, TypeOK, ProgramWF, FsmTypeOK
<1>3. CASE InitOpen
  <2>1. ProgramWF'
    BY <1>1, <1>3, OpenFileWF DEF InitOpen
  <2>2. FsmTypeOK' /\ StepsInTheirStates' /\ LateMeansStopping'
    BY <1>1, <1>3 DEF InitOpen, InBody, FsmTypeOK, PCs, StepsInTheirStates,
         LateMeansStopping
  <2>3. QED
    BY <1>2, <1>3, <2>1, <2>2 DEF InitOpen, InBody
<1>4. CASE LoadLine
  <2>1. ProgramWF'
    BY <1>1, <1>4, ReadLineWF DEF LoadLine
  <2>2. FsmTypeOK' /\ StepsInTheirStates' /\ LateMeansStopping'
    BY <1>1, <1>4 DEF LoadLine, fsmVars, FsmTypeOK, StepsInTheirStates,
         LateMeansStopping
  <2>3. QED
    BY <1>1, <1>2, <1>4, <2>1, <2>2 DEF LoadLine, fsmVars, StepsInTheirStates
<1>5. CASE InitLoadFails
  <2>1. ProgramWF'
    <3>1. rest' \in Seq(Line)
      BY <1>5 DEF InitLoadFails
    <3>2. QED
      BY <1>5, <3>1, ClearWF DEF InitLoadFails
  <2>2. FsmTypeOK' /\ StepsInTheirStates' /\ LateMeansStopping'
    BY <1>1, <1>5 DEF InitLoadFails, Return, FsmTypeOK, PCs, Returns,
         Graph!States, StepsInTheirStates, LateMeansStopping
  <2>3. QED
    BY <1>2, <1>5, <2>1, <2>2 DEF InitLoadFails, Return
<1>6. CASE ReloadFails
  <2>1. ProgramWF'
    BY <1>1, <1>6, ReadLineWF DEF ReloadFails
  <2>2. FsmTypeOK' /\ StepsInTheirStates' /\ LateMeansStopping'
    BY <1>1, <1>6 DEF ReloadFails, Return, FsmTypeOK, PCs, Returns,
         Graph!States, StepsInTheirStates, LateMeansStopping
  <2>3. QED
    BY <1>2, <1>6, <2>1, <2>2 DEF ReloadFails, Return
<1>7. CASE IdleReload
  <2>1. ProgramWF'
    BY <1>1, <1>7, OpenFileWF DEF IdleReload
  <2>2. FsmTypeOK' /\ StepsInTheirStates' /\ LateMeansStopping'
    BY <1>1, <1>7 DEF IdleReload, FsmTypeOK, PCs, StepsInTheirStates,
         LateMeansStopping
  <2>3. QED
    BY <1>1, <1>2, <1>7, <2>1, <2>2 DEF IdleReload, StepsInTheirStates
<1>8. QED
  BY <1>3, <1>4, <1>5, <1>6, <1>7

\* do_load_block: the iterator is on a block of the type of the chosen state.
LEMMA LoadBlockStep ==
  ASSUME IInv, DoLoadBlock
  PROVE  IInv'
<1>1. /\ ProgramWF /\ MachineTypeOK /\ FsmTypeOK
      /\ StepsInTheirStates /\ LateMeansStopping
  BY IInvParts
<1>2. /\ LoadNext /\ pc = "body" /\ pc' = "ret"
      /\ state = "LOAD_BLOCK" /\ state' = "LOAD_BLOCK"
      /\ UNCHANGED <<machVars, prev, stopReq, handler, timerOn, tBlk, late>>
  BY DEF DoLoadBlock, InBody, Return
<1>3. ProgramWF' /\ (done' \/ current' \in 1 .. Len(blocks'))
  BY <1>1, <1>2, LoadNextWF
<1>4. blocks' = blocks
  BY <1>2 DEF LoadNext
<1>5. /\ done' => ret' = "IDLE" /\ metrics' = metrics
      /\ ~done' => /\ ret' = StateForType(blocks[current'].type)
                   /\ metrics' \in {metrics, "line"}
  BY DEF DoLoadBlock, Return, Publish
<1>6. \A t : StateForType(t) \in Motion \cup {"IDLE"}
  BY DEF StateForType, Motion
<1>7. ret' \in Motion \cup {"IDLE"} /\ metrics' \in {metrics, "line"}
  BY <1>5, <1>6
<1>8. MachineTypeOK'
  BY <1>1, <1>2, MachineFrame
<1>9. FsmTypeOK'
  <2>1. ret' \in Returns
    BY <1>7 DEF Motion, Returns, Graph!States
  <2>2. metrics' \in Metrics
    BY <1>1, <1>7 DEF FsmTypeOK, Metrics
  <2>3. QED
    BY <1>1, <1>2, <2>1, <2>2 DEF FsmTypeOK, PCs
<1>10. LoadedBlockMatches'
  <2>1. SUFFICES ASSUME ret' \in Motion
                 PROVE  /\ current' \in 1 .. Len(blocks')
                        /\ StateForType(CurBlock.type)' = ret'
    BY DEF LoadedBlockMatches
  <2>2. ~done'
    BY <1>5, <2>1 DEF Motion
  <2>3. QED
    BY <1>3, <1>4, <1>5, <2>2 DEF CurBlock
<1>11. /\ CurrentDereferenceable' /\ AbortOnlyOnStuckTail'
       /\ StepsInTheirStates' /\ LateMeansStopping'
  BY <1>1, <1>2 DEF CurrentDereferenceable, Motion, AbortOnlyOnStuckTail,
       StepsInTheirStates, LateMeansStopping
<1>12. QED
  BY <1>3, <1>8, <1>9, <1>10, <1>11 DEF IInv, TypeOK, ProgramWF, FsmTypeOK

-----------------------------------------------------------------------------
\* A block that was not parsed is the last one of the program.
LEMMA UnparsedIsTail ==
  ASSUME ProgramWF, current \in 1 .. Len(blocks), ~CurBlock.parsed
  PROVE  StuckTail /\ current = Len(blocks)
<1>1. Len(blocks) \in Nat /\ OnlyTailUnparsed
  BY DEF ProgramWF, ProgramTypeOK
<1>2. current = Len(blocks)
  <2>1. current \notin 1 .. Len(blocks) - 1
    BY <1>1 DEF OnlyTailUnparsed, CurBlock
  <2>2. QED
    BY <1>1, <2>1
<1>3. blocks # <<>>
  BY <1>1
<1>4. QED
  BY <1>2, <1>3 DEF StuckTail, Prev, CurBlock

\* The body of a motion state leaves the program, the state and the history of
\* late setpoints in order; it dies on an unparsed block at most.
LEMMA MotionStep ==
  ASSUME IInv, pc = "body", pc' \in {"ret", "aborted"},
         state # "LOAD_BLOCK", UNCHANGED progVars,
         UNCHANGED <<state, handler, timerOn>>,
         MachineTypeOK', FsmTypeOK', LateMeansStopping',
         pc' = "aborted" => StuckTail /\ current = Len(blocks)
  PROVE  IInv'
<1>1. ProgramWF /\ CurrentDereferenceable /\ StepsInTheirStates
  BY IInvParts
<1>2. ProgramWF'
  BY <1>1, ProgramFrame
<1>3. CurrentDereferenceable'
  BY <1>1 DEF CurrentDereferenceable, progVars, CurBlock
<1>4. LoadedBlockMatches' /\ StepsInTheirStates'
  BY <1>1 DEF LoadedBlockMatches, StepsInTheirStates
<1>5. AbortOnlyOnStuckTail'
  BY DEF AbortOnlyOnStuckTail, progVars, StuckTail
<1>6. QED
  BY <1>2, <1>3, <1>4, <1>5 DEF IInv, TypeOK, ProgramWF, FsmTypeOK

\* What holds when a body is about to run outside STOP: no setpoint is late.
LEMMA BodyNotLate ==
  ASSUME IInv, pc = "body", state # "STOP"
  PROVE  late = 0
BY IInvParts DEF LateMeansStopping

\* do_rapid_motion.
LEMMA RapidStep ==
  ASSUME IInv, DoRapidMotion
  PROVE  IInv'
<1>1. /\ ProgramWF /\ MachineTypeOK /\ FsmTypeOK
      /\ CurrentDereferenceable
  BY IInvParts
<1>2. PICK x \in Exchanges : RapidTick(x)
  BY DEF DoRapidMotion
<1>3. /\ pc = "body" /\ state = "RAPID_MOTION" /\ late = 0
      /\ UNCHANGED progVars /\ UNCHANGED <<state, prev, handler, timerOn, metrics>>
  BY <1>2, BodyNotLate DEF RapidTick, InBody
<1>4. current \in 1 .. Len(blocks)
  BY <1>1, <1>3 DEF CurrentDereferenceable, Motion
<1>5. CurBlock.target \in Complete \cup {NoPoint, NaNPoint}
  BY <1>1, <1>4, CurBlockType DEF Block, Complete
<1>6. MachineTypeOK'
  BY <1>1, <1>2, <1>5, SetSetpointType DEF RapidTick
<1>7. CASE SetpointThrows(CurBlock.target)
  <2>1. pc' = "aborted" /\ UNCHANGED <<ret, stopReq, tBlk>>
    BY <1>2, <1>7 DEF RapidTick, Abort
  <2>2. late' = IF ~stopReq' THEN 0 ELSE 1
    BY <1>2, <1>3 DEF RapidTick, CountLate
  <2>3. FsmTypeOK'
    BY <1>1, <1>3, <2>1, <2>2 DEF FsmTypeOK, PCs
  <2>4. LateMeansStopping'
    BY <2>1, <2>2 DEF LateMeansStopping
  <2>5. ~CurBlock.parsed
    <3>1. CurBlock.target \notin Points
      BY <1>7, PointsAssumption DEF SetpointThrows
    <3>2. QED
      BY <1>1, <1>4, <3>1 DEF ProgramWF, ParsedTargetsComplete, CurBlock
  <2>6. StuckTail /\ current = Len(blocks)
    BY <1>1, <1>4, <2>5, UnparsedIsTail
  <2>7. QED
    BY <1>3, <1>6, <2>1, <2>3, <2>4, <2>6, MotionStep
<1>8. CASE ~SetpointThrows(CurBlock.target)
  <2>1. /\ pc' = "ret" /\ ret' \in {"LOAD_BLOCK", "NO_CHANGE"}
        /\ stopReq' = FALSE /\ tBlk' = Tick
    BY <1>2, <1>8 DEF RapidTick, Return
  <2>2. late' = 0
    BY <1>2, <2>1 DEF RapidTick, CountLate
  <2>3. FsmTypeOK'
    <3>1. tBlk' \in 0 .. TickCap
      BY <1>1, <2>1, TickType DEF FsmTypeOK
    <3>2. QED
      BY <1>1, <1>3, <2>1, <2>2, <3>1 DEF FsmTypeOK, PCs, Returns, Graph!States
  <2>4. LateMeansStopping'
    BY <2>2 DEF LateMeansStopping
  <2>5. QED
    BY <1>3, <1>6, <2>1, <2>3, <2>4, MotionStep
<1>9. QED
  BY <1>7, <1>8

\* do_interp_motion.
LEMMA InterpStep ==
  ASSUME IInv, DoInterpMotion
  PROVE  IInv'
<1>1. /\ ProgramWF /\ MachineTypeOK /\ FsmTypeOK
      /\ CurrentDereferenceable
  BY IInvParts
<1>2. /\ pc = "body" /\ state = "INTERP_MOTION" /\ late = 0
      /\ UNCHANGED progVars
      /\ UNCHANGED <<state, prev, stopReq, handler, timerOn, metrics>>
  BY BodyNotLate DEF DoInterpMotion, InBody
<1>3. current \in 1 .. Len(blocks)
  BY <1>1, <1>2 DEF CurrentDereferenceable, Motion
<1>4. CASE CurBlock.parsed
  <2>1. PICK x \in Exchanges : SetSetpoint(Interpolated(current, tBlk), x)
    BY <1>4 DEF DoInterpMotion
  <2>2. MachineTypeOK'
    BY <1>1, <1>3, <2>1, InterpolatedType, SetSetpointType
  <2>3. /\ pc' = "ret" /\ ret' \in {"LOAD_BLOCK", "NO_CHANGE"}
        /\ tBlk' = Tick /\ late' = IF ~stopReq THEN 0 ELSE 1
    BY <1>2, <1>4 DEF DoInterpMotion, Return, CountLate
  <2>4. FsmTypeOK'
    <3>1. tBlk' \in 0 .. TickCap
      BY <1>1, <2>3, TickType DEF FsmTypeOK
    <3>2. QED
      BY <1>1, <1>2, <2>3, <3>1 DEF FsmTypeOK, PCs, Returns, Graph!States
  <2>5. LateMeansStopping'
    BY <1>2, <2>3 DEF LateMeansStopping, Overridden
  <2>6. QED
    BY <1>2, <2>2, <2>3, <2>4, <2>5, MotionStep
<1>5. CASE ~CurBlock.parsed
  <2>1. pc' = "aborted" /\ UNCHANGED <<ret, tBlk, late>> /\ UNCHANGED machVars
    BY <1>5 DEF DoInterpMotion, Abort
  <2>2. MachineTypeOK' /\ FsmTypeOK'
    BY <1>1, <1>2, <2>1, MachineFrame DEF FsmTypeOK, PCs
  <2>3. LateMeansStopping'
    BY <1>2, <2>1 DEF LateMeansStopping
  <2>4. QED
    BY <1>1, <1>2, <1>3, <1>5, <2>1, <2>2, <2>3, UnparsedIsTail, MotionStep
<1>6. QED
  BY <1>4, <1>5

\* do_no_motion.
LEMMA NoMotionStep ==
  ASSUME IInv, DoNoMotion
  PROVE  IInv'
<1>1. /\ ProgramWF /\ MachineTypeOK /\ FsmTypeOK
      /\ CurrentDereferenceable
  BY IInvParts
<1>2. /\ pc = "body" /\ state = "NO_MOTION" /\ late = 0
      /\ UNCHANGED progVars /\ UNCHANGED machVars
      /\ UNCHANGED <<state, prev, stopReq, handler, timerOn, tBlk, metrics, late>>
  BY BodyNotLate DEF DoNoMotion, InBody
<1>3. \/ pc' = "ret" /\ ret' = "LOAD_BLOCK"
      \/ pc' = "aborted" /\ ret' = ret /\ ~CurBlock.parsed
  BY DEF DoNoMotion, Return, Abort
<1>4. current \in 1 .. Len(blocks)
  BY <1>1, <1>2 DEF CurrentDereferenceable, Motion
<1>5. pc' = "aborted" => StuckTail /\ current = Len(blocks)
  BY <1>1, <1>3, <1>4, UnparsedIsTail
<1>6. MachineTypeOK'
  BY <1>1, <1>2, MachineFrame
<1>7. FsmTypeOK'
  BY <1>1, <1>2, <1>3 DEF FsmTypeOK, PCs, Returns, Graph!States
<1>8. LateMeansStopping'
  BY <1>2 DEF LateMeansStopping
<1>9. QED
  BY <1>2, <1>3, <1>5, <1>6, <1>7, <1>8, MotionStep

\* do_go_to_zero.
LEMMA GoToZeroStep ==
  ASSUME IInv, DoGoToZero
  PROVE  IInv'
<1>1. MachineTypeOK /\ FsmTypeOK
  BY IInvParts
<1>2. PICK x \in Exchanges : ZeroTick(x)
  BY DEF DoGoToZero
<1>3. /\ pc = "body" /\ state = "GO_TO_ZERO" /\ late = 0
      /\ UNCHANGED progVars
      /\ UNCHANGED <<state, prev, stopReq, handler, timerOn, tBlk, metrics>>
  BY <1>2, BodyNotLate DEF ZeroTick, InBody
<1>4. MachineTypeOK'
  <2>1. Zero \in Complete \cup {NoPoint, NaNPoint}
    BY PointsAssumption DEF Complete
  <2>2. QED
    BY <1>1, <1>2, <2>1, SetSetpointType DEF ZeroTick
<1>5. /\ pc' = "ret" /\ ret' \in {"IDLE", "NO_CHANGE"}
      /\ late' = IF ~stopReq THEN 0 ELSE 1
  BY <1>2, <1>3 DEF ZeroTick, Return, CountLate
<1>6. FsmTypeOK'
  BY <1>1, <1>3, <1>5 DEF FsmTypeOK, PCs, Returns, Graph!States
<1>7. LateMeansStopping'
  BY <1>3, <1>5 DEF LateMeansStopping, Overridden
<1>8. QED
  BY <1>3, <1>4, <1>5, <1>6, <1>7, MotionStep

-----------------------------------------------------------------------------
\* What the wrapper lets through, by the state it belongs to.
LEMMA NextStateCases ==
  ASSUME FsmTypeOK
  PROVE  /\ NextState \in Graph!States
         /\ \/ NextState = "STOP"
            \/ ~(stopReq /\ state \in Overridden) /\ NextState = state
            \/ /\ ~(stopReq /\ state \in Overridden)
               /\ NextState = ret /\ ret \in ValidReturns[state] \ {"NO_CHANGE"}
BY DEF FsmTypeOK, NextState, Returns, Graph!States

\* The end of the wrapper and eval_state.
LEMMA EvaluateStep ==
  ASSUME IInv, Evaluate
  PROVE  IInv'
<1>1. /\ ProgramWF /\ MachineTypeOK /\ FsmTypeOK /\ CurrentDereferenceable
      /\ LoadedBlockMatches /\ StepsInTheirStates /\ LateMeansStopping
  BY IInvParts
<1>2. /\ pc = "ret" /\ pc' = "trans" /\ prev' = state /\ state' = NextState
      /\ UNCHANGED progVars /\ UNCHANGED machVars
      /\ UNCHANGED <<ret, stopReq, handler, timerOn, tBlk, metrics, late>>
  BY DEF Evaluate
<1>3. ProgramWF' /\ MachineTypeOK'
  BY <1>1, <1>2, ProgramFrame, MachineFrame
<1>4. FsmTypeOK'
  BY <1>1, <1>2, NextStateCases DEF FsmTypeOK, PCs
<1>5. CurrentDereferenceable'
  <2>1. SUFFICES ASSUME state' \in Motion
                 PROVE  /\ current \in 1 .. Len(blocks)
                        /\ StateForType(CurBlock.type) = state'
    BY <1>2 DEF CurrentDereferenceable, progVars, CurBlock
  <2>2. CASE state' = state
    BY <1>1, <2>1, <2>2 DEF CurrentDereferenceable
  <2>3. CASE state' # state
    <3>1. ret \in ValidReturns[state] /\ state' = ret
      BY <1>1, <1>2, <2>1, <2>3, NextStateCases DEF Motion
    <3>2. state = "LOAD_BLOCK"
      BY <1>1, <2>1, <2>3, <3>1 DEF ValidReturns, Motion, FsmTypeOK, Graph!States
    <3>3. QED
      BY <1>1, <1>2, <2>1, <3>1, <3>2 DEF LoadedBlockMatches
  <2>4. QED
    BY <2>2, <2>3
<1>6. LateMeansStopping'
  <2>1. SUFFICES ASSUME late # 0
                 PROVE  late = 1 /\ stopReq /\ state' = "STOP"
    BY <1>2 DEF LateMeansStopping
  <2>2. /\ late = 1 /\ stopReq
        /\ state = "STOP" \/ state \in Overridden
    BY <1>1, <1>2, <2>1 DEF LateMeansStopping
  <2>3. CASE state \in Overridden
    BY <1>2, <2>2, <2>3 DEF NextState
  <2>4. CASE state = "STOP"
    <3>1. ValidReturns[state] = {"NO_CHANGE"}
      BY <2>4 DEF ValidReturns, Graph!States
    <3>2. QED
      BY <1>1, <1>2, <2>2, <2>4, <3>1, NextStateCases DEF Overridden
  <2>5. QED
    BY <2>2, <2>3, <2>4
<1>7. LoadedBlockMatches' /\ AbortOnlyOnStuckTail' /\ StepsInTheirStates'
  BY <1>1, <1>2 DEF LoadedBlockMatches, AbortOnlyOnStuckTail, StepsInTheirStates
<1>8. QED
  BY <1>3, <1>4, <1>5, <1>6, <1>7 DEF IInv, TypeOK, ProgramWF, FsmTypeOK

\* The transition functions: only reset touches the program, on its way to
\* LOAD_BLOCK.
LEMMA TransitionStep ==
  ASSUME IInv, TransitionCall
  PROVE  IInv'
<1>1. /\ ProgramWF /\ MachineTypeOK /\ FsmTypeOK /\ CurrentDereferenceable
      /\ StepsInTheirStates /\ LateMeansStopping
  BY IInvParts
<1>2. /\ pc = "trans" /\ pc' = "wait" /\ UNCHANGED machVars
      /\ UNCHANGED <<state, prev, ret, stopReq, handler, timerOn, late>>
  BY DEF TransitionCall, Reset, BeginRapid, EndRapid, BeginInterp,
       NoTransition, InTransition
<1>3. \/ Rewind /\ state = "LOAD_BLOCK"
      \/ UNCHANGED progVars
  BY DEF TransitionCall, Reset, BeginRapid, EndRapid, BeginInterp,
       NoTransition, InTransition
<1>4. tBlk' \in {0, tBlk} /\ metrics' \in {metrics, "rapid_start", "rapid_end"}
  BY DEF TransitionCall, Reset, BeginRapid, EndRapid, BeginInterp,
       NoTransition, Publish
<1>5. ProgramWF'
  BY <1>1, <1>3, RewindWF, ProgramFrame
<1>6. MachineTypeOK'
  BY <1>1, <1>2, MachineFrame
<1>7. FsmTypeOK'
  <2>1. tBlk' \in 0 .. TickCap
    BY <1>1, <1>4, TickAssumption DEF FsmTypeOK
  <2>2. QED
    BY <1>1, <1>2, <1>4, <2>1 DEF FsmTypeOK, PCs, Metrics
<1>8. CurrentDereferenceable'
  <2>1. CASE state = "LOAD_BLOCK"
    BY <1>2, <2>1 DEF CurrentDereferenceable, Motion
  <2>2. CASE UNCHANGED progVars
    BY <1>1, <1>2, <2>2 DEF CurrentDereferenceable, progVars, CurBlock
  <2>3. QED
    BY <1>3, <2>1, <2>2
<1>9. /\ LoadedBlockMatches' /\ AbortOnlyOnStuckTail' /\ StepsInTheirStates'
      /\ LateMeansStopping'
  BY <1>1, <1>2 DEF LoadedBlockMatches, AbortOnlyOnStuckTail,
       StepsInTheirStates, LateMeansStopping
<1>10. QED
  BY <1>5, <1>6, <1>7, <1>8, <1>9 DEF IInv, TypeOK, ProgramWF, FsmTypeOK

\* The simulator only moves its own machine.
LEMMA FmuKeepsIInv ==
  ASSUME IInv, FmuStep
  PROVE  IInv'
<1>1. MachineTypeOK /\ UNCHANGED progVars /\ UNCHANGED fsmVars
  BY IInvParts DEF FmuStep
<1>2. MachineTypeOK'
  BY DEF FmuStep, FmuMove, MachineTypeOK, IInv, TypeOK, Complete
<1>3. QED
  BY <1>1, <1>2 DEF IInv, TypeOK, ProgramTypeOK, OnlyTailUnparsed,
       ParsedTargetsComplete, CurrentDereferenceable, LoadedBlockMatches,
       AbortOnlyOnStuckTail, StepsInTheirStates, LateMeansStopping, fsmVars,
       progVars, CurBlock, StuckTail

\* Every step, and stuttering, preserves the invariant.
LEMMA NextIInv == IInv /\ [Next]_vars => IInv'
<1>1. SUFFICES ASSUME IInv, [Next]_vars PROVE IInv'
  OBVIOUS
<1>2. CASE UNCHANGED vars
  BY <1>1, <1>2 DEF vars, machVars, MachineTypeOK, IInv, TypeOK, ProgramTypeOK,
       OnlyTailUnparsed, ParsedTargetsComplete, CurrentDereferenceable,
       LoadedBlockMatches, AbortOnlyOnStuckTail, StepsInTheirStates,
       LateMeansStopping, fsmVars, progVars, CurBlock, StuckTail
<1>3. CASE Body
  BY <1>1, <1>3, QuietBodyStep, LoadingStep, LoadBlockStep, RapidStep,
     InterpStep, NoMotionStep, GoToZeroStep DEF Body
<1>4. CASE User
  BY <1>1, <1>4, QuietBodyStep, LoadingStep DEF User
<1>5. CASE Evaluate \/ TransitionCall
  BY <1>1, <1>5, EvaluateStep, TransitionStep
<1>6. CASE Wait \/ DoStop \/ Leave \/ SigInt
  BY <1>1, <1>6, LoopStep
<1>7. CASE FmuStep
  BY <1>1, <1>7, FmuKeepsIInv
<1>8. QED
  BY <1>1, <1>2, <1>3, <1>4, <1>5, <1>6, <1>7 DEF Next, Controller, Gone

-----------------------------------------------------------------------------
\* The inductive invariant holds in every reachable state of the controller.
THEOREM Invariance == Spec => []IInv
<1>1. QED
  BY InitIInv, NextIInv, PTL DEF Spec

\* Every variable of the program, the machine and the controller keeps its type.
THEOREM TypeCorrect == Spec => []TypeOK
<1>1. IInv => TypeOK
  BY DEF IInv
<1>2. QED
  BY <1>1, Invariance, PTL

\* No do_xxx function dereferences end() of the list, or a block that is not of
\* the type its state is for.
THEOREM Dereferenceable == Spec => []CurrentDereferenceable
<1>1. IInv => CurrentDereferenceable
  BY DEF IInv
<1>2. QED
  BY <1>1, Invariance, PTL

\* Only the unparsed block a failed reload leaves can kill the process.
THEOREM AbortsOnlyOnTail == Spec => []AbortOnlyOnStuckTail
<1>1. IInv => AbortOnlyOnStuckTail
  BY DEF IInv
<1>2. QED
  BY <1>1, Invariance, PTL

\* The timing function finds the timer running.
THEOREM TimerRuns == Spec => []TimerRunsAtWait
<1>1. IInv => TimerRunsAtWait
  BY DEF IInv, StepsInTheirStates, TimerRunsAtWait
<1>2. QED
  BY <1>1, Invariance, PTL

\* At most one setpoint is commanded while a stop request is pending.
THEOREM OneLate == Spec => []OneLateSetpoint
<1>1. IInv => OneLateSetpoint
  BY DEF IInv, LateMeansStopping, OneLateSetpoint
<1>2. QED
  BY <1>1, Invariance, PTL

-----------------------------------------------------------------------------
\* The state a wrapper chooses is joined to its own by an edge of the graph.
LEMMA ChosenEdge ==
  ASSUME FsmTypeOK, NextState # state
  PROVE  <<state, NextState>> \in Graph!Edge \cup Graph!Emergency
<1>1. CASE stopReq /\ state \in Overridden
  BY <1>1 DEF NextState, Overridden, Graph!Emergency, Graph!Interruptible
<1>2. CASE ~(stopReq /\ state \in Overridden)
  <2>1. NextState = ret /\ ret \in ValidReturns[state] \ {"NO_CHANGE"}
    BY <1>2 DEF NextState
  <2>2. <<state, ret>> \in Graph!Edge
    BY <2>1 DEF FsmTypeOK, Graph!States, ValidReturns, Graph!Edge
  <2>3. QED
    BY <2>1, <2>2
<1>3. QED
  BY <1>1, <1>2

\* No step but the assignments of eval_state changes the state.
LEMMA StateFrame ==
  ASSUME [Next]_vars
  PROVE  Evaluate \/ UNCHANGED state
<1>1. Body => UNCHANGED state
  BY DEF Body, InitOpen, InitOpenFails, LoadLine, InitLoadFails, ReloadFails,
       LoadDone, IdlePrompt, DoLoadBlock, DoRapidMotion, RapidTick,
       DoInterpMotion, DoNoMotion, DoGoToZero, ZeroTick, fsmVars
<1>2. User => UNCHANGED state
  BY DEF User, IdleKey, IdleReload
<1>3. TransitionCall \/ Wait \/ DoStop \/ Leave => UNCHANGED state
  BY DEF TransitionCall, Wait, DoStop, Leave
<1>4. SigInt \/ FmuStep \/ Gone \/ UNCHANGED vars => UNCHANGED state
  BY DEF SigInt, FmuStep, Gone, vars, fsmVars
<1>5. QED
  BY <1>1, <1>2, <1>3, <1>4 DEF Next, Controller

\* The controller implements the graph of fsm.dot and its emergency edges.
THEOREM ImplementsGraph == Spec => FollowsGraph
<1>1. Init => Graph!Init
  BY DEF Init, Graph!Init
<1>2. IInv /\ [Next]_vars => [Graph!Next]_state
  <2>1. SUFFICES ASSUME IInv, [Next]_vars, state' # state
                 PROVE  Graph!Next
    OBVIOUS
  <2>2. FsmTypeOK
    BY <2>1, IInvParts
  <2>3. state' = NextState
    BY <2>1, StateFrame DEF Evaluate
  <2>4. /\ <<state, NextState>> \in Graph!Edge \cup Graph!Emergency
        /\ NextState \in Graph!States
    BY <2>1, <2>2, <2>3, ChosenEdge, NextStateCases
  <2>5. QED
    BY <2>3, <2>4 DEF Graph!Next, Graph!Follow
<1>3. QED
  BY <1>1, <1>2, Invariance, PTL DEF Spec, FollowsGraph, Graph!Spec

-----------------------------------------------------------------------------
\* The steps that neither command the machine nor choose or enter a state of
\* the program's execution.
Quiet ==
  \/ InitOpen \/ InitOpenFails \/ LoadLine \/ InitLoadFails \/ ReloadFails
  \/ LoadDone \/ IdlePrompt \/ User \/ Wait \/ DoStop \/ Leave \/ SigInt
  \/ FmuStep \/ Gone \/ UNCHANGED vars

\* Every step is a quiet one or one of the seven others.
LEMMA StepKinds ==
  ASSUME [Next]_vars
  PROVE  \/ Quiet \/ DoLoadBlock \/ DoRapidMotion \/ DoInterpMotion
         \/ DoNoMotion \/ DoGoToZero \/ Evaluate \/ TransitionCall
BY DEF Quiet, Next, Controller, Body

\* What a quiet step leaves alone; outside INIT and IDLE, where no file is
\* read, it leaves the program and the chosen state alone too.
LEMMA QuietFrame ==
  ASSUME IInv, Quiet
  PROVE  /\ UNCHANGED <<state, prev, setpoint, error, tBlk, metrics>>
         /\ state \notin {"INIT", "IDLE"} =>
              /\ UNCHANGED <<blocks, current, ret>>
              /\ \/ pc' = pc
                 \/ pc = "wait" /\ pc' \in {"body", "exit"}
                 \/ pc \in {"exit", "leave"} /\ pc' \in {"leave", "ended", "killed"}
<1>1. StepsInTheirStates
  BY IInvParts
<1>2. CASE InitOpen \/ InitOpenFails
  BY <1>2 DEF InitOpen, InitOpenFails, InBody, machVars
<1>3. CASE LoadLine \/ InitLoadFails \/ ReloadFails \/ LoadDone
  BY <1>1, <1>3 DEF LoadLine, InitLoadFails, ReloadFails, LoadDone, fsmVars,
       machVars, StepsInTheirStates
<1>4. CASE IdlePrompt
  BY <1>4 DEF IdlePrompt, InBody, machVars
<1>5. CASE User
  BY <1>1, <1>5 DEF User, IdleKey, IdleReload, machVars, StepsInTheirStates
<1>6. CASE Wait \/ DoStop \/ Leave \/ SigInt
  BY <1>1, <1>6, IInvParts DEF Wait, DoStop, Leave, SigInt, machVars, progVars,
     StepsInTheirStates, Terminal, FsmTypeOK
<1>7. CASE FmuStep
  BY <1>7 DEF FmuStep, FmuMove, fsmVars, progVars
<1>8. CASE Gone \/ UNCHANGED vars
  BY <1>8 DEF Gone, vars, fsmVars, progVars, machVars
<1>9. QED
  BY <1>2, <1>3, <1>4, <1>5, <1>6, <1>7, <1>8 DEF Quiet

-----------------------------------------------------------------------------
\* Between reset and the first do_load_block the iterator is on end().
FreshRun ==
  state = "LOAD_BLOCK" /\ prev = "IDLE" /\ pc \in {"wait", "body"}
    => current = End

\* reset establishes it, nothing else gets there.
LEMMA FreshRunStep ==
  ASSUME IInv, FreshRun, [Next]_vars
  PROVE  FreshRun'
<1>1. CASE Quiet
  BY <1>1, QuietFrame DEF FreshRun
<1>2. CASE DoLoadBlock \/ DoRapidMotion \/ DoInterpMotion \/ DoNoMotion \/ DoGoToZero
  <2>1. pc' \in {"ret", "aborted"}
    BY <1>2 DEF DoLoadBlock, DoRapidMotion, RapidTick, DoInterpMotion,
         DoNoMotion, DoGoToZero, ZeroTick, Return, Abort
  <2>2. QED
    BY <2>1 DEF FreshRun
<1>3. CASE Evaluate
  BY <1>3 DEF Evaluate, FreshRun
<1>4. CASE TransitionCall
  <2>1. SUFFICES ASSUME state = "LOAD_BLOCK", prev = "IDLE"
                 PROVE  current' = End
    BY <1>4 DEF TransitionCall, FreshRun
  <2>2. Reset
    BY <1>4, <2>1 DEF TransitionCall, BeginRapid, EndRapid, BeginInterp,
         NoTransition, Installed, InTransition
  <2>3. QED
    BY <2>2 DEF Reset, Rewind
<1>5. QED
  BY <1>1, <1>2, <1>3, <1>4, StepKinds

\* Every run of the program starts at its first block.
THEOREM RunsStartAtFirst == Spec => RunStartsAtFirst
<1>1. Init => FreshRun
  BY DEF Init, FreshRun
<1>2. IInv /\ FreshRun /\ [Next]_vars => FreshRun'
  BY FreshRunStep
<1>3. IInv /\ FreshRun /\ [Next]_vars =>
        [InBody("LOAD_BLOCK") /\ prev = "IDLE" /\ pc' = "ret"
           => current' = (IF blocks = <<>> THEN End ELSE 1)]_vars
  <2>1. SUFFICES ASSUME IInv, FreshRun, [Next]_vars, InBody("LOAD_BLOCK"),
                        prev = "IDLE", pc' = "ret"
                 PROVE  current' = (IF blocks = <<>> THEN End ELSE 1)
    OBVIOUS
  <2>2. current = End
    BY <2>1 DEF FreshRun, InBody
  <2>3. LoadNext
    <3>1. ~Quiet
      BY <2>1, QuietFrame DEF InBody
    <3>2. QED
      BY <2>1, <3>1, StepKinds DEF InBody, DoLoadBlock, DoRapidMotion, RapidTick,
           DoInterpMotion, DoNoMotion, DoGoToZero, ZeroTick, Evaluate,
           TransitionCall
  <2>4. blocks \in Seq(Block)
    BY <2>1, IInvParts DEF ProgramWF, ProgramTypeOK
  <2>5. Len(blocks) = 0 <=> blocks = <<>>
    BY <2>4
  <2>6. QED
    BY <2>2, <2>3, <2>4, <2>5 DEF LoadNext, NextOf, End
<1>4. QED
  BY <1>1, <1>2, <1>3, Invariance, PTL DEF Spec, RunStartsAtFirst

-----------------------------------------------------------------------------
\* A finished interpolation has commanded its end point.
EndCommanded ==
  state = "INTERP_MOTION" /\ pc = "ret" /\ ret = "LOAD_BLOCK"
    => setpoint = EndPoint(current)

\* From the end of the block on interpolate() gives its end point.
LEMMA EndReached ==
  ASSUME NEW i, NEW t, BlockEnded(blocks[i], t),
         blocks[i].line.ticks \in Nat, t \in Nat
  PROVE  Interpolated(i, t) = EndPoint(i)
BY DEF BlockEnded, Interpolated

\* The block is left after an interpolation past its end.
LEMMA EndCommandedStep ==
  ASSUME IInv, EndCommanded, [Next]_vars
  PROVE  EndCommanded'
<1>1. CASE Quiet
  BY <1>1, QuietFrame DEF EndCommanded, EndPoint, NoLength, StartPoint
<1>2. CASE DoLoadBlock \/ DoRapidMotion \/ DoNoMotion \/ DoGoToZero
  <2>1. state' # "INTERP_MOTION"
    BY <1>2 DEF DoLoadBlock, DoRapidMotion, RapidTick, DoNoMotion, DoGoToZero,
         ZeroTick, InBody
  <2>2. QED
    BY <2>1 DEF EndCommanded
<1>3. CASE DoInterpMotion
  <2>1. SUFFICES ASSUME pc' = "ret", ret' = "LOAD_BLOCK"
                 PROVE  setpoint' = EndPoint(current)'
    BY DEF EndCommanded
  <2>2. CurBlock.parsed
    BY <1>3, <2>1 DEF DoInterpMotion, Abort
  <2>3. /\ setpoint' = Interpolated(current, tBlk)
        /\ BlockEnded(CurBlock, tBlk)
    BY <1>3, <2>1, <2>2 DEF DoInterpMotion, SetSetpoint, Return
  <2>4. UNCHANGED <<blocks, current>>
    BY <1>3 DEF DoInterpMotion, progVars
  <2>5. /\ tBlk \in Nat
        /\ CurBlock \in Block
    BY <1>3, IInvParts, TickAssumption, CurBlockType DEF FsmTypeOK, DoInterpMotion,
       InBody, CurrentDereferenceable, Motion
  <2>6. Interpolated(current, tBlk) = EndPoint(current)
    BY <2>3, <2>5, EndReached DEF CurBlock, Block, Line
  <2>7. QED
    BY <2>3, <2>4, <2>6 DEF EndPoint, NoLength, StartPoint
<1>4. CASE Evaluate \/ TransitionCall
  BY <1>4 DEF Evaluate, TransitionCall, EndCommanded
<1>5. QED
  BY <1>1, <1>2, <1>3, <1>4, StepKinds

\* An interpolated block is left for the next only with its end commanded.
THEOREM InterpolationEnds == Spec => InterpEndsOnTarget
<1>1. Init => EndCommanded
  BY DEF Init, EndCommanded
<1>2. IInv /\ EndCommanded /\ [Next]_vars => EndCommanded'
  BY EndCommandedStep
<1>3. IInv /\ EndCommanded /\ [Next]_vars =>
        [state = "INTERP_MOTION" /\ state' = "LOAD_BLOCK"
           => setpoint = EndPoint(current)]_vars
  <2>1. SUFFICES ASSUME IInv, EndCommanded, [Next]_vars,
                        state = "INTERP_MOTION", state' = "LOAD_BLOCK"
                 PROVE  setpoint = EndPoint(current)
    OBVIOUS
  <2>2. pc = "ret" /\ NextState = "LOAD_BLOCK"
    BY <2>1, StateFrame DEF Evaluate
  <2>3. ret = "LOAD_BLOCK"
    BY <2>1, <2>2, NextStateCases, IInvParts
  <2>4. QED
    BY <2>1, <2>2, <2>3 DEF EndCommanded
<1>4. QED
  BY <1>1, <1>2, <1>3, Invariance, PTL DEF Spec, InterpEndsOnTarget

-----------------------------------------------------------------------------
\* The motion of block i is over and its last setpoint is still commanded.
Ended(i) ==
  /\ i \in 1 .. Len(blocks)
  /\ blocks[i].type = RAPID => setpoint = blocks[i].target
  /\ blocks[i].type \in InterpTypes => setpoint = EndPoint(i)

\* The block that is about to begin follows one that is over.
Follows == current > 1 => Ended(current - 1)

\* Where the setpoint of the last block is still the one commanded last: from
\* the end of a motion, through do_load_block, to the begin of the next one.
Handover ==
  /\ state = "RAPID_MOTION" /\ pc = "ret" => setpoint = CurBlock.target
  /\ state = "LOAD_BLOCK" /\ pc \in {"trans", "wait", "body"} /\ prev # "IDLE"
       => Ended(current)
  /\ state = "LOAD_BLOCK" /\ pc = "ret" =>
       /\ ret \in Motion \cup {"IDLE"}
       /\ ret \in Motion => Follows
  /\ state = "INTERP_MOTION" /\ prev = "LOAD_BLOCK" =>
       /\ pc \in {"trans", "wait", "body"} => Follows
       /\ pc \in {"wait", "body"} => tBlk = 0

\* The types a motion state is for.
LEMMA TypesOfStates ==
  ASSUME NEW t
  PROVE  /\ StateForType(t) = "RAPID_MOTION" => t = RAPID
         /\ StateForType(t) = "INTERP_MOTION" => t \in InterpTypes
         /\ StateForType(t) = "NO_MOTION" => t = NO_MOTION
         /\ NO_MOTION \notin InterpTypes \cup {RAPID}
         /\ RAPID \notin InterpTypes
BY DEF StateForType, NO_MOTION, RAPID, InterpTypes, ArcTypes, LINE, CWA, CCWA

\* Steps that leave the program and the setpoint alone keep what is over.
LEMMA EndedFrame ==
  ASSUME UNCHANGED <<blocks, current, setpoint>>
  PROVE  /\ \A i : Ended(i)' <=> Ended(i)
         /\ Follows' <=> Follows
BY DEF Ended, Follows, EndPoint, NoLength, StartPoint

\* A motion that has just ended is over.
LEMMA MotionOver ==
  ASSUME IInv, EndCommanded, Handover, pc = "ret", state \in Motion,
         ret = "LOAD_BLOCK"
  PROVE  Ended(current)
<1>1. current \in 1 .. Len(blocks) /\ StateForType(CurBlock.type) = state
  BY IInvParts DEF CurrentDereferenceable
<1>2. state \in {"RAPID_MOTION", "INTERP_MOTION", "NO_MOTION"}
  BY DEF Motion
<1>3. QED
  BY <1>1, <1>2, TypesOfStates DEF Ended, Handover, EndCommanded, CurBlock

\* do_load_block moves on from a block that is over, or to the first one.
LEMMA HandoverLoad ==
  ASSUME IInv, FreshRun, Handover, DoLoadBlock
  PROVE  Handover'
<1>1. /\ state = "LOAD_BLOCK" /\ pc = "body" /\ pc' = "ret" /\ LoadNext
      /\ UNCHANGED <<state, prev, setpoint>>
  BY DEF DoLoadBlock, InBody, Return, machVars
<1>2. ret' \in Motion \cup {"IDLE"}
  BY DEF DoLoadBlock, Return, StateForType, Motion
<1>3. ASSUME current' > 1 PROVE Ended(current - 1)'
  <2>1. blocks \in Seq(Block) /\ current \in 0 .. Len(blocks) /\ blocks' = blocks
    BY <1>1, IInvParts DEF ProgramWF, ProgramTypeOK, LoadNext
  <2>2. current' = current + 1 /\ current # 0
    BY <1>1, <1>3, <2>1 DEF LoadNext, NextOf, End
  <2>3. Ended(current)
    BY <1>1, <2>2 DEF FreshRun, Handover, End
  <2>4. current' - 1 = current
    BY <2>1, <2>2
  <2>5. QED
    BY <1>1, <2>1, <2>3, <2>4 DEF Ended, EndPoint, NoLength, StartPoint
<1>4. QED
  BY <1>1, <1>2, <1>3 DEF Handover, Follows

\* eval_state enters LOAD_BLOCK from a motion that is over, and INTERP_MOTION
\* from LOAD_BLOCK with the block that follows it.
LEMMA HandoverEvaluate ==
  ASSUME IInv, EndCommanded, Handover, Evaluate
  PROVE  Handover'
<1>1. /\ pc = "ret" /\ pc' = "trans" /\ prev' = state /\ state' = NextState
      /\ UNCHANGED <<blocks, current, setpoint>>
  BY DEF Evaluate, progVars, machVars
<1>2. FsmTypeOK
  BY IInvParts
<1>3. ASSUME state' = "LOAD_BLOCK", state # "IDLE" PROVE Ended(current)
  <2>1. ASSUME state = "LOAD_BLOCK" PROVE FALSE
    <3>1. ret \in {"RAPID_MOTION", "INTERP_MOTION", "NO_MOTION", "IDLE"}
      BY <1>1, <2>1 DEF Handover, Motion
    <3>2. ret \in ValidReturns[state] \ {"NO_CHANGE"}
      BY <2>1, <3>1 DEF ValidReturns, Graph!States
    <3>3. NextState = ret
      BY <2>1, <3>2 DEF NextState, Overridden
    <3>4. QED
      BY <1>1, <1>3, <3>1, <3>3
  <2>2. state' = ret /\ ret \in ValidReturns[state] \ {"NO_CHANGE"}
    BY <1>1, <1>2, <1>3, <2>1, NextStateCases
  <2>3. state \in Motion
    BY <1>2, <1>3, <2>1, <2>2 DEF ValidReturns, FsmTypeOK, Graph!States, Motion
  <2>4. QED
    BY <1>1, <1>3, <2>2, <2>3, MotionOver
<1>4. ASSUME state' = "INTERP_MOTION", state = "LOAD_BLOCK" PROVE Follows
  <2>1. ret = "INTERP_MOTION"
    BY <1>1, <1>2, <1>4, NextStateCases
  <2>2. QED
    BY <1>1, <1>4, <2>1 DEF Handover, Motion
<1>5. QED
  BY <1>1, <1>3, <1>4, EndedFrame DEF Handover

\* begin_interp restarts the time of the block.
LEMMA HandoverTransition ==
  ASSUME IInv, Handover, TransitionCall
  PROVE  Handover'
<1>1. /\ pc = "trans" /\ pc' = "wait"
      /\ UNCHANGED <<setpoint, state, prev, ret, blocks>>
  BY DEF TransitionCall, Reset, BeginRapid, EndRapid, BeginInterp,
       NoTransition, InTransition, Rewind, progVars, machVars
<1>2. ASSUME prev # "IDLE" PROVE current' = current
  BY <1>2 DEF TransitionCall, Reset, BeginRapid, EndRapid, BeginInterp,
       NoTransition, InTransition, progVars
<1>3. ASSUME state = "INTERP_MOTION", prev = "LOAD_BLOCK" PROVE tBlk' = 0
  BY <1>3 DEF TransitionCall, Reset, BeginRapid, EndRapid, BeginInterp,
       NoTransition, Installed, InTransition
<1>4. CASE prev # "IDLE"
  <2>1. UNCHANGED <<blocks, current, setpoint>>
    BY <1>1, <1>2, <1>4
  <2>2. QED
    BY <1>1, <1>3, <2>1, EndedFrame DEF Handover
<1>5. CASE prev = "IDLE"
  BY <1>1, <1>5 DEF Handover
<1>6. QED
  BY <1>4, <1>5

\* No step comes between the end of a motion and the begin of the next.
LEMMA HandoverStep ==
  ASSUME IInv, FreshRun, EndCommanded, Handover, [Next]_vars
  PROVE  Handover'
<1>1. CASE Quiet
  <2>1. CASE state \in {"INIT", "IDLE"}
    BY <1>1, <2>1, QuietFrame DEF Handover
  <2>2. CASE state \notin {"INIT", "IDLE"}
    <3>1. UNCHANGED <<blocks, current, setpoint, state, prev, ret, tBlk>>
      BY <1>1, <2>2, QuietFrame
    <3>2. \/ pc' = pc
          \/ pc = "wait" /\ pc' \in {"body", "exit"}
          \/ pc' \in {"leave", "ended", "killed"}
      BY <1>1, <2>2, QuietFrame
    <3>3. QED
      BY <3>1, <3>2, EndedFrame DEF Handover, CurBlock
  <2>3. QED
    BY <2>1, <2>2
<1>2. CASE DoLoadBlock
  BY <1>2, HandoverLoad
<1>3. CASE DoRapidMotion
  <2>1. /\ state = "RAPID_MOTION" /\ state' = state /\ setpoint' = CurBlock.target
        /\ UNCHANGED <<blocks, current>>
    BY <1>3 DEF DoRapidMotion, RapidTick, InBody, SetSetpoint, progVars
  <2>2. QED
    BY <2>1 DEF Handover, CurBlock
<1>4. CASE DoInterpMotion \/ DoNoMotion \/ DoGoToZero
  <2>1. /\ pc' \in {"ret", "aborted"} /\ UNCHANGED <<state, prev>>
        /\ state \notin {"RAPID_MOTION", "LOAD_BLOCK"}
    BY <1>4 DEF DoInterpMotion, DoNoMotion, DoGoToZero, ZeroTick, InBody,
         Return, Abort
  <2>2. QED
    BY <2>1 DEF Handover
<1>5. CASE Evaluate \/ TransitionCall
  BY <1>5, HandoverEvaluate, HandoverTransition
<1>6. QED
  BY <1>1, <1>2, <1>3, <1>4, <1>5, StepKinds

\* The first setpoint of an interpolated block is the one commanded last.
THEOREM PathIsContinuous == Spec => PathContinuous
<1>1. Init => FreshRun /\ EndCommanded /\ Handover
  BY DEF Init, FreshRun, EndCommanded, Handover
<1>2. IInv /\ FreshRun /\ EndCommanded /\ Handover /\ [Next]_vars
        => FreshRun' /\ EndCommanded' /\ Handover'
  BY FreshRunStep, EndCommandedStep, HandoverStep
<1>3. IInv /\ Handover /\ [Next]_vars =>
        [(InBody("INTERP_MOTION") /\ prev = "LOAD_BLOCK" /\ pc' = "ret"
            /\ JoinedBefore(current) /\ ~NoLength(blocks, current))
           => setpoint' = setpoint]_vars
  <2>1. SUFFICES ASSUME IInv, Handover, [Next]_vars, InBody("INTERP_MOTION"),
                        prev = "LOAD_BLOCK", pc' = "ret", JoinedBefore(current),
                        ~NoLength(blocks, current)
                 PROVE  setpoint' = setpoint
    OBVIOUS
  <2>2. DoInterpMotion
    <3>1. ~Quiet
      BY <2>1, QuietFrame DEF InBody
    <3>2. QED
      BY <2>1, <3>1, StepKinds DEF InBody, DoLoadBlock, DoRapidMotion,
         RapidTick, DoNoMotion, DoGoToZero, ZeroTick, Evaluate, TransitionCall
  <2>3. CurBlock \in Block /\ current \in 1 .. Len(blocks)
    BY <2>1, IInvParts, CurBlockType DEF InBody, CurrentDereferenceable, Motion
  <2>4. setpoint' = Interpolated(current, tBlk) /\ tBlk = 0 /\ Follows
    BY <2>1, <2>2 DEF DoInterpMotion, Abort, SetSetpoint, Handover, InBody
  <2>5. CurBlock.line.ticks \in Nat \ {0}
    BY <2>3 DEF Block, Line
  <2>6. Interpolated(current, 0) = StartPoint(blocks, current)
    BY <2>1, <2>5 DEF Interpolated, CurBlock
  <2>7. /\ current > 1 /\ Ended(current - 1)
        /\ StartPoint(blocks, current) = blocks[current - 1].target
    BY <2>1, <2>4 DEF JoinedBefore, Follows, StartPoint
  <2>8. setpoint = blocks[current - 1].target
    BY <2>1, <2>7 DEF JoinedBefore, Ended
  <2>9. QED
    BY <2>4, <2>6, <2>7, <2>8
<1>4. QED
  BY <1>1, <1>2, <1>3, Invariance, PTL DEF Spec, PathContinuous

-----------------------------------------------------------------------------
\* Without an agent the error stays NaN and GO_TO_ZERO never chooses IDLE.
LocalZero ==
  ~HasAgent =>
    /\ error = NaN
    /\ state = "GO_TO_ZERO" /\ pc = "ret" => ret # "IDLE"

\* Only an exchange with the broker computes an error.
LEMMA LocalZeroStep ==
  ASSUME IInv, LocalZero, [Next]_vars
  PROVE  LocalZero'
<1>1. SUFFICES ASSUME ~HasAgent
               PROVE  /\ error' = NaN
                      /\ state' = "GO_TO_ZERO" /\ pc' = "ret" => ret' # "IDLE"
  BY DEF LocalZero
<1>2. error = NaN /\ (state = "GO_TO_ZERO" /\ pc = "ret" => ret # "IDLE")
  BY <1>1 DEF LocalZero
<1>3. CASE Quiet
  BY <1>2, <1>3, QuietFrame
<1>4. CASE DoLoadBlock \/ DoNoMotion
  BY <1>2, <1>4 DEF DoLoadBlock, DoNoMotion, InBody, machVars
<1>5. CASE DoRapidMotion \/ DoInterpMotion
  BY <1>1, <1>2, <1>5 DEF DoRapidMotion, RapidTick, DoInterpMotion, InBody,
       SetSetpoint, machVars
<1>6. CASE DoGoToZero
  BY <1>1, <1>2, <1>6 DEF DoGoToZero, ZeroTick, SetSetpoint, WithinMaxError, Return
<1>7. CASE Evaluate \/ TransitionCall
  BY <1>2, <1>7 DEF Evaluate, TransitionCall, machVars
<1>8. QED
  BY <1>3, <1>4, <1>5, <1>6, <1>7, StepKinds

\* Without an agent a move to zero is left for STOP only.
THEOREM ZeroNeedsAnAgent == Spec => ZeroNeedsAgent
<1>1. Init => LocalZero
  BY DEF Init, MachineInit, LocalZero
<1>2. IInv /\ LocalZero /\ [Next]_vars => LocalZero'
  BY LocalZeroStep
<1>3. IInv /\ LocalZero /\ [Next]_vars =>
        [state = "GO_TO_ZERO" /\ ~HasAgent => state' \in {"GO_TO_ZERO", "STOP"}]_vars
  <2>1. SUFFICES ASSUME IInv, LocalZero, [Next]_vars, state = "GO_TO_ZERO",
                        ~HasAgent, state' # state
                 PROVE  state' = "STOP"
    OBVIOUS
  <2>2. pc = "ret" /\ state' = NextState
    BY <2>1, StateFrame DEF Evaluate
  <2>3. ret # "IDLE"
    BY <2>1, <2>2 DEF LocalZero
  <2>4. ValidReturns[state] = {"NO_CHANGE", "GO_TO_ZERO", "IDLE"}
    BY <2>1 DEF ValidReturns, Graph!States
  <2>5. QED
    BY <2>1, <2>2, <2>3, <2>4 DEF NextState
<1>4. QED
  BY <1>1, <1>2, <1>3, Invariance, PTL DEF Spec, ZeroNeedsAgent

-----------------------------------------------------------------------------
\* An error within the tolerance is that of a position at the setpoint.
LEMMA NearIsAtSetpoint ==
  ASSUME NEW s \in Points, NEW p, NEW e \in ErrorsOf(s, p), WithinMaxError(e)
  PROVE  p = s
<1>1. e # NaN /\ e < MaxError
  BY DEF WithinMaxError
<1>2. s # NoPoint /\ s # NaNPoint /\ s # Elsewhere
  BY PointsAssumption
<1>3. p # NoPoint
  BY <1>1 DEF ErrorsOf
<1>4. ASSUME p # s PROVE FALSE
  <2>1. e \in FarErrors
    BY <1>2, <1>3, <1>4 DEF ErrorsOf
  <2>2. e \in Nat /\ e >= MaxError /\ MaxError \in Nat
    BY <2>1, MachineAssumption, NumbersAssumption
  <2>3. QED
    BY <1>1, <2>2
<1>5. QED
  BY <1>4

\* A rapid that nobody interrupts ends with the machine at its target.
THEOREM RapidEndsAtTarget == Spec => RapidReachesTarget
<1>1. IInv /\ [Next]_vars =>
        [InBody("RAPID_MOTION") /\ HasAgent /\ ~stopReq /\ pc' = "ret"
           /\ ret' = "LOAD_BLOCK" => position' = CurBlock.target]_vars
  <2>1. SUFFICES ASSUME IInv, [Next]_vars, InBody("RAPID_MOTION"), HasAgent,
                        ~stopReq, pc' = "ret", ret' = "LOAD_BLOCK"
                 PROVE  position' = CurBlock.target
    OBVIOUS
  <2>2. PICK x \in Exchanges : RapidTick(x)
    <3>1. ~Quiet
      BY <2>1, QuietFrame DEF InBody
    <3>2. DoRapidMotion
      BY <2>1, <3>1, StepKinds DEF InBody, DoLoadBlock, DoInterpMotion,
           DoNoMotion, DoGoToZero, ZeroTick, Evaluate, TransitionCall
    <3>3. QED
      BY <3>2 DEF DoRapidMotion
  <2>3. CurBlock.target # NoPoint /\ WithinMaxError(error')
    BY <2>1, <2>2 DEF RapidTick, SetpointThrows, Abort, Return
  <2>4. CurBlock.target \in Points
    <3>1. CurBlock \in Block
      BY <2>1, IInvParts, CurBlockType DEF InBody, CurrentDereferenceable, Motion
    <3>2. QED
      BY <2>3, <3>1 DEF Block
  <2>5. error' \in ErrorsOf(CurBlock.target, position')
    BY <2>1, <2>2, <2>3 DEF RapidTick, SetSetpoint, Sync
  <2>6. QED
    BY <2>3, <2>4, <2>5, NearIsAtSetpoint
<1>2. QED
  BY <1>1, Invariance, PTL DEF Spec, RapidReachesTarget

-----------------------------------------------------------------------------
\* A rapid is reported as started exactly while it is under way; between the
\* choice of a motion and its begin the last report is the block's line.
OpenRapid ==
  HasAgent /\ state # "STOP" =>
    /\ metrics = "rapid_start" <=>
         \/ state = "RAPID_MOTION" /\ ~(pc = "trans" /\ prev = "LOAD_BLOCK")
         \/ state = "LOAD_BLOCK" /\ pc = "trans" /\ prev = "RAPID_MOTION"
    /\ state = "LOAD_BLOCK" /\ pc = "ret" /\ ret \in Motion => metrics = "line"
    /\ state = "RAPID_MOTION" /\ pc = "trans" /\ prev = "LOAD_BLOCK"
         => metrics = "line"

\* The state follows an edge: what a step of eval_state does to the reports.
LEMMA OpenRapidEvaluate ==
  ASSUME IInv, OpenRapid, Evaluate
  PROVE  OpenRapid'
<1>1. /\ pc = "ret" /\ pc' = "trans" /\ prev' = state /\ state' = NextState
      /\ UNCHANGED <<ret, metrics>>
  BY DEF Evaluate
<1>2. SUFFICES ASSUME HasAgent, state' # "STOP" PROVE OpenRapid'
  BY DEF OpenRapid
<1>3. FsmTypeOK
  BY IInvParts
<1>4. \/ state' = state
      \/ state' = ret /\ ret \in ValidReturns[state] \ {"NO_CHANGE"}
  BY <1>1, <1>2, <1>3, NextStateCases
<1>5. state # "STOP"
  <2>1. ASSUME state = "STOP" PROVE FALSE
    <3>1. ValidReturns[state] = {"NO_CHANGE"}
      BY <2>1 DEF ValidReturns, Graph!States
    <3>2. QED
      BY <1>2, <1>4, <2>1, <3>1
  <2>2. QED
    BY <2>1
<1>6. CASE state' = state /\ state # "LOAD_BLOCK"
  BY <1>1, <1>2, <1>5, <1>6 DEF OpenRapid
<1>7. CASE state' = state /\ state = "LOAD_BLOCK"
  BY <1>1, <1>2, <1>5, <1>7 DEF OpenRapid
<1>8. CASE state' # state
  <2>1. state' = ret /\ ret \in ValidReturns[state] \ {"NO_CHANGE"}
    BY <1>4, <1>8
  <2>2. \/ state = "LOAD_BLOCK" /\ ret = "RAPID_MOTION"
        \/ state = "LOAD_BLOCK" /\ ret \in {"IDLE", "NO_MOTION", "INTERP_MOTION"}
        \/ state = "RAPID_MOTION" /\ ret = "LOAD_BLOCK"
        \/ /\ state \notin {"LOAD_BLOCK", "RAPID_MOTION"}
           /\ ret # "RAPID_MOTION"
    BY <1>2, <1>3, <1>8, <2>1 DEF ValidReturns, FsmTypeOK, Graph!States
  <2>3. QED
    BY <1>1, <1>2, <1>5, <1>8, <2>1, <2>2 DEF OpenRapid, Motion
<1>9. QED
  BY <1>6, <1>7, <1>8

\* The transitions into and out of RAPID_MOTION open and close the report.
LEMMA OpenRapidTransition ==
  ASSUME IInv, OpenRapid, TransitionCall
  PROVE  OpenRapid'
<1>1. /\ pc = "trans" /\ pc' = "wait"
      /\ UNCHANGED <<state, prev, ret>>
  BY DEF TransitionCall, Reset, BeginRapid, EndRapid, BeginInterp,
       NoTransition, InTransition
<1>2. SUFFICES ASSUME HasAgent, state # "STOP" PROVE OpenRapid'
  BY <1>1 DEF OpenRapid
<1>3. CASE BeginRapid
  BY <1>1, <1>2, <1>3 DEF BeginRapid, InTransition, Publish, OpenRapid
<1>4. CASE EndRapid
  BY <1>1, <1>2, <1>4 DEF EndRapid, InTransition, Publish, OpenRapid
<1>5. CASE Reset \/ BeginInterp
  BY <1>1, <1>2, <1>5 DEF Reset, BeginInterp, InTransition, OpenRapid
<1>6. CASE NoTransition
  <2>1. /\ ~(state = "RAPID_MOTION" /\ prev = "LOAD_BLOCK")
        /\ ~(state = "LOAD_BLOCK" /\ prev = "RAPID_MOTION")
    BY <1>6 DEF NoTransition, Installed
  <2>2. QED
    BY <1>1, <1>2, <1>6, <2>1 DEF NoTransition, OpenRapid
<1>7. QED
  BY <1>3, <1>4, <1>5, <1>6 DEF TransitionCall

\* The reports stay in step with the motion.
LEMMA OpenRapidStep ==
  ASSUME IInv, OpenRapid, [Next]_vars
  PROVE  OpenRapid'
<1>1. CASE Quiet
  <2>1. CASE state \in {"INIT", "IDLE"}
    BY <1>1, <2>1, QuietFrame DEF OpenRapid
  <2>2. CASE state \notin {"INIT", "IDLE"}
    BY <1>1, <2>2, QuietFrame DEF OpenRapid
  <2>3. QED
    BY <2>1, <2>2
<1>2. CASE DoLoadBlock
  <2>1. /\ pc = "body" /\ state = "LOAD_BLOCK" /\ pc' = "ret"
        /\ UNCHANGED <<state, prev>>
    BY <1>2 DEF DoLoadBlock, InBody, Return
  <2>2. \/ ret' = "IDLE" /\ metrics' = metrics
        \/ metrics' = IF HasAgent THEN "line" ELSE metrics
    BY <1>2 DEF DoLoadBlock, Return, Publish
  <2>3. QED
    BY <2>1, <2>2 DEF OpenRapid, Motion
<1>3. CASE DoRapidMotion \/ DoInterpMotion \/ DoNoMotion \/ DoGoToZero
  <2>1. /\ pc = "body" /\ pc' \in {"ret", "aborted"} /\ state # "LOAD_BLOCK"
        /\ UNCHANGED <<state, prev, metrics>>
    BY <1>3 DEF DoRapidMotion, RapidTick, DoInterpMotion, DoNoMotion, DoGoToZero,
         ZeroTick, InBody, Return, Abort
  <2>2. QED
    BY <2>1 DEF OpenRapid
<1>4. CASE Evaluate \/ TransitionCall
  BY <1>4, OpenRapidEvaluate, OpenRapidTransition
<1>5. QED
  BY <1>1, <1>2, <1>3, <1>4, StepKinds

\* Where the metrics change: do_load_block, begin_rapid and end_rapid.
LEMMA MetricsFrame ==
  ASSUME IInv, [Next]_vars, metrics' # metrics
  PROVE  \/ DoLoadBlock /\ metrics' = "line" /\ HasAgent
         \/ BeginRapid /\ metrics' = "rapid_start" /\ HasAgent
         \/ EndRapid /\ metrics' = "rapid_end" /\ HasAgent
<1>1. ~Quiet
  BY QuietFrame
<1>2. ~(DoRapidMotion \/ DoInterpMotion \/ DoNoMotion \/ DoGoToZero \/ Evaluate)
  BY DEF DoRapidMotion, RapidTick, DoInterpMotion, DoNoMotion, DoGoToZero,
     ZeroTick, Evaluate
<1>3. DoLoadBlock \/ TransitionCall
  BY <1>1, <1>2, StepKinds
<1>4. QED
  BY <1>3 DEF DoLoadBlock, TransitionCall, Reset, BeginRapid, EndRapid,
       BeginInterp, NoTransition, Publish

\* The reports of lines and rapids alternate as the motions do.
THEOREM MetricsPaired == Spec => RapidMetricsPaired
<1>1. Init => OpenRapid
  BY DEF Init, OpenRapid
<1>2. IInv /\ OpenRapid /\ [Next]_vars => OpenRapid'
  BY OpenRapidStep
<1>3. IInv /\ OpenRapid /\ [Next]_vars =>
        [metrics' # metrics =>
           <<metrics, metrics'>> \in
             {<<"none", "line">>, <<"line", "rapid_start">>,
              <<"rapid_start", "rapid_end">>, <<"rapid_end", "line">>}]_vars
  <2>1. SUFFICES ASSUME IInv, OpenRapid, [Next]_vars, metrics' # metrics
                 PROVE  <<metrics, metrics'>> \in
                          {<<"none", "line">>, <<"line", "rapid_start">>,
                           <<"rapid_start", "rapid_end">>, <<"rapid_end", "line">>}
    OBVIOUS
  <2>2. metrics \in Metrics
    BY <2>1, IInvParts DEF FsmTypeOK
  <2>3. CASE DoLoadBlock /\ metrics' = "line" /\ HasAgent
    <3>1. metrics # "rapid_start"
      BY <2>1, <2>3 DEF DoLoadBlock, InBody, OpenRapid
    <3>2. QED
      BY <2>1, <2>2, <2>3, <3>1 DEF Metrics
  <2>4. CASE BeginRapid /\ metrics' = "rapid_start" /\ HasAgent
    BY <2>1, <2>4 DEF BeginRapid, InTransition, OpenRapid
  <2>5. CASE EndRapid /\ metrics' = "rapid_end" /\ HasAgent
    BY <2>1, <2>5 DEF EndRapid, InTransition, OpenRapid
  <2>6. QED
    BY <2>1, <2>3, <2>4, <2>5, MetricsFrame
<1>4. QED
  BY <1>1, <1>2, <1>3, Invariance, PTL DEF Spec, RapidMetricsPaired
=============================================================================
