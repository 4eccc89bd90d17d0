-------------------------- MODULE ProgramUseProofs -------------------------
(***************************************************************************)
(* What holds of a program under every sequence of calls, for every set of *)
(* files and every value of the positioning error.                         *)
(***************************************************************************)
EXTENDS ProgramUse, ProgramProofs

\* Inductive: the program is well formed, its numbers increase, and the history
\* of load_next agrees with the iterator.
UseInv == TypeOK /\ ProgramWF /\ NumbersIncrease /\ SeenUpToCurrent

\* An appended block keeps the numbers increasing.
LEMMA PushLineNumbers ==
  ASSUME ProgramWF, NumbersIncrease, NEW line \in Line, NEW err,
         PushLine(line, err)
  PROVE  NumbersIncrease'
<1>1. blocks \in Seq(Block)
  BY DEF ProgramWF, ProgramTypeOK
<1>2. CASE StuckTail
  BY <1>2 DEF PushLine, NumbersIncrease
<1>3. CASE ~StuckTail
  <2> DEFINE nb == ParsedBlock(line, blocks, err)
  <2>1. blocks' = Append(blocks, nb)
    BY <1>3 DEF PushLine
  <2>2. nb \in Block
    BY <1>1, ParsedBlockType
  <2>3. blocks # <<>> /\ nb.parsed /\ Prev(blocks).n < SizeMod - 1
          => Prev(blocks).n < nb.n
    BY <1>1, ParsedBlockNumber
  <2> HIDE DEF nb
  <2>4. /\ Len(blocks') = Len(blocks) + 1
        /\ \A i \in 1 .. Len(blocks) : blocks'[i] = blocks[i]
        /\ blocks'[Len(blocks) + 1] = nb
    BY <1>1, <2>1, <2>2
  <2>5. SUFFICES ASSUME NEW i \in 1 .. Len(blocks') - 1,
                        blocks'[i + 1].parsed, blocks'[i].n < SizeMod - 1
                 PROVE  blocks'[i].n < blocks'[i + 1].n
    BY DEF NumbersIncrease
  <2>6. Len(blocks) \in Nat
    BY <1>1
  <2>7. CASE i = Len(blocks)
    <3>1. blocks # <<>> /\ blocks'[i] = Prev(blocks)
      BY <2>4, <2>6, <2>7 DEF Prev
    <3>2. QED
      BY <2>3, <2>4, <2>5, <2>7, <3>1
  <2>8. CASE i # Len(blocks)
    <3>1. i \in 1 .. Len(blocks) - 1 /\ i + 1 \in 1 .. Len(blocks)
      BY <2>4, <2>6, <2>8
    <3>2. blocks'[i] = blocks[i] /\ blocks'[i + 1] = blocks[i + 1]
      BY <2>4, <3>1
    <3>3. QED
      BY <2>5, <3>1, <3>2 DEF NumbersIncrease
  <2>9. QED
    BY <2>7, <2>8
<1>4. QED
  BY <1>2, <1>3

\* An empty program satisfies the invariant of its uses.
LEMMA UseInit == Init => UseInv
<1>1. SUFFICES ASSUME Init PROVE UseInv
  OBVIOUS
<1>2. /\ blocks = <<>> /\ current = 0 /\ done = FALSE /\ rest = <<>>
      /\ error = NaN /\ loading = FALSE /\ seen = {}
  BY <1>1 DEF Init, ProgramInit, End
<1>3. Len(blocks) = 0 /\ blocks \in Seq(Block) /\ rest \in Seq(Line)
  BY <1>2
<1>4. ProgramTypeOK
  <2>1. current \in 0 .. Len(blocks)
    BY <1>2, <1>3
  <2>2. done \in BOOLEAN
    BY <1>2
  <2>3. QED
    BY <1>3, <2>1, <2>2 DEF ProgramTypeOK
<1>5. TypeOK
  BY <1>2, <1>4, UseAssumption DEF TypeOK
<1>6. OnlyTailUnparsed /\ ParsedTargetsComplete /\ NumbersIncrease
  BY <1>3 DEF OnlyTailUnparsed, ParsedTargetsComplete, NumbersIncrease
<1>7. SeenUpToCurrent
  BY <1>2 DEF SeenUpToCurrent
<1>8. QED
  BY <1>4, <1>5, <1>6, <1>7 DEF UseInv, ProgramWF

\* Every call of the interface, and every line load() reads, keeps it.
LEMMA UseNext == UseInv /\ [Next]_useVars => UseInv'
<1>1. SUFFICES ASSUME UseInv, [Next]_useVars PROVE UseInv'
  OBVIOUS
<1>2. /\ ProgramWF /\ NumbersIncrease /\ seen = 1 .. current
      /\ error \in Errors /\ loading \in BOOLEAN
      /\ blocks \in Seq(Block) /\ current \in 0 .. Len(blocks)
  BY <1>1 DEF UseInv, TypeOK, ProgramTypeOK, SeenUpToCurrent
<1>3. SUFFICES /\ ProgramWF' /\ NumbersIncrease' /\ seen' = 1 .. current'
               /\ error' \in Errors /\ loading' \in BOOLEAN
  <2>1. ASSUME ProgramWF', seen' = 1 .. current'
        PROVE  ProgramTypeOK' /\ seen' \subseteq Nat
    BY <2>1 DEF ProgramWF, ProgramTypeOK
  <2>2. QED
    BY <2>1 DEF UseInv, TypeOK, SeenUpToCurrent, ProgramWF
<1>4. ASSUME NEW f \in Files, NEW append \in BOOLEAN, Load(f, append)
      PROVE  /\ ProgramWF' /\ NumbersIncrease' /\ seen' = 1 .. current'
             /\ error' \in Errors /\ loading' \in BOOLEAN
  <2>1. ProgramWF'
    BY <1>2, <1>4, OpenFileWF DEF Load
  <2>2. CASE append
    BY <1>2, <1>4, <2>1, <2>2 DEF Load, OpenFile, NumbersIncrease
  <2>3. CASE ~append
    <3>1. blocks' = <<>> /\ current' = 0 /\ seen' = {}
      BY <1>4, <2>3 DEF Load, OpenFile, Clear, End
    <3>2. Len(blocks') = 0
      BY <3>1
    <3>3. NumbersIncrease'
      BY <3>2 DEF NumbersIncrease
    <3>4. QED
      BY <1>2, <1>4, <2>1, <3>1, <3>3 DEF Load
  <2>4. QED
    BY <2>2, <2>3
<1>5. CASE LoadReads
  <2>1. ProgramWF'
    BY <1>2, <1>5, ReadLineWF DEF LoadReads
  <2>2. Head(rest) \in Line /\ PushLine(Head(rest), error)
    BY <1>2, <1>5 DEF LoadReads, ReadLine, ProgramWF, ProgramTypeOK
  <2>3. NumbersIncrease'
    BY <1>2, <2>2, PushLineNumbers
  <2>4. QED
    BY <1>2, <1>5, <2>1, <2>2, <2>3 DEF LoadReads, PushLine
<1>6. ASSUME NEW line \in Line, Push(line)
      PROVE  /\ ProgramWF' /\ NumbersIncrease' /\ seen' = 1 .. current'
             /\ error' \in Errors /\ loading' \in BOOLEAN
  <2>1. PushLine(line, error) /\ UNCHANGED <<rest, error, loading, seen>>
    BY <1>6 DEF Push
  <2>2. ProgramWF'
    BY <1>2, <2>1, PushLineWF DEF ProgramWF, ProgramTypeOK
  <2>3. NumbersIncrease'
    BY <1>2, <2>1, PushLineNumbers
  <2>4. QED
    BY <1>2, <2>1, <2>2, <2>3 DEF PushLine
<1>7. CASE Advance
  <2>1. LoadNext /\ UNCHANGED <<error, loading, blocks>>
    BY <1>7 DEF Advance, LoadNext
  <2>2. ProgramWF'
    BY <1>2, <2>1, LoadNextWF
  <2>3. NumbersIncrease'
    BY <1>2, <2>1 DEF NumbersIncrease
  <2>4. Len(blocks) \in Nat
    BY <1>2
  <2>5. seen' = 1 .. current'
    <3>1. /\ current' = IF current < Len(blocks) THEN current + 1 ELSE 0
          /\ seen' = IF current' = 0 THEN {} ELSE seen \cup {current'}
      BY <1>7 DEF Advance, LoadNext, NextOf, End
    <3>2. CASE current < Len(blocks)
      <4>1. current' = current + 1 /\ seen' = (1 .. current) \cup {current + 1}
        BY <1>2, <2>4, <3>1, <3>2
      <4>2. (1 .. current) \cup {current + 1} = 1 .. (current + 1)
        BY <1>2, <2>4
      <4>3. QED
        BY <4>1, <4>2
    <3>3. CASE ~(current < Len(blocks))
      BY <3>1, <3>3
    <3>4. QED
      BY <3>2, <3>3
  <2>6. QED
    BY <1>2, <2>1, <2>2, <2>3, <2>5
<1>8. CASE RewindCall
  <2>1. ProgramWF'
    BY <1>2, <1>8, RewindWF DEF RewindCall
  <2>2. QED
    BY <1>2, <1>8, <2>1 DEF RewindCall, Rewind, End, NumbersIncrease
<1>9. CASE ResetCall
  <2>1. rest' \in Seq(Line)
    BY <1>2, <1>9 DEF ResetCall, ProgramWF, ProgramTypeOK
  <2>2. ProgramWF'
    BY <1>9, <2>1, ClearWF DEF ResetCall
  <2>3. blocks' = <<>> /\ current' = 0 /\ seen' = {}
    BY <1>9 DEF ResetCall, Clear, End
  <2>4. NumbersIncrease'
    BY <2>3 DEF NumbersIncrease
  <2>5. QED
    BY <1>2, <1>9, <2>2, <2>3, <2>4 DEF ResetCall
<1>10. ASSUME UNCHANGED <<blocks, current, done, rest, seen, loading>>,
              error' \in Errors
       PROVE  /\ ProgramWF' /\ NumbersIncrease' /\ seen' = 1 .. current'
              /\ error' \in Errors /\ loading' \in BOOLEAN
  BY <1>2, <1>10 DEF ProgramWF, ProgramTypeOK, OnlyTailUnparsed,
                     ParsedTargetsComplete, NumbersIncrease
<1>11. CASE LoadReturns
  <2>1. ProgramWF' /\ NumbersIncrease'
    BY <1>2, <1>11 DEF LoadReturns, progVars, ProgramWF, ProgramTypeOK,
         OnlyTailUnparsed, ParsedTargetsComplete, NumbersIncrease
  <2>2. QED
    BY <1>2, <1>11, <2>1 DEF LoadReturns, progVars
<1>12. ASSUME NEW e \in Errors, Synced(e)
       PROVE  /\ ProgramWF' /\ NumbersIncrease' /\ seen' = 1 .. current'
              /\ error' \in Errors /\ loading' \in BOOLEAN
  <2>1. UNCHANGED <<blocks, current, done, rest, seen, loading>> /\ error' \in Errors
    BY <1>12 DEF Synced, progVars
  <2>2. QED
    BY <1>10, <2>1
<1>13. CASE UNCHANGED useVars
  <2>1. UNCHANGED <<blocks, current, done, rest, seen, loading>> /\ error' \in Errors
    BY <1>2, <1>13 DEF useVars, progVars
  <2>2. QED
    BY <1>10, <2>1
<1>14. \A line \in UNION {LinesOf(f) : f \in Files} : line \in Line
  <2>1. SUFFICES ASSUME NEW f \in Files, NEW line \in LinesOf(f) PROVE line \in Line
    OBVIOUS
  <2>2. f \in Seq(Line)
    BY FilesAssumption
  <2>3. QED
    BY <2>2 DEF LinesOf
<1>15. QED
  BY <1>1, <1>4, <1>5, <1>6, <1>7, <1>8, <1>9, <1>11, <1>12, <1>13, <1>14
     DEF Next

\* The invariant holds of every sequence of calls.
THEOREM UseInvariance == Spec => []UseInv
BY UseInit, UseNext, PTL DEF Spec

\* TypeOK for every value of the constants.
THEOREM UseTypeCorrect == Spec => []TypeOK
BY UseInvariance, PTL DEF UseInv

\* Only the last block can be one that failed to parse.
THEOREM TailOnly == Spec => []OnlyTailUnparsed
BY UseInvariance, PTL DEF UseInv, ProgramWF

\* Every parsed block has a complete target.
THEOREM CompleteTargets == Spec => []ParsedTargetsComplete
BY UseInvariance, PTL DEF UseInv, ProgramWF

\* Block numbers increase until size_t wraps.
THEOREM Increasing == Spec => []NumbersIncrease
BY UseInvariance, PTL DEF UseInv

\* A program whose last line failed changes only by being cleared.
THEOREM StuckStays == Spec => StuckUntilCleared
<1>1. ASSUME [Next]_useVars, StuckTail, blocks' # blocks
      PROVE  blocks' = <<>>
  <2>1. ASSUME NEW line \in UNION {LinesOf(f) : f \in Files}, Push(line)
        PROVE  blocks' = <<>>
    BY <1>1, <2>1 DEF Push, PushLine
  <2>2. CASE LoadReads
    BY <1>1, <2>2 DEF LoadReads, ReadLine, PushLine
  <2>3. ASSUME NEW f \in Files, NEW append \in BOOLEAN, Load(f, append)
        PROVE  blocks' = <<>>
    BY <1>1, <2>3 DEF Load, OpenFile, Clear
  <2>4. CASE LoadReturns \/ Advance \/ RewindCall \/ UNCHANGED useVars
    BY <1>1, <2>4 DEF LoadReturns, Advance, LoadNext, RewindCall, Rewind,
         useVars, progVars
  <2>5. CASE ResetCall
    BY <2>5 DEF ResetCall, Clear
  <2>6. ASSUME NEW e \in Errors, Synced(e)
        PROVE  blocks' = <<>>
    BY <1>1, <2>6 DEF Synced, progVars
  <2>7. QED
    BY <1>1, <2>1, <2>2, <2>3, <2>4, <2>5, <2>6 DEF Next
<1>2. [Next]_useVars =>
        [StuckTail /\ blocks' # blocks => blocks' = <<>>]_useVars
  BY <1>1
<1>3. QED
  BY <1>2, PTL DEF Spec, StuckUntilCleared

\* load_next reports the end after every block.
THEOREM EndAfterEveryBlock == Spec => DoneAfterEveryBlock
<1>1. ASSUME UseInv, Advance, done'
      PROVE  seen = 1 .. Len(blocks)
  <2>1. /\ seen = 1 .. current /\ current \in 0 .. Len(blocks)
        /\ Len(blocks) \in Nat
    BY <1>1 DEF UseInv, SeenUpToCurrent, TypeOK, ProgramTypeOK
  <2>2. current' = 0
    BY <1>1 DEF Advance, LoadNext, End
  <2>3. ~(current < Len(blocks))
    BY <1>1, <2>1, <2>2 DEF Advance, LoadNext, NextOf, End
  <2>4. QED
    BY <2>1, <2>3
<1>2. UseInv /\ [Next]_useVars =>
        [Advance /\ done' => seen = 1 .. Len(blocks)]_useVars
  BY <1>1
<1>3. QED
  BY <1>2, UseInvariance, PTL DEF Spec, DoneAfterEveryBlock
=============================================================================
