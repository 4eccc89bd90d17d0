---------------------------- MODULE ProgramProofs --------------------------
(***************************************************************************)
(* What the operations on a program preserve, for every value of the       *)
(* constants: the lemmas the proofs about the program's clients rest on.   *)
(***************************************************************************)
EXTENDS Program, TLAPS

\* A number already in the range of size_t is its own remainder.
LEMMA ModRange ==
  ASSUME NEW m \in Nat \ {0}, NEW k \in Int
  PROVE  /\ k % m \in 0 .. m - 1
         /\ k \in 0 .. m - 1 => k % m = k
<1>1. k % m \in 0 .. m - 1
  BY SMT
<1>2. ASSUME k \in 0 .. m - 1 PROVE k % m = k
  BY <1>2, SMT
<1>3. QED
  BY <1>1, <1>2

\* The last block of a program that has one is a block.
LEMMA PrevIsBlock ==
  ASSUME NEW bs \in Seq(Block), bs # <<>>
  PROVE  Len(bs) \in Nat \ {0} /\ Prev(bs) \in Block
BY DEF Prev

\* A constructed block is a block, with no coordinates.
LEMMA NewBlockType ==
  ASSUME NEW line \in Line, NEW bs \in Seq(Block)
  PROVE  NewBlock(line, bs) \in Block
<1>1. SizeMod \in Nat \ {0}
  BY NumbersAssumption
<1>2. CASE bs = <<>>
  BY <1>1, <1>2 DEF NewBlock, Block, NO_MOTION
<1>3. CASE bs # <<>>
  <2>1. Prev(bs) \in Block
    BY <1>3, PrevIsBlock
  <2>2. Prev(bs).n + 1 \in Int
    BY <2>1, <1>1 DEF Block
  <2>3. (Prev(bs).n + 1) % SizeMod \in 0 .. SizeMod - 1
    BY <1>1, <2>2, ModRange
  <2>4. QED
    BY <1>3, <2>3 DEF NewBlock, Block, NO_MOTION
<1>4. QED
  BY <1>2, <1>3

\* The type the words of a line give is a number, whatever their order.
LEMMA WordTypeInt ==
  ASSUME NEW line \in Line
  PROVE  WordType(line) \in Int /\ OneTypeWord(line) \in Int
BY DEF WordType, OneTypeWord, Line, NO_MOTION

\* The block a line leaves, parsed or not, is a block.
LEMMA ParsedBlockType ==
  ASSUME NEW line \in Line, NEW bs \in Seq(Block), NEW err
  PROVE  ParsedBlock(line, bs, err) \in Block
<1> DEFINE nb == NewBlock(line, bs)
<1>1. nb \in Block
  BY NewBlockType
<1>2. SizeMod \in Nat \ {0}
  BY NumbersAssumption
<1>3. line.n # Absent => line.n % SizeMod \in 0 .. SizeMod - 1
  <2>1. SUFFICES ASSUME line.n # Absent PROVE line.n % SizeMod \in 0 .. SizeMod - 1
    OBVIOUS
  <2>2. line.n \in Int
    BY <2>1 DEF Line
  <2>3. QED
    BY <1>2, <2>2, ModRange
<1>4. WordsRead(line, bs) \in Block
  <2>1. (IF line.full THEN line.pt ELSE NoPoint) \in Points \cup {NoPoint}
    BY DEF Line
  <2>2. WordType(line) \in Int
    BY WordTypeInt
  <2>3. QED
    BY <1>1, <1>3, <2>1, <2>2 DEF WordsRead, Block
<1>5. BadNumber(line, bs) => NumberRefused(line, bs) \in Block
  <2>1. OneTypeWord(line) \in Int /\ NO_MOTION \in Int
    BY WordTypeInt DEF NO_MOTION
  <2>2. QED
    BY <1>1, <1>3, <2>1 DEF NumberRefused, BadNumber, Block
<1>6. ModalTarget(line, bs) \in Points \cup {NoPoint}
  <2>1. CASE line.pt # NoPoint
    BY <2>1 DEF ModalTarget, Line
  <2>2. CASE line.pt = NoPoint /\ bs = <<>>
    BY <2>2, PointsAssumption DEF ModalTarget, StartPoint
  <2>3. CASE line.pt = NoPoint /\ bs # <<>>
    <3>1. Len(bs) \in Nat \ {0} /\ bs[Len(bs)] \in Block
      BY <2>3, PrevIsBlock DEF Prev
    <3>2. ModalTarget(line, bs) = bs[Len(bs)].target
      BY <2>3, <3>1 DEF ModalTarget, StartPoint
    <3>3. QED
      BY <3>1, <3>2 DEF Block
  <2>4. QED
    BY <2>1, <2>2, <2>3
<1>7. [WordsRead(line, bs) EXCEPT !.target = ModalTarget(line, bs),
                                  !.parsed = ~ArcMismatch(line, err)] \in Block
  <2>1. (~ArcMismatch(line, err)) \in BOOLEAN
    BY DEF ArcMismatch
  <2>2. QED
    BY <1>4, <1>6, <2>1 DEF Block
<1>8. QED
  BY <1>1, <1>4, <1>5, <1>7 DEF ParsedBlock, Line

\* A block that was parsed after a parsed one, or as the first, has a complete
\* target.
LEMMA ParsedBlockComplete ==
  ASSUME NEW line \in Line, NEW bs \in Seq(Block), NEW err,
         bs = <<>> \/ Prev(bs).target \in Points,
         ParsedBlock(line, bs, err).parsed
  PROVE  ParsedBlock(line, bs, err).target \in Points
<1> DEFINE wb == WordsRead(line, bs)
<1>1. /\ NewBlock(line, bs) \in Block /\ ~NewBlock(line, bs).parsed
  BY NewBlockType DEF NewBlock
<1>2. wb = [NewBlock(line, bs) EXCEPT !.n = wb.n, !.type = wb.type,
                                      !.target = wb.target]
  BY <1>1 DEF WordsRead, Block
<1>3. ~wb.parsed /\ ~NumberRefused(line, bs).parsed
  BY <1>1 DEF WordsRead, NumberRefused, Block
<1>4. wb = [line |-> wb.line, n |-> wb.n, type |-> wb.type,
            target |-> wb.target, parsed |-> wb.parsed]
  BY <1>1, <1>2 DEF Block
<1>5. ParsedBlock(line, bs, err) =
        [wb EXCEPT !.target = ModalTarget(line, bs),
                   !.parsed = ~ArcMismatch(line, err)]
  BY <1>1, <1>3 DEF ParsedBlock
<1>6. ModalTarget(line, bs) \in Points
  <2>1. CASE line.pt # NoPoint
    BY <2>1 DEF ModalTarget, Line
  <2>2. CASE line.pt = NoPoint /\ bs = <<>>
    BY <2>2, PointsAssumption DEF ModalTarget, StartPoint
  <2>3. CASE line.pt = NoPoint /\ bs # <<>>
    <3>1. Len(bs) \in Nat \ {0}
      BY <2>3, PrevIsBlock
    <3>2. ModalTarget(line, bs) = Prev(bs).target
      BY <2>3, <3>1 DEF ModalTarget, StartPoint, Prev
    <3>3. QED
      BY <2>3, <3>2
  <2>4. QED
    BY <2>1, <2>2, <2>3
<1>7. QED
  BY <1>4, <1>5, <1>6

\* A block that was parsed has a number above the previous block's, unless that
\* one is the largest size_t.
LEMMA ParsedBlockNumber ==
  ASSUME NEW line \in Line, NEW bs \in Seq(Block), NEW err,
         bs # <<>>, Prev(bs).n < SizeMod - 1,
         ParsedBlock(line, bs, err).parsed
  PROVE  Prev(bs).n < ParsedBlock(line, bs, err).n
<1> DEFINE wb == WordsRead(line, bs)
<1>1. /\ NewBlock(line, bs) \in Block /\ ~NewBlock(line, bs).parsed
  BY NewBlockType DEF NewBlock
<1>2. /\ ~wb.parsed /\ ~NumberRefused(line, bs).parsed
      /\ wb = [line |-> wb.line, n |-> wb.n, type |-> wb.type,
               target |-> wb.target, parsed |-> wb.parsed]
  <2>1. wb = [NewBlock(line, bs) EXCEPT !.n = wb.n, !.type = wb.type,
                                        !.target = wb.target]
    BY <1>1 DEF WordsRead, Block
  <2>2. ~wb.parsed /\ ~NumberRefused(line, bs).parsed
    BY <1>1 DEF WordsRead, NumberRefused, Block
  <2>3. QED
    BY <1>1, <2>1, <2>2 DEF Block
<1>3. /\ ~BadNumber(line, bs)
      /\ ParsedBlock(line, bs, err) =
           [wb EXCEPT !.target = ModalTarget(line, bs),
                      !.parsed = ~ArcMismatch(line, err)]
  BY <1>1, <1>2 DEF ParsedBlock, Line
<1>4. ParsedBlock(line, bs, err).n = wb.n
  BY <1>2, <1>3
<1>5. /\ SizeMod \in Nat \ {0} /\ Prev(bs).n \in 0 .. SizeMod - 1
  BY NumbersAssumption, PrevIsBlock DEF Block
<1>6. CASE line.n = Absent
  <2>1. wb.n = (Prev(bs).n + 1) % SizeMod
    BY <1>1, <1>6 DEF WordsRead, NewBlock
  <2>2. wb.n = Prev(bs).n + 1
    <3>1. Prev(bs).n + 1 \in 0 .. SizeMod - 1 /\ Prev(bs).n + 1 \in Int
      BY <1>5
    <3>2. QED
      BY <1>5, <2>1, <3>1, ModRange
  <2>3. QED
    BY <1>4, <1>5, <2>2
<1>7. CASE line.n # Absent
  <2>1. wb.n = line.n % SizeMod
    BY <1>1, <1>7 DEF WordsRead, Block
  <2>2. line.n % SizeMod \in 0 .. SizeMod - 1
    <3>1. line.n \in Int
      BY <1>7 DEF Line
    <3>2. QED
      BY <1>5, <3>1, ModRange
  <2>3. ~(Prev(bs).n >= line.n % SizeMod)
    BY <1>3, <1>7 DEF BadNumber
  <2>4. QED
    BY <1>4, <1>5, <2>1, <2>2, <2>3
<1>8. QED
  BY <1>6, <1>7

\* What a program promises to the code that walks along it.
ProgramWF == ProgramTypeOK /\ OnlyTailUnparsed /\ ParsedTargetsComplete

\* operator<< keeps a program well formed, whether it throws or not.
LEMMA PushLineWF ==
  ASSUME ProgramWF, NEW line \in Line, NEW err, PushLine(line, err)
  PROVE  /\ blocks' \in Seq(Block)
         /\ current' \in 0 .. Len(blocks')
         /\ done' \in BOOLEAN
         /\ OnlyTailUnparsed'
         /\ ParsedTargetsComplete'
<1> USE DEF ProgramWF, ProgramTypeOK
<1>1. CASE StuckTail
  <2>1. blocks' = blocks /\ UNCHANGED <<current, done>>
    BY <1>1 DEF PushLine
  <2>2. QED
    BY <2>1 DEF OnlyTailUnparsed, ParsedTargetsComplete
<1>2. CASE ~StuckTail
  <2> DEFINE nb == ParsedBlock(line, blocks, err)
  <2>1. blocks' = Append(blocks, nb) /\ UNCHANGED <<current, done>>
    BY <1>2 DEF PushLine
  <2>2. nb \in Block
    BY ParsedBlockType
  <2> HIDE DEF nb
  <2>3. /\ blocks' \in Seq(Block)
        /\ Len(blocks') = Len(blocks) + 1
        /\ \A i \in 1 .. Len(blocks) : blocks'[i] = blocks[i]
        /\ blocks'[Len(blocks) + 1] = nb
    BY <2>1, <2>2
  <2>4. blocks = <<>> \/ (Prev(blocks).parsed /\ Prev(blocks).target \in Points)
    <3>1. SUFFICES ASSUME blocks # <<>>
                   PROVE  Prev(blocks).parsed /\ Prev(blocks).target \in Points
      OBVIOUS
    <3>2. Prev(blocks).parsed
      BY <1>2, <3>1 DEF StuckTail
    <3>3. Len(blocks) \in 1 .. Len(blocks)
      BY <3>1, PrevIsBlock
    <3>4. QED
      BY <3>2, <3>3 DEF ParsedTargetsComplete, Prev
  <2>5. nb.parsed => nb.target \in Points
    BY <2>4, ParsedBlockComplete DEF nb
  <2>6. \A i \in 1 .. Len(blocks) : blocks[i].parsed
    <3>1. SUFFICES ASSUME NEW i \in 1 .. Len(blocks) PROVE blocks[i].parsed
      OBVIOUS
    <3>2. CASE i = Len(blocks)
      BY <2>4, <3>2 DEF Prev
    <3>3. CASE i # Len(blocks)
      BY <3>3 DEF OnlyTailUnparsed
    <3>4. QED
      BY <3>2, <3>3
  <2>7. OnlyTailUnparsed'
    BY <2>3, <2>6 DEF OnlyTailUnparsed
  <2>8. ParsedTargetsComplete'
    BY <2>3, <2>5 DEF ParsedTargetsComplete
  <2>9. QED
    BY <2>1, <2>3, <2>7, <2>8
<1>3. QED
  BY <1>1, <1>2

\* The loop of load() keeps a program well formed, line by line.
LEMMA ReadLineWF ==
  ASSUME ProgramWF, NEW err, ReadLine(err)
  PROVE  ProgramWF'
<1>1. /\ rest # <<>> /\ Head(rest) \in Line /\ Tail(rest) \in Seq(Line)
  BY DEF ReadLine, ProgramWF, ProgramTypeOK
<1>2. PushLine(Head(rest), err) /\ rest' \in Seq(Line)
  BY <1>1 DEF ReadLine
<1>3. QED
  BY <1>1, <1>2, PushLineWF DEF ProgramWF, ProgramTypeOK

\* The iterator stays on a block or at the end.
LEMMA LoadNextWF ==
  ASSUME ProgramWF, LoadNext
  PROVE  ProgramWF' /\ (done' \/ current' \in 1 .. Len(blocks'))
<1>1. /\ blocks \in Seq(Block) /\ Len(blocks) \in Nat
      /\ current \in 0 .. Len(blocks) /\ rest \in Seq(Line)
  BY DEF ProgramWF, ProgramTypeOK
<1>2. blocks' = blocks /\ rest' = rest
  BY DEF LoadNext
<1>3. current' \in 0 .. Len(blocks)
  BY <1>1 DEF LoadNext, NextOf, End
<1>4. done' \in BOOLEAN /\ (done' \/ current' # 0)
  BY DEF LoadNext, End
<1>5. OnlyTailUnparsed' /\ ParsedTargetsComplete'
  BY <1>2 DEF ProgramWF, OnlyTailUnparsed, ParsedTargetsComplete
<1>6. ProgramTypeOK'
  BY <1>1, <1>2, <1>3, <1>4 DEF ProgramTypeOK
<1>7. done' \/ current' \in 1 .. Len(blocks')
  BY <1>1, <1>2, <1>3, <1>4
<1>8. QED
  BY <1>5, <1>6, <1>7 DEF ProgramWF

\* rewind() puts the iterator on end(), whatever the program.
LEMMA RewindWF ==
  ASSUME ProgramWF, Rewind
  PROVE  ProgramWF'
<1>1. blocks' = blocks /\ rest' = rest /\ current' = 0 /\ done' \in BOOLEAN
  BY DEF Rewind, End
<1>2. blocks \in Seq(Block) /\ Len(blocks) \in Nat /\ rest \in Seq(Line)
  BY DEF ProgramWF, ProgramTypeOK
<1>3. OnlyTailUnparsed' /\ ParsedTargetsComplete'
  BY <1>1 DEF ProgramWF, OnlyTailUnparsed, ParsedTargetsComplete
<1>4. ProgramTypeOK'
  BY <1>1, <1>2 DEF ProgramTypeOK
<1>5. QED
  BY <1>3, <1>4 DEF ProgramWF

\* An empty list is well formed, whatever is still to be read.
LEMMA ClearWF ==
  ASSUME Clear, rest' \in Seq(Line)
  PROVE  ProgramWF'
<1>1. blocks' = <<>> /\ current' = 0 /\ done' \in BOOLEAN
  BY DEF Clear, End
<1>2. blocks' \in Seq(Block) /\ Len(blocks') = 0
  BY <1>1
<1>3. OnlyTailUnparsed' /\ ParsedTargetsComplete'
  BY <1>2 DEF OnlyTailUnparsed, ParsedTargetsComplete
<1>4. ProgramTypeOK'
  BY <1>1, <1>2 DEF ProgramTypeOK
<1>5. QED
  BY <1>3, <1>4 DEF ProgramWF

\* Opening a file, with the program cleared or not.
LEMMA OpenFileWF ==
  ASSUME ProgramWF, NEW f \in Files, NEW append, OpenFile(f, append)
  PROVE  ProgramWF'
<1>1. rest' \in Seq(Line)
  BY FilesAssumption DEF OpenFile
<1>2. CASE append
  BY <1>1, <1>2 DEF OpenFile, ProgramWF, ProgramTypeOK, OnlyTailUnparsed,
                    ParsedTargetsComplete
<1>3. CASE ~append
  BY <1>1, <1>3, ClearWF DEF OpenFile
<1>4. QED
  BY <1>2, <1>3
=============================================================================
