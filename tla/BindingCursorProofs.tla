------------------------ MODULE BindingCursorProofs ------------------------
(***************************************************************************)
(* The cursor of the bindings never dangles between calls that succeed,    *)
(* for every set of files, and the list keeps well formed under it.        *)
(***************************************************************************)
EXTENDS BindingCursor, ProgramProofs, SequenceTheorems, WellFoundedInduction

LEMMA InitCursor == Init => CursorInv
BY DEF Init, CursorInv, End, Dangling

\* A traversal makes no dangling cursor of one that is not.
LEMMA MovedInv ==
  ASSUME CursorInv, Ready, LoadNextCopy
  PROVE  CursorInv'
<1>1. call' = call /\ failed' = failed /\ cursor' \in Moved
  BY DEF LoadNextCopy
<1>2. CASE ~started
  BY <1>1, <1>2 DEF CursorInv, Moved, NextOf, End, Dangling
<1>3. CASE started /\ cursor = Dangling
  BY <1>1, <1>3 DEF CursorInv, Ready, Moved, End, Dangling
<1>4. CASE started /\ cursor = End
  BY <1>1, <1>4 DEF CursorInv, Moved, End, Dangling
<1>5. CASE started /\ cursor \notin {End, Dangling}
  <2>1. cursor \in Nat
    BY <1>5 DEF CursorInv
  <2>2. cursor' = NextOf(cursor)
    BY <1>1, <1>5 DEF Moved
  <2>3. cursor' \in Nat
    BY <2>1, <2>2 DEF NextOf, End
  <2> QED
    BY <2>3 DEF CursorInv, Dangling
<1> QED
  BY <1>2, <1>3, <1>4, <1>5

\* What every rewound cursor satisfies.
LEMMA RewoundInv ==
  ASSUME RewindCursor
  PROVE  CursorInv'
BY DEF RewindCursor, CursorInv, End, Dangling

LEMMA StepCursor == CursorInv /\ [Next]_cursorVars => CursorInv'
<1> SUFFICES ASSUME CursorInv, [Next]_cursorVars
             PROVE  CursorInv'
  OBVIOUS
<1>1. ASSUME NEW f \in Files, NEW append \in BOOLEAN, Load(f, append)
      PROVE  CursorInv'
  BY <1>1 DEF Load, Ready, Cleared, CursorInv
<1>2. ASSUME NEW ls, AppendLines(ls)
      PROVE  CursorInv'
  BY <1>2 DEF AppendLines, Ready, CursorInv
<1>3. CASE PushNext
  BY <1>3 DEF PushNext, Ready, CursorInv
<1>4. CASE MissingLine
  BY <1>4 DEF MissingLine, CursorInv
<1>5. CASE CallReturns \/ Reset \/ RewindCall
  BY <1>5, RewoundInv DEF CallReturns, Reset, RewindCall
<1>6. CASE LoadNextCopy
  BY <1>6, MovedInv DEF LoadNextCopy
<1>7. CASE UNCHANGED cursorVars
  BY <1>7 DEF cursorVars, CursorInv
<1> QED
  BY <1>1, <1>2, <1>3, <1>4, <1>5, <1>6, <1>7 DEF Next

\* In both bindings no sequence of calls that succeed, nor an append that
\* fails, leaves the cursor on a block that was freed.
THEOREM NeverDangles == Spec => []DanglesAfterFailedLoad
<1>1. CursorInv => DanglesAfterFailedLoad
  BY DEF CursorInv, DanglesAfterFailedLoad, Ready
<1> QED
  BY <1>1, InitCursor, StepCursor, PTL DEF Spec

-----------------------------------------------------------------------------
\* The lines still to be read fit into the bound of the program.
Fits == Len(blocks) + Len(rest) <= MaxBlocks

CursorTypeOK ==
  /\ cursor \in {Dangling, End} \cup 1 .. Len(blocks)
  /\ started \in BOOLEAN
  /\ call \in {"none", "load", "append"}
  /\ failed \subseteq {"load", "append"}
  /\ seen \subseteq 1 .. MaxBlocks

ListInv == ProgramWF /\ CursorTypeOK /\ Fits

LEMMA Lengths ==
  ASSUME ProgramWF
  PROVE  Len(blocks) \in Nat /\ Len(rest) \in Nat /\ MaxBlocks \in Nat
BY CursorAssumption DEF ProgramWF, ProgramTypeOK

LEMMA InitList == Init => ListInv
<1> SUFFICES ASSUME Init
             PROVE  ListInv
  OBVIOUS
<1>1. /\ blocks = <<>> /\ rest = <<>> /\ current = 0 /\ done = FALSE
      /\ cursor = 0 /\ Len(blocks) = 0 /\ Len(rest) = 0
  BY DEF Init, ProgramInit, End
<1>2. blocks \in Seq(Block) /\ rest \in Seq(Line)
  BY <1>1
<1>3. done \in BOOLEAN /\ started \in BOOLEAN
  BY <1>1 DEF Init
<1>4. current \in 0 .. Len(blocks)
  BY <1>1
<1>5. OnlyTailUnparsed /\ ParsedTargetsComplete
  BY <1>1 DEF OnlyTailUnparsed, ParsedTargetsComplete
<1>6. cursor = End /\ call = "none" /\ failed = {} /\ seen = {}
  BY DEF Init
<1>7. CursorTypeOK
  BY <1>3, <1>6 DEF CursorTypeOK
<1>8. Fits
  BY <1>1, CursorAssumption DEF Fits
<1> QED
  BY <1>2, <1>3, <1>4, <1>5, <1>7, <1>8 DEF ListInv, ProgramWF, ProgramTypeOK

\* The program is as it was, or longer; the rest has become shorter by as much.
LEMMA PushFits ==
  ASSUME ListInv, ReadLine(NaN)
  PROVE  Len(blocks') \in Nat /\ Len(blocks) <= Len(blocks') /\ Fits'
<1> DEFINE nb == ParsedBlock(Head(rest), blocks, NaN)
<1>1. /\ blocks \in Seq(Block) /\ rest \in Seq(Line) /\ rest # <<>>
      /\ Len(blocks) \in Nat /\ Len(rest) \in Nat /\ MaxBlocks \in Nat
      /\ Len(blocks) + Len(rest) <= MaxBlocks
  BY Lengths DEF ListInv, ProgramWF, ProgramTypeOK, ReadLine, Fits
<1>2. nb \in Block
  BY <1>1, ParsedBlockType
<1> HIDE DEF nb
<1>3. blocks' \in {blocks, Append(blocks, nb)}
  BY DEF ReadLine, PushLine, nb
<1>4. Len(blocks') \in Len(blocks) .. Len(blocks) + 1
  BY <1>1, <1>2, <1>3
<1>5. rest' \in {<<>>, Tail(rest)}
  BY DEF ReadLine
<1>6. Len(rest') \in 0 .. Len(rest) - 1
  BY <1>1, <1>5
<1> QED
  BY <1>1, <1>4, <1>6 DEF Fits

\* Steps that leave the list and what is to be read alone.
LEMMA SameList ==
  ASSUME ListInv, UNCHANGED progVars, CursorTypeOK'
  PROVE  ListInv'
BY DEF ListInv, progVars, ProgramWF, ProgramTypeOK, OnlyTailUnparsed,
       ParsedTargetsComplete, Fits

LEMMA RewoundType ==
  ASSUME RewindCursor, call' \in {"none", "load", "append"}
  PROVE  CursorTypeOK'
BY DEF RewindCursor, CursorTypeOK

LEMMA LoadList ==
  ASSUME ListInv, NEW f \in Files, NEW append \in BOOLEAN, Load(f, append)
  PROVE  ListInv'
<1>1. ProgramWF'
  BY OpenFileWF DEF Load, ListInv
<1>2. f \in Seq(Line) /\ Len(f) \in Nat
  BY FilesAssumption
<1>3. CASE append
  <2>1. UNCHANGED <<blocks, cursor, started, failed, seen>> /\ call' = "append"
        /\ rest' = f /\ Len(f) + Len(blocks) <= MaxBlocks
    BY <1>3 DEF Load, OpenFile
  <2> QED
    BY <1>1, <1>2, <2>1, Lengths DEF ListInv, CursorTypeOK, Fits
<1>4. CASE ~append
  <2>1. /\ blocks' = <<>> /\ rest' = f /\ Len(f) + 0 <= MaxBlocks
        /\ cursor' = Cleared /\ call' = "load" /\ UNCHANGED <<started, failed, seen>>
    BY <1>4 DEF Load, OpenFile, Clear
  <2>2. cursor' \in {Dangling, End}
    BY <2>1 DEF ListInv, CursorTypeOK, Cleared, Dangling, End
  <2>3. Len(blocks') = 0
    BY <2>1
  <2> QED
    BY <1>1, <1>2, <2>1, <2>2, <2>3, Lengths DEF ListInv, CursorTypeOK, Fits
<1> QED
  BY <1>3, <1>4

LEMMA LinesAreLines ==
  ASSUME NEW ls \in Files \cup UNION {LinesOf(f) : f \in Files}
  PROVE  ls \in Seq(Line)
<1>1. CASE ls \in Files
  BY <1>1, FilesAssumption
<1>2. ASSUME NEW f \in Files, ls \in LinesOf(f)
      PROVE  ls \in Seq(Line)
  <2>1. PICK i \in DOMAIN f : ls = <<f[i]>>
    BY <1>2 DEF LinesOf
  <2>2. f \in Seq(Line) /\ f[i] \in Line
    BY FilesAssumption
  <2> QED
    BY <2>1, <2>2
<1> QED
  BY <1>1, <1>2

LEMMA AppendList ==
  ASSUME ListInv, NEW ls \in Files \cup UNION {LinesOf(f) : f \in Files}, AppendLines(ls)
  PROVE  ListInv'
<1>1. ls \in Seq(Line) /\ Len(ls) \in Nat
  BY LinesAreLines
<1>2. /\ UNCHANGED <<blocks, current, done, cursor, started, failed, seen>>
      /\ rest' = ls /\ call' = "append" /\ Len(blocks) + Len(ls) <= MaxBlocks
  BY DEF AppendLines
<1>3. ProgramWF'
  BY <1>1, <1>2 DEF ListInv, ProgramWF, ProgramTypeOK, OnlyTailUnparsed,
                    ParsedTargetsComplete
<1> QED
  BY <1>1, <1>2, <1>3, Lengths DEF ListInv, CursorTypeOK, Fits

LEMMA PushList ==
  ASSUME ListInv, PushNext
  PROVE  ListInv'
<1>1. ReadLine(NaN) /\ UNCHANGED <<cursor, started, seen>>
  BY DEF PushNext
<1>2. ProgramWF'
  BY <1>1, ReadLineWF DEF ListInv
<1>3. Len(blocks') \in Nat /\ Len(blocks) <= Len(blocks') /\ Fits'
  BY <1>1, PushFits
<1>4. call' \in {"none", call} /\ failed' \in {failed, failed \cup {call}}
      /\ call \in {"load", "append"}
  BY DEF PushNext, Ready, ListInv, CursorTypeOK
<1> QED
  BY <1>1, <1>2, <1>3, <1>4, Lengths DEF ListInv, CursorTypeOK

LEMMA MissingList ==
  ASSUME ListInv, MissingLine
  PROVE  ListInv'
<1>1. /\ UNCHANGED <<blocks, current, done, cursor, started, seen>> /\ rest' = <<>>
      /\ call' = "none" /\ failed' = failed \cup {"append"}
  BY DEF MissingLine
<1>2. ProgramWF' /\ Len(rest') = 0
  BY <1>1 DEF ListInv, ProgramWF, ProgramTypeOK, OnlyTailUnparsed, ParsedTargetsComplete
<1> QED
  BY <1>1, <1>2, Lengths DEF ListInv, CursorTypeOK, Fits

LEMMA ResetList ==
  ASSUME ListInv, Reset
  PROVE  ListInv'
<1>1. Clear /\ RewindCursor /\ rest' = rest /\ call' = call
  BY DEF Reset
<1>2. ProgramWF'
  BY <1>1, ClearWF DEF ListInv, ProgramWF, ProgramTypeOK
<1>3. Len(blocks') = 0
  BY <1>1 DEF Clear
<1>4. CursorTypeOK'
  BY <1>1, RewoundType DEF ListInv, CursorTypeOK
<1> QED
  BY <1>1, <1>2, <1>3, <1>4, Lengths DEF ListInv, Fits

LEMMA NextCopyList ==
  ASSUME ListInv, LoadNextCopy
  PROVE  ListInv'
<1>1. /\ UNCHANGED <<progVars, call, failed>> /\ started' = TRUE
      /\ seen' \in {seen, seen \cup {cursor'}}
      /\ seen' # seen => cursor' \in 1 .. Len(blocks)
      /\ cursor' \in Moved
  BY DEF LoadNextCopy
<1>2. Len(blocks) \in 0 .. MaxBlocks /\ Len(blocks') = Len(blocks)
  BY <1>1, Lengths DEF ListInv, Fits, progVars
<1>3. cursor' \in {Dangling, End} \cup 1 .. Len(blocks)
  <2>1. \A c \in 0 .. Len(blocks) : NextOf(c) \in 0 .. Len(blocks)
    BY <1>2 DEF NextOf, End
  <2>2. CASE ~started
    BY <1>1, <1>2, <2>1, <2>2 DEF Moved, End
  <2>3. CASE started /\ cursor \in {Dangling, End}
    BY <1>1, <1>2, <2>3 DEF Moved, End, Dangling
  <2>4. CASE started /\ cursor \notin {Dangling, End}
    <3>1. cursor \in 1 .. Len(blocks) /\ cursor' = NextOf(cursor)
      BY <1>1, <2>4 DEF Moved, ListInv, CursorTypeOK
    <3> QED
      BY <1>2, <2>1, <3>1 DEF End
  <2> QED
    BY <2>2, <2>3, <2>4
<1>4. seen' \subseteq 1 .. MaxBlocks
  <2>1. seen \subseteq 1 .. MaxBlocks
    BY DEF ListInv, CursorTypeOK
  <2>2. CASE seen' = seen
    BY <2>1, <2>2
  <2>3. CASE seen' # seen
    <3>1. cursor' \in 1 .. MaxBlocks
      BY <1>1, <1>2, <2>3, Lengths DEF ListInv
    <3> QED
      BY <1>1, <2>1, <3>1
  <2> QED
    BY <2>2, <2>3
<1>5. CursorTypeOK'
  BY <1>1, <1>2, <1>3, <1>4 DEF ListInv, CursorTypeOK
<1> QED
  BY <1>1, <1>5, SameList

LEMMA StepList == ListInv /\ [Next]_cursorVars => ListInv'
<1> SUFFICES ASSUME ListInv, [Next]_cursorVars
             PROVE  ListInv'
  OBVIOUS
<1>1. CASE CallReturns \/ RewindCall
  <2>1. RewindCursor /\ UNCHANGED progVars /\ call' \in {"none", "load", "append"}
    BY <1>1 DEF CallReturns, RewindCall, ListInv, CursorTypeOK
  <2> QED
    BY <2>1, RewoundType, SameList
<1>2. CASE UNCHANGED cursorVars
  BY <1>2, SameList DEF cursorVars, progVars, ListInv, CursorTypeOK
<1> QED
  BY <1>1, <1>2, LoadList, AppendList, PushList, MissingList, ResetList, NextCopyList
     DEF Next

\* Whatever calls fail on the way, the list keeps well formed and the cursor is
\* in it, at its end, or dangling.
THEOREM CursorTypeCorrect == Spec => []TypeOK
<1>1. ListInv => TypeOK
  BY DEF ListInv, ProgramWF, CursorTypeOK, TypeOK
<1> QED
  BY <1>1, InitList, StepList, PTL DEF Spec
-----------------------------------------------------------------------------
\* What the bindings copy.

\* The first n blocks.
First(n) == SubSeq(blocks, 1, n)

\* Each block is the one its line leaves after the blocks before it.
Reparses ==
  \A i \in 1 .. Len(blocks) : blocks[i] = ParsedBlock(blocks[i].line, First(i - 1), NaN)

\* A block keeps the line it was parsed from.
LEMMA ParsedBlockLine ==
  ASSUME NEW line \in Line, NEW bs \in Seq(Block), NEW err
  PROVE  ParsedBlock(line, bs, err).line = line
<1> DEFINE nb == NewBlock(line, bs)
           wb == WordsRead(line, bs)
           rb == NumberRefused(line, bs)
<1>1. nb \in Block /\ nb.line = line
  BY NewBlockType DEF NewBlock
<1> HIDE DEF nb
<1>2. rb.line = nb.line
  BY <1>1 DEF NumberRefused, nb, Block
<1>3. DOMAIN wb = DOMAIN nb /\ wb.line = nb.line
  BY <1>1 DEF WordsRead, nb, Block
<1>4. DOMAIN nb = {"line", "n", "type", "target", "parsed"}
  BY <1>1 DEF Block
<1> HIDE DEF wb, rb
<1>5. ASSUME NEW t, NEW p
      PROVE  [wb EXCEPT !.target = t, !.parsed = p].line = wb.line
  BY <1>3, <1>4
<1> QED
  BY <1>1, <1>2, <1>3, <1>5 DEF ParsedBlock, nb, wb, rb, Line

\* A set of naturals has a least member.
LEMMA Least ==
  ASSUME NEW T \in SUBSET Nat, T # {}
  PROVE  \E x \in T : \A y \in T : x <= y
<1>1. PICK x \in T : \A y \in T : ~(<<y, x>> \in OpToRel(<, Nat))
  BY NatLessThanWellFounded, WFMin
<1>2. \A y \in T : y \in Nat /\ x \in Nat
  OBVIOUS
<1>3. \A y \in T : ~(y < x)
  BY <1>1, <1>2 DEF OpToRel
<1> QED
  BY <1>2, <1>3

LEMMA FirstAll ==
  ASSUME ProgramTypeOK
  PROVE  /\ Len(blocks) \in Nat /\ First(0) = <<>> /\ First(Len(blocks)) = blocks
         /\ \A k \in 1 .. Len(blocks) : First(k) = Append(First(k - 1), blocks[k])
         /\ \A k \in 1 .. Len(blocks) : First(k)[k] = blocks[k]
<1>1. blocks \in Seq(Block) /\ Len(blocks) \in Nat
  BY DEF ProgramTypeOK
<1>2. First(0) = <<>>
  BY SubSeqEmpty DEF First
<1>3. First(Len(blocks)) = blocks
  BY <1>1, SubSeqFull DEF First
<1>4. ASSUME NEW k \in 1 .. Len(blocks)
      PROVE  First(k) = Append(First(k - 1), blocks[k]) /\ First(k)[k] = blocks[k]
  <2>1. /\ First(k) \in Seq(Block) /\ Len(First(k)) = k
        /\ \A i \in 1 .. k : First(k)[i] = blocks[i]
    BY <1>1 DEF First
  <2>2. /\ First(k - 1) \in Seq(Block) /\ Len(First(k - 1)) = k - 1
        /\ \A i \in 1 .. k - 1 : First(k - 1)[i] = blocks[i]
    BY <1>1 DEF First
  <2>3. /\ Append(First(k - 1), blocks[k]) \in Seq(Block)
        /\ Len(Append(First(k - 1), blocks[k])) = k
        /\ \A i \in 1 .. k : Append(First(k - 1), blocks[k])[i] = blocks[i]
    BY <1>1, <2>2
  <2>4. First(k) = Append(First(k - 1), blocks[k])
    BY <1>1, <2>1, <2>3, SeqEqual
  <2> QED
    BY <2>1, <2>4
<1> QED
  BY <1>1, <1>2, <1>3, <1>4

\* The copies are the blocks, one after the other.
LEMMA CopiesAreBlocks ==
  ASSUME ProgramTypeOK, Reparses, NEW n \in 0 .. Len(blocks)
  PROVE  Copies(n) = First(n)
<1>0. Len(blocks) \in Nat /\ n \in Nat
  BY FirstAll
<1> DEFINE After(f, k) == IF k = 0 THEN <<>> ELSE Copy(f[k - 1], blocks[k])
           Solves(f) == f = [k \in 0 .. n |-> After(f, k)]
           g == [k \in 0 .. n |-> First(k)]
           c == CHOOSE f : Solves(f)
<1>1. Copies(n) = c[n]
  BY DEF Copies
<1>2. ASSUME NEW k \in 1 .. n
      PROVE  Copy(First(k - 1), blocks[k]) = First(k)
  <2>1. k \in 1 .. Len(blocks)
    BY <1>0
  <2>2. blocks[k] = ParsedBlock(blocks[k].line, First(k - 1), NaN)
    BY <2>1 DEF Reparses
  <2> QED
    BY <2>1, <2>2, FirstAll DEF Copy
<1>3. Solves(g)
  <2>1. \A k \in 0 .. n : g[k] = First(k)
    OBVIOUS
  <2>2. \A k \in 0 .. n : k # 0 => g[k - 1] = First(k - 1)
    BY <1>0
  <2> HIDE DEF g
  <2>3. \A k \in 0 .. n : After(g, k) = First(k)
    BY <1>0, <1>2, <2>2, FirstAll
  <2> QED
    BY <2>3 DEF g
<1>4. Solves(c)
  BY <1>3
<1> HIDE DEF c
<1>5. \A k \in 0 .. n : c[k] = After(c, k)
  BY <1>4
<1> DEFINE T == {k \in 0 .. n : c[k] # First(k)}
<1>6. SUFFICES ASSUME T # {} PROVE FALSE
  BY <1>0, <1>1
<1>7. PICK k \in T : \A j \in T : k <= j
  <2>1. T \in SUBSET Nat
    OBVIOUS
  <2> HIDE DEF T
  <2> QED
    BY <1>6, <2>1, Least
<1>8. k # 0
  BY <1>5, <1>7, FirstAll
<1>9. k - 1 \in 0 .. n /\ c[k - 1] = First(k - 1) /\ k \in 1 .. n
  BY <1>0, <1>7, <1>8
<1>10. c[k] = Copy(First(k - 1), blocks[k])
  BY <1>5, <1>7, <1>8, <1>9
<1> QED
  BY <1>2, <1>7, <1>9, <1>10
\* A block that is pushed is parsed after the ones before it; those stay.
LEMMA PushReparses ==
  ASSUME ProgramTypeOK, Reparses, NEW line \in Line, PushLine(line, NaN)
  PROVE  Reparses'
<1> DEFINE nb == ParsedBlock(line, blocks, NaN)
<1>1. CASE StuckTail
  BY <1>1 DEF PushLine, Reparses, First
<1>2. CASE ~StuckTail
  <2>1. blocks \in Seq(Block) /\ Len(blocks) \in Nat
    BY DEF ProgramTypeOK
  <2>2. nb \in Block /\ nb.line = line /\ blocks' = Append(blocks, nb)
    BY <1>2, <2>1, ParsedBlockType, ParsedBlockLine DEF PushLine
  <2>3. nb = ParsedBlock(nb.line, First(Len(blocks)), NaN)
    BY <2>2, FirstAll
  <2> HIDE DEF nb
  <2>4. /\ Len(blocks') = Len(blocks) + 1
        /\ \A i \in 1 .. Len(blocks) : blocks'[i] = blocks[i]
        /\ blocks'[Len(blocks) + 1] = nb
    BY <2>1, <2>2
  <2>5. ASSUME NEW k \in 0 .. Len(blocks)
        PROVE  SubSeq(blocks', 1, k) = First(k)
    <3>1. /\ First(k) \in Seq(Block) /\ Len(First(k)) = k
          /\ \A i \in 1 .. k : First(k)[i] = blocks[i]
      BY <2>1 DEF First
    <3>2. /\ SubSeq(blocks', 1, k) \in Seq(Block) /\ Len(SubSeq(blocks', 1, k)) = k
          /\ \A i \in 1 .. k : SubSeq(blocks', 1, k)[i] = blocks[i]
      <4>1. /\ blocks' \in Seq(Block) /\ k <= Len(blocks')
            /\ \A i \in 1 .. k : blocks'[i] = blocks[i]
        BY <2>1, <2>2, <2>4
      <4> QED
        BY <2>1, <4>1
    <3> QED
      BY <3>1, <3>2, SeqEqual
  <2>6. ASSUME NEW i \in 1 .. Len(blocks')
        PROVE  blocks'[i] = ParsedBlock(blocks'[i].line, SubSeq(blocks', 1, i - 1), NaN)
    <3>1. SubSeq(blocks', 1, i - 1) = First(i - 1)
      BY <2>1, <2>4, <2>5
    <3>2. CASE i \in 1 .. Len(blocks)
      BY <2>4, <3>1, <3>2 DEF Reparses
    <3>3. CASE i \notin 1 .. Len(blocks)
      <4>1. i - 1 = Len(blocks) /\ blocks'[i] = nb
        BY <2>1, <2>4, <3>3
      <4> QED
        BY <2>3, <3>1, <4>1
    <3> QED
      BY <3>2, <3>3
  <2> QED
    BY <2>6 DEF Reparses, First
<1> QED
  BY <1>1, <1>2

LEMMA StepReparses == ListInv /\ Reparses /\ [Next]_cursorVars => Reparses'
<1> SUFFICES ASSUME ListInv, Reparses, [Next]_cursorVars
             PROVE  Reparses'
  OBVIOUS
<1>1. ASSUME blocks' = blocks
      PROVE  Reparses'
  BY <1>1 DEF Reparses, First
<1>2. ASSUME blocks' = <<>>
      PROVE  Reparses'
  BY <1>2 DEF Reparses
<1>3. ASSUME NEW f \in Files, NEW append \in BOOLEAN, Load(f, append)
      PROVE  Reparses'
  BY <1>1, <1>2, <1>3 DEF Load, OpenFile, Clear
<1>4. ASSUME NEW ls, AppendLines(ls)
      PROVE  Reparses'
  BY <1>1, <1>4 DEF AppendLines
<1>5. CASE PushNext
  <2>1. Head(rest) \in Line /\ PushLine(Head(rest), NaN)
    BY <1>5 DEF PushNext, ReadLine, ListInv, ProgramWF, ProgramTypeOK
  <2> QED
    BY <2>1, PushReparses DEF ListInv, ProgramWF
<1>6. CASE MissingLine \/ CallReturns \/ RewindCall \/ LoadNextCopy \/ UNCHANGED cursorVars
  BY <1>1, <1>6 DEF MissingLine, CallReturns, RewindCall, LoadNextCopy, cursorVars, progVars
<1>7. CASE Reset
  BY <1>2, <1>7 DEF Reset, Clear
<1> QED
  BY <1>3, <1>4, <1>5, <1>6, <1>7 DEF Next

LEMMA InitReparses == Init => Reparses
BY DEF Init, ProgramInit, Reparses

LEMMA ReparsesIsSafe == ListInv /\ Reparses => CopiesAgree
BY FirstAll, CopiesAreBlocks DEF ListInv, ProgramWF, CopiesAgree

\* What the bindings hand out is the program's blocks, however it was loaded
\* and appended to.
THEOREM CopiesAreTheProgram == Spec => []CopiesAgree
<1>1. Init => ListInv /\ Reparses
  BY InitList, InitReparses
<1>2. ListInv /\ Reparses /\ [Next]_cursorVars => (ListInv /\ Reparses)'
  BY StepList, StepReparses
<1> QED
  BY <1>1, <1>2, ReparsesIsSafe, PTL DEF Spec

-----------------------------------------------------------------------------
\* What a traversal has returned.

\* The parsed blocks up to the n-th.
Parsed(n) == {i \in 1 .. n : blocks[i].parsed}

\* Between two calls, when none has failed since the cursor was rewound, the
\* cursor is at the end or on a block, and load_next has returned the parsed
\* blocks up to it.
SeenInv ==
  Ready /\ failed = {} =>
    /\ cursor \in {End} \cup 1 .. Len(blocks)
    /\ ~started => cursor = End /\ seen = {}
    /\ started => seen = Parsed(IF cursor = End THEN Len(blocks) ELSE cursor)

LEMMA SeenInvIsSafe == SeenInv => EndAfterEveryBlock
BY DEF SeenInv, EndAfterEveryBlock, Parsed

LEMMA RewoundSeen ==
  ASSUME RewindCursor
  PROVE  SeenInv'
BY DEF RewindCursor, SeenInv

\* The block the cursor moves to is returned if it was parsed.
LEMMA ReturnedBlock ==
  ASSUME ListInv, Reparses, LoadNextCopy
  PROVE  seen' = IF cursor' \in 1 .. Len(blocks) /\ blocks[cursor'].parsed
                 THEN seen \cup {cursor'} ELSE seen
<1>1. ASSUME NEW n \in 1 .. Len(blocks)
      PROVE  Copies(n)[n] = blocks[n]
  <2>1. n \in 0 .. Len(blocks)
    BY FirstAll DEF ListInv, ProgramWF
  <2> QED
    BY <2>1, FirstAll, CopiesAreBlocks DEF ListInv, ProgramWF
<1>2. cursor' \in 1 .. Len(blocks) => Copies(cursor')[cursor'] = blocks[cursor']
  BY <1>1
<1> QED
  BY <1>2 DEF LoadNextCopy

LEMMA NextCopySeen ==
  ASSUME ListInv, Reparses, SeenInv, LoadNextCopy
  PROVE  SeenInv'
<1>1. SUFFICES ASSUME failed = {}
               PROVE  SeenInv'
  BY DEF LoadNextCopy, SeenInv
<1>2. /\ cursor \in {End} \cup 1 .. Len(blocks)
      /\ ~started => cursor = End /\ seen = {}
      /\ started => seen = Parsed(IF cursor = End THEN Len(blocks) ELSE cursor)
  BY <1>1 DEF LoadNextCopy, SeenInv
<1>3. /\ blocks' = blocks /\ started' /\ cursor' \in Moved
      /\ seen' = IF cursor' \in 1 .. Len(blocks) /\ blocks[cursor'].parsed
                 THEN seen \cup {cursor'} ELSE seen
  BY ReturnedBlock DEF LoadNextCopy, progVars
<1>4. Len(blocks) \in Nat
  BY FirstAll DEF ListInv, ProgramWF
<1>5. SUFFICES /\ cursor' \in {End} \cup 1 .. Len(blocks)
               /\ seen' = Parsed(IF cursor' = End THEN Len(blocks) ELSE cursor')
  BY <1>3 DEF SeenInv, Parsed
\* From a cursor that has returned the parsed blocks up to c to the next one.
<1>6. ASSUME NEW c \in 0 .. Len(blocks), cursor' = NextOf(c), seen = Parsed(c)
      PROVE  /\ cursor' \in {End} \cup 1 .. Len(blocks)
             /\ seen' = Parsed(IF cursor' = End THEN Len(blocks) ELSE cursor')
  <2>1. CASE c = Len(blocks)
    BY <1>3, <1>4, <1>6, <2>1 DEF NextOf, End
  <2>2. CASE c # Len(blocks)
    <3>1. cursor' = c + 1 /\ c + 1 \in 1 .. Len(blocks) /\ c + 1 # End
      BY <1>4, <1>6, <2>2 DEF NextOf, End
    <3>2. Parsed(c + 1) = IF blocks[c + 1].parsed THEN Parsed(c) \cup {c + 1} ELSE Parsed(c)
      BY <1>4 DEF Parsed
    <3> QED
      BY <1>3, <1>6, <3>1, <3>2
  <2> QED
    BY <2>1, <2>2
<1>7. CASE ~started
  <2>1. cursor' = NextOf(0) /\ Parsed(0) = {} /\ 0 \in 0 .. Len(blocks)
    BY <1>3, <1>4, <1>7 DEF Moved, Parsed, End
  <2> QED
    BY <1>2, <1>6, <1>7, <2>1
<1>8. CASE started /\ cursor = End
  <2>1. cursor' = End
    BY <1>3, <1>8 DEF Moved, End, Dangling
  <2>2. seen' = seen
    BY <1>3, <2>1 DEF End
  <2> QED
    BY <1>2, <1>8, <2>1, <2>2
<1>9. CASE started /\ cursor # End
  <2>1. cursor \in 1 .. Len(blocks) /\ cursor \in 0 .. Len(blocks) /\ cursor # Dangling
    BY <1>2, <1>4, <1>9 DEF End, Dangling
  <2>2. cursor' = NextOf(cursor)
    BY <1>3, <1>9, <2>1 DEF Moved
  <2> QED
    BY <1>2, <1>6, <1>9, <2>1, <2>2
<1> QED
  BY <1>7, <1>8, <1>9

LEMMA StepSeen == ListInv /\ Reparses /\ SeenInv /\ [Next]_cursorVars => SeenInv'
<1> SUFFICES ASSUME ListInv, Reparses, SeenInv, [Next]_cursorVars
             PROVE  SeenInv'
  OBVIOUS
<1>1. ASSUME NEW f \in Files, NEW append \in BOOLEAN, Load(f, append)
      PROVE  SeenInv'
  BY <1>1 DEF Load, SeenInv, Ready
<1>2. ASSUME NEW ls, AppendLines(ls)
      PROVE  SeenInv'
  BY <1>2 DEF AppendLines, SeenInv, Ready
<1>3. CASE PushNext
  BY <1>3 DEF PushNext, SeenInv, Ready
<1>4. CASE MissingLine
  BY <1>4 DEF MissingLine, SeenInv
<1>5. CASE CallReturns \/ Reset \/ RewindCall
  BY <1>5, RewoundSeen DEF CallReturns, Reset, RewindCall
<1>6. CASE LoadNextCopy
  BY <1>6, NextCopySeen
<1>7. CASE UNCHANGED cursorVars
  BY <1>7 DEF cursorVars, progVars, SeenInv, Ready, Parsed
<1> QED
  BY <1>1, <1>2, <1>3, <1>4, <1>5, <1>6, <1>7 DEF Next

\* A traversal that reached the end, with no call having failed since the
\* cursor was rewound, has returned every block that was parsed.
THEOREM TraversalsAreComplete == Spec => []EndAfterEveryBlock
<1>1. Init => ListInv /\ Reparses /\ SeenInv
  <2>1. Init => SeenInv
    BY DEF Init, SeenInv
  <2> QED
    BY <2>1, InitList, InitReparses
<1>2. ListInv /\ Reparses /\ SeenInv /\ [Next]_cursorVars => (ListInv /\ Reparses /\ SeenInv)'
  BY StepList, StepReparses, StepSeen
<1> QED
  BY <1>1, <1>2, SeenInvIsSafe, PTL DEF Spec
=============================================================================
