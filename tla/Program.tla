------------------------------ MODULE Program ------------------------------
(***************************************************************************)
(* The program: the list of blocks and the iterator over it (program.cpp,  *)
(* program.hpp).  The sentinel end() of the list is End.  The loop of      *)
(* load() over the lines of the file is one step per line (ReadLine), with *)
(* the lines still to read in rest.                                        *)
(***************************************************************************)
EXTENDS Gcode

VARIABLES
  blocks,    \* the list of blocks
  current,   \* _current: index of a block, or End
  done,      \* _done
  rest       \* lines of the open file that load() has not read yet

progVars == <<blocks, current, done, rest>>

End == 0

ProgramTypeOK ==
  /\ blocks \in Seq(Block)
  /\ current \in 0 .. Len(blocks)
  /\ done \in BOOLEAN
  /\ rest \in Seq(Line)

ProgramInit ==
  /\ blocks = <<>>
  /\ current = End
  /\ done = FALSE
  /\ rest = <<>>

\* Mutant of Rewind: the iterator on the first block.
RewindToFirst ==
  /\ current' = IF blocks = <<>> THEN End ELSE 1
  /\ done' = FALSE
  /\ UNCHANGED <<blocks, rest>>

Rewind ==
  /\ current' = End
  /\ done' = FALSE
  /\ UNCHANGED <<blocks, rest>>

\* reset() without the iteration over a file: clear and rewind.
Clear ==
  /\ blocks' = <<>>
  /\ current' = End
  /\ done' = FALSE

NextOf(cur) == IF cur < Len(blocks) THEN cur + 1 ELSE End

\* load_next(): from end() to the first block, else one on; incrementing past
\* the last block gives end().
LoadNext ==
  /\ current' = NextOf(current)
  /\ done' = (current' = End)
  /\ UNCHANGED <<blocks, rest>>

\* The last block failed to parse; it stays in the list and cannot be copied.
StuckTail == blocks # <<>> /\ ~Prev(blocks).parsed

\* operator<< throws: when the block is constructed from an unparsed one, or
\* when it is parsed.
PushFails(line, err) == StuckTail \/ ParseFails(line, blocks, err)

\* Mutant of PushLine: the modal copy does not require a parsed block.
PushLineAfterBad(line, err) ==
  /\ blocks' = Append(blocks, ParsedBlock(line, blocks, err))
  /\ UNCHANGED <<current, done>>

\* operator<<: the block is in the list before it is parsed.
PushLine(line, err) ==
  /\ blocks' = IF StuckTail THEN blocks
               ELSE Append(blocks, ParsedBlock(line, blocks, err))
  /\ UNCHANGED <<current, done>>

\* load() once the file is open.
OpenFile(f, append) ==
  /\ rest' = f
  /\ IF append THEN UNCHANGED <<blocks, current, done>> ELSE Clear

\* One line of the loop in load(); an exception leaves the loop.
ReadLine(err) ==
  /\ rest # <<>>
  /\ PushLine(Head(rest), err)
  /\ rest' = IF PushFails(Head(rest), err) THEN <<>> ELSE Tail(rest)

-----------------------------------------------------------------------------
\* Only the last block can be one that failed to parse: whatever calls follow
\* a failed one, every block with a successor was parsed.
OnlyTailUnparsed == \A i \in 1 .. Len(blocks) - 1 : blocks[i].parsed

\* A parsed block has all the coordinates of its target, its own or those it
\* inherits along the program from the machine's zero: commanding or
\* interpolating it never meets a missing one.
ParsedTargetsComplete ==
  \A i \in 1 .. Len(blocks) : blocks[i].parsed => blocks[i].target \in Points
=============================================================================
