------------------------------- MODULE Gcode -------------------------------
(***************************************************************************)
(* One G-code line and the block its parsing leaves (block.cpp, block.hpp, *)
(* point.cpp).  A line is abstracted to the words the controller's         *)
(* behaviour depends on; numbers that only feed the interpolation are      *)
(* replaced by the duration (in ticks of tq) they produce.                 *)
(***************************************************************************)
EXTENDS Integers, Sequences

CONSTANTS
  Points,      \* complete points a program can name
  Zero,        \* machine.zero()
  Elsewhere,   \* a complete point that is none of Points
  NoPoint,     \* a point with a missing coordinate
  NaNPoint,    \* a point whose coordinates are not numbers
  Absent,      \* a word the line does not have
  NaN,         \* the error of a machine that was never compared to a setpoint
  SizeMod,     \* 2^width of size_t, the type of a block number
  MaxError,    \* machine.max_error()
  Files        \* contents the program file may have, one sequence of lines each

\* The enumerators of Block::BlockType.
RAPID     == 0
LINE      == 1
CWA       == 2
CCWA      == 3
NO_MOTION == 4

ArcTypes    == {CWA, CCWA}
InterpTypes == {LINE} \cup ArcTypes

\* What a line says.  nAfterG: the N word stands after the G word.  pt: the
\* point the line's coordinates give once the missing ones are inherited,
\* NoPoint when it names none; full: it names all three.  mismatch: by how much
\* the two radii of an arc given by I and J differ.  sweeps: the arc's radius
\* and angle are not 0.  bad: a word that cannot be parsed, before or after all
\* the others.
Line == [n : Int \cup {Absent}, g : Int \cup {Absent}, nAfterG : BOOLEAN,
         pt : Points \cup {NoPoint}, full : BOOLEAN, ticks : Nat \ {0},
         mismatch : Nat, sweeps : BOOLEAN, bad : {"none", "first", "last"}]

Block == [line : Line, n : 0 .. SizeMod - 1, type : Int,
          target : Points \cup {NoPoint}, parsed : BOOLEAN]

ASSUME PointsAssumption ==
  /\ Zero \in Points
  /\ Elsewhere \notin Points
  /\ NoPoint \notin Points \cup {Elsewhere}
  /\ NaNPoint \notin Points \cup {Elsewhere, NoPoint}
ASSUME NumbersAssumption ==
  /\ Absent \notin Int
  /\ NaN \notin Int
  /\ SizeMod \in Nat \ {0}
  /\ MaxError \in Nat \ {0}
ASSUME FilesAssumption == Files \subseteq Seq(Line)

-----------------------------------------------------------------------------

\* The last block of a program, which a new line inherits from.
Prev(bs) == bs[Len(bs)]

\* start_point(): the target of the previous block, the machine's zero for the
\* first one.
StartPoint(bs, i) == IF i = 1 THEN Zero ELSE bs[i - 1].target

\* A block whose length is 0: lambda() divides the walked distance by it.
NoLength(bs, i) ==
  IF bs[i].type = LINE THEN bs[i].target = StartPoint(bs, i)
  ELSE ~bs[i].line.sweeps

\* The block as constructed: number one up from the previous block's (in the
\* width of size_t), target emptied, type not modal.
NewBlock(line, bs) ==
  [line |-> line,
   n |-> IF bs = <<>> THEN 0 ELSE (Prev(bs).n + 1) % SizeMod,
   type |-> NO_MOTION, target |-> NoPoint, parsed |-> FALSE]

\* Mutant of BadNumber: a number equal to the previous one is let through.
BadNumberStrict(line, bs) ==
  /\ line.n # Absent
  /\ bs # <<>>
  /\ Prev(bs).n > line.n % SizeMod

\* case 'N' of parse_token refuses a number not above the previous block's.
BadNumber(line, bs) ==
  /\ line.n # Absent
  /\ bs # <<>>
  /\ Prev(bs).n >= line.n % SizeMod

OneTypeWord(line) ==
  IF line.g = Absent THEN NO_MOTION ELSE line.g

\* case 'N' has no break: the number falls through into case 'G', so that the
\* type is the argument of whichever of the two words comes last.
WordType(line) ==
  IF line.n # Absent /\ (line.g = Absent \/ line.nAfterG)
  THEN line.n ELSE OneTypeWord(line)

\* The block when case 'N' throws: the number is stored, the words that follow
\* it are not read.
NumberRefused(line, bs) ==
  [NewBlock(line, bs) EXCEPT !.n = line.n % SizeMod,
     !.type = IF line.nAfterG THEN OneTypeWord(line) ELSE NO_MOTION]

\* The block once every word was read, before the modal coordinates.
WordsRead(line, bs) ==
  [NewBlock(line, bs) EXCEPT
     !.n = IF line.n = Absent THEN @ ELSE line.n % SizeMod,
     !.type = WordType(line),
     !.target = IF line.full THEN line.pt ELSE NoPoint]

\* x > err in floating point: false when err is NaN.
StrictExceeds(x, err) == err # NaN /\ x > err

\* calc_arc compares the difference of the radii with machine.error(), the
\* current positioning error, not with the tolerance max_error().
ArcMismatch(line, err) ==
  /\ WordType(line) \in ArcTypes
  /\ StrictExceeds(line.mismatch, err)

\* Block::parse throws.
ParseFails(line, bs, err) ==
  \/ line.bad # "none"
  \/ BadNumber(line, bs)
  \/ ArcMismatch(line, err)

\* Mutant of ModalTarget: the first block inherits nothing.
ModalTargetNoOrigin(line, bs) ==
  IF line.pt = NoPoint /\ bs # <<>> THEN Prev(bs).target ELSE line.pt

\* modal(): the coordinates the line does not name come from the start point.
ModalTarget(line, bs) ==
  IF line.pt = NoPoint THEN StartPoint(bs, Len(bs) + 1) ELSE line.pt

\* The block Block::parse leaves, parsed or not.
ParsedBlock(line, bs, err) ==
  CASE line.bad = "first"   -> NewBlock(line, bs)
    [] line.bad # "first" /\ BadNumber(line, bs) -> NumberRefused(line, bs)
    [] line.bad = "last" /\ ~BadNumber(line, bs) -> WordsRead(line, bs)
    [] OTHER -> [WordsRead(line, bs) EXCEPT
                   !.target = ModalTarget(line, bs),
                   !.parsed = ~ArcMismatch(line, err)]
=============================================================================
