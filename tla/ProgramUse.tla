----------------------------- MODULE ProgramUse ----------------------------
(***************************************************************************)
(* A program under every sequence of the calls its public interface        *)
(* offers: load, operator<<, load_next, rewind and reset, as main/cnc.cpp  *)
(* and the test main of program.cpp make them.  Between two lines of a     *)
(* file the machine's positioning error does not change; between two calls *)
(* it may.                                                                 *)
(***************************************************************************)
EXTENDS Program

CONSTANTS
  Errors,     \* values of machine.error()
  MaxBlocks   \* bound of the blocks a program grows to

ASSUME UseAssumption ==
  /\ Errors \subseteq Nat \cup {NaN}
  /\ NaN \in Errors
  /\ MaxBlocks \in Nat

VARIABLES
  error,      \* machine.error()
  loading,    \* a call of load() is in its loop
  seen        \* history: blocks load_next has returned since it was at end()

useVars == <<progVars, error, loading, seen>>

TypeOK ==
  /\ ProgramTypeOK
  /\ error \in Errors
  /\ loading \in BOOLEAN
  /\ seen \subseteq Nat

Init ==
  /\ ProgramInit
  /\ error = NaN
  /\ loading = FALSE
  /\ seen = {}

\* The calls of the interface are made one after the other.
Ready == ~loading

Load(f, append) ==
  /\ Ready
  /\ Len(f) + (IF append THEN Len(blocks) ELSE 0) <= MaxBlocks
  /\ OpenFile(f, append)
  /\ loading' = TRUE
  /\ seen' = IF append THEN seen ELSE {}
  /\ UNCHANGED error

LoadReads ==
  /\ loading
  /\ ReadLine(error)
  /\ UNCHANGED <<error, loading, seen>>

\* The loop ends with the file or with an exception.
LoadReturns ==
  /\ loading
  /\ rest = <<>>
  /\ loading' = FALSE
  /\ UNCHANGED <<progVars, error, seen>>

Push(line) ==
  /\ Ready
  /\ Len(blocks) < MaxBlocks
  /\ PushLine(line, error)
  /\ UNCHANGED <<rest, error, loading, seen>>

Advance ==
  /\ Ready
  /\ LoadNext
  /\ seen' = IF current' = End THEN {} ELSE seen \cup {current'}
  /\ UNCHANGED <<error, loading>>

RewindCall ==
  /\ Ready
  /\ Rewind
  /\ seen' = {}
  /\ UNCHANGED <<error, loading>>

ResetCall ==
  /\ Ready
  /\ Clear
  /\ seen' = {}
  /\ UNCHANGED <<rest, error, loading>>

\* machine.sync() from the client's own loop.
Synced(e) ==
  /\ Ready
  /\ error' = e
  /\ UNCHANGED <<progVars, loading, seen>>

LinesOf(f) == {f[i] : i \in DOMAIN f}

Next ==
  \/ \E f \in Files, append \in BOOLEAN : Load(f, append)
  \/ LoadReads
  \/ LoadReturns
  \/ \E line \in UNION {LinesOf(f) : f \in Files} : Push(line)
  \/ Advance
  \/ RewindCall
  \/ ResetCall
  \/ \E e \in Errors : Synced(e)

Spec == Init /\ [][Next]_useVars

-----------------------------------------------------------------------------
\* The block numbers of a program increase, over several files and calls, as
\* long as no number is the largest size_t (which N-1 gives) and wraps.
NumbersIncrease ==
  \A i \in 1 .. Len(blocks) - 1 :
    blocks[i + 1].parsed /\ blocks[i].n < SizeMod - 1
      => blocks[i].n < blocks[i + 1].n

\* After a line that failed, no call but reset() or a load() that resets makes
\* a program change again: appended lines and files are refused.
StuckUntilCleared ==
  [][StuckTail /\ blocks' # blocks => blocks' = <<>>]_useVars

\* load_next reports the end exactly when it has returned every block, the ones
\* added on the way included.
DoneAfterEveryBlock ==
  [][Advance /\ done' => seen = 1 .. Len(blocks)]_useVars

\* The blocks returned since the end are the ones up to the iterator.
SeenUpToCurrent == seen = 1 .. current

\* As the comment on BlockType has it: the type is encoded by the G word.
TypeFromGWord ==
  \A i \in 1 .. Len(blocks) :
    blocks[i].parsed => blocks[i].type = OneTypeWord(blocks[i].line)

\* As the message of calc_arc has it: an arc whose radii differ by more than
\* max_error() is refused.
ArcsWithinMaxError ==
  \A i \in 1 .. Len(blocks) :
    blocks[i].parsed /\ blocks[i].type \in ArcTypes
      => blocks[i].line.mismatch <= MaxError
=============================================================================
