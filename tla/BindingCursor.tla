--------------------------- MODULE BindingCursor ---------------------------
(***************************************************************************)
(* A program under the Python and R bindings (cncpp_python.cpp,            *)
(* cncpp_wrappers.cpp), which keep a cursor of their own over its list and *)
(* hand out copies parsed anew.  The machine of a binding is never synced, *)
(* so that its positioning error stays NaN.                                *)
(***************************************************************************)
EXTENDS Program

CONSTANT MaxBlocks   \* bound of the blocks a program grows to

ASSUME CursorAssumption == MaxBlocks \in Nat

Dangling == -1

VARIABLES
  cursor,    \* the binding's iterator: an index, End, or Dangling
  started,   \* load_next was called since the last rewind
  call,      \* "load" or "append" while its loop runs, "none" between calls
  failed,    \* history: the calls that threw since the cursor was rewound
  seen       \* history: blocks load_next has returned since then

cursorVars == <<progVars, cursor, started, call, failed, seen>>

TypeOK ==
  /\ ProgramTypeOK
  /\ cursor \in {Dangling, End} \cup 1 .. Len(blocks)
  /\ started \in BOOLEAN
  /\ call \in {"none", "load", "append"}
  /\ failed \subseteq {"load", "append"}
  /\ seen \subseteq 1 .. MaxBlocks

Init ==
  /\ ProgramInit
  /\ cursor = End
  /\ started = FALSE
  /\ call = "none"
  /\ failed = {} /\ seen = {}

\* rewind_program_cursor().
RewindCursor ==
  /\ cursor' = End
  /\ started' = FALSE
  /\ failed' = {} /\ seen' = {}

-----------------------------------------------------------------------------
Ready == call = "none"

\* Clearing the list leaves an iterator into it dangling; end() stays valid.
Cleared == IF cursor \in 1 .. Len(blocks) THEN Dangling ELSE cursor

\* load(): Program::load up to its loop.
Load(f, append) ==
  /\ Ready
  /\ Len(f) + (IF append THEN Len(blocks) ELSE 0) <= MaxBlocks
  /\ OpenFile(f, append)
  /\ call' = IF append THEN "append" ELSE "load"
  /\ cursor' = IF append THEN cursor ELSE Cleared
  /\ UNCHANGED <<started, failed, seen>>

\* append(), extend() and <<: the lines are pushed one by one.
AppendLines(ls) ==
  /\ Ready
  /\ Len(blocks) + Len(ls) <= MaxBlocks
  /\ rest' = ls
  /\ call' = "append"
  /\ UNCHANGED <<blocks, current, done, cursor, started, failed, seen>>

\* One line; an exception leaves the call before the cursor is rewound.
PushNext ==
  /\ ~Ready
  /\ ReadLine(NaN)
  /\ IF PushFails(Head(rest), NaN)
     THEN call' = "none" /\ failed' = failed \cup {call}
     ELSE UNCHANGED <<call, failed>>
  /\ UNCHANGED <<cursor, started, seen>>

\* A missing value among the lines of append().
MissingLine ==
  /\ call = "append"
  /\ rest # <<>> /\ rest' = <<>>
  /\ call' = "none" /\ failed' = failed \cup {"append"}
  /\ UNCHANGED <<blocks, current, done, cursor, started, seen>>

\* Mutant of CallReturns: appending does not rewind the cursor.
CallReturnsAppended ==
  /\ ~Ready /\ rest = <<>>
  /\ call' = "none"
  /\ IF call = "load" THEN RewindCursor
     ELSE UNCHANGED <<cursor, started, failed, seen>>
  /\ UNCHANGED progVars

\* load() or append() succeeds.
CallReturns ==
  /\ ~Ready /\ rest = <<>>
  /\ call' = "none"
  /\ RewindCursor
  /\ UNCHANGED progVars

\* Mutant of Reset: the cursor is not rewound.
ResetListOnly ==
  /\ Ready
  /\ Clear
  /\ cursor' = Cleared
  /\ failed' = {} /\ seen' = {}
  /\ UNCHANGED <<rest, call, started>>

\* program_reset().
Reset ==
  /\ Ready
  /\ Clear
  /\ RewindCursor
  /\ UNCHANGED <<rest, call>>

\* program_rewind() leaves the program's own iterator alone.
RewindCall ==
  /\ Ready
  /\ RewindCursor
  /\ UNCHANGED <<progVars, call>>

-----------------------------------------------------------------------------
\* Mutant of Copy: the copy is not linked to the block before it.
CopyAlone(bs, b) == Append(bs, ParsedBlock(b.line, <<>>, NaN))

\* make_parsed_block(): the line parsed again after the copies before it.
Copy(bs, b) == Append(bs, ParsedBlock(b.line, bs, NaN))

\* program_block_at(): what the bindings hand out for the first i blocks.
Copies(i) ==
  LET copies[k \in 0 .. i] ==
        IF k = 0 THEN <<>> ELSE Copy(copies[k - 1], blocks[k])
  IN  copies[i]

\* Where load_next() moves the cursor.  Incrementing or comparing a dangling
\* iterator is undefined: it may then be anywhere.
Moved ==
  CASE ~started -> {NextOf(End)}
    [] started /\ cursor = Dangling -> {Dangling, End} \cup 1 .. Len(blocks)
    [] started /\ cursor = End -> {End}
    [] OTHER -> {NextOf(cursor)}

\* program_load_next(): the cursor has moved when the copy's parsing throws.
LoadNextCopy ==
  /\ Ready
  /\ cursor' \in Moved
  /\ started' = TRUE
  /\ seen' = IF cursor' \in 1 .. Len(blocks) /\ Copies(cursor')[cursor'].parsed
             THEN seen \cup {cursor'} ELSE seen
  /\ UNCHANGED <<progVars, call, failed>>

LinesOf(f) == {<<f[i]>> : i \in DOMAIN f}

Next ==
  \/ \E f \in Files, append \in BOOLEAN : Load(f, append)
  \/ \E ls \in Files \cup UNION {LinesOf(f) : f \in Files} : AppendLines(ls)
  \/ PushNext
  \/ MissingLine
  \/ CallReturns
  \/ Reset
  \/ RewindCall
  \/ LoadNextCopy

Spec == Init /\ [][Next]_cursorVars

-----------------------------------------------------------------------------
\* Between two calls the cursor dangles only after a load() that threw: no
\* sequence of calls that succeed, nor a failed append, leaves it on a freed
\* block.
DanglesAfterFailedLoad ==
  Ready /\ cursor = Dangling => "load" \in failed

\* The inductive invariant: inside a load() that clears, the cursor may dangle.
CursorInv ==
  /\ cursor \in Nat \cup {Dangling}
  /\ cursor = Dangling => call = "load" \/ "load" \in failed

\* What load_next() and current() hand out is the block of the program: parsing
\* its lines again gives the same numbers, types and targets.
CopiesAgree == Copies(Len(blocks)) = blocks

\* When the binding's done is true and no call has failed since the cursor was
\* rewound, load_next() has returned every block that was parsed: neither an append nor a load in
\* the middle of a traversal makes it miss one.
EndAfterEveryBlock ==
  Ready /\ started /\ cursor = End /\ failed = {}
    => seen = {i \in 1 .. Len(blocks) : blocks[i].parsed}
=============================================================================
