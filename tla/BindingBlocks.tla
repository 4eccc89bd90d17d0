---------------------------- MODULE BindingBlocks --------------------------
(***************************************************************************)
(* The blocks and machines of a client of the Python and R bindings        *)
(* (cncpp_python.cpp, cncpp_wrappers.cpp): objects shared by handles over  *)
(* C++ objects that point to each other with raw pointers, parsed once or  *)
(* again, on machines that are loaded again in between.  The blocks of one *)
(* Program are on the same heap, owned by its list.  An object's id is its *)
(* address: it is used again once the object is gone.                      *)
(***************************************************************************)
EXTENDS MachineConfig, SequencesExt

CONSTANTS
  Ids, Machines,   \* addresses of blocks and of machines
  Main,            \* the machine of the Program
  None, NoPoint,   \* a null pointer or handle; no point
  Values,          \* values of the machine's parameters
  Defaults,        \* those a machine is built with
  Lines,           \* lines of G-code: [pt, motion, bad]
  Files            \* files a machine is loaded from: [syntax, doc]

VARIABLES
  heap,      \* the live block objects
  held,      \* those the client has a handle of
  list,      \* those of the Program's list, in its order
  config,    \* the machines' configurations
  machHeld   \* the machines the client has a handle of

vars == <<heap, held, list, config, machHeld>>

ASSUME BindingAssumption ==
  /\ Main \in Machines
  /\ None \notin Ids \cup Machines
  /\ Defaults \in [Names -> Values]
  /\ NoPoint \notin Values
  /\ \A f \in Files : f.doc \in Documents(Values)
  /\ Lines \subseteq [pt : Values \cup {NoPoint}, motion : BOOLEAN, bad : BOOLEAN]

\* A block: prev and mptr are the raw pointers of cncpp::Block, previous and
\* machine the handles of PyBlock and RBlock.  start and tq are the start point
\* and the tick its path and profile were computed with; stale: the machine was
\* loaded since.
Block == [line : Lines, prev : Ids \cup {None}, mptr : Machines \cup {None},
          previous : Ids \cup {None}, machine : Machines \cup {None},
          parsed : BOOLEAN, target : Values \cup {NoPoint},
          start : Values \cup {NoPoint}, tq : Values \cup {NoPoint},
          stale : BOOLEAN]

TypeOK ==
  /\ DOMAIN heap \subseteq Ids /\ \A b \in DOMAIN heap : heap[b] \in Block
  /\ held \subseteq DOMAIN heap
  /\ list \in Seq(DOMAIN heap \ held)
  /\ config \in [Machines -> Config(Values, {<<>>} \cup {f.doc : f \in Files})]
  /\ machHeld \subseteq Machines

Init ==
  /\ heap = <<>> /\ held = {} /\ list = <<>>
  /\ config = [m \in Machines |-> Built(Defaults)]
  /\ machHeld = {Main}

-----------------------------------------------------------------------------
Free == Ids \ DOMAIN heap

\* The machines somebody has a handle of; the Program has one of Main.
LiveMachines ==
  (machHeld \cup {Main} \cup {heap[b].machine : b \in DOMAIN heap}) \ {None}

\* The blocks that handles lead to from S, each by way of previous: what is
\* left when all other handles are gone.
Reached(h, S) ==
  {b \in DOMAIN h : \A T \in SUBSET DOMAIN h :
     (S \subseteq T /\ \A c \in T : h[c].previous \in T \cup {None}) => b \in T}

Release(h, S) == [b \in Reached(h, S) |-> h[b]]

\* The heap with new objects on it.
With(new) ==
  [b \in DOMAIN heap \cup DOMAIN new |-> IF b \in DOMAIN new THEN new[b] ELSE heap[b]]

\* A block as constructed from a line.
Constructed(line, m) ==
  [line |-> line, prev |-> None, mptr |-> None, previous |-> None, machine |-> m,
   parsed |-> FALSE, target |-> NoPoint, start |-> NoPoint, tq |-> NoPoint,
   stale |-> FALSE]

\* Mutant of LinkedTo: the handle of the previous block is not kept.
LinkedToRaw(b, p, m) == [b EXCEPT !.prev = p, !.machine = m]

\* A block constructed after a parsed block p: on p's machine, with a handle
\* of it.
LinkedTo(b, p, m) == [b EXCEPT !.prev = p, !.previous = p, !.machine = m]

\* start_point(): of the previous block now, or of the machine now.
StartPoint(b, m) ==
  IF b.prev = None THEN config[m].params["zero"]
  ELSE IF b.prev \in DOMAIN heap THEN heap[b.prev].target ELSE NoPoint

\* Mutants of Parse: the target is computed anew, the path only once.
ParseAnew(b, m, s) ==
  IF b.line.bad THEN [b EXCEPT !.mptr = m]
  ELSE [b EXCEPT !.mptr = m, !.parsed = TRUE, !.stale = FALSE,
          !.start = s, !.tq = config[m].params["tq"],
          !.target = IF b.line.pt # NoPoint THEN b.line.pt ELSE s]

ParseOnce(b, m, s) ==
  IF b.line.bad THEN [b EXCEPT !.mptr = m]
  ELSE [b EXCEPT !.mptr = m, !.parsed = TRUE, !.stale = FALSE,
          !.start = IF b.parsed THEN b.start ELSE s,
          !.tq = config[m].params["tq"],
          !.target = IF b.line.pt # NoPoint THEN b.line.pt
                     ELSE IF b.target # NoPoint THEN b.target ELSE s]

\* Block::parse(m), with s the start point: coordinates the line does not name
\* are inherited unless an earlier parse inherited them.  A bad word throws.
Parse(b, m, s) ==
  IF b.line.bad THEN [b EXCEPT !.mptr = m]
  ELSE [b EXCEPT !.mptr = m, !.parsed = TRUE, !.stale = FALSE,
          !.start = s, !.tq = config[m].params["tq"],
          !.target = IF b.line.pt # NoPoint THEN b.line.pt
                     ELSE IF b.target # NoPoint THEN b.target ELSE s]

-----------------------------------------------------------------------------
\* Calls of the client.

\* Machine(), Machine(filename) when the file loads.
NewMachine(m, c) ==
  /\ m \notin LiveMachines
  /\ c \in {Built(Defaults)} \cup {LoadFile(Built(Defaults), f) : f \in Files}
  /\ ~c.failed
  /\ config' = [config EXCEPT ![m] = c]
  /\ machHeld' = machHeld \cup {m}
  /\ UNCHANGED <<heap, held, list>>

\* load and load_dict, throwing or not.
LoadMachine(m, f) ==
  /\ m \in machHeld
  /\ config' = [config EXCEPT ![m] = LoadFile(@, f)]
  /\ heap' = [b \in DOMAIN heap |->
                [heap[b] EXCEPT !.stale = @ \/ (heap[b].parsed /\ heap[b].mptr = m)]]
  /\ UNCHANGED <<held, list, machHeld>>

DropMachine(m) ==
  /\ m \in machHeld
  /\ machHeld' = machHeld \ {m}
  /\ UNCHANGED <<heap, held, list, config>>

\* Block(line, machine), or Block(line) with a machine of its own.
NewBlock(b, line, m) ==
  /\ b \in Free
  /\ m \in machHeld \cup (Machines \ LiveMachines)
  /\ config' = IF m \in machHeld THEN config ELSE [config EXCEPT ![m] = Built(Defaults)]
  /\ heap' = With([c \in {b} |-> Constructed(line, m)])
  /\ held' = held \cup {b}
  /\ UNCHANGED <<list, machHeld>>

\* Block(line, previous); it throws when previous was not parsed.
NewBlockAfter(b, line, p) ==
  /\ b \in Free
  /\ p \in held
  /\ heap[p].parsed
  /\ heap' = With([c \in {b} |-> LinkedTo(Constructed(line, None), p, heap[p].machine)])
  /\ held' = held \cup {b}
  /\ UNCHANGED <<list, config, machHeld>>

\* block.parse(machine) or block.parse(): the handle is replaced before the
\* parsing, which may throw.
ParseBlock(b, m) ==
  /\ b \in held
  /\ m \in machHeld \cup {heap[b].machine}
  /\ heap' = [heap EXCEPT ![b] = Parse([@ EXCEPT !.machine = m], m, StartPoint(@, m))]
  /\ UNCHANGED <<held, list, config, machHeld>>

\* block.previous and block.machine.
TakeHandles(b) ==
  /\ b \in held
  /\ held' = held \cup ({heap[b].previous} \ {None})
  /\ machHeld' = machHeld \cup {heap[b].machine}
  /\ UNCHANGED <<heap, list, config>>

\* Mutant of DropBlock: the list of the Program is not counted as an owner.
DropBlockListed(b) ==
  /\ b \in held
  /\ held' = held \ {b}
  /\ heap' = Release(heap, held')
  /\ UNCHANGED <<list, config, machHeld>>

DropBlock(b) ==
  /\ b \in held
  /\ held' = held \ {b}
  /\ heap' = Release(heap, held' \cup ToSet(list))
  /\ UNCHANGED <<list, config, machHeld>>

\* program << line, and each line of append and load.
AppendLine(b, line) ==
  LET raw == IF list = <<>> THEN Constructed(line, None)
             ELSE [Constructed(line, None) EXCEPT !.prev = Last(list)]
  IN  /\ b \in Free
      /\ list # <<>> => heap[Last(list)].parsed
      /\ heap' = With([c \in {b} |-> Parse(raw, Main, StartPoint(raw, Main))])
      /\ list' = Append(list, b)
      /\ UNCHANGED <<held, config, machHeld>>

\* program.reset().
ResetProgram ==
  /\ list # <<>>
  /\ list' = <<>>
  /\ heap' = [b \in DOMAIN heap \ ToSet(list) |-> heap[b]]
  /\ UNCHANGED <<held, config, machHeld>>

\* A copy of the program's i-th block as constructed, after the copy before it.
CopyOf(ids, i) ==
  LET line == heap[list[i]].line
  IN  IF i = 1 THEN Constructed(line, Main)
      ELSE LinkedTo(Constructed(line, None), ids[i - 1], Main)

\* Where it starts, on the machine as it is now.
CopyStarts(ids) ==
  LET start[i \in DOMAIN ids] ==
        IF i = 1 THEN config[Main].params["zero"]
        ELSE Parse(CopyOf(ids, i - 1), Main, start[i - 1]).target
  IN  start

\* The first Len(ids) lines of the program parsed again.
Chain(ids) ==
  [b \in ToSet(ids) |-> LET i == CHOOSE i \in DOMAIN ids : ids[i] = b
                        IN  Parse(CopyOf(ids, i), Main, CopyStarts(ids)[i])]

\* current() and load_next() give the last copy, blocks() all of them; a line
\* that throws destroys what was copied.
CopyOut(ids, given) ==
  /\ ids # <<>> /\ IsInjective(ids) /\ Len(ids) <= Len(list)
  /\ \A i \in DOMAIN ids : ~heap[list[i]].line.bad
  /\ given \in {{Last(ids)}} \cup (IF Len(ids) = Len(list) THEN {ToSet(ids)} ELSE {})
  /\ heap' = With(Chain(ids))
  /\ held' = held \cup given
  /\ UNCHANGED <<list, config, machHeld>>

Next ==
  \/ \E m \in Machines :
       \/ \E f \in Files : LoadMachine(m, f)
       \/ \E c \in {Built(Defaults)} \cup {LoadFile(Built(Defaults), f) : f \in Files} :
            NewMachine(m, c)
       \/ DropMachine(m)
  \/ \E b \in Ids :
       \/ \E line \in Lines :
            \/ \E m \in Machines : NewBlock(b, line, m)
            \/ \E p \in held : NewBlockAfter(b, line, p)
            \/ AppendLine(b, line)
       \/ \E m \in Machines : ParseBlock(b, m)
       \/ TakeHandles(b) \/ DropBlock(b)
  \/ ResetProgram
  \/ \E ids \in SeqOf(Free, Len(list)) : \E given \in SUBSET ToSet(ids) : CopyOut(ids, given)

Spec == Init /\ [][Next]_vars

-----------------------------------------------------------------------------
\* What is read of the objects.

Motion(b) == b.parsed /\ b.line.motion

\* Mutant of Interpolatable: a block without a previous one is let through.
InterpolatableFirst(b) == Motion(b)

\* require_interpolatable
Interpolatable(b) == Motion(b) /\ b.prev # None

\* The path of a block starts where it starts now and goes by the displacement
\* it had when parsed: it ends on the target when the two starts are the same.
EndsOnTarget(b) == StartPoint(b, b.mptr) = b.start

\* walk takes a sample every tick of the machine as it is now.
SampledAsTimed(b) == config[b.mptr].params["tq"] = b.tq

\* A raw pointer is to a live object: a block keeps its previous block and its
\* machine alive, also after it was parsed on another machine, after its
\* previous block was, and when only the last of a chain is held.
NoDangling ==
  \A b \in DOMAIN heap :
    /\ heap[b].prev \in DOMAIN heap \cup {None}
    /\ heap[b].mptr \in LiveMachines \cup {None}

\* The blocks the bindings interpolate, and all blocks of a program's walk but
\* the first, end on their target, whatever machine was loaded and whichever
\* blocks were parsed again since.
WalksEndOnTarget ==
  /\ \A b \in DOMAIN heap \ ToSet(list) : Interpolatable(heap[b]) => EndsOnTarget(heap[b])
  /\ \A i \in DOMAIN list : i > 1 /\ Motion(heap[list[i]]) => EndsOnTarget(heap[list[i]])

\* Of a block parsed since its machine was last loaded, by a load that threw as
\* well, the walk starts where the path does and has its last sample at the end.
FreshWalks ==
  \A b \in DOMAIN heap :
    Motion(heap[b]) /\ ~heap[b].stale => EndsOnTarget(heap[b]) /\ SampledAsTimed(heap[b])

\* A parsed block stays parsed and on its target, although it may be parsed
\* again, from another start and on another machine: the blocks after it count
\* on it.
TargetsStick ==
  [][\A b \in DOMAIN heap : b \in DOMAIN heap' /\ heap[b].parsed =>
       heap'[b].parsed /\ heap'[b].target = heap[b].target]_vars

\* data() tells the parameters in use unless the last load threw.
DataTellsParameters ==
  \A m \in Machines : ~config[m].failed =>
    \A n \in DOMAIN config[m].data : config[m].params[n] = config[m].data[n].v
=============================================================================
