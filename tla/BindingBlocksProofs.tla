------------------------ MODULE BindingBlocksProofs ------------------------
(***************************************************************************)
(* The objects behind the bindings' handles, for every set of addresses,   *)
(* lines and files: no raw pointer dangles, and data() tells the           *)
(* parameters.                                                             *)
(***************************************************************************)
EXTENDS BindingBlocks, SequenceTheorems, WellFoundedInduction, TLAPS

Fields == {"line", "prev", "mptr", "previous", "machine", "parsed", "target",
           "start", "tq", "stale"}

LEMMA ConstructedFields ==
  ASSUME NEW line, NEW m
  PROVE  LET c == Constructed(line, m)
         IN  /\ DOMAIN c = Fields
             /\ c.prev = None /\ c.previous = None /\ c.mptr = None /\ c.machine = m
BY DEF Constructed, Fields

LEMMA LinkedFields ==
  ASSUME NEW b, DOMAIN b = Fields, NEW p, NEW m
  PROVE  LET c == LinkedTo(b, p, m)
         IN  /\ DOMAIN c = Fields
             /\ c.prev = p /\ c.previous = p /\ c.mptr = b.mptr /\ c.machine = m
BY DEF LinkedTo, Fields

LEMMA ParsedFields ==
  ASSUME NEW b, DOMAIN b = Fields, NEW m, NEW s
  PROVE  LET c == Parse(b, m, s)
         IN  /\ DOMAIN c = Fields
             /\ c.prev = b.prev /\ c.previous = b.previous
             /\ c.mptr = m /\ c.machine = b.machine
<1>1. CASE b.line.bad
  BY <1>1 DEF Parse, Fields
<1>2. CASE ~b.line.bad
  BY <1>2 DEF Parse, Fields
<1> QED
  BY <1>1, <1>2

-----------------------------------------------------------------------------
\* A client's block has a handle of the block it points to, which is not the
\* Program's to destroy, and of the machine it was parsed on.
ClientBlock(c) ==
  /\ c.prev = c.previous
  /\ c.prev \in (DOMAIN heap \ ToSet(list)) \cup {None}
  /\ c.mptr \in {None, c.machine}

\* A block of the Program points to another one and to the Program's machine.
ListedBlock(c) ==
  /\ c.previous = None
  /\ c.prev \in ToSet(list) \cup {None}
  /\ c.mptr \in {None, Main}

\* The inductive invariant.
HeapInv ==
  /\ held \subseteq DOMAIN heap \ ToSet(list)
  /\ list \in Seq(Ids) /\ ToSet(list) \subseteq DOMAIN heap
  /\ \A b \in DOMAIN heap : DOMAIN heap[b] = Fields
  /\ \A b \in DOMAIN heap \ ToSet(list) : ClientBlock(heap[b])
  /\ \A b \in ToSet(list) : ListedBlock(heap[b])

LEMMA InitHeap == Init => HeapInv
BY EmptySeq DEF Init, HeapInv, ToSet

LEMMA HeapInvIsSafe == HeapInv => NoDangling
<1> SUFFICES ASSUME HeapInv, NEW b \in DOMAIN heap
             PROVE  /\ heap[b].prev \in DOMAIN heap \cup {None}
                    /\ heap[b].mptr \in LiveMachines \cup {None}
  BY DEF NoDangling
<1>1. CASE b \in ToSet(list)
  BY <1>1, BindingAssumption DEF HeapInv, ListedBlock, LiveMachines
<1>2. CASE b \notin ToSet(list)
  BY <1>2 DEF HeapInv, ClientBlock, LiveMachines
<1> QED
  BY <1>1, <1>2

\* A new block of the client's, that points to another one of the client's.
LEMMA NewClientInv ==
  ASSUME HeapInv, NEW b \in Free, NEW c, DOMAIN c = Fields, ClientBlock(c),
         heap' = With([d \in {b} |-> c]), held' = held \cup {b}, list' = list
  PROVE  HeapInv'
<1>1. /\ DOMAIN heap' = DOMAIN heap \cup {b} /\ b \notin DOMAIN heap
      /\ heap'[b] = c /\ \A d \in DOMAIN heap : heap'[d] = heap[d]
  BY DEF With, Free
<1>2. \A d \in DOMAIN heap' \ ToSet(list') : ClientBlock(heap[d])'
  BY <1>1 DEF HeapInv, ClientBlock
<1>3. \A d \in ToSet(list') : ListedBlock(heap[d])'
  BY <1>1 DEF HeapInv, ListedBlock
<1> QED
  BY <1>1, <1>2, <1>3 DEF HeapInv

LEMMA NewBlockInv ==
  ASSUME HeapInv, NEW b, NEW line, NEW m, NewBlock(b, line, m)
  PROVE  HeapInv'
<1> DEFINE c == Constructed(line, m)
<1>1. DOMAIN c = Fields /\ ClientBlock(c)
  BY ConstructedFields DEF ClientBlock
<1>2. heap' = With([d \in {b} |-> c]) /\ b \in Free /\ held' = held \cup {b} /\ list' = list
  BY DEF NewBlock
<1> HIDE DEF c
<1> QED
  BY <1>1, <1>2, NewClientInv

LEMMA NewBlockAfterInv ==
  ASSUME HeapInv, NEW b, NEW line, NEW p, NewBlockAfter(b, line, p)
  PROVE  HeapInv'
<1> DEFINE c == LinkedTo(Constructed(line, None), p, heap[p].machine)
<1>1. DOMAIN c = Fields /\ c.prev = p /\ c.previous = p /\ c.mptr = None
  BY ConstructedFields, LinkedFields
<1>2. p \in DOMAIN heap \ ToSet(list)
  BY DEF NewBlockAfter, HeapInv
<1>3. ClientBlock(c)
  BY <1>1, <1>2 DEF ClientBlock
<1>4. heap' = With([d \in {b} |-> c]) /\ b \in Free /\ held' = held \cup {b} /\ list' = list
  BY DEF NewBlockAfter
<1> HIDE DEF c
<1> QED
  BY <1>1, <1>3, <1>4, NewClientInv

LEMMA ParseBlockInv ==
  ASSUME HeapInv, NEW b, NEW m, ParseBlock(b, m)
  PROVE  HeapInv'
<1> DEFINE old == heap[b]
           linked == [old EXCEPT !.machine = m]
           c == Parse(linked, m, StartPoint(old, m))
<1>1. b \in DOMAIN heap /\ b \notin ToSet(list) /\ DOMAIN old = Fields /\ ClientBlock(old)
  BY DEF ParseBlock, HeapInv
<1>2. /\ DOMAIN linked = Fields /\ linked.prev = old.prev
      /\ linked.previous = old.previous /\ linked.machine = m
  BY <1>1 DEF Fields
<1>4. heap' = [heap EXCEPT ![b] = c] /\ held' = held /\ list' = list
  BY DEF ParseBlock
<1> HIDE DEF linked, old
<1>3. /\ DOMAIN c = Fields /\ c.prev = old.prev /\ c.previous = old.previous
      /\ c.mptr = m /\ c.machine = m
  BY <1>2, ParsedFields
<1>5. DOMAIN heap' = DOMAIN heap /\ heap'[b] = c
      /\ \A d \in DOMAIN heap \ {b} : heap'[d] = heap[d]
  BY <1>1, <1>4
<1> HIDE DEF c
<1>6. \A d \in DOMAIN heap' \ ToSet(list') : ClientBlock(heap[d])'
  <2> SUFFICES ASSUME NEW d \in DOMAIN heap \ ToSet(list)
               PROVE  ClientBlock(heap[d])'
    BY <1>4, <1>5
  <2>1. CASE d = b
    BY <1>1, <1>3, <1>4, <1>5, <2>1 DEF ClientBlock
  <2>2. CASE d # b
    BY <1>4, <1>5, <2>2 DEF HeapInv, ClientBlock
  <2> QED
    BY <2>1, <2>2
<1>7. \A d \in ToSet(list') : ListedBlock(heap[d])'
  BY <1>1, <1>4, <1>5 DEF HeapInv, ListedBlock
<1> QED
  BY <1>1, <1>3, <1>4, <1>5, <1>6, <1>7 DEF HeapInv

\* What is left of the heap when a handle is dropped is closed under previous.
LEMMA ReachedClosed ==
  ASSUME NEW h, NEW S, S \subseteq DOMAIN h,
         \A b \in DOMAIN h : h[b].previous \in DOMAIN h \cup {None}
  PROVE  /\ S \subseteq Reached(h, S) /\ Reached(h, S) \subseteq DOMAIN h
         /\ \A b \in Reached(h, S) : h[b].previous \in Reached(h, S) \cup {None}
<1>1. S \subseteq Reached(h, S) /\ Reached(h, S) \subseteq DOMAIN h
  BY DEF Reached
<1>2. ASSUME NEW b \in Reached(h, S), h[b].previous # None
      PROVE  h[b].previous \in Reached(h, S)
  <2> DEFINE Closed(T) == S \subseteq T /\ \A c \in T : h[c].previous \in T \cup {None}
  <2>1. \A T \in SUBSET DOMAIN h : Closed(T) => b \in T
    BY <1>2 DEF Reached
  <2>2. \A T \in SUBSET DOMAIN h : Closed(T) => h[b].previous \in T
    BY <1>2, <2>1
  <2>3. h[b].previous \in DOMAIN h
    BY <1>1, <1>2
  <2> QED
    BY <2>2, <2>3 DEF Reached
<1> QED
  BY <1>1, <1>2

LEMMA DropBlockInv ==
  ASSUME HeapInv, NEW b, DropBlock(b)
  PROVE  HeapInv'
<1> DEFINE S == held' \cup ToSet(list)
           R == Reached(heap, S)
<1>1. held' \subseteq held /\ list' = list /\ heap' = [d \in R |-> heap[d]]
  BY DEF DropBlock, Release
<1>2. S \subseteq DOMAIN heap
  BY <1>1 DEF HeapInv
<1>3. \A d \in DOMAIN heap : heap[d].previous \in DOMAIN heap \cup {None}
  BY DEF HeapInv, ClientBlock, ListedBlock
<1>4. /\ S \subseteq R /\ R \subseteq DOMAIN heap
      /\ \A d \in R : heap[d].previous \in R \cup {None}
  BY <1>2, <1>3, ReachedClosed
<1> HIDE DEF R
<1>5. \A d \in DOMAIN heap' \ ToSet(list') : ClientBlock(heap[d])'
  BY <1>1, <1>4 DEF HeapInv, ClientBlock
<1>6. \A d \in ToSet(list') : ListedBlock(heap[d])'
  BY <1>1, <1>4 DEF HeapInv, ListedBlock
<1> QED
  BY <1>1, <1>4, <1>5, <1>6 DEF HeapInv

LEMMA AppendSet ==
  ASSUME NEW s \in Seq(Ids), NEW b \in Ids
  PROVE  /\ Append(s, b) \in Seq(Ids) /\ ToSet(Append(s, b)) = ToSet(s) \cup {b}
         /\ s # <<>> => Last(s) \in ToSet(s)
<1>1. /\ Append(s, b) \in Seq(Ids) /\ Len(Append(s, b)) = Len(s) + 1
      /\ \A i \in 1 .. Len(s) : Append(s, b)[i] = s[i]
      /\ Append(s, b)[Len(s) + 1] = b
  BY AppendProperties
<1>2. Len(s) \in Nat /\ DOMAIN s = 1 .. Len(s)
  BY LenProperties
<1>3. DOMAIN Append(s, b) = 1 .. Len(s) + 1
  BY <1>1, LenProperties
<1>4. ToSet(Append(s, b)) = ToSet(s) \cup {b}
  <2>1. ToSet(Append(s, b)) \subseteq ToSet(s) \cup {b}
    BY <1>1, <1>2, <1>3 DEF ToSet
  <2>2. b \in ToSet(Append(s, b))
    BY <1>1, <1>2, <1>3 DEF ToSet
  <2>3. ToSet(s) \subseteq ToSet(Append(s, b))
    BY <1>1, <1>2, <1>3 DEF ToSet
  <2> QED
    BY <2>1, <2>2, <2>3
<1>5. s # <<>> => Len(s) \in DOMAIN s
  BY <1>2, EmptySeq
<1> QED
  BY <1>1, <1>4, <1>5 DEF Last, ToSet

LEMMA AppendLineInv ==
  ASSUME HeapInv, NEW b \in Ids, NEW line, AppendLine(b, line)
  PROVE  HeapInv'
<1> DEFINE raw == IF list = <<>> THEN Constructed(line, None)
                  ELSE [Constructed(line, None) EXCEPT !.prev = Last(list)]
           c == Parse(raw, Main, StartPoint(raw, Main))
<1>1. /\ b \in Free /\ heap' = With([d \in {b} |-> c]) /\ list' = Append(list, b)
      /\ held' = held
  BY DEF AppendLine
<1>2. /\ list' \in Seq(Ids) /\ ToSet(list') = ToSet(list) \cup {b}
      /\ list # <<>> => Last(list) \in ToSet(list)
  BY <1>1, AppendSet DEF HeapInv
<1>3. /\ DOMAIN raw = Fields /\ raw.previous = None
      /\ raw.prev \in ToSet(list) \cup {None}
  <2>1. CASE list = <<>>
    BY <2>1, ConstructedFields
  <2>2. CASE list # <<>>
    BY <1>2, <2>2, ConstructedFields DEF Fields
  <2> QED
    BY <2>1, <2>2
<1> HIDE DEF raw
<1>4. /\ DOMAIN c = Fields /\ c.previous = None /\ c.mptr = Main
      /\ c.prev \in ToSet(list) \cup {None}
  BY <1>3, ParsedFields
<1> HIDE DEF c
<1>5. /\ DOMAIN heap' = DOMAIN heap \cup {b} /\ b \notin DOMAIN heap
      /\ heap'[b] = c /\ \A d \in DOMAIN heap : heap'[d] = heap[d]
  BY <1>1 DEF With, Free
<1>6. \A d \in DOMAIN heap' \ ToSet(list') : ClientBlock(heap[d])'
  BY <1>2, <1>5 DEF HeapInv, ClientBlock
<1>7. \A d \in ToSet(list') : ListedBlock(heap[d])'
  BY <1>2, <1>4, <1>5 DEF HeapInv, ListedBlock
<1> QED
  BY <1>1, <1>2, <1>4, <1>5, <1>6, <1>7 DEF HeapInv

LEMMA ResetProgramInv ==
  ASSUME HeapInv, ResetProgram
  PROVE  HeapInv'
<1>1. /\ list' = <<>> /\ ToSet(list') = {} /\ held' = held
      /\ heap' = [b \in DOMAIN heap \ ToSet(list) |-> heap[b]]
  BY EmptySeq DEF ResetProgram, ToSet
<1>2. \A d \in DOMAIN heap' : ClientBlock(heap[d])'
  BY <1>1 DEF HeapInv, ClientBlock
<1> QED
  BY <1>1, <1>2, EmptySeq DEF HeapInv

\* The copies point to one another and to the Program's machine.
LEMMA ChainFields ==
  ASSUME NEW ids, NEW n \in Nat, ids \in [1 .. n -> Free], NEW b \in ToSet(ids)
  PROVE  LET c == Chain(ids)[b]
         IN  /\ DOMAIN c = Fields
             /\ c.prev = c.previous /\ c.prev \in ToSet(ids) \cup {None}
             /\ c.mptr = c.machine
<1> DEFINE i == CHOOSE i \in DOMAIN ids : ids[i] = b
           raw == CopyOf(ids, i)
           s == CopyStarts(ids)[i]
<1>1. i \in 1 .. n
  BY DEF ToSet
<1>2. Chain(ids)[b] = Parse(raw, Main, s)
  BY DEF Chain
<1> HIDE DEF i, s
<1>3. /\ DOMAIN raw = Fields /\ raw.mptr = None /\ raw.machine = Main
      /\ raw.prev = raw.previous /\ raw.prev \in ToSet(ids) \cup {None}
  <2> DEFINE line == heap[list[i]].line
  <2>1. CASE i = 1
    <3>1. raw = Constructed(line, Main)
      BY <2>1 DEF CopyOf
    <3> QED
      BY <3>1, ConstructedFields
  <2>2. CASE i # 1
    <3> DEFINE new == Constructed(line, None)
    <3>1. raw = LinkedTo(new, ids[i - 1], Main)
      BY <2>2 DEF CopyOf
    <3>2. ids[i - 1] \in ToSet(ids)
      BY <1>1, <2>2 DEF ToSet
    <3>3. DOMAIN new = Fields /\ new.mptr = None
      BY ConstructedFields
    <3> HIDE DEF new
    <3> QED
      BY <3>1, <3>2, <3>3, LinkedFields
  <2> QED
    BY <2>1, <2>2
<1> HIDE DEF raw
<1> QED
  BY <1>2, <1>3, ParsedFields

LEMMA CopyOutInv ==
  ASSUME HeapInv, NEW ids \in SeqOf(Free, Len(list)), NEW given \in SUBSET ToSet(ids),
         CopyOut(ids, given)
  PROVE  HeapInv'
<1>1. PICK n \in Nat : ids \in [1 .. n -> Free]
  BY LenProperties DEF SeqOf, HeapInv
<1>2. heap' = With(Chain(ids)) /\ held' = held \cup given /\ list' = list
  BY DEF CopyOut
<1>3. ToSet(ids) \subseteq Free
  BY <1>1 DEF ToSet
<1>4. /\ DOMAIN heap' = DOMAIN heap \cup ToSet(ids)
      /\ \A d \in ToSet(ids) : heap'[d] = Chain(ids)[d]
      /\ \A d \in DOMAIN heap : d \notin ToSet(ids) /\ heap'[d] = heap[d]
  <2>1. DOMAIN Chain(ids) = ToSet(ids)
    BY DEF Chain
  <2> QED
    BY <1>2, <1>3, <2>1 DEF With, Free
<1>5. \A d \in ToSet(ids) : /\ DOMAIN heap'[d] = Fields
                            /\ ClientBlock(heap[d])'
  <2> SUFFICES ASSUME NEW d \in ToSet(ids)
               PROVE  DOMAIN heap'[d] = Fields /\ ClientBlock(heap[d])'
    OBVIOUS
  <2> DEFINE c == Chain(ids)[d]
  <2>1. /\ DOMAIN c = Fields /\ c.prev = c.previous
        /\ c.prev \in ToSet(ids) \cup {None} /\ c.mptr = c.machine
    BY <1>1, ChainFields
  <2>2. ToSet(ids) \subseteq DOMAIN heap' \ ToSet(list')
    BY <1>2, <1>4 DEF HeapInv
  <2>3. heap'[d] = c
    BY <1>4
  <2> HIDE DEF c
  <2> QED
    BY <2>1, <2>2, <2>3 DEF ClientBlock
<1>6. \A d \in DOMAIN heap \ ToSet(list) : ClientBlock(heap[d])'
  BY <1>2, <1>4 DEF HeapInv, ClientBlock
<1>7. \A d \in ToSet(list') : ListedBlock(heap[d])'
  BY <1>2, <1>4 DEF HeapInv, ListedBlock
<1> QED
  BY <1>2, <1>4, <1>5, <1>6, <1>7 DEF HeapInv

\* A machine that is loaded changes no pointer.
LEMMA LoadMachineInv ==
  ASSUME HeapInv, NEW m, NEW f, LoadMachine(m, f)
  PROVE  HeapInv'
<1>1. /\ DOMAIN heap' = DOMAIN heap /\ held' = held /\ list' = list
      /\ \A b \in DOMAIN heap :
           heap'[b] = [heap[b] EXCEPT !.stale = @ \/ (heap[b].parsed /\ heap[b].mptr = m)]
  BY DEF LoadMachine
<1>2. \A b \in DOMAIN heap :
        /\ DOMAIN heap'[b] = Fields
        /\ heap'[b].prev = heap[b].prev /\ heap'[b].previous = heap[b].previous
        /\ heap'[b].mptr = heap[b].mptr /\ heap'[b].machine = heap[b].machine
  BY <1>1 DEF HeapInv, Fields
<1>3. \A d \in DOMAIN heap' \ ToSet(list') : ClientBlock(heap[d])'
  BY <1>1, <1>2 DEF HeapInv, ClientBlock
<1>4. \A d \in ToSet(list') : ListedBlock(heap[d])'
  BY <1>1, <1>2 DEF HeapInv, ListedBlock
<1> QED
  BY <1>1, <1>2, <1>3, <1>4 DEF HeapInv

\* A handle of a block's previous one is one of the client's.
LEMMA TakeHandlesInv ==
  ASSUME HeapInv, NEW b, TakeHandles(b)
  PROVE  HeapInv'
<1>1. heap' = heap /\ list' = list /\ held' = held \cup ({heap[b].previous} \ {None})
      /\ b \in held
  BY DEF TakeHandles
<1>2. heap[b].previous \in (DOMAIN heap \ ToSet(list)) \cup {None}
  BY <1>1 DEF HeapInv, ClientBlock
<1> QED
  BY <1>1, <1>2 DEF HeapInv, ClientBlock, ListedBlock

LEMMA StepHeap == HeapInv /\ [Next]_vars => HeapInv'
<1> SUFFICES ASSUME HeapInv, [Next]_vars
             PROVE  HeapInv'
  OBVIOUS
<1>1. ASSUME UNCHANGED <<heap, held, list>>
      PROVE  HeapInv'
  BY <1>1 DEF HeapInv, ClientBlock, ListedBlock
<1>2. ASSUME NEW m \in Machines, \/ \E c : NewMachine(m, c)
                                 \/ DropMachine(m)
      PROVE  HeapInv'
  BY <1>1, <1>2 DEF NewMachine, DropMachine
<1>3. ASSUME NEW m \in Machines, NEW f \in Files, LoadMachine(m, f)
      PROVE  HeapInv'
  BY <1>3, LoadMachineInv
<1>4. ASSUME NEW b \in Ids,
             \/ \E line \in Lines : \/ \E m \in Machines : NewBlock(b, line, m)
                                    \/ \E p \in held : NewBlockAfter(b, line, p)
                                    \/ AppendLine(b, line)
             \/ \E m \in Machines : ParseBlock(b, m)
             \/ TakeHandles(b) \/ DropBlock(b)
      PROVE  HeapInv'
  BY <1>4, NewBlockInv, NewBlockAfterInv, AppendLineInv, ParseBlockInv, TakeHandlesInv,
     DropBlockInv
<1>5. CASE ResetProgram
  BY <1>5, ResetProgramInv
<1>6. CASE \E ids \in SeqOf(Free, Len(list)) : \E given \in SUBSET ToSet(ids) :
             CopyOut(ids, given)
  BY <1>6, CopyOutInv
<1>7. CASE UNCHANGED vars
  BY <1>1, <1>7 DEF vars
<1> QED
  BY <1>2, <1>3, <1>4, <1>5, <1>6, <1>7 DEF Next

\* However blocks and machines are created, parsed again, copied and dropped,
\* and however long the chains are, no raw pointer of a live block dangles.
THEOREM NeverDangles == Spec => []NoDangling
<1>1. Init => HeapInv
  BY InitHeap
<1>2. HeapInv /\ [Next]_vars => HeapInv'
  BY StepHeap
<1>3. HeapInv => NoDangling
  BY HeapInvIsSafe
<1> QED
  BY <1>1, <1>2, <1>3, PTL DEF Spec

-----------------------------------------------------------------------------
\* What data() tells.

Truthful(c) ==
  /\ DOMAIN c = {"params", "data", "failed"}
  /\ ~c.failed => \A n \in DOMAIN c.data : c.params[n] = c.data[n].v

ConfigInv ==
  /\ DOMAIN config = Machines
  /\ \A m \in Machines : Truthful(config[m])

LEMMA BuiltTruthful == Truthful(Built(Defaults))
BY DEF Truthful, Built

\* A document none of whose parameters is refused is taken as a whole.
LEMMA AllTaken ==
  ASSUME NEW doc, NEW syntax, DOMAIN doc \subseteq Names, Refused(doc, syntax) = {}
  PROVE  DOMAIN doc \subseteq Taken(doc, syntax)
BY DEF Taken, Names

LEMMA LoadFileTruthful ==
  ASSUME NEW c, Truthful(c), NEW f \in Files
  PROVE  Truthful(LoadFile(c, f))
<1>1. CASE f.syntax \in Unloadable
  <2>1. LoadFile(c, f) = [c EXCEPT !.failed = TRUE]
    BY <1>1 DEF LoadFile
  <2> QED
    BY <2>1 DEF Truthful
<1>2. CASE f.syntax \notin Unloadable
  <2> DEFINE d == LoadFile(c, f)
  <2>1. d = LoadDocument(c, f.doc, f.syntax)
    BY <1>2 DEF LoadFile
  <2>2. DOMAIN d = {"params", "data", "failed"}
        /\ d.params = Loaded(c.params, f.doc, f.syntax)
        /\ d.failed = (Refused(f.doc, f.syntax) # {})
    BY <2>1 DEF LoadDocument
  <2>3. SUFFICES ASSUME ~d.failed, NEW n \in DOMAIN d.data
                 PROVE  d.params[n] = d.data[n].v
    BY <2>2 DEF Truthful
  <2>4. Refused(f.doc, f.syntax) = {} /\ DOMAIN f.doc \subseteq Names
    BY <2>2, <2>3, BindingAssumption DEF Documents
  <2>5. d.data = f.doc
    BY <2>1, <2>4 DEF LoadDocument
  <2>6. n \in Taken(f.doc, f.syntax) /\ n \in Names
    BY <2>3, <2>4, <2>5, AllTaken
  <2> QED
    BY <2>2, <2>5, <2>6 DEF Loaded
<1> QED
  BY <1>1, <1>2

LEMMA InitConfig == Init => ConfigInv
BY BuiltTruthful DEF Init, ConfigInv

LEMMA StepConfig == ConfigInv /\ [Next]_vars => ConfigInv'
<1> SUFFICES ASSUME ConfigInv, [Next]_vars
             PROVE  ConfigInv'
  OBVIOUS
<1>1. ASSUME NEW m \in Machines, NEW c, Truthful(c), config' = [config EXCEPT ![m] = c]
      PROVE  ConfigInv'
  BY <1>1 DEF ConfigInv
<1>2. ASSUME UNCHANGED config
      PROVE  ConfigInv'
  BY <1>2 DEF ConfigInv
<1>3. ASSUME NEW m \in Machines, NEW f \in Files, LoadMachine(m, f)
      PROVE  ConfigInv'
  <2>1. Truthful(LoadFile(config[m], f))
    BY LoadFileTruthful DEF ConfigInv
  <2>2. config' = [config EXCEPT ![m] = LoadFile(config[m], f)]
    BY <1>3 DEF LoadMachine
  <2> QED
    BY <1>1, <2>1, <2>2
<1>4. ASSUME NEW m \in Machines,
             NEW c \in {Built(Defaults)} \cup {LoadFile(Built(Defaults), f) : f \in Files},
             NewMachine(m, c)
      PROVE  ConfigInv'
  <2>1. Truthful(c)
    BY BuiltTruthful, LoadFileTruthful
  <2> QED
    BY <1>1, <1>4, <2>1 DEF NewMachine
<1>5. ASSUME NEW b \in Ids, NEW line \in Lines, NEW m \in Machines, NewBlock(b, line, m)
      PROVE  ConfigInv'
  BY <1>1, <1>2, <1>5, BuiltTruthful DEF NewBlock
<1>6. ASSUME NEW b \in Ids,
             \/ \E line \in Lines : \/ \E p \in held : NewBlockAfter(b, line, p)
                                    \/ AppendLine(b, line)
             \/ \E m \in Machines : ParseBlock(b, m)
             \/ TakeHandles(b) \/ DropBlock(b)
      PROVE  ConfigInv'
  BY <1>2, <1>6 DEF NewBlockAfter, AppendLine, ParseBlock, TakeHandles, DropBlock
<1>7. CASE ResetProgram \/ (\E m \in Machines : DropMachine(m))
           \/ \E ids \in SeqOf(Free, Len(list)) : \E given \in SUBSET ToSet(ids) :
                CopyOut(ids, given)
  BY <1>2, <1>7 DEF ResetProgram, DropMachine, CopyOut
<1>8. CASE UNCHANGED vars
  BY <1>2, <1>8 DEF vars
<1> QED
  BY <1>3, <1>4, <1>5, <1>6, <1>7, <1>8 DEF Next

\* data() tells the parameters in use, whatever was loaded, unless the last
\* load threw.
THEOREM DataIsTold == Spec => []DataTellsParameters
<1>1. Init => ConfigInv
  BY InitConfig
<1>2. ConfigInv /\ [Next]_vars => ConfigInv'
  BY StepConfig
<1>3. ConfigInv => DataTellsParameters
  BY DEF ConfigInv, Truthful, DataTellsParameters
<1> QED
  BY <1>1, <1>2, <1>3, PTL DEF Spec
-----------------------------------------------------------------------------
\* Types.

LEMMA ConstructedType ==
  ASSUME NEW line \in Lines, NEW m \in Machines \cup {None}
  PROVE  Constructed(line, m) \in Block
BY DEF Constructed, Block

LEMMA LinkedType ==
  ASSUME NEW b \in Block, NEW p \in Ids, NEW m \in Machines \cup {None}
  PROVE  LinkedTo(b, p, m) \in Block
BY DEF LinkedTo, Block

\* A machine's configuration has all parameters.
Configs == Config(Values, {<<>>} \cup {f.doc : f \in Files})

LEMMA ParsedType ==
  ASSUME NEW b \in Block, NEW m \in Machines, config[m] \in Configs,
         NEW s \in Values \cup {NoPoint}
  PROVE  Parse(b, m, s) \in Block
<1>1. "tq" \in Names
  BY DEF Names, Order
<1>2. config[m].params["tq"] \in Values
  BY <1>1 DEF Configs, Config
<1>3. b.line.pt \in Values \cup {NoPoint}
  BY BindingAssumption DEF Block
<1>4. CASE b.line.bad
  BY <1>4 DEF Parse, Block
<1>5. CASE ~b.line.bad
  BY <1>2, <1>3, <1>5 DEF Parse, Block
<1> QED
  BY <1>4, <1>5
LEMMA BuiltType == Built(Defaults) \in Configs
BY BindingAssumption DEF Built, Configs, Config

LEMMA LoadFileType ==
  ASSUME NEW c \in Configs, NEW f \in Files
  PROVE  LoadFile(c, f) \in Configs
<1>1. CASE f.syntax \in Unloadable
  BY <1>1 DEF LoadFile, Configs, Config
<1>2. CASE f.syntax \notin Unloadable
  <2> DEFINE D == {<<>>} \cup {g.doc : g \in Files}
             taken == Taken(f.doc, f.syntax)
             params == Loaded(c.params, f.doc, f.syntax)
             data == IF f.syntax = "json" \/ Refused(f.doc, f.syntax) = {} THEN f.doc
                     ELSE c.data
  <2>1. \A n \in DOMAIN f.doc : f.doc[n].v \in Values
    BY BindingAssumption DEF Documents
  <2>2. taken \subseteq DOMAIN f.doc
    BY DEF Taken
  <2>3. c.params \in [Names -> Values] /\ c.data \in D
    BY DEF Configs, Config
  <2>4. params \in [Names -> Values]
    BY <2>1, <2>2, <2>3 DEF Loaded
  <2>5. data \in D
    BY <2>3
  <2>6. LoadFile(c, f) = [params |-> params, data |-> data,
                          failed |-> Refused(f.doc, f.syntax) # {}]
    BY <1>2 DEF LoadFile, LoadDocument
  <2> HIDE DEF params, data, D
  <2>7. LoadFile(c, f) \in Config(Values, D)
    BY <2>4, <2>5, <2>6 DEF Config
  <2> QED
    BY <2>7 DEF Configs, D
<1> QED
  BY <1>1, <1>2

\* The inductive invariant of the types.
TypeInv ==
  /\ DOMAIN heap \subseteq Ids
  /\ \A b \in DOMAIN heap : heap[b] \in Block
  /\ \A b \in DOMAIN heap \ ToSet(list) : heap[b].machine \in Machines
  /\ config \in [Machines -> Configs]
  /\ machHeld \subseteq Machines

LEMMA TypeInvIsTypeOK == HeapInv /\ TypeInv => TypeOK
<1> SUFFICES ASSUME HeapInv, TypeInv
             PROVE  TypeOK
  OBVIOUS
<1>1. list \in Seq(Ids) /\ \A i \in 1 .. Len(list) : list[i] \in DOMAIN heap \ held
  BY LenProperties DEF HeapInv, ToSet
<1>2. list \in Seq(DOMAIN heap \ held)
  <2>1. Len(list) \in Nat /\ list \in [1 .. Len(list) -> DOMAIN heap \ held]
    BY <1>1, LenProperties
  <2> QED
    BY <2>1
<1> QED
  BY <1>2 DEF HeapInv, TypeInv, TypeOK, Configs

LEMMA InitTypes == Init => TypeInv
<1>1. Init => DOMAIN heap = {}
  BY DEF Init
<1> QED
  BY <1>1, BuiltType, BindingAssumption DEF Init, TypeInv

\* Where a block of the heap starts, or one that follows a block of the heap.
LEMMA StartType ==
  ASSUME TypeInv, NEW b, NEW m \in Machines
  PROVE  StartPoint(b, m) \in Values \cup {NoPoint}
<1>1. config[m].params \in [Names -> Values] /\ "zero" \in Names
  BY DEF TypeInv, Configs, Config, Names, Order
<1>2. \A d \in DOMAIN heap : heap[d].target \in Values \cup {NoPoint}
  BY DEF TypeInv, Block
<1> QED
  BY <1>1, <1>2 DEF StartPoint

\* New blocks of the heap.
LEMMA NewType ==
  ASSUME TypeInv, NEW new, DOMAIN new \subseteq Free,
         \A b \in DOMAIN new : new[b] \in Block,
         \A b \in DOMAIN new \ ToSet(list') : new[b].machine \in Machines,
         heap' = With(new), ToSet(list) \subseteq ToSet(list'),
         config' \in [Machines -> Configs], machHeld' = machHeld
  PROVE  TypeInv'
<1>1. /\ DOMAIN heap' = DOMAIN heap \cup DOMAIN new
      /\ \A b \in DOMAIN new : heap'[b] = new[b]
      /\ \A b \in DOMAIN heap : b \notin DOMAIN new /\ heap'[b] = heap[b]
  BY DEF With, Free
<1>2. DOMAIN new \subseteq Ids
  BY DEF Free
<1> QED
  BY <1>1, <1>2 DEF TypeInv
\* A set of naturals has a least member.
LEMMA Least ==
  ASSUME NEW T \in SUBSET Nat, T # {}
  PROVE  \E x \in T : \A y \in T : x <= y
<1>1. PICK x \in T : \A y \in T : ~(<<y, x>> \in OpToRel(<, Nat))
  BY NatLessThanWellFounded, WFMin
<1>2. \A y \in T : y \in Nat /\ x \in Nat
  OBVIOUS
<1>3. \A y \in T : ~(y < x)
  BY <1>1, <1>2 DEF OpToRel
<1> QED
  BY <1>2, <1>3

\* The copies' starts are well defined: each is where the copy before it ends.
LEMMA CopyStartsFollow ==
  ASSUME NEW n \in Nat, NEW ids, DOMAIN ids = 1 .. n
  PROVE  \A i \in 1 .. n :
           CopyStarts(ids)[i] =
             IF i = 1 THEN config[Main].params["zero"]
             ELSE Parse(CopyOf(ids, i - 1), Main, CopyStarts(ids)[i - 1]).target
<1> DEFINE zero == config[Main].params["zero"]
           After(i, s) == Parse(CopyOf(ids, i), Main, s).target
           Start(f, i) == IF i = 1 THEN zero ELSE After(i - 1, f[i - 1])
           Solves(f, k) == f = [i \in 1 .. k |-> Start(f, i)]
           T == {k \in 0 .. n : \A f : ~Solves(f, k)}
<1>1. CopyStarts(ids) = CHOOSE f : Solves(f, n)
  BY DEF CopyStarts
<1> HIDE DEF zero, After
<1>2. \E f : Solves(f, n)
  <2>1. SUFFICES ASSUME n \in T PROVE FALSE
    OBVIOUS
  <2>2. PICK k \in T : \A y \in T : k <= y
    <3>1. T \in SUBSET Nat /\ T # {}
      BY <2>1
    <3> HIDE DEF T
    <3> QED
      BY <3>1, Least
  <2>3. CASE k = 0
    <3> DEFINE f == [i \in 1 .. 0 |-> zero]
    <3>1. Solves(f, 0)
      OBVIOUS
    <3> QED
      BY <2>2, <2>3, <3>1
  <2>4. CASE k # 0
    <3> HIDE DEF Solves
    <3>1. k \in 1 .. n /\ k - 1 \in 0 .. n /\ k - 1 \notin T
      BY <2>2, <2>4
    <3>2. PICK f : Solves(f, k - 1)
      BY <3>1
    <3> USE DEF Solves
    <3> DEFINE g == [i \in 1 .. k |-> Start(f, i)]
    <3>3. \A i \in 1 .. k - 1 : g[i] = f[i]
      BY <3>1, <3>2
    <3> HIDE DEF g
    <3>4. \A i \in 1 .. k : i # 1 => g[i - 1] = f[i - 1]
      BY <3>1, <3>3
    <3>5. g = [i \in 1 .. k |-> Start(g, i)]
      <4>1. \A i \in 1 .. k : Start(g, i) = Start(f, i)
        BY <3>4
      <4> QED
        BY <4>1 DEF g
    <3> QED
      BY <2>2, <3>5
  <2> QED
    BY <2>3, <2>4
<1>3. Solves(CopyStarts(ids), n)
  BY <1>1, <1>2
<1> HIDE DEF Solves
<1>4. \A i \in 1 .. n : CopyStarts(ids)[i] = Start(CopyStarts(ids), i)
  BY <1>3 DEF Solves
<1> QED
  BY <1>4 DEF zero, After
\* What a parse that does not throw leaves.
LEMMA ParseLeaves ==
  ASSUME NEW b \in Block, ~b.line.bad, NEW m, NEW s
  PROVE  LET c == Parse(b, m, s)
         IN  /\ c.line = b.line /\ c.prev = b.prev /\ c.mptr = m /\ c.machine = b.machine
             /\ c.parsed /\ ~c.stale
             /\ c.start = s /\ c.tq = config[m].params["tq"]
             /\ c.target = IF b.line.pt # NoPoint THEN b.line.pt
                           ELSE IF b.target # NoPoint THEN b.target ELSE s
<1> DEFINE t == IF b.line.pt # NoPoint THEN b.line.pt
                ELSE IF b.target # NoPoint THEN b.target ELSE s
<1>1. Parse(b, m, s) = [b EXCEPT !.mptr = m, !.parsed = TRUE, !.stale = FALSE,
                          !.start = s, !.tq = config[m].params["tq"], !.target = t]
  BY DEF Parse
<1> HIDE DEF t
<1>2. LET c == Parse(b, m, s)
      IN  /\ c.line = b.line /\ c.prev = b.prev /\ c.mptr = m /\ c.machine = b.machine
          /\ c.parsed /\ ~c.stale
          /\ c.start = s /\ c.tq = config[m].params["tq"] /\ c.target = t
  BY <1>1 DEF Block
<1> QED
  BY <1>2 DEF t

\* The copy of a block as constructed.
LEMMA CopyOfLeaves ==
  ASSUME HeapInv, TypeInv, NEW n \in 1 .. Len(list), NEW ids \in [1 .. n -> Ids],
         NEW i \in 1 .. n
  PROVE  LET c == CopyOf(ids, i)
         IN  /\ c \in Block
             /\ c.line = heap[list[i]].line /\ c.target = NoPoint /\ c.machine = Main
             /\ c.prev = IF i = 1 THEN None ELSE ids[i - 1]
<1> DEFINE line == heap[list[i]].line
<1>1. list[i] \in DOMAIN heap
  BY LenProperties DEF HeapInv, ToSet
<1>2. line \in Lines
  BY <1>1 DEF TypeInv, Block
<1> HIDE DEF line
<1>3. CASE i = 1
  <2>1. CopyOf(ids, i) = Constructed(line, Main)
    BY <1>3 DEF CopyOf, line
  <2>2. Constructed(line, Main) \in Block
    BY <1>2, ConstructedType, BindingAssumption
  <2>3. LET c == Constructed(line, Main)
        IN  c.line = line /\ c.target = NoPoint /\ c.machine = Main /\ c.prev = None
    BY DEF Constructed
  <2> QED
    BY <1>3, <2>1, <2>2, <2>3 DEF line
<1>4. CASE i # 1
  <2> DEFINE new == Constructed(line, None)
             p == ids[i - 1]
  <2>1. CopyOf(ids, i) = LinkedTo(new, p, Main)
    BY <1>4 DEF CopyOf, line
  <2>2. new \in Block /\ new.line = line /\ new.target = NoPoint
    BY <1>2, ConstructedType DEF Constructed
  <2>3. p \in Ids
    BY <1>4
  <2> HIDE DEF new, p
  <2>4. LinkedTo(new, p, Main) \in Block
    BY <2>2, <2>3, LinkedType, BindingAssumption
  <2>5. LET c == LinkedTo(new, p, Main)
        IN  c.line = new.line /\ c.target = new.target /\ c.machine = Main /\ c.prev = p
    BY <2>2 DEF LinkedTo, Block
  <2> QED
    BY <1>4, <2>1, <2>2, <2>4, <2>5 DEF line, p
<1> QED
  BY <1>3, <1>4

\* Copies start on a point.
LEMMA CopyStartsOnPoints ==
  ASSUME HeapInv, TypeInv, NEW n \in 1 .. Len(list), NEW ids \in [1 .. n -> Ids],
         \A i \in 1 .. n : ~heap[list[i]].line.bad
  PROVE  \A i \in 1 .. n : CopyStarts(ids)[i] \in Values
<1> DEFINE start == CopyStarts(ids)
           T == {i \in 1 .. n : start[i] \notin Values}
<1>1. SUFFICES ASSUME T # {} PROVE FALSE
  OBVIOUS
<1>2. PICK i \in T : \A j \in T : i <= j
  <2>1. Len(list) \in Nat
    BY LenProperties DEF HeapInv
  <2>2. T \in SUBSET Nat
    BY <2>1
  <2> HIDE DEF T
  <2> QED
    BY <1>1, <2>2, Least
<1>3. i \in 1 .. n /\ n \in Nat /\ DOMAIN ids = 1 .. n
  BY LenProperties DEF HeapInv
<1> DEFINE copy(j) == CopyOf(ids, j)
<1>4. start[i] = IF i = 1 THEN config[Main].params["zero"]
                 ELSE Parse(copy(i - 1), Main, start[i - 1]).target
  BY <1>3, CopyStartsFollow
<1>5. CASE i = 1
  <2>1. config[Main].params \in [Names -> Values] /\ "zero" \in Names
    BY BindingAssumption DEF TypeInv, Configs, Config, Names, Order
  <2> QED
    BY <1>2, <1>4, <1>5, <2>1
<1>6. CASE i # 1
  <2> DEFINE c == copy(i - 1)
             s == start[i - 1]
             line == heap[list[i - 1]].line
  <2>1. i - 1 \in 1 .. n /\ s \in Values
    BY <1>2, <1>3, <1>6
  <2>2. c \in Block /\ c.line = line /\ c.target = NoPoint
    BY <2>1, CopyOfLeaves
  <2>3. ~c.line.bad /\ c.line.pt \in Values \cup {NoPoint}
    BY <2>1, <2>2, BindingAssumption DEF Block
  <2>4. start[i] = Parse(c, Main, s).target
    BY <1>4, <1>6
  <2> HIDE DEF c, s, line, start
  <2>5. start[i] = IF c.line.pt # NoPoint THEN c.line.pt
                   ELSE IF c.target # NoPoint THEN c.target ELSE s
    BY <2>2, <2>3, <2>4, ParseLeaves
  <2>6. start[i] \in Values
    BY <2>1, <2>2, <2>3, <2>5
  <2> QED
    BY <1>2, <2>6
<1> QED
  BY <1>5, <1>6
\* The copies, all of lines that do not throw.
LEMMA ChainLeaves ==
  ASSUME HeapInv, TypeInv, NEW n \in 1 .. Len(list), NEW ids \in [1 .. n -> Ids],
         \A i \in 1 .. n : ~heap[list[i]].line.bad, IsInjective(ids), NEW i \in 1 .. n
  PROVE  LET c == Chain(ids)[ids[i]]
             s == CopyStarts(ids)[i]
         IN  /\ ids[i] \in DOMAIN Chain(ids) /\ c \in Block
             /\ c.line = heap[list[i]].line /\ c.mptr = Main /\ c.machine = Main
             /\ c.prev = IF i = 1 THEN None ELSE ids[i - 1]
             /\ c.parsed /\ ~c.stale /\ c.tq = config[Main].params["tq"] /\ c.start = s
             /\ c.target = IF c.line.pt # NoPoint THEN c.line.pt ELSE s
             /\ c.target = Parse(CopyOf(ids, i), Main, s).target
<1> DEFINE raw == CopyOf(ids, i)
           s == CopyStarts(ids)[i]
           k == CHOOSE k \in DOMAIN ids : ids[k] = ids[i]
<1>1. k = i
  BY DEF IsInjective
<1>2. ids[i] \in ToSet(ids)
  BY DEF ToSet
<1>3. DOMAIN Chain(ids) = ToSet(ids)
  BY DEF Chain
<1>4. Chain(ids)[ids[i]] = Parse(raw, Main, s)
  BY <1>1, <1>2 DEF Chain
<1>5. /\ raw \in Block
      /\ raw.line = heap[list[i]].line /\ raw.target = NoPoint /\ raw.machine = Main
      /\ raw.prev = IF i = 1 THEN None ELSE ids[i - 1]
  BY CopyOfLeaves
<1>6. s \in Values
  BY CopyStartsOnPoints
<1>7. ~raw.line.bad
  BY <1>5
<1> HIDE DEF raw, s
<1>8. Parse(raw, Main, s) \in Block
  BY <1>5, <1>6, ParsedType, BindingAssumption DEF TypeInv
<1> DEFINE c == Parse(raw, Main, s)
<1>9. /\ c.line = raw.line /\ c.prev = raw.prev /\ c.mptr = Main /\ c.machine = raw.machine
      /\ c.parsed /\ ~c.stale
      /\ c.start = s /\ c.tq = config[Main].params["tq"]
      /\ c.target = IF raw.line.pt # NoPoint THEN raw.line.pt
                    ELSE IF raw.target # NoPoint THEN raw.target ELSE s
  BY <1>5, <1>7, ParseLeaves
<1>10. c = Chain(ids)[ids[i]]
  BY <1>4
<1> HIDE DEF c
<1>11. c.target = IF c.line.pt # NoPoint THEN c.line.pt ELSE s
  BY <1>5, <1>9
<1>12. c.target = Parse(raw, Main, s).target
  BY DEF c
<1> QED
  BY <1>2, <1>3, <1>5, <1>8, <1>9, <1>10, <1>11, <1>12 DEF c, raw, s

-----------------------------------------------------------------------------
LEMMA NewBlockTypes ==
  ASSUME TypeInv, NEW b \in Ids, NEW line \in Lines, NEW m \in Machines, NewBlock(b, line, m)
  PROVE  TypeInv'
<1> DEFINE new == [c \in {b} |-> Constructed(line, m)]
<1>1. /\ b \in Free /\ heap' = With(new) /\ list' = list /\ machHeld' = machHeld
      /\ config' = IF m \in machHeld THEN config ELSE [config EXCEPT ![m] = Built(Defaults)]
  BY DEF NewBlock
<1>2. Constructed(line, m) \in Block /\ Constructed(line, m).machine = m
  BY ConstructedType, ConstructedFields
<1>3. config' \in [Machines -> Configs]
  BY <1>1, BuiltType DEF TypeInv
<1>4. /\ DOMAIN new \subseteq Free
      /\ \A d \in DOMAIN new : new[d] \in Block /\ new[d].machine \in Machines
  BY <1>1, <1>2
<1> HIDE DEF new
<1> QED
  BY <1>1, <1>3, <1>4, NewType

LEMMA NewBlockAfterTypes ==
  ASSUME HeapInv, TypeInv, NEW b \in Ids, NEW line \in Lines, NEW p,
         NewBlockAfter(b, line, p)
  PROVE  TypeInv'
<1> DEFINE raw == Constructed(line, None)
           m == heap[p].machine
           c == LinkedTo(raw, p, m)
           new == [d \in {b} |-> c]
<1>1. /\ b \in Free /\ heap' = With(new) /\ list' = list /\ machHeld' = machHeld
      /\ config' = config
  BY DEF NewBlockAfter
<1>2. p \in DOMAIN heap \ ToSet(list)
  BY DEF NewBlockAfter, HeapInv
<1>3. p \in Ids /\ m \in Machines
  BY <1>2 DEF TypeInv
<1>4. raw \in Block /\ DOMAIN raw = Fields
  BY ConstructedType, ConstructedFields
<1> HIDE DEF raw, m
<1>5. c \in Block /\ c.machine = m
  BY <1>3, <1>4, LinkedType, LinkedFields
<1> HIDE DEF c
<1>6. /\ DOMAIN new \subseteq Free
      /\ \A d \in DOMAIN new : new[d] \in Block /\ new[d].machine \in Machines
  BY <1>1, <1>3, <1>5
<1> HIDE DEF new
<1> QED
  BY <1>1, <1>6, NewType DEF TypeInv

LEMMA ParseBlockTypes ==
  ASSUME HeapInv, TypeInv, NEW b, NEW m \in Machines, ParseBlock(b, m)
  PROVE  TypeInv'
<1> DEFINE old == heap[b]
           s == StartPoint(old, m)
           linked == [old EXCEPT !.machine = m]
           c == Parse(linked, m, s)
<1>1. /\ heap' = [heap EXCEPT ![b] = c] /\ list' = list /\ machHeld' = machHeld
      /\ config' = config /\ b \in held
  BY DEF ParseBlock
<1>2. old \in Block
  BY <1>1 DEF HeapInv, TypeInv
<1>3. s \in Values \cup {NoPoint}
  BY StartType
<1> HIDE DEF old, s
<1>4. linked \in Block /\ linked.machine = m /\ DOMAIN linked = Fields
  BY <1>2 DEF Block, Fields
<1> HIDE DEF linked
<1>5. c \in Block /\ c.machine = m
  BY <1>3, <1>4, ParsedType, ParsedFields DEF TypeInv
<1> HIDE DEF c
<1> QED
  BY <1>1, <1>5 DEF TypeInv

LEMMA AppendLineTypes ==
  ASSUME HeapInv, TypeInv, NEW b \in Ids, NEW line \in Lines, AppendLine(b, line)
  PROVE  TypeInv'
<1> DEFINE new0 == Constructed(line, None)
           raw == IF list = <<>> THEN new0 ELSE [new0 EXCEPT !.prev = Last(list)]
           s == StartPoint(raw, Main)
           c == Parse(raw, Main, s)
           new == [d \in {b} |-> c]
<1>1. /\ b \in Free /\ heap' = With(new) /\ list' = Append(list, b)
      /\ machHeld' = machHeld /\ config' = config
  BY DEF AppendLine
<1>2. ToSet(list') = ToSet(list) \cup {b} /\ (list # <<>> => Last(list) \in Ids)
  BY <1>1, AppendSet DEF HeapInv, TypeInv
<1>3. new0 \in Block
  BY ConstructedType
<1> HIDE DEF new0
<1>4. raw \in Block
  BY <1>2, <1>3 DEF Block
<1>5. s \in Values \cup {NoPoint}
  BY StartType, BindingAssumption
<1> HIDE DEF raw, s
<1>6. c \in Block
  BY <1>4, <1>5, ParsedType, BindingAssumption DEF TypeInv
<1> HIDE DEF c
<1>7. DOMAIN new = {b} /\ new[b] = c
  OBVIOUS
<1> HIDE DEF new
<1>8. /\ DOMAIN new \subseteq Free
      /\ \A d \in DOMAIN new : new[d] \in Block
      /\ \A d \in DOMAIN new \ ToSet(list') : new[d].machine \in Machines
      /\ ToSet(list) \subseteq ToSet(list')
  BY <1>1, <1>2, <1>6, <1>7
<1> QED
  BY <1>1, <1>8, NewType DEF TypeInv

\* What CopyOut copies from and to.
LEMMA CopyOutCopies ==
  ASSUME HeapInv, NEW ids \in SeqOf(Free, Len(list)), NEW given, CopyOut(ids, given)
  PROVE  /\ Len(ids) \in 1 .. Len(list) /\ ids \in [1 .. Len(ids) -> Ids]
         /\ DOMAIN ids = 1 .. Len(ids)
         /\ ToSet(ids) \subseteq Free /\ DOMAIN Chain(ids) = ToSet(ids)
         /\ \A i \in 1 .. Len(ids) : ~heap[list[i]].line.bad
         /\ IsInjective(ids)
<1>1. PICK n \in 0 .. Len(list) : ids \in [1 .. n -> Free]
  BY DEF SeqOf
<1>2. Len(list) \in Nat /\ n \in Nat
  BY <1>1, LenProperties DEF HeapInv
<1>3. Len(ids) = n /\ DOMAIN ids = 1 .. n
  BY <1>1, <1>2
<1>4. ids # <<>> /\ IsInjective(ids) /\ \A i \in DOMAIN ids : ~heap[list[i]].line.bad
  BY DEF CopyOut
<1>5. n # 0
  BY <1>1, <1>4, EmptySeq
<1> QED
  BY <1>1, <1>2, <1>3, <1>4, <1>5 DEF ToSet, Chain, Free

LEMMA CopyOutTypes ==
  ASSUME HeapInv, TypeInv, NEW ids \in SeqOf(Free, Len(list)), NEW given,
         CopyOut(ids, given)
  PROVE  TypeInv'
<1> DEFINE n == Len(ids)
           new == Chain(ids)
<1>1. /\ n \in 1 .. Len(list) /\ ids \in [1 .. n -> Ids] /\ DOMAIN ids = 1 .. n
      /\ ToSet(ids) \subseteq Free /\ DOMAIN new = ToSet(ids)
      /\ \A i \in 1 .. n : ~heap[list[i]].line.bad
      /\ IsInjective(ids)
  BY CopyOutCopies
<1>2. /\ heap' = With(new) /\ list' = list /\ machHeld' = machHeld /\ config' = config
  BY DEF CopyOut
<1> HIDE DEF n
<1>3. \A i \in 1 .. n : new[ids[i]] \in Block /\ new[ids[i]].machine = Main
  BY <1>1, ChainLeaves
<1> HIDE DEF new
<1>4. \A d \in DOMAIN new : new[d] \in Block /\ new[d].machine \in Machines
  BY <1>1, <1>3, BindingAssumption DEF ToSet
<1> QED
  BY <1>1, <1>2, <1>4, NewType DEF TypeInv

LEMMA LoadMachineTypes ==
  ASSUME TypeInv, NEW m, NEW f \in Files, LoadMachine(m, f)
  PROVE  TypeInv'
<1>1. /\ config' = [config EXCEPT ![m] = LoadFile(config[m], f)] /\ m \in machHeld
      /\ list' = list /\ machHeld' = machHeld /\ DOMAIN heap' = DOMAIN heap
      /\ \A b \in DOMAIN heap :
           heap'[b] = [heap[b] EXCEPT !.stale = @ \/ (heap[b].parsed /\ heap[b].mptr = m)]
  BY DEF LoadMachine
<1>2. config' \in [Machines -> Configs]
  BY <1>1, LoadFileType DEF TypeInv
<1>3. ASSUME NEW c \in Block, NEW v \in BOOLEAN
      PROVE  [c EXCEPT !.stale = v] \in Block /\ [c EXCEPT !.stale = v].machine = c.machine
  BY DEF Block
<1>4. \A b \in DOMAIN heap : (heap[b].stale \/ (heap[b].parsed /\ heap[b].mptr = m)) \in BOOLEAN
  BY DEF TypeInv, Block
<1>5. \A b \in DOMAIN heap : heap'[b] \in Block /\ heap'[b].machine = heap[b].machine
  BY <1>1, <1>3, <1>4 DEF TypeInv
<1> QED
  BY <1>1, <1>2, <1>5 DEF TypeInv

\* A block or a machine less, or a handle more.
LEMMA HandleTypes ==
  ASSUME HeapInv, TypeInv, ResetProgram \/ \E b : TakeHandles(b) \/ DropBlock(b)
  PROVE  TypeInv'
<1>1. ASSUME NEW b, TakeHandles(b)
      PROVE  TypeInv'
  <2>1. b \in DOMAIN heap \ ToSet(list)
    BY <1>1 DEF TakeHandles, HeapInv
  <2> QED
    BY <1>1, <2>1 DEF TakeHandles, TypeInv
<1>2. ASSUME NEW b, DropBlock(b)
      PROVE  TypeInv'
  BY <1>2 DEF DropBlock, Release, Reached, TypeInv
<1>3. ASSUME ResetProgram
      PROVE  TypeInv'
  BY <1>3 DEF ResetProgram, TypeInv
<1> QED
  BY <1>1, <1>2, <1>3

LEMMA MachineTypes ==
  ASSUME TypeInv, NEW m \in Machines,
         DropMachine(m) \/ \E c \in {Built(Defaults)} \cup {LoadFile(Built(Defaults), f) : f \in Files} :
                             NewMachine(m, c)
  PROVE  TypeInv'
<1>1. CASE DropMachine(m)
  BY <1>1 DEF DropMachine, TypeInv
<1>2. ASSUME NEW c \in {Built(Defaults)} \cup {LoadFile(Built(Defaults), f) : f \in Files},
             NewMachine(m, c)
      PROVE  TypeInv'
  <2>1. c \in Configs
    BY BuiltType, LoadFileType
  <2> QED
    BY <1>2, <2>1 DEF NewMachine, TypeInv
<1> QED
  BY <1>1, <1>2

LEMMA StepTypes == HeapInv /\ TypeInv /\ [Next]_vars => TypeInv'
<1> SUFFICES ASSUME HeapInv, TypeInv, [Next]_vars
             PROVE  TypeInv'
  OBVIOUS
<1>1. ASSUME NEW m \in Machines,
             \/ \E f \in Files : LoadMachine(m, f)
             \/ \E c \in {Built(Defaults)} \cup {LoadFile(Built(Defaults), f) : f \in Files} :
                  NewMachine(m, c)
             \/ DropMachine(m)
      PROVE  TypeInv'
  BY <1>1, LoadMachineTypes, MachineTypes
<1>2. ASSUME NEW b \in Ids,
             \/ \E line \in Lines : \/ \E m \in Machines : NewBlock(b, line, m)
                                    \/ \E p \in held : NewBlockAfter(b, line, p)
                                    \/ AppendLine(b, line)
             \/ \E m \in Machines : ParseBlock(b, m)
             \/ TakeHandles(b) \/ DropBlock(b)
      PROVE  TypeInv'
  BY <1>2, NewBlockTypes, NewBlockAfterTypes, AppendLineTypes, ParseBlockTypes, HandleTypes
<1>3. CASE ResetProgram
  BY <1>3, HandleTypes
<1>4. CASE \E ids \in SeqOf(Free, Len(list)) : \E given \in SUBSET ToSet(ids) :
             CopyOut(ids, given)
  BY <1>4, CopyOutTypes
<1>5. CASE UNCHANGED vars
  BY <1>5 DEF vars, TypeInv
<1> QED
  BY <1>1, <1>2, <1>3, <1>4, <1>5 DEF Next

\* However blocks and machines are created, parsed again, loaded, copied and
\* dropped, the objects are of their types, and the list of the Program keeps
\* live blocks that no handle of the client's leads to.
THEOREM BlocksTypeCorrect == Spec => []TypeOK
<1>1. Init => HeapInv /\ TypeInv
  BY InitHeap, InitTypes
<1>2. HeapInv /\ TypeInv /\ [Next]_vars => (HeapInv /\ TypeInv)'
  BY StepHeap, StepTypes
<1>3. HeapInv /\ TypeInv => TypeOK
  BY TypeInvIsTypeOK
<1> QED
  BY <1>1, <1>2, <1>3, PTL DEF Spec
-----------------------------------------------------------------------------
\* Where the walks end.

\* A block is constructed after a parsed one and is parsed to a target of its
\* line or of where it starts.  It starts where the block before it ends or, of
\* a machine that was not loaded since, where the machine is, and is sampled by
\* that machine's tick.
Grounded(c, h, cf) ==
  /\ c.prev # None => h[c.prev].parsed
  /\ c.parsed =>
       /\ ~c.line.bad /\ c.mptr # None
       /\ c.target # NoPoint /\ (c.line.pt # NoPoint => c.target = c.line.pt)
       /\ c.prev # None => c.start = h[c.prev].target
       /\ ~c.stale => c.tq = cf[c.mptr].params["tq"]
       /\ ~c.stale /\ c.prev = None => c.start = cf[c.mptr].params["zero"]

\* The inductive invariant.
WalkInv ==
  /\ \A b \in DOMAIN heap : Grounded(heap[b], heap, config)
  /\ \A i \in 2 .. Len(list) : heap[list[i]].prev # None

\* The blocks left of a heap follow the ones they did, and are parsed to the
\* targets they were.
Keeps(h, g) ==
  \A b \in DOMAIN h \cap DOMAIN g :
    /\ g[b].prev = h[b].prev
    /\ h[b].parsed => g[b].parsed /\ g[b].target = h[b].target

LEMMA InitWalks == Init => WalkInv
<1>1. Init => DOMAIN heap = {} /\ Len(list) = 0
  BY EmptySeq DEF Init
<1> QED
  BY <1>1 DEF WalkInv

LEMMA WalkInvIsSafe == HeapInv /\ WalkInv => WalksEndOnTarget /\ FreshWalks
<1> SUFFICES ASSUME HeapInv, WalkInv
             PROVE  WalksEndOnTarget /\ FreshWalks
  OBVIOUS
<1>1. ASSUME NEW b \in DOMAIN heap, heap[b].parsed, heap[b].prev # None
      PROVE  EndsOnTarget(heap[b])
  <2>1. heap[b].prev \in DOMAIN heap
    BY <1>1, HeapInvIsSafe DEF NoDangling
  <2> QED
    BY <1>1, <2>1 DEF WalkInv, Grounded, EndsOnTarget, StartPoint
<1>2. ASSUME NEW b \in DOMAIN heap, heap[b].parsed, ~heap[b].stale
      PROVE  EndsOnTarget(heap[b]) /\ SampledAsTimed(heap[b])
  <2>1. CASE heap[b].prev = None
    BY <1>2, <2>1 DEF WalkInv, Grounded, EndsOnTarget, StartPoint, SampledAsTimed
  <2>2. CASE heap[b].prev # None
    BY <1>1, <1>2, <2>2 DEF WalkInv, Grounded, SampledAsTimed
  <2> QED
    BY <2>1, <2>2
<1>3. \A i \in DOMAIN list : i > 1 => list[i] \in DOMAIN heap /\ heap[list[i]].prev # None
  BY LenProperties DEF HeapInv, WalkInv, ToSet
<1>4. WalksEndOnTarget
  BY <1>1, <1>3 DEF WalksEndOnTarget, Interpolatable, Motion
<1>5. FreshWalks
  BY <1>2 DEF FreshWalks, Motion
<1> QED
  BY <1>4, <1>5

\* A block is not disturbed while the one it follows is left and its machine,
\* if it was parsed since that was loaded, is as it was.
LEMMA StaysGrounded ==
  ASSUME NEW c, NEW h, NEW g, NEW cf, NEW cg, Grounded(c, h, cf), Keeps(h, g),
         c.prev \in (DOMAIN h \cap DOMAIN g) \cup {None},
         c.parsed /\ ~c.stale => cg[c.mptr] = cf[c.mptr]
  PROVE  Grounded(c, g, cg)
BY DEF Grounded, Keeps

\* The blocks of the list that were there before the step.
LEMMA StaysLinked ==
  ASSUME HeapInv, HeapInv', WalkInv, Keeps(heap, heap'), list' = list \/ list' = <<>>
  PROVE  \A i \in 2 .. Len(list') : heap'[list'[i]].prev # None
<1>1. CASE list' = <<>>
  BY <1>1, EmptySeq
<1>2. CASE list' = list
  <2> SUFFICES ASSUME NEW i \in 2 .. Len(list)
               PROVE  heap'[list[i]].prev # None
    BY <1>2
  <2>1. Len(list) \in Nat /\ i \in DOMAIN list
    BY LenProperties DEF HeapInv
  <2>2. list[i] \in DOMAIN heap \cap DOMAIN heap'
    BY <1>2, <2>1 DEF HeapInv, ToSet
  <2> QED
    BY <2>2 DEF WalkInv, Keeps
<1> QED
  BY <1>1, <1>2

\* A step that adds blocks to the heap.
LEMMA NewGrounded ==
  ASSUME HeapInv, WalkInv, NEW new, DOMAIN new \subseteq Free, heap' = With(new),
         \A b \in DOMAIN new : Grounded(new[b], heap', config'),
         \A m \in LiveMachines : config'[m] = config[m]
  PROVE  /\ Keeps(heap, heap')
         /\ \A b \in DOMAIN heap' : Grounded(heap'[b], heap', config')
<1>1. /\ DOMAIN heap' = DOMAIN heap \cup DOMAIN new
      /\ \A b \in DOMAIN new : heap'[b] = new[b]
      /\ \A b \in DOMAIN heap : b \notin DOMAIN new /\ heap'[b] = heap[b]
  BY DEF With, Free
<1>2. Keeps(heap, heap')
  BY <1>1 DEF Keeps
<1>3. ASSUME NEW b \in DOMAIN heap
      PROVE  Grounded(heap'[b], heap', config')
  <2> DEFINE c == heap[b]
  <2>1. c.prev \in DOMAIN heap \cup {None} /\ c.mptr \in LiveMachines \cup {None}
    BY HeapInvIsSafe DEF NoDangling
  <2>2. Grounded(c, heap, config)
    BY DEF WalkInv
  <2>3. c.parsed => config'[c.mptr] = config[c.mptr]
    BY <2>1, <2>2 DEF Grounded
  <2>4. c.prev \in (DOMAIN heap \cap DOMAIN heap') \cup {None} /\ heap'[b] = c
    BY <1>1, <2>1
  <2> HIDE DEF c
  <2>5. Grounded(c, heap', config')
    BY <1>2, <2>2, <2>3, <2>4, StaysGrounded
  <2> QED
    BY <2>4, <2>5
<1> QED
  BY <1>1, <1>2, <1>3

\* A step that only takes blocks and handles away.
LEMMA FewerGrounded ==
  ASSUME HeapInv, HeapInv', WalkInv, DOMAIN heap' \subseteq DOMAIN heap,
         \A b \in DOMAIN heap' : heap'[b] = heap[b], config' = config,
         list' = list \/ list' = <<>>
  PROVE  WalkInv' /\ Keeps(heap, heap')
<1>1. Keeps(heap, heap')
  BY DEF Keeps
<1>2. NoDangling'
  BY HeapInvIsSafe, PTL
<1>3. ASSUME NEW b \in DOMAIN heap'
      PROVE  Grounded(heap'[b], heap', config')
  <2> DEFINE c == heap[b]
  <2>1. Grounded(c, heap, config) /\ heap'[b] = c
    BY DEF WalkInv
  <2>2. c.prev \in DOMAIN heap' \cup {None}
    BY <1>2, <2>1 DEF NoDangling
  <2> HIDE DEF c
  <2>3. Grounded(c, heap', config')
    BY <1>1, <2>1, <2>2, StaysGrounded
  <2> QED
    BY <2>1, <2>3
<1> QED
  BY <1>1, <1>3, StaysLinked DEF WalkInv

\* A block parsed again keeps its target.
LEMMA ParsedGrounded ==
  ASSUME HeapInv, TypeInv, WalkInv, NEW b \in Block, Grounded(b, heap, config),
         b.prev \in DOMAIN heap \cup {None}, NEW m \in Machines
  PROVE  LET c == Parse(b, m, StartPoint(b, m))
         IN  /\ Grounded(c, heap, config)
             /\ c.prev = b.prev
             /\ b.parsed => c.parsed /\ c.target = b.target
<1> DEFINE s == StartPoint(b, m)
           c == Parse(b, m, s)
<1>1. CASE b.line.bad
  <2>1. c = [b EXCEPT !.mptr = m]
    BY <1>1 DEF Parse
  <2>2. c.prev = b.prev /\ c.parsed = b.parsed
    BY <2>1 DEF Block
  <2>3. ~b.parsed
    BY <1>1 DEF Grounded
  <2> HIDE DEF c
  <2> QED
    BY <2>2, <2>3 DEF Grounded, c
<1>2. CASE ~b.line.bad
  <2>1. s # NoPoint
    <3>1. config[m].params \in [Names -> Values] /\ "zero" \in Names
      BY DEF TypeInv, Configs, Config, Names, Order
    <3>2. b.prev # None => heap[b.prev].target # NoPoint
      BY DEF WalkInv, Grounded
    <3> QED
      BY <3>1, <3>2, BindingAssumption DEF StartPoint
  <2>2. /\ c.line = b.line /\ c.prev = b.prev /\ c.mptr = m
        /\ c.parsed /\ ~c.stale
        /\ c.start = s /\ c.tq = config[m].params["tq"]
        /\ c.target = IF b.line.pt # NoPoint THEN b.line.pt
                      ELSE IF b.target # NoPoint THEN b.target ELSE s
    BY <1>2, ParseLeaves
  <2>3. /\ b.prev # None => s = heap[b.prev].target
        /\ b.prev = None => s = config[m].params["zero"]
    BY DEF StartPoint
  <2>4. b.parsed => b.target # NoPoint /\ (b.line.pt # NoPoint => b.target = b.line.pt)
    BY DEF Grounded
  <2>5. m # None /\ (b.prev # None => heap[b.prev].parsed)
    BY BindingAssumption DEF Grounded
  <2> HIDE DEF c, s
  <2>6. c.target # NoPoint /\ (c.line.pt # NoPoint => c.target = c.line.pt)
    BY <2>1, <2>2
  <2>7. Grounded(c, heap, config)
    BY <1>2, <2>2, <2>3, <2>5, <2>6 DEF Grounded
  <2>8. b.parsed => c.target = b.target
    BY <2>2, <2>4
  <2> QED
    BY <2>2, <2>7, <2>8 DEF c, s
<1> QED
  BY <1>1, <1>2
LEMMA NewBlockWalks ==
  ASSUME HeapInv, TypeInv, WalkInv, HeapInv', NEW b \in Ids, NEW line \in Lines,
         NEW m \in Machines, NewBlock(b, line, m)
  PROVE  WalkInv' /\ Keeps(heap, heap')
<1> DEFINE c == Constructed(line, m)
           new == [d \in {b} |-> c]
<1>1. /\ b \in Free /\ heap' = With(new) /\ list' = list
      /\ m \in machHeld \cup (Machines \ LiveMachines)
      /\ config' = IF m \in machHeld THEN config ELSE [config EXCEPT ![m] = Built(Defaults)]
  BY DEF NewBlock
<1>2. c.prev = None /\ ~c.parsed
  BY DEF Constructed
<1> HIDE DEF c
<1>3. DOMAIN new \subseteq Free /\ \A d \in DOMAIN new : Grounded(new[d], heap', config')
  BY <1>1, <1>2 DEF Grounded
<1>4. \A k \in LiveMachines : config'[k] = config[k]
  BY <1>1 DEF TypeInv
<1> HIDE DEF new
<1>5. /\ Keeps(heap, heap')
      /\ \A d \in DOMAIN heap' : Grounded(heap'[d], heap', config')
  BY <1>1, <1>3, <1>4, NewGrounded
<1> QED
  BY <1>1, <1>5, StaysLinked DEF WalkInv

LEMMA NewBlockAfterWalks ==
  ASSUME HeapInv, TypeInv, WalkInv, HeapInv', NEW b \in Ids, NEW line \in Lines, NEW p,
         NewBlockAfter(b, line, p)
  PROVE  WalkInv' /\ Keeps(heap, heap')
<1> DEFINE raw == Constructed(line, None)
           m == heap[p].machine
           c == LinkedTo(raw, p, m)
           new == [d \in {b} |-> c]
<1>1. /\ b \in Free /\ heap' = With(new) /\ list' = list /\ config' = config
      /\ p \in DOMAIN heap /\ heap[p].parsed
  BY DEF NewBlockAfter, HeapInv
<1>2. raw \in Block /\ ~raw.parsed
  BY ConstructedType DEF Constructed
<1> HIDE DEF raw, m
<1>3. c.prev = p /\ ~c.parsed
  BY <1>2 DEF LinkedTo, Block
<1> HIDE DEF c
<1>4. DOMAIN new = {b} /\ new[b] = c
  OBVIOUS
<1> HIDE DEF new
<1>5. heap'[p] = heap[p]
  BY <1>1, <1>4 DEF With, Free
<1>6. DOMAIN new \subseteq Free /\ \A d \in DOMAIN new : Grounded(new[d], heap', config')
  BY <1>1, <1>3, <1>4, <1>5 DEF Grounded
<1>7. /\ Keeps(heap, heap')
      /\ \A d \in DOMAIN heap' : Grounded(heap'[d], heap', config')
  BY <1>1, <1>6, NewGrounded
<1> QED
  BY <1>1, <1>7, StaysLinked DEF WalkInv

LEMMA ParseBlockWalks ==
  ASSUME HeapInv, TypeInv, WalkInv, HeapInv', NEW b, NEW m \in Machines, ParseBlock(b, m)
  PROVE  WalkInv' /\ Keeps(heap, heap')
<1> DEFINE old == heap[b]
           linked == [old EXCEPT !.machine = m]
           c == Parse(linked, m, StartPoint(linked, m))
<1>1. /\ heap' = [heap EXCEPT ![b] = Parse(linked, m, StartPoint(old, m))]
      /\ list' = list /\ config' = config /\ b \in DOMAIN heap
  BY DEF ParseBlock, HeapInv
<1>2. old \in Block /\ Grounded(old, heap, config) /\ old.prev \in DOMAIN heap \cup {None}
  BY <1>1, HeapInvIsSafe DEF TypeInv, WalkInv, NoDangling
<1> HIDE DEF old
<1>3. /\ linked \in Block
      /\ linked.line = old.line /\ linked.prev = old.prev /\ linked.mptr = old.mptr
      /\ linked.parsed = old.parsed /\ linked.target = old.target
      /\ linked.start = old.start /\ linked.tq = old.tq /\ linked.stale = old.stale
  BY <1>2 DEF Block
<1> HIDE DEF linked
<1>4. Grounded(linked, heap, config)
  BY <1>2, <1>3 DEF Grounded
<1>5. StartPoint(old, m) = StartPoint(linked, m)
  BY <1>3 DEF StartPoint
<1>6. /\ Grounded(c, heap, config) /\ c.prev = old.prev
      /\ old.parsed => c.parsed /\ c.target = old.target
  BY <1>2, <1>3, <1>4, ParsedGrounded
<1>7. heap' = [heap EXCEPT ![b] = c]
  BY <1>1, <1>5
<1> HIDE DEF c
<1>8. DOMAIN heap' = DOMAIN heap /\ heap'[b] = c /\ \A d \in DOMAIN heap \ {b} : heap'[d] = heap[d]
  BY <1>1, <1>7
<1>9. Keeps(heap, heap')
  BY <1>6, <1>8 DEF Keeps, old
<1>10. ASSUME NEW d \in DOMAIN heap'
       PROVE  Grounded(heap'[d], heap', config')
  <2> DEFINE e == heap'[d]
  <2>1. Grounded(e, heap, config) /\ e.prev \in DOMAIN heap \cup {None}
    <3>1. CASE d = b
      BY <1>2, <1>6, <1>8, <3>1
    <3>2. CASE d # b
      BY <1>8, <3>2, HeapInvIsSafe DEF WalkInv, NoDangling
    <3> QED
      BY <3>1, <3>2
  <2> HIDE DEF e
  <2>2. Grounded(e, heap', config')
    BY <1>1, <1>8, <1>9, <2>1, StaysGrounded
  <2> QED
    BY <2>2 DEF e
<1> QED
  BY <1>1, <1>9, <1>10, StaysLinked DEF WalkInv

LEMMA AppendLineWalks ==
  ASSUME HeapInv, TypeInv, WalkInv, NEW b \in Ids, NEW line \in Lines, AppendLine(b, line)
  PROVE  WalkInv' /\ Keeps(heap, heap')
<1> DEFINE con == Constructed(line, None)
           raw == IF list = <<>> THEN con ELSE [con EXCEPT !.prev = Last(list)]
           c == Parse(raw, Main, StartPoint(raw, Main))
           new == [d \in {b} |-> c]
<1>1. /\ b \in Free /\ heap' = With(new) /\ list' = Append(list, b) /\ config' = config
      /\ list # <<>> => heap[Last(list)].parsed
  BY DEF AppendLine
<1>2. list # <<>> => Last(list) \in DOMAIN heap /\ Last(list) \in Ids
  BY AppendSet DEF HeapInv, TypeInv
<1>3. con \in Block /\ con.prev = None /\ ~con.parsed
  BY ConstructedType DEF Constructed
<1> HIDE DEF con
<1>4. /\ raw \in Block /\ ~raw.parsed
      /\ raw.prev = IF list = <<>> THEN None ELSE Last(list)
  BY <1>2, <1>3 DEF Block
<1> HIDE DEF raw
<1>5. Grounded(raw, heap, config) /\ raw.prev \in DOMAIN heap \cup {None}
  BY <1>1, <1>2, <1>4 DEF Grounded
<1>6. Grounded(c, heap, config) /\ c.prev = raw.prev
  BY <1>4, <1>5, ParsedGrounded, BindingAssumption
<1> HIDE DEF c
<1>7. DOMAIN new = {b} /\ new[b] = c
  OBVIOUS
<1> HIDE DEF new
<1>8. /\ DOMAIN heap' = DOMAIN heap \cup {b} /\ b \notin DOMAIN heap
      /\ heap'[b] = c /\ \A d \in DOMAIN heap : heap'[d] = heap[d]
  BY <1>1, <1>7 DEF With, Free
<1>9. Keeps(heap, heap')
  BY <1>8 DEF Keeps
<1>10. Grounded(c, heap', config')
  BY <1>1, <1>5, <1>6, <1>8, <1>9, StaysGrounded
<1>11. \A d \in DOMAIN new : Grounded(new[d], heap', config')
  BY <1>7, <1>10
<1>12. \A d \in DOMAIN heap' : Grounded(heap'[d], heap', config')
  BY <1>1, <1>7, <1>11, NewGrounded
<1>13. ASSUME NEW i \in 2 .. Len(list')
       PROVE  heap'[list'[i]].prev # None
  <2>1. /\ Len(list) \in Nat /\ Len(list') = Len(list) + 1 /\ list'[Len(list) + 1] = b
        /\ \A j \in 1 .. Len(list) : list'[j] = list[j] /\ list[j] \in DOMAIN heap
    BY <1>1, AppendProperties, LenProperties DEF HeapInv, ToSet
  <2>2. CASE i \in 2 .. Len(list)
    BY <1>8, <2>1, <2>2 DEF WalkInv
  <2>3. CASE i \notin 2 .. Len(list)
    <3>1. i = Len(list) + 1 /\ list # <<>>
      BY <2>1, <2>3
    <3>2. Last(list) # None
      BY <1>2, <3>1, BindingAssumption
    <3> QED
      BY <1>4, <1>6, <1>8, <2>1, <3>1, <3>2
  <2> QED
    BY <2>2, <2>3
<1> QED
  BY <1>9, <1>12, <1>13 DEF WalkInv

\* The copies follow one another as the blocks of the program do.
LEMMA CopyOutWalks ==
  ASSUME HeapInv, TypeInv, WalkInv, HeapInv', NEW ids \in SeqOf(Free, Len(list)), NEW given,
         CopyOut(ids, given)
  PROVE  WalkInv' /\ Keeps(heap, heap')
<1> DEFINE n == Len(ids)
           new == Chain(ids)
           start == CopyStarts(ids)
<1>1. /\ n \in 1 .. Len(list) /\ ids \in [1 .. n -> Ids] /\ DOMAIN ids = 1 .. n
      /\ ToSet(ids) \subseteq Free /\ DOMAIN new = ToSet(ids)
      /\ \A i \in 1 .. n : ~heap[list[i]].line.bad
      /\ IsInjective(ids)
  BY CopyOutCopies
<1>2. heap' = With(new) /\ list' = list /\ config' = config
  BY DEF CopyOut
<1> HIDE DEF n
<1>3. \A i \in 1 .. n : start[i] \in Values
  BY <1>1, CopyStartsOnPoints
<1>4. n \in Nat
  BY <1>1, LenProperties DEF HeapInv
<1>5. \A i \in 1 .. n :
        start[i] = IF i = 1 THEN config[Main].params["zero"]
                   ELSE Parse(CopyOf(ids, i - 1), Main, start[i - 1]).target
  BY <1>1, <1>4, CopyStartsFollow
<1>6. \A i \in 1 .. n :
        LET c == new[ids[i]]
        IN  /\ ids[i] \in DOMAIN new /\ c \in Block
            /\ c.line = heap[list[i]].line /\ c.mptr = Main /\ c.machine = Main
            /\ c.prev = IF i = 1 THEN None ELSE ids[i - 1]
            /\ c.parsed /\ ~c.stale /\ c.tq = config[Main].params["tq"]
            /\ c.start = start[i]
            /\ c.target = IF c.line.pt # NoPoint THEN c.line.pt ELSE start[i]
            /\ c.target = Parse(CopyOf(ids, i), Main, start[i]).target
  BY <1>1, ChainLeaves
<1> HIDE DEF new, start
<1>7. \A d \in DOMAIN new : heap'[d] = new[d]
  BY <1>2 DEF With
<1>8. ASSUME NEW i \in 1 .. n
      PROVE  Grounded(new[ids[i]], heap', config')
  <2> DEFINE c == new[ids[i]]
             p == ids[i - 1]
  <2>1. /\ c.parsed /\ ~c.line.bad /\ c.mptr = Main /\ Main # None
        /\ c.tq = config[Main].params["tq"] /\ c.start = start[i]
        /\ c.prev = IF i = 1 THEN None ELSE p
    BY <1>1, <1>6, BindingAssumption
  <2>2. c.target # NoPoint /\ (c.line.pt # NoPoint => c.target = c.line.pt)
    <3>1. c.target = IF c.line.pt # NoPoint THEN c.line.pt ELSE start[i]
      BY <1>6
    <3>2. start[i] # NoPoint
      BY <1>3, BindingAssumption
    <3> QED
      BY <3>1, <3>2
  <2>3. CASE i = 1
    <3>1. c.prev = None /\ c.start = config[Main].params["zero"]
      BY <1>5, <2>1, <2>3
    <3> HIDE DEF c
    <3>2. Grounded(c, heap', config')
      BY <1>2, <2>1, <2>2, <3>1 DEF Grounded
    <3> QED
      BY <3>2 DEF c
  <2>4. CASE i # 1
    <3>1. i - 1 \in 1 .. n /\ p \in Ids /\ p # None
      BY <1>1, <1>4, <2>4, BindingAssumption
    <3>2. heap'[p].parsed /\ heap'[p].target = Parse(CopyOf(ids, i - 1), Main, start[i - 1]).target
      BY <1>6, <1>7, <3>1
    <3>3. c.prev = p /\ c.start = heap'[p].target
      BY <1>5, <2>1, <2>4, <3>2
    <3> HIDE DEF c, p
    <3>4. Grounded(c, heap', config')
      BY <1>2, <2>1, <2>2, <3>1, <3>2, <3>3 DEF Grounded
    <3> QED
      BY <3>4 DEF c
  <2> QED
    BY <2>3, <2>4
<1>9. \A d \in DOMAIN new : Grounded(new[d], heap', config')
  BY <1>1, <1>8 DEF ToSet
<1>10. /\ Keeps(heap, heap')
       /\ \A d \in DOMAIN heap' : Grounded(heap'[d], heap', config')
  BY <1>1, <1>2, <1>9, NewGrounded
<1> QED
  BY <1>2, <1>10, StaysLinked DEF WalkInv

\* Blocks parsed on a machine are stale once it is loaded again.
LEMMA LoadMachineWalks ==
  ASSUME HeapInv, TypeInv, WalkInv, HeapInv', NEW m, NEW f \in Files, LoadMachine(m, f)
  PROVE  WalkInv' /\ Keeps(heap, heap')
<1>1. /\ config' = [config EXCEPT ![m] = LoadFile(config[m], f)] /\ m \in machHeld
      /\ list' = list /\ DOMAIN heap' = DOMAIN heap
      /\ \A b \in DOMAIN heap :
           heap'[b] = [heap[b] EXCEPT !.stale = @ \/ (heap[b].parsed /\ heap[b].mptr = m)]
  BY DEF LoadMachine
<1>2. ASSUME NEW c \in Block, NEW v
      PROVE  LET e == [c EXCEPT !.stale = v]
             IN  /\ e.line = c.line /\ e.prev = c.prev /\ e.mptr = c.mptr
                 /\ e.parsed = c.parsed /\ e.target = c.target
                 /\ e.start = c.start /\ e.tq = c.tq /\ e.stale = v
  BY DEF Block
<1>3. \A b \in DOMAIN heap :
        LET c == heap[b]
            e == heap'[b]
        IN  /\ e.line = c.line /\ e.prev = c.prev /\ e.mptr = c.mptr
            /\ e.parsed = c.parsed /\ e.target = c.target
            /\ e.start = c.start /\ e.tq = c.tq
            /\ e.stale = (c.stale \/ (c.parsed /\ c.mptr = m))
  <2> SUFFICES ASSUME NEW b \in DOMAIN heap
               PROVE  LET c == heap[b]
                          e == heap'[b]
                      IN  /\ e.line = c.line /\ e.prev = c.prev /\ e.mptr = c.mptr
                          /\ e.parsed = c.parsed /\ e.target = c.target
                          /\ e.start = c.start /\ e.tq = c.tq
                          /\ e.stale = (c.stale \/ (c.parsed /\ c.mptr = m))
    OBVIOUS
  <2> DEFINE c == heap[b]
             v == c.stale \/ (c.parsed /\ c.mptr = m)
  <2>1. heap'[b] = [c EXCEPT !.stale = v] /\ c \in Block
    BY <1>1 DEF TypeInv
  <2> HIDE DEF v
  <2>2. LET e == heap'[b]
        IN  /\ e.line = c.line /\ e.prev = c.prev /\ e.mptr = c.mptr
            /\ e.parsed = c.parsed /\ e.target = c.target
            /\ e.start = c.start /\ e.tq = c.tq /\ e.stale = v
    BY <1>2, <2>1
  <2> QED
    BY <2>2 DEF v
<1>4. Keeps(heap, heap')
  BY <1>1, <1>3 DEF Keeps
<1>5. ASSUME NEW b \in DOMAIN heap
      PROVE  Grounded(heap'[b], heap', config')
  <2> DEFINE c == heap[b]
             e == heap'[b]
  <2>1. Grounded(c, heap, config) /\ c.prev \in DOMAIN heap \cup {None}
    BY HeapInvIsSafe DEF WalkInv, NoDangling
  <2>2. /\ e.line = c.line /\ e.prev = c.prev /\ e.mptr = c.mptr
        /\ e.parsed = c.parsed /\ e.target = c.target
        /\ e.start = c.start /\ e.tq = c.tq
    BY <1>3
  <2>3. ~e.stale => ~c.stale /\ ~(c.parsed /\ c.mptr = m)
    BY <1>3
  <2> HIDE DEF c, e
  <2>4. Grounded(e, heap, config)
    BY <2>1, <2>2, <2>3 DEF Grounded
  <2>5. e.parsed /\ ~e.stale => config'[e.mptr] = config[e.mptr]
    BY <1>1, <2>2, <2>3 DEF TypeInv
  <2>6. Grounded(e, heap', config')
    BY <1>1, <1>4, <2>1, <2>2, <2>4, <2>5, StaysGrounded
  <2> QED
    BY <2>6 DEF e
<1> QED
  BY <1>1, <1>4, <1>5, StaysLinked DEF WalkInv

\* A new machine is not one a live block was parsed on.
LEMMA NewMachineWalks ==
  ASSUME HeapInv, TypeInv, WalkInv, HeapInv', NEW m, NEW c, NewMachine(m, c)
  PROVE  WalkInv' /\ Keeps(heap, heap')
<1>1. /\ heap' = heap /\ list' = list /\ m \notin LiveMachines
      /\ config' = [config EXCEPT ![m] = c]
  BY DEF NewMachine
<1>2. \A k \in LiveMachines : config'[k] = config[k]
  BY <1>1 DEF TypeInv
<1>3. Keeps(heap, heap')
  BY <1>1 DEF Keeps
<1>4. ASSUME NEW b \in DOMAIN heap
      PROVE  Grounded(heap[b], heap, config')
  <2> DEFINE e == heap[b]
  <2>1. e.mptr \in LiveMachines \cup {None} /\ Grounded(e, heap, config)
    BY HeapInvIsSafe DEF NoDangling, WalkInv
  <2> HIDE DEF e
  <2>2. Grounded(e, heap, config')
    BY <1>2, <2>1 DEF Grounded
  <2> QED
    BY <2>2 DEF e
<1> QED
  BY <1>1, <1>3, <1>4 DEF WalkInv

\* Blocks are taken away by releasing them with what only they lead to, and by
\* emptying the list.
LEMMA HandleWalks ==
  ASSUME HeapInv, TypeInv, WalkInv, HeapInv',
         \/ ResetProgram
         \/ \E b : TakeHandles(b) \/ DropBlock(b)
         \/ \E m : DropMachine(m)
         \/ UNCHANGED vars
  PROVE  WalkInv' /\ Keeps(heap, heap')
<1>1. /\ config' = config /\ (list' = list \/ list' = <<>>)
      /\ DOMAIN heap' \subseteq DOMAIN heap
      /\ \A b \in DOMAIN heap' : heap'[b] = heap[b]
  <2>1. ASSUME NEW b, DropBlock(b)
        PROVE  /\ config' = config /\ list' = list
               /\ DOMAIN heap' \subseteq DOMAIN heap
               /\ \A d \in DOMAIN heap' : heap'[d] = heap[d]
    BY <2>1 DEF DropBlock, Release, Reached
  <2> QED
    BY <2>1 DEF ResetProgram, TakeHandles, DropMachine, vars
<1> QED
  BY <1>1, FewerGrounded

LEMMA StepWalks ==
  HeapInv /\ TypeInv /\ WalkInv /\ HeapInv' /\ [Next]_vars => WalkInv' /\ Keeps(heap, heap')
<1> SUFFICES ASSUME HeapInv, TypeInv, WalkInv, HeapInv', [Next]_vars
             PROVE  WalkInv' /\ Keeps(heap, heap')
  OBVIOUS
<1>1. ASSUME NEW m \in Machines, \E f \in Files : LoadMachine(m, f)
      PROVE  WalkInv' /\ Keeps(heap, heap')
  BY <1>1, LoadMachineWalks
<1>2. ASSUME NEW m \in Machines, \E c : NewMachine(m, c)
      PROVE  WalkInv' /\ Keeps(heap, heap')
  BY <1>2, NewMachineWalks
<1>3. ASSUME NEW b \in Ids, NEW line \in Lines,
             \/ \E m \in Machines : NewBlock(b, line, m)
             \/ \E p \in held : NewBlockAfter(b, line, p)
             \/ AppendLine(b, line)
      PROVE  WalkInv' /\ Keeps(heap, heap')
  BY <1>3, NewBlockWalks, NewBlockAfterWalks, AppendLineWalks
<1>4. ASSUME NEW b \in Ids, \E m \in Machines : ParseBlock(b, m)
      PROVE  WalkInv' /\ Keeps(heap, heap')
  BY <1>4, ParseBlockWalks
<1>5. CASE \/ ResetProgram
           \/ \E b : TakeHandles(b) \/ DropBlock(b)
           \/ \E m : DropMachine(m)
           \/ UNCHANGED vars
  BY <1>5, HandleWalks
<1>6. CASE \E ids \in SeqOf(Free, Len(list)) : \E given \in SUBSET ToSet(ids) :
             CopyOut(ids, given)
  BY <1>6, CopyOutWalks
<1> QED
  BY <1>1, <1>2, <1>3, <1>4, <1>5, <1>6 DEF Next

\* The blocks the bindings interpolate, and all blocks of a program's walk but
\* the first, end on their target, whatever was loaded, copied or parsed again.
THEOREM WalksReachTargets == Spec => []WalksEndOnTarget
<1>1. Init => HeapInv /\ TypeInv /\ WalkInv
  BY InitHeap, InitTypes, InitWalks
<1>2. HeapInv /\ TypeInv /\ WalkInv /\ [Next]_vars => (HeapInv /\ TypeInv /\ WalkInv)'
  BY StepHeap, StepTypes, StepWalks
<1>3. HeapInv /\ TypeInv /\ WalkInv => WalksEndOnTarget
  BY WalkInvIsSafe
<1> QED
  BY <1>1, <1>2, <1>3, PTL DEF Spec

\* A block parsed since its machine was last loaded is walked from where its
\* path starts and sampled as it was timed.
THEOREM WalksAreFresh == Spec => []FreshWalks
<1>1. Init => HeapInv /\ TypeInv /\ WalkInv
  BY InitHeap, InitTypes, InitWalks
<1>2. HeapInv /\ TypeInv /\ WalkInv /\ [Next]_vars => (HeapInv /\ TypeInv /\ WalkInv)'
  BY StepHeap, StepTypes, StepWalks
<1>3. HeapInv /\ TypeInv /\ WalkInv => FreshWalks
  BY WalkInvIsSafe
<1> QED
  BY <1>1, <1>2, <1>3, PTL DEF Spec

\* A parsed block stays parsed and on its target, on whichever machine and from
\* whichever start it is parsed again.
THEOREM TargetsStay == Spec => TargetsStick
<1>1. Init => HeapInv /\ TypeInv /\ WalkInv
  BY InitHeap, InitTypes, InitWalks
<1>2. HeapInv /\ TypeInv /\ WalkInv /\ [Next]_vars => (HeapInv /\ TypeInv /\ WalkInv)'
  BY StepHeap, StepTypes, StepWalks
<1>3. HeapInv /\ TypeInv /\ WalkInv /\ [Next]_vars
        => [\A b \in DOMAIN heap : b \in DOMAIN heap' /\ heap[b].parsed =>
              heap'[b].parsed /\ heap'[b].target = heap[b].target]_vars
  BY StepHeap, StepWalks DEF Keeps
<1> QED
  BY <1>1, <1>2, <1>3, PTL DEF Spec, TargetsStick
=============================================================================
