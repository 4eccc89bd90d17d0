---------------------------- MODULE MachineConfig --------------------------
(***************************************************************************)
(* Reading the machine's configuration (Machine::load of a JSON document,  *)
(* of a TOML table and of a file): which parameters a document changes,    *)
(* what a refused one leaves, and what data() then holds.                  *)
(***************************************************************************)
EXTENDS Integers, Sequences

\* The parameters in the order in which load reads them.
Order == <<"tq", "tq_max", "A", "fmax", "max_error", "zero", "offset">>
Names == {Order[i] : i \in DOMAIN Order}

\* A document gives some of them a value v, in the form of floating-point
\* numbers, of numbers one of which is written as an integer, or of anything
\* else; its other entries are not looked at.
Forms == {"float", "integer", "malformed"}
Documents(V) == UNION {[S -> [v : V, form : Forms]] : S \in SUBSET Names}

\* is_number() takes both, is_floating_point() no integer.
Numbers(syntax) ==
  IF syntax = "json" THEN {"float", "integer"} ELSE {"float"}

\* Where the document is refused.
Refused(doc, syntax) ==
  {i \in DOMAIN Order : /\ Order[i] \in DOMAIN doc
                        /\ doc[Order[i]].form \notin Numbers(syntax)}

\* The first refused parameter throws: the ones before it are assigned.
Taken(doc, syntax) ==
  {Order[i] : i \in {k \in DOMAIN Order : /\ Order[k] \in DOMAIN doc
                                          /\ \A j \in Refused(doc, syntax) : k < j}}

Loaded(params, doc, syntax) ==
  [n \in Names |-> IF n \in Taken(doc, syntax) THEN doc[n].v ELSE params[n]]

\* A machine's configuration; failed: the last load threw.
Config(V, D) == [params : [Names -> V], data : D, failed : BOOLEAN]
Built(defaults) == [params |-> defaults, data |-> <<>>, failed |-> FALSE]

\* JSON is stored before it is read, TOML after it was read to its end.
LoadDocument(c, doc, syntax) ==
  [params |-> Loaded(c.params, doc, syntax),
   data   |-> IF syntax = "json" \/ Refused(doc, syntax) = {} THEN doc ELSE c.data,
   failed |-> Refused(doc, syntax) # {}]

\* A file of one of the two syntaxes, or one that load(filename) refuses before
\* it reads any parameter.
Unloadable == {"missing", "irregular", "unparsable", "suffix", "no table"}

LoadFile(c, f) ==
  IF f.syntax \in Unloadable THEN [c EXCEPT !.failed = TRUE]
  ELSE LoadDocument(c, f.doc, f.syntax)
=============================================================================
