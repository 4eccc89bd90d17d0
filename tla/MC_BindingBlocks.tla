-------------------------- MODULE MC_BindingBlocks --------------------------
(* An instance of BindingBlocks for TLC.                                    *)
EXTENDS BindingBlocks

CONSTANTS b1, b2, b3, b4, m1, m2

MCDefaults == [n \in Names |-> 1]

MCLines ==
  {[pt |-> 2, motion |-> TRUE, bad |-> FALSE],
   [pt |-> NoPoint, motion |-> TRUE, bad |-> FALSE],
   [pt |-> NoPoint, motion |-> TRUE, bad |-> TRUE]}

Float(v) == [v |-> v, form |-> "float"]

\* A JSON file that throws after it changed the tick and the zero, and a TOML
\* table that sets both back.
MCFiles ==
  {[syntax |-> "json",
    doc |-> ("tq" :> Float(2)) @@ ("zero" :> [v |-> 2, form |-> "integer"])
            @@ ("offset" :> [v |-> 2, form |-> "malformed"])],
   [syntax |-> "toml", doc |-> ("tq" :> Float(1)) @@ ("zero" :> Float(1))]}

\* What a freed machine was configured with does not matter.
View == <<heap, held, list, machHeld, [m \in LiveMachines |-> config[m]]>>

\* Three blocks if there is a program or a single machine; four to copy the two
\* blocks of a program.
Bounded ==
  LET n == Cardinality(DOMAIN heap)
  IN  \/ n <= 2
      \/ n = 3 /\ (LiveMachines = {Main} \/ list # <<>>)
      \/ n = 4 /\ LiveMachines = {Main} /\ Len(list) = 2

Symmetry == Permutations(Ids)
=============================================================================
