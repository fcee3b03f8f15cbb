------------------------------ MODULE MCArrays -------------------------------
(***************************************************************************)
(* The two arrays of pointers and elements that grow by realloc, one or    *)
(* the other in a behaviour: a stack from a capacity of zero, which grows  *)
(* to 1, 2 and 4, or a vector from capacities of 0 and 2, which grow to    *)
(* 1, 2, 4 and to 4.                                                       *)
(***************************************************************************)
EXTENDS Stack, AtVector, TLC

VARIABLE subject    \* which of them the behaviour is about

arraysVars == <<stackVars, vectorVars, subject>>

ArraysInit ==
    /\ subject \in {"stack", "vector"}
    /\ StackInit
    /\ VectorInit

ArraysNext ==
    \/ subject = "stack" /\ StackNext /\ UNCHANGED <<vectorVars, subject>>
    \/ subject = "vector" /\ VectorNext /\ UNCHANGED <<stackVars, subject>>

ArraysSpec == ArraysInit /\ [][ArraysNext]_arraysVars

Symmetry == Permutations(Pointer) \cup Permutations(Element)
=============================================================================
