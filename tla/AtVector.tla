------------------------------ MODULE AtVector -------------------------------
(***************************************************************************)
(* An at_vector_t in the hands of a caller who keeps one pointer to an     *)
(* element, from vector_get or vector_prefetch, and one iterator.  Both    *)
(* point into the array.  When it has grown they may point to memory that  *)
(* is gone, and their use ends the behaviour in state "stale".             *)
(***************************************************************************)
EXTENDS VectorBuffer

CONSTANTS Element,     \* what is stored
          Capcities,   \* the capacities vector_new is called with
          NoPtr,       \* the NULL pointer, and no iterator
          MaxElements, \* bound of the model: the longest vector
          MaxCalls     \* bound of the model: calls on one iterator

ASSUME AtVectorAssumption ==
    /\ Unwritten \notin Element
    /\ Capcities \subseteq Nat
    /\ MaxElements \in Nat /\ MaxCalls \in Nat
    /\ NoPtr \notin [data : [block : Nat, at : Nat], index : Nat]

VARIABLES
    vector,      \* the vector
    ptr,         \* the pointer to an element
    itr,         \* the iterator
    got,         \* history: what the iterator has returned
    freed,       \* the elements free_func was called for
    vectorState  \* "live", "freed" or "stale"

vectorVars == <<vector, ptr, itr, got, freed, vectorState>>

VectorInit ==
    /\ \E c \in Capcities : vector = vector_new(c)
    /\ ptr = NoPtr /\ itr = NoPtr /\ got = <<>>
    /\ freed = <<>>
    /\ vectorState = "live"

Insert(e) ==
    /\ vector.size < MaxElements
    /\ vector' = vector_insert(vector, e)
    /\ UNCHANGED <<ptr, itr, got, freed, vectorState>>

Prefetch ==
    /\ vector.size < MaxElements
    /\ vector' = vector_prefetch(vector)
    /\ ptr' = PointerTo(vector', vector.size)
    /\ UNCHANGED <<itr, got, freed, vectorState>>

\* vector_get; NULL for an index that is negative or too high.
Get(i) ==
    /\ ptr' = IF i >= vector.size \/ i < 0 THEN NoPtr
              ELSE PointerTo(vector, i)
    /\ UNCHANGED <<vector, itr, got, freed, vectorState>>

Stale(p) == p.block # vector.block

\* The caller writes through its pointer.
Write(e) ==
    /\ ptr # NoPtr
    /\ IF Stale(ptr) THEN vectorState' = "stale" /\ UNCHANGED vector
       ELSE vector' = Put(vector, ptr.at, e) /\ UNCHANGED vectorState
    /\ UNCHANGED <<ptr, itr, got, freed>>

Iterate ==
    /\ itr' = vector_iterate(vector)
    /\ got' = <<>>
    /\ UNCHANGED <<vector, ptr, freed, vectorState>>

\* vector_next, and the caller reads what it returned.
IteratorNext ==
    /\ itr # NoPtr /\ itr.index < MaxCalls
    /\ itr' = NextIterator(vector, itr)
    /\ IF ~HasNext(vector, itr) THEN UNCHANGED <<got, vectorState>>
       ELSE IF Stale(itr.data) THEN vectorState' = "stale" /\ UNCHANGED got
       ELSE /\ got' = Append(got, vector.array[itr.data.at])
            /\ UNCHANGED vectorState
    /\ UNCHANGED <<vector, ptr, freed>>

\* vector_reset; nobody goes on with an iterator over what is emptied.
VectorReset ==
    /\ vector' = vector_reset(vector)
    /\ itr' = NoPtr /\ got' = <<>>
    /\ UNCHANGED <<ptr, freed, vectorState>>

\* vector_free of a vector that has a free_func.
VectorFree ==
    /\ freed' = Elements(vector)
    /\ vectorState' = "freed"
    /\ UNCHANGED <<vector, ptr, itr, got>>

VectorOver == vectorState # "live" /\ UNCHANGED vectorVars

VectorNext ==
    \/ /\ vectorState = "live"
       /\ \/ \E e \in Element : Insert(e) \/ Write(e)
          \/ Prefetch
          \/ \E i \in -1..MaxElements : Get(i)
          \/ Iterate
          \/ IteratorNext
          \/ VectorReset
          \/ VectorFree
    \/ VectorOver

VectorSpec == VectorInit /\ [][VectorNext]_vectorVars

-----------------------------------------------------------------------------
(* Properties.                                                              *)

\* The vector is a list: growth keeps every element at its index, and a write
\* through a pointer that is not stale changes that element and no other.
AbstractList == INSTANCE List WITH
                Anything <- {Unwritten},
                items <- IF vectorState # "freed" THEN Elements(vector) ELSE <<>>,
                open <- vectorState # "freed"
ImplementsList == AbstractList!Spec

\* The n-th element an iterator returns is the n-th of the vector, those added
\* on the way included.  vector_next counts its calls even at the end: when it
\* returns NULL, it has left out no more elements than it was called too often
\* before - none, in the usual loop.
IterationExact ==
    [][itr # NoPtr /\ itr' = NextIterator(vector, itr) /\ vectorState' = "live" =>
        IF got' # got
        THEN got'[Len(got')] = Elements(vector)[Len(got')]
        ELSE vector.size - Len(got) <= itr.index - itr.data.at]_vectorVars
=============================================================================
