---------------------------- MODULE VectorBuffer -----------------------------
(***************************************************************************)
(* The functions of at_vector.c on one at_vector_t, as operators: the      *)
(* vector users of the project (AtVector, XmlParser) share them.           *)
(*                                                                         *)
(* An array maps the indices 0..capcity-1 to elements.  block counts the   *)
(* times realloc has moved the array: a pointer into it is good as long as *)
(* the block it was taken from is the array's.                             *)
(*                                                                         *)
(* An operator that stands directly before a definition and that nothing   *)
(* uses is a mutant of that definition.                                    *)
(***************************************************************************)
EXTENDS Integers, Sequences

CONSTANTS Unwritten     \* an element that malloc or realloc delivered

vector_new(capcity) ==
    [array |-> [i \in 0..capcity - 1 |-> Unwritten], block |-> 0,
     capcity |-> capcity, size |-> 0]

NewCap(vector) == (vector.capcity * 3) \div 2 + 1

vector_realloc(vector) ==
    [vector EXCEPT !.capcity = NewCap(vector),
                   !.block = @ + 1,
                   !.array = [i \in 0..NewCap(vector) - 1 |->
                                IF i < vector.capcity THEN vector.array[i]
                                ELSE Unwritten]]

WithRoom(vector) ==
    IF vector.size >= vector.capcity THEN vector_realloc(vector) ELSE vector

\* The element it hands out is the last of the result; it holds what was there.
vector_prefetch(vector) == [WithRoom(vector) EXCEPT !.size = @ + 1]

\* memcpy of an element, through vector_insert or through a pointer to it.
Put(vector, i, ele) == [vector EXCEPT !.array[i] = ele]

InsertBefore(vector, ele) ==
    Put(vector_prefetch(vector), vector.size - 1, ele)

vector_insert(vector, ele) ==
    Put(vector_prefetch(vector), vector.size, ele)

vector_reset(vector) == [vector EXCEPT !.size = 0]

\* The elements in their order.
Elements(vector) == [i \in 1..vector.size |-> vector.array[i - 1]]

\* A pointer to the element at index i, as vector_get returns it.
PointerTo(vector, i) == [block |-> vector.block, at |-> i]

\* An iterator: a pointer to the next element, and how often it was asked.
vector_iterate(vector) == [data |-> PointerTo(vector, 0), index |-> 0]

HasNextFrom1(vector, itr) == itr.index + 1 < vector.size

\* vector_next returns an element; it counts the call in any case.
HasNext(vector, itr) == itr.index < vector.size

NextIterator(vector, itr) ==
    [index |-> itr.index + 1,
     data |-> [itr.data EXCEPT !.at =
                 IF HasNext(vector, itr) THEN @ + 1 ELSE @]]
=============================================================================
