------------------------------- MODULE Stack --------------------------------
(***************************************************************************)
(* at_stack.c: a stack of pointers in an array that grows when it is full, *)
(* with a cursor and a size that have to agree.  NULL may be pushed, and a *)
(* pop then cannot be told from one of an empty stack.                     *)
(*                                                                         *)
(* An operator that stands directly before an action and that nothing uses *)
(* is a mutant of that action.                                             *)
(***************************************************************************)
EXTENDS Integers, Sequences

CONSTANTS Pointer,      \* the pointers a caller may push
          Null,         \* the NULL pointer
          Unset,        \* the contents of a slot never written
          Cap,          \* the capacity given to stack_new
          MaxCapcity    \* bound of the model: no growth beyond it

ASSUME StackAssumption ==
    /\ Cap \in Nat
    /\ MaxCapcity \in Nat
    /\ Unset \notin Pointer \cup {Null}

VARIABLES
    array,      \* stack->array, by slot
    cursor,     \* stack->cursor
    size,       \* stack->size
    capcity,    \* stack->capcity
    alive,      \* FALSE once the stack has been freed
    out         \* what the last stack_pop returned

stackVars == <<array, cursor, size, capcity, alive, out>>

StackInit ==
    /\ array = [i \in 0..Cap - 1 |-> Unset]
    /\ cursor = -1
    /\ size = 0
    /\ capcity = Cap
    /\ alive = TRUE
    /\ out = Null

PushPostIncrement(n) ==
    /\ size < capcity
    /\ array' = [array EXCEPT ![cursor] = n]
    /\ cursor' = cursor + 1
    /\ size' = size + 1
    /\ UNCHANGED <<capcity, alive, out>>

\* stack_push with a free slot.
Push(n) ==
    /\ size < capcity
    /\ array' = [array EXCEPT ![cursor + 1] = n]
    /\ cursor' = cursor + 1
    /\ size' = size + 1
    /\ UNCHANGED <<capcity, alive, out>>

new_cap == (capcity * 3) \div 2 + 1

\* expand_stack: realloc keeps what is in the array.
Reallocated ==
    [i \in 0..new_cap - 1 |-> IF i < capcity THEN array[i] ELSE Unset]

\* stack_push that grows the array first.
PushExpand(n) ==
    /\ size >= capcity
    /\ new_cap <= MaxCapcity
    /\ array' = [Reallocated EXCEPT ![cursor + 1] = n]
    /\ capcity' = new_cap
    /\ cursor' = cursor + 1
    /\ size' = size + 1
    /\ UNCHANGED <<alive, out>>

\* stack_pop
Pop ==
    /\ size > 0
    /\ out' = array[cursor]
    /\ cursor' = cursor - 1
    /\ size' = size - 1
    /\ UNCHANGED <<array, capcity, alive>>

PopNothing ==
    /\ size = 0
    /\ out' = Null
    /\ UNCHANGED <<array, cursor, size, capcity, alive>>

\* stack_free; the caller's pointer to the stack becomes NULL.
StackFree ==
    /\ alive' = FALSE
    /\ UNCHANGED <<array, cursor, size, capcity, out>>

\* stack_free with *stack_ptr NULL.
StackFreeAgain == ~alive /\ UNCHANGED stackVars

StackNext ==
    \/ /\ alive
       /\ \/ \E n \in Pointer \cup {Null} : Push(n) \/ PushExpand(n)
          \/ Pop
          \/ PopNothing
          \/ StackFree
    \/ StackFreeAgain

StackSpec == StackInit /\ [][StackNext]_stackVars

-----------------------------------------------------------------------------
(* Properties.                                                              *)

StackTypeOK ==
    /\ capcity \in Nat
    /\ size \in 0..capcity
    /\ cursor \in -1..capcity - 1
    /\ array \in [0..capcity - 1 -> Pointer \cup {Null, Unset}]
    /\ alive \in BOOLEAN
    /\ out \in Pointer \cup {Null}

\* cursor and size, which every push and pop move one after the other, agree,
\* and everything below the cursor was pushed: no pop hands out a slot that
\* the growth of the array added.
CursorAgrees ==
    /\ cursor = size - 1
    /\ \A i \in 0..cursor : array[i] # Unset

\* The array with its cursor is a stack, through every growth and from a
\* capacity of zero on.  (Both pools of the library keep their tasks and their
\* clients in one.)
AbstractStack == INSTANCE Lifo WITH Node <- Pointer \cup {Null},
                                    items <- [i \in 1..size |-> array[i - 1]]
ImplementsLifo == AbstractStack!Spec
=============================================================================
