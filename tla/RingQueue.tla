----------------------------- MODULE RingQueue ------------------------------
(***************************************************************************)
(* at_queue.c: a queue of nodes of one size, copied into a ring buffer     *)
(* that grows when it is full.  A pop hands out a pointer into the buffer, *)
(* not a copy, and the caller reads the node through it later.             *)
(*                                                                         *)
(* An operator that stands directly before an action and that nothing uses *)
(* is a mutant of that action.                                             *)
(***************************************************************************)
EXTENDS Integers, Sequences

CONSTANTS Node,                \* the nodes a caller may push
          Null,                \* the NULL pointer
          Junk,                \* the contents of a slot never written
          DEFAULT_QUEUE_SIZE,  \* the capacity of a new queue
          MaxCapcity           \* bound of the model: no growth beyond it

ASSUME RingQueueAssumption ==
    /\ DEFAULT_QUEUE_SIZE \in Nat \ {0}
    /\ MaxCapcity \in Nat
    /\ Null \notin Node
    /\ Null \notin Nat

VARIABLES
    array,       \* queue->array, by slot
    head,        \* queue->head
    tail,        \* queue->tail
    capcity,     \* queue->capcity
    size,        \* queue->size
    alive,       \* FALSE once the queue has been freed
    out,         \* the node the last queue_pop found, or Null
    slot,        \* history: where the pointer it returned points, or Null
                 \* when nothing is promised of it any more
    grace        \* history: how many pushes that pointer outlives

queue == <<array, head, tail, capcity, size, alive>>
vars == <<queue, out, slot, grace>>

Wrap(i, c) == IF i >= c THEN i - c ELSE i

\* The slot of the i-th queued node, the oldest being the 0-th.
Slot(i) == Wrap(head + i, capcity)

Init ==
    /\ array = [i \in 0..DEFAULT_QUEUE_SIZE - 1 |-> Junk]
    /\ head = 0 /\ tail = 0
    /\ capcity = DEFAULT_QUEUE_SIZE
    /\ size = 0
    /\ alive = TRUE
    /\ out = Null /\ slot = Null /\ grace = 0

\* queue_pushback with a free slot.
Pushback(n) ==
    /\ size < capcity
    /\ array' = [array EXCEPT ![tail] = n]
    /\ size' = size + 1
    /\ tail' = Wrap(tail + 1, capcity)
    /\ slot' = IF grace = 0 THEN Null ELSE slot
    /\ grace' = IF grace = 0 THEN 0 ELSE grace - 1
    /\ UNCHANGED <<head, capcity, alive, out>>

new_cap == (capcity * 3) \div 2 + 1

CopiedAsIs ==
    [i \in 0..new_cap - 1 |-> IF i < capcity THEN array[i] ELSE Junk]

\* expand_queue: the part from head on, then the part before it.
Copied ==
    [i \in 0..new_cap - 1 |->
        IF i < capcity - head THEN array[head + i]
        ELSE IF i < capcity THEN array[i - (capcity - head)]
        ELSE Junk]

\* queue_pushback that grows the buffer first; the old one is freed.
PushbackExpand(n) ==
    /\ size >= capcity
    /\ new_cap <= MaxCapcity
    /\ array' = [Copied EXCEPT ![capcity] = n]
    /\ head' = 0
    /\ tail' = Wrap(capcity + 1, new_cap)
    /\ capcity' = new_cap
    /\ size' = size + 1
    /\ slot' = Null /\ grace' = 0
    /\ UNCHANGED <<alive, out>>

PopClears ==
    /\ size > 0
    /\ out' = array[head]
    /\ array' = [array EXCEPT ![head] = Junk]
    /\ slot' = head
    /\ grace' = capcity - size
    /\ head' = Wrap(head + 1, capcity)
    /\ size' = size - 1
    /\ UNCHANGED <<tail, capcity, alive>>

\* queue_pop; the pointer is promised to the caller for as many pushes as
\* there were free slots.
Pop ==
    /\ size > 0
    /\ out' = array[head]
    /\ slot' = head
    /\ grace' = capcity - size
    /\ head' = Wrap(head + 1, capcity)
    /\ size' = size - 1
    /\ UNCHANGED <<array, tail, capcity, alive>>

PopNothing ==
    /\ size = 0
    /\ out' = Null /\ slot' = Null /\ grace' = 0
    /\ UNCHANGED queue

\* queue_free; the caller's pointer to the queue becomes NULL, and the pointer
\* it may still have from a pop is worth nothing.
Free ==
    /\ alive' = FALSE
    /\ slot' = Null /\ grace' = 0
    /\ UNCHANGED <<array, head, tail, capcity, size, out>>

\* queue_free with *queue_ptr NULL.
FreeAgain == ~alive /\ UNCHANGED vars

Next ==
    \/ /\ alive
       /\ \/ \E n \in Node : Pushback(n) \/ PushbackExpand(n)
          \/ Pop
          \/ PopNothing
          \/ Free
    \/ FreeAgain

Spec == Init /\ [][Next]_vars

-----------------------------------------------------------------------------
(* Properties.                                                              *)

TypeOK ==
    /\ capcity \in Nat \ {0}
    /\ size \in 0..capcity
    /\ head \in 0..capcity - 1
    /\ tail \in 0..capcity - 1
    /\ array \in [0..capcity - 1 -> Node \cup {Junk}]
    /\ alive \in BOOLEAN
    /\ out \in Node \cup {Null}
    /\ slot \in 0..capcity - 1 \cup {Null}
    /\ grace \in 0..capcity

\* The queued nodes lie between head and tail, around the end of the buffer,
\* and none of these slots is one that was never written.  (expand_queue and
\* the two wrap-arounds have to agree on this, full and empty looking alike in
\* head and tail.)
RingWellFormed ==
    /\ tail = Slot(size)
    /\ \A i \in 0..size - 1 : array[Slot(i)] \in Node

\* The node a queue_pop returned is still the same behind the pointer after as
\* many pushes as there were free slots, if none of them had to grow the
\* buffer.  (The pointer is into the buffer; the header tells the caller only
\* that it need not be freed.)
PoppedIntact == slot # Null => array[slot] = out

\* The ring buffer is a queue: through growth and wrap-around the nodes come
\* out in the order they went in, none lost, none twice.
Abstract == INSTANCE Fifo WITH items <- [i \in 1..size |-> array[Slot(i - 1)]]
ImplementsFifo == Abstract!Spec
=============================================================================
