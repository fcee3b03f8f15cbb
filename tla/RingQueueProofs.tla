-------------------------- MODULE RingQueueProofs ---------------------------
(***************************************************************************)
(* Proofs about RingQueue for every initial capacity and every set of      *)
(* nodes: the ring buffer is a queue, and a popped node stays readable.    *)
(***************************************************************************)
EXTENDS RingQueue, SequenceTheorems, TLAPS

\* Where the pointer of the last pop points is as far in front of tail as
\* there are pushes it survives.
SlotAhead ==
    slot # Null => slot = Wrap(tail + grace, capcity) /\ grace < capcity

\* The pointer never points at a queued node, so only a push can reach it.
IInv == TypeOK /\ RingWellFormed /\ SlotAhead /\ PoppedIntact

\* The capacity grows, so a full buffer has room after it.
LEMMA Grows ==
    ASSUME TypeOK
    PROVE  new_cap \in Nat /\ new_cap > capcity
  BY DEF TypeOK, new_cap

\* A new queue has the inductive invariant.
LEMMA InitIInv == Init => IInv
  BY RingQueueAssumption
  DEF Init, IInv, TypeOK, RingWellFormed, SlotAhead, PoppedIntact, Slot, Wrap

\* The queue's own fields.
LEMMA ShapeStep ==
    TypeOK /\ RingWellFormed /\ [Next]_vars => TypeOK' /\ RingWellFormed'
  <1> SUFFICES ASSUME TypeOK, RingWellFormed, [Next]_vars
               PROVE  TypeOK' /\ RingWellFormed'
    OBVIOUS
  <1> USE RingQueueAssumption DEF TypeOK, RingWellFormed, Slot, Wrap, queue
  <1>1. ASSUME NEW n \in Node, Pushback(n) PROVE TypeOK' /\ RingWellFormed'
    <2>1. TypeOK'
      BY <1>1 DEF Pushback
    <2>2. tail' = Slot(size)'
      BY <1>1 DEF Pushback
    <2>3. ASSUME NEW i \in 0..size' - 1 PROVE array'[Slot(i)'] \in Node
      <3>1. CASE i < size
        <4>1. Slot(i) # tail /\ Slot(i)' = Slot(i) /\ Slot(i) \in 0..capcity - 1
          BY <1>1, <3>1 DEF Pushback
        <4>2. array[Slot(i)] \in Node
          BY <3>1
        <4>3. QED BY <1>1, <4>1, <4>2 DEF Pushback
      <3>2. CASE i = size
        BY <1>1, <3>2 DEF Pushback
      <3>3. QED BY <1>1, <2>3, <3>1, <3>2 DEF Pushback
    <2>4. QED BY <2>1, <2>2, <2>3
  <1>2. ASSUME NEW n \in Node, PushbackExpand(n)
        PROVE  TypeOK' /\ RingWellFormed'
    <2>1. /\ Copied \in [0..new_cap - 1 -> Node \cup {Junk}]
          /\ \A i \in 0..capcity - 1 : Copied[i] = array[Slot(i)]
      BY Grows, SMTT(30) DEF Copied
    <2>2. TypeOK'
      BY <1>2, <2>1, Grows DEF PushbackExpand
    <2>3. tail' = Slot(size)'
      BY <1>2, Grows DEF PushbackExpand
    <2>4. ASSUME NEW i \in 0..size' - 1 PROVE array'[Slot(i)'] \in Node
      <3>1. size = capcity /\ Slot(i)' = i /\ i \in 0..capcity
        BY <1>2, <2>4, Grows DEF PushbackExpand
      <3>2. CASE i < capcity
        BY <1>2, <2>1, <3>1, <3>2, Grows DEF PushbackExpand
      <3>3. CASE i = capcity
        BY <1>2, <2>1, <3>1, <3>3, Grows DEF PushbackExpand
      <3>4. QED BY <3>1, <3>2, <3>3
    <2>5. QED BY <2>2, <2>3, <2>4
  <1>3. CASE Pop
    <2>1. TypeOK'
      <3>1. array[head] \in Node
        BY <1>3 DEF Pop
      <3>2. QED BY <1>3, <3>1 DEF Pop
    <2>2. \A i \in 0..size - 2 : Slot(i)' = Slot(i + 1)
      BY <1>3 DEF Pop
    <2>3. tail' = Slot(size)'
      BY <1>3 DEF Pop
    <2>4. ASSUME NEW i \in 0..size' - 1 PROVE array'[Slot(i)'] \in Node
      <3>1. i + 1 \in 0..size - 1 /\ Slot(i)' = Slot(i + 1)
        BY <1>3, <2>2, <2>4 DEF Pop
      <3>2. array[Slot(i + 1)] \in Node
        BY <3>1
      <3>3. QED BY <1>3, <3>1, <3>2 DEF Pop
    <2>5. QED BY <2>1, <2>3, <2>4
  <1>4. CASE PopNothing
    BY <1>4 DEF PopNothing
  <1>5. CASE Free
    <2>1. UNCHANGED <<array, head, tail, capcity, size, out>>
      BY <1>5 DEF Free
    <2>2. TypeOK'
      <3>1. alive' \in BOOLEAN /\ slot' = Null /\ grace' = 0
        BY <1>5 DEF Free
      <3>2. QED BY <2>1, <3>1
    <2>3. QED BY <2>1, <2>2
  <1>6. CASE UNCHANGED vars
    BY <1>6 DEF vars
  <1>7. QED
    BY <1>1, <1>2, <1>3, <1>4, <1>5, <1>6 DEF Next, FreeAgain

\* The pointer of the last pop: a push either does not reach it or ends its
\* grace.
LEMMA SlotStep == IInv /\ [Next]_vars => SlotAhead' /\ PoppedIntact'
  <1> SUFFICES ASSUME IInv, [Next]_vars PROVE SlotAhead' /\ PoppedIntact'
    OBVIOUS
  <1> USE RingQueueAssumption
      DEF IInv, TypeOK, SlotAhead, PoppedIntact, Wrap, queue
  <1>1. ASSUME NEW n \in Node, Pushback(n)
        PROVE  SlotAhead' /\ PoppedIntact'
    <2>1. CASE slot = Null \/ grace = 0
      BY <1>1, <2>1 DEF Pushback
    <2>2. CASE slot # Null /\ grace # 0
      <3>1. slot # tail
        BY <2>2
      <3>2. SlotAhead'
        BY <1>1, <2>2 DEF Pushback
      <3>3. QED BY <1>1, <2>2, <3>1, <3>2 DEF Pushback
    <2>3. QED BY <2>1, <2>2
  <1>2. ASSUME NEW n \in Node, PushbackExpand(n)
        PROVE  SlotAhead' /\ PoppedIntact'
    BY <1>2 DEF PushbackExpand
  <1>3. CASE Pop
    BY <1>3 DEF Pop, RingWellFormed, Slot
  <1>4. CASE PopNothing
    BY <1>4 DEF PopNothing
  <1>5. CASE Free
    BY <1>5 DEF Free
  <1>6. CASE UNCHANGED vars
    BY <1>6 DEF vars
  <1>7. QED
    BY <1>1, <1>2, <1>3, <1>4, <1>5, <1>6 DEF Next, FreeAgain

\* Every reachable state has it.
LEMMA Invariant == Spec => []IInv
  <1>1. IInv /\ [Next]_vars => IInv'
    BY ShapeStep, SlotStep DEF IInv
  <1>2. QED BY <1>1, InitIInv, PTL DEF Spec

\* head, tail, size and capcity stay in range.
THEOREM TypeCorrect == Spec => []TypeOK
  BY Invariant, PTL DEF IInv

\* The queued nodes lie between head and tail.
THEOREM RingCorrect == Spec => []RingWellFormed
  BY Invariant, PTL DEF IInv

\* What queue_pop points to does not change while its grace lasts.
THEOREM PoppedStays == Spec => []PoppedIntact
  BY Invariant, PTL DEF IInv

-----------------------------------------------------------------------------
(* The ring buffer implements Fifo.                                         *)

Items == [i \in 1..size |-> array[Slot(i - 1)]]

\* The queued nodes, as a sequence.
LEMMA ItemsType ==
    ASSUME TypeOK, RingWellFormed
    PROVE  Items \in Seq(Node) /\ Len(Items) = size
  <1>1. \A i \in 1..size : array[Slot(i - 1)] \in Node
    BY DEF RingWellFormed, TypeOK
  <1>2. QED BY <1>1 DEF Items, TypeOK

\* A step that keeps the queued nodes where they are, and puts n behind them.
LEMMA PutMaps ==
    ASSUME TypeOK, RingWellFormed, TypeOK', RingWellFormed', NEW n \in Node,
           size' = size + 1, array'[Wrap(head' + size, capcity')] = n,
           \A i \in 0..size - 1 : array'[Slot(i)'] = array[Slot(i)]
    PROVE  Items' = Append(Items, n)
  <1>1. Items \in Seq(Node) /\ Len(Items) = size
    BY ItemsType
  <1>2. /\ Append(Items, n) \in Seq(Node) /\ Len(Append(Items, n)) = size + 1
        /\ \A i \in 1..size : Append(Items, n)[i] = Items[i]
        /\ Append(Items, n)[size + 1] = n
    BY <1>1
  <1>3. \A i \in 1..size + 1 : Items'[i] = Append(Items, n)[i]
    <2> SUFFICES ASSUME NEW i \in 1..size + 1
                 PROVE  Items'[i] = Append(Items, n)[i]
      OBVIOUS
    <2>1. Items'[i] = array'[Slot(i - 1)']
      BY DEF Items, TypeOK
    <2>2. CASE i <= size
      <3>1. i - 1 \in 0..size - 1 /\ Items[i] = array[Slot(i - 1)]
        BY <2>2 DEF Items, TypeOK
      <3>2. QED BY <1>2, <2>1, <2>2, <3>1 DEF TypeOK
    <2>3. CASE i = size + 1
      <3>1. Slot(i - 1)' = Wrap(head' + size, capcity')
        BY <2>3 DEF Slot, TypeOK
      <3>2. QED BY <1>2, <2>1, <2>3, <3>1
    <2>4. i <= size \/ i = size + 1
      BY DEF TypeOK
    <2>5. QED BY <2>2, <2>3, <2>4
  <1>4. Items' \in Seq(Node) /\ Len(Items') = size + 1
    <2>1. \A i \in 1..size' : array'[Slot(i - 1)'] \in Node
      BY DEF RingWellFormed, TypeOK
    <2>2. QED BY <2>1 DEF Items, TypeOK
  <1>5. QED BY <1>2, <1>3, <1>4, SeqEqual

\* Every step of the ring buffer is a step of the queue, or none.
LEMMA StepMaps ==
    ASSUME IInv, IInv', [Next]_vars
    PROVE  [Abstract!Next]_(Abstract!vars)
  <1> USE RingQueueAssumption DEF IInv
  <1>0. Items \in Seq(Node) /\ Len(Items) = size
    BY ItemsType
  <1>1. ASSUME NEW n \in Node, Pushback(n) PROVE Abstract!Put(n)
    <2>1. \A i \in 0..size - 1 : /\ Slot(i)' = Slot(i) /\ Slot(i) # tail
                                 /\ Slot(i) \in 0..capcity - 1
      BY <1>1 DEF Pushback, TypeOK, RingWellFormed, Slot, Wrap
    <2>2. \A i \in 0..size - 1 : array'[Slot(i)'] = array[Slot(i)]
      BY <1>1, <2>1 DEF Pushback, TypeOK
    <2>3. /\ Wrap(head' + size, capcity') = tail
          /\ array'[tail] = n /\ size' = size + 1
      BY <1>1 DEF Pushback, TypeOK, RingWellFormed, Slot, Wrap
    <2>4. Items' = Append(Items, n)
      BY <2>2, <2>3, PutMaps
    <2>5. QED BY <1>1, <2>4 DEF Pushback, Abstract!Put, Items
  <1>2. ASSUME NEW n \in Node, PushbackExpand(n) PROVE Abstract!Put(n)
    <2>1. /\ \A i \in 0..size - 1 : Copied[i] = array[Slot(i)]
          /\ Copied \in [0..new_cap - 1 -> Node \cup {Junk}]
          /\ size = capcity
      BY <1>2, Grows DEF PushbackExpand, Copied, TypeOK, Slot, Wrap
    <2>2. \A i \in 0..size : Slot(i)' = i
      BY <1>2, <2>1, Grows DEF PushbackExpand, TypeOK, Slot, Wrap
    <2>3. \A i \in 0..size - 1 : array'[Slot(i)'] = array[Slot(i)]
      BY <1>2, <2>1, <2>2, Grows DEF PushbackExpand, TypeOK
    <2>4. /\ Wrap(head' + size, capcity') = capcity
          /\ array'[capcity] = n /\ size' = size + 1
      BY <1>2, <2>1, Grows DEF PushbackExpand, TypeOK, Wrap
    <2>5. Items' = Append(Items, n)
      BY <2>3, <2>4, PutMaps
    <2>6. QED BY <1>2, <2>5 DEF PushbackExpand, Abstract!Put, Items
  <1>3. ASSUME Pop PROVE Abstract!Get
    <2>1. \A i \in 1..size - 1 : Slot(i - 1)' = Slot(i)
      <3> SUFFICES ASSUME NEW i \in 1..size - 1 PROVE Slot(i - 1)' = Slot(i)
        OBVIOUS
      <3>1. head' = Wrap(head + 1, capcity) /\ capcity' = capcity
        BY <1>3 DEF Pop
      <3>2. QED BY <3>1 DEF TypeOK, Slot, Wrap
    <2>2. Items' = Tail(Items)
      <3>1. /\ Tail(Items) \in Seq(Node) /\ Len(Tail(Items)) = size - 1
            /\ \A i \in 1..size - 1 : Tail(Items)[i] = Items[i + 1]
        BY <1>0, <1>3 DEF Pop, TypeOK
      <3>2. \A i \in 1..size - 1 : Items'[i] = Items[i + 1]
        <4> SUFFICES ASSUME NEW i \in 1..size - 1 PROVE Items'[i] = Items[i + 1]
          OBVIOUS
        <4>1. i \in 1..size' /\ i + 1 \in 1..size /\ (i + 1) - 1 = i
          BY <1>3, SMTT(30) DEF Pop, TypeOK
        <4>2. Items'[i] = array[Slot(i - 1)'] /\ Items[i + 1] = array[Slot(i)]
          BY <1>3, <4>1 DEF Pop, Items
        <4>3. QED BY <2>1, <4>2
      <3>3. Items' \in Seq(Node) /\ Len(Items') = size - 1
        <4>1. \A i \in 1..size - 1 : Items'[i] \in Node
          BY <1>0, <3>2, SMTT(30) DEF TypeOK
        <4>2. size' = size - 1 /\ size' \in Nat
          BY <1>3 DEF Pop, TypeOK
        <4>3. QED BY <4>1, <4>2 DEF Items
      <3>4. QED BY <3>1, <3>2, <3>3, SeqEqual
    <2>3. Items # <<>> /\ Head(Items) = array[head]
      BY <1>0, <1>3, SMTT(30) DEF Pop, Items, TypeOK, Slot, Wrap
    <2>4. QED BY <1>3, <2>2, <2>3 DEF Pop, Abstract!Get, Items
  <1>4. ASSUME PopNothing PROVE Abstract!GetNothing
    <2>1. Items = <<>> /\ Items' = Items
      BY <1>0, <1>4 DEF PopNothing, Items, Slot, queue
    <2>2. QED BY <1>4, <2>1 DEF PopNothing, Abstract!GetNothing, Items
  <1>5. ASSUME Free \/ UNCHANGED vars PROVE UNCHANGED Abstract!vars
    BY <1>5 DEF Free, vars, queue, Abstract!vars, Slot
  <1>6. QED
    BY <1>1, <1>2, <1>3, <1>4, <1>5 DEF Next, FreeAgain, Abstract!Next

\* A growing ring buffer behind head and tail is a first-in first-out queue.
THEOREM Refinement == Spec => ImplementsFifo
  <1>1. Init => Abstract!Init
    BY RingQueueAssumption DEF Init, Abstract!Init
  <1>2. IInv /\ IInv' /\ [Next]_vars => [Abstract!Next]_(Abstract!vars)
    BY StepMaps
  <1>3. QED
    BY <1>1, <1>2, Invariant, PTL DEF Spec, ImplementsFifo, Abstract!Spec
=============================================================================
