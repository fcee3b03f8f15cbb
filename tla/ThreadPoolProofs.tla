-------------------------- MODULE ThreadPoolProofs --------------------------
(***************************************************************************)
(* Proofs about ThreadPool, for any number of workers, clients and tasks.  *)
(* The invariants are stacked: each is preserved by every step from a      *)
(* state in which it and those below it hold.                              *)
(***************************************************************************)
EXTENDS ThreadPool, FiniteSetTheorems, TLAPS

-----------------------------------------------------------------------------
(* The sequences used as stacks.                                            *)

\* Popping: what is left, and what comes off, have the type of the stack.
LEMMA PopType ==
    ASSUME NEW S, NEW s \in Seq(S), s # <<>>
    PROVE  /\ Front(s) \in Seq(S) /\ Last(s) \in S
           /\ Len(Front(s)) = Len(s) - 1
  <1>1. Len(s) \in Nat \ {0} /\ Front(s) = [i \in 1..(Len(s) - 1) |-> s[i]]
    BY DEF Front
  <1>2. Front(s) \in Seq(S) /\ Last(s) \in S
    BY <1>1 DEF Last
  <1>3. DOMAIN Front(s) = 1..(Len(s) - 1)
    BY <1>1
  <1>4. Len(Front(s)) = Len(s) - 1
    BY <1>1, <1>2, <1>3
  <1>5. QED BY <1>2, <1>4

\* Popping takes exactly the last element, and leaves no duplicate behind.
LEMMA PopSet ==
    ASSUME NEW S, NEW s \in Seq(S), s # <<>>, IsInjective(s)
    PROVE  /\ ToSet(s) = ToSet(Front(s)) \cup {Last(s)}
           /\ Last(s) \notin ToSet(Front(s))
           /\ IsInjective(Front(s))
  <1>1. /\ Len(s) \in Nat \ {0}
        /\ Front(s) = [i \in 1..(Len(s)-1) |-> s[i]]
        /\ Last(s) = s[Len(s)]
    BY DEF Front, Last
  <1>2. DOMAIN s = 1..Len(s) /\ DOMAIN Front(s) = 1..(Len(s)-1)
    BY <1>1
  <1>3. ToSet(s) = ToSet(Front(s)) \cup {Last(s)}
    BY <1>1, <1>2 DEF ToSet
  <1>4. Last(s) \notin ToSet(Front(s)) /\ IsInjective(Front(s))
    BY <1>1, <1>2 DEF ToSet, IsInjective
  <1>5. QED BY <1>3, <1>4

\* Pushing adds exactly the new element.
LEMMA PushSet ==
    ASSUME NEW S, NEW s \in Seq(S), NEW e \in S
    PROVE  /\ ToSet(Append(s, e)) = ToSet(s) \cup {e}
           /\ e \notin ToSet(s) /\ IsInjective(s) => IsInjective(Append(s, e))
  <1>1. /\ DOMAIN s = 1..Len(s) /\ Len(s) \in Nat
        /\ DOMAIN Append(s, e) = 1..(Len(s) + 1)
        /\ \A i \in 1..Len(s) : Append(s, e)[i] = s[i]
        /\ Append(s, e)[Len(s) + 1] = e
    OBVIOUS
  <1>2. ToSet(Append(s, e)) = ToSet(s) \cup {e}
    <2>1. ASSUME NEW x \in ToSet(Append(s, e)) PROVE x \in ToSet(s) \cup {e}
      BY <1>1 DEF ToSet
    <2>2. ASSUME NEW x \in ToSet(s) \cup {e} PROVE x \in ToSet(Append(s, e))
      BY <1>1 DEF ToSet
    <2>3. QED BY <2>1, <2>2
  <1>3. e \notin ToSet(s) /\ IsInjective(s) => IsInjective(Append(s, e))
    BY <1>1 DEF ToSet, IsInjective
  <1>4. QED BY <1>2, <1>3

-----------------------------------------------------------------------------
(* The steps of the pool, by the kind of thread that takes them.            *)

WorkerAct(w) ==
    \/ WorkerStep(w) \/ WorkerLock(w) \/ WorkerRelock(w) \/ SpuriousWake(w)

CallAct(t) ==
    \/ AddStep(t) \/ AddLock(t)
    \/ \E k \in Tasks : AddCall(t, k)

OwnerAct == OwnerStep \/ PollCall \/ PollLock \/ StopSet \/ StopLock

\* Every step is a step of a worker, of a caller of add_task or of the owner.
LEMMA StepKinds ==
    ASSUME [Next]_vars
    PROVE  \/ alive /\ \E w \in Workers : WorkerAct(w)
           \/ alive /\ \E t \in Threads : CallAct(t)
           \/ alive /\ OwnerAct
           \/ UNCHANGED vars
  BY DEF Next, Proceed, TakeLock, WorkerAct, CallAct, OwnerAct, StopAgain,
     Threads

\* Sets of workers are finite.
LEMMA SomeWorkers ==
    ASSUME NEW S \in SUBSET Workers
    PROVE  IsFiniteSet(S) /\ Cardinality(S) \in Nat
  BY ThreadPoolAssumption, FS_Subset, FS_CardinalityType

\* Idle is one of them.
LEMMA IdleFinite == IsFiniteSet(Idle) /\ Cardinality(Idle) \in Nat
  BY SomeWorkers DEF Idle

\* A worker that is in Idle is counted.
LEMMA IdlePositive ==
    ASSUME IdlesCountWaiters, NEW w \in Idle
    PROVE  idles - 1 \in Nat
  BY IdleFinite, FS_EmptySet DEF IdlesCountWaiters

-----------------------------------------------------------------------------
(* The invariants the proofs need besides the properties of ThreadPool.     *)

\* run() has a task, and add_task an argument, exactly while they need it.
InHand ==
    /\ \A w \in Workers :
         task[w] # None <=> pc[w] \in {"run", "free"} \cup AddLabels
    /\ \A t \in Threads :
         arg[t] # None <=> pc[t] \in {"add_check", "add_lock", "add_push"}

\* The thread that holds the mutex is the one inside a critical section.
Critical == {"pop", "check", "enter", "woken", "add_push", "add_unlock",
             "poll_read", "stop_bcast"}
MutexHeld == \A t \in Threads : lock = t <=> pc[t] \in Critical

SleepersWait == \A w \in asleep : pc[w] = "wait"

\* status and the life of the pool follow the owner; no worker leaves before
\* the stop, and only overlapping clients are inside a call during it.
PhaseFollows ==
    /\ status = "RUNNING" <=> pc[Owner] \notin StopLabels
    /\ status = "STOPPED" <=> pc[Owner] = "stopped"
    /\ alive <=> pc[Owner] # "stopped"
    /\ \A w \in Workers : pc[w] = "exited" => status # "RUNNING"
    /\ ~Overlap /\ pc[Owner] \in StopLabels => \A c \in Clients : pc[c] = "out"

\* A worker that found no task and has not let go of the mutex is still right.
SawEmpty == \A w \in Workers : pc[w] \in {"check", "enter"} => stack = <<>>

\* A task inside add_task is new to the pool, and in one call only.
ArgFresh ==
    /\ refused \cap Accepted = {}
    /\ \A t \in Threads : arg[t] # None =>
         /\ arg[t] \notin Accepted \cup refused
         /\ \A u \in Threads : arg[u] = arg[t] => u = t

\* When every worker has left, the stack holds late submissions at most.
Late(k) == Overlap /\ by[k] \in Clients
Drained ==
    (\A w \in Workers : pc[w] = "exited") => \A k \in ToSet(stack) : Late(k)

\* The owner frees the pool after the last worker has left.
AllJoined ==
    pc[Owner] \in {"destroy", "stopped"} => \A w \in Workers : pc[w] = "exited"

\* Why an AT_TRUE of thread_pool_is_all_idle lasts: no worker has a task.
Quiescent == quiet => stack = <<>> /\ \A w \in Workers : task[w] = None

\* After the broadcast no worker is about to wait.
NoneEnters ==
    pc[Owner] \in {"join", "destroy", "stopped"} =>
        \A w \in Workers : pc[w] # "enter"

-----------------------------------------------------------------------------
(* Types, the counter of idle workers, and what a thread has in hand.       *)

Base == TypeOK /\ IdlesCountWaiters /\ InHand

\* The types survive every step; IdlePositive keeps `idles` a natural number.
LEMMA TypeStep == Base /\ [Next]_vars => TypeOK'
  <1> SUFFICES ASSUME TypeOK, IdlesCountWaiters, InHand, [Next]_vars
               PROVE  TypeOK'
    BY DEF Base
  <1> USE ThreadPoolAssumption
      DEF TypeOK, Step, WorkerLabels, ClientLabels, OwnerLabels, StopLabels,
          AddLabels, Threads, pool, sync, local, history, Acquire, Release
  <1>1. ASSUME NEW w \in Workers, WorkerAct(w) PROVE TypeOK'
    <2>1. CASE WorkerHead(w)      BY <2>1 DEF WorkerHead
    <2>2. CASE WorkerLock(w)      BY <2>2 DEF WorkerLock
    <2>3. CASE WorkerPop(w)
      <3>1. Front(stack) \in Seq(Tasks) /\ Last(stack) \in Tasks
        BY <2>3, PopType DEF WorkerPop
      <3>2. QED BY <2>3, <3>1 DEF WorkerPop
    <2>4. CASE WorkerFindsNone(w) BY <2>4 DEF WorkerFindsNone
    <2>5. CASE WorkerStay(w)      BY <2>5 DEF WorkerStay
    <2>6. CASE WorkerWait(w)      BY <2>6 DEF WorkerWait
    <2>7. CASE WorkerBreak(w)     BY <2>7 DEF WorkerBreak
    <2>8. CASE SpuriousWake(w)    BY <2>8 DEF SpuriousWake
    <2>9. CASE WorkerRelock(w)    BY <2>9 DEF WorkerRelock
    <2>10. CASE WorkerWoken(w)
      <3>1. idles - 1 \in Nat     BY <2>10, IdlePositive DEF WorkerWoken, Idle
      <3>2. QED BY <2>10, <3>1 DEF WorkerWoken
    <2>11. CASE TaskReturn(w)     BY <2>11 DEF TaskReturn
    <2>12. CASE TaskFree(w)       BY <2>12 DEF TaskFree, InHand
    <2>13. QED
      BY <1>1, <2>1, <2>2, <2>3, <2>4, <2>5, <2>6, <2>7, <2>8, <2>9, <2>10,
         <2>11, <2>12 DEF WorkerAct, WorkerStep
  <1>2. ASSUME NEW t \in Threads, CallAct(t) PROVE TypeOK'
    <2>0. Home(t) \in {"run", "out"} /\ (Home(t) = "run" <=> t \in Workers)
      BY DEF Home
    <2>1. ASSUME NEW k \in Tasks, AddCall(t, k) PROVE TypeOK'
      BY <2>1 DEF AddCall, MayCall
    <2>2. CASE AddRefuse(t)       BY <2>0, <2>2 DEF AddRefuse, InHand
    <2>3. CASE AddAdmit(t)        BY <2>3 DEF AddAdmit
    <2>4. CASE AddLock(t)         BY <2>4 DEF AddLock
    <2>5. CASE AddPush(t)         BY <2>5 DEF AddPush, Signal, InHand
    <2>6. CASE AddUnlock(t)       BY <2>0, <2>6 DEF AddUnlock
    <2>7. QED BY <1>2, <2>1, <2>2, <2>3, <2>4, <2>5, <2>6 DEF CallAct, AddStep
  <1>3. CASE OwnerAct
    <2>1. ASSUME NEW w \in Workers, Spawn(w) PROVE TypeOK'
      BY <2>1 DEF Spawn
    <2>2. CASE CreateReturn       BY <2>2 DEF CreateReturn
    <2>3. CASE PollCall           BY <2>3 DEF PollCall
    <2>4. CASE PollLock           BY <2>4 DEF PollLock
    <2>5. CASE PollReturn         BY <2>5 DEF PollReturn
    <2>6. CASE StopSet            BY <2>6 DEF StopSet
    <2>7. CASE StopLock           BY <2>7 DEF StopLock
    <2>8. CASE StopBroadcast      BY <2>8 DEF StopBroadcast
    <2>9. CASE StopJoin           BY <2>9 DEF StopJoin
    <2>10. CASE StopDestroy       BY <2>10 DEF StopDestroy
    <2>11. QED
      BY <1>3, <2>1, <2>2, <2>3, <2>4, <2>5, <2>6, <2>7, <2>8, <2>9, <2>10
      DEF OwnerAct, OwnerStep
  <1>4. CASE UNCHANGED vars       BY <1>4 DEF vars
  <1>5. QED BY <1>1, <1>2, <1>3, <1>4, StepKinds

\* `task` and the argument of add_task are set and cleared where InHand says.
LEMMA InHandStep == Base /\ [Next]_vars => InHand'
  <1> SUFFICES ASSUME TypeOK, InHand, [Next]_vars PROVE InHand'
    BY DEF Base
  <1> USE ThreadPoolAssumption
      DEF InHand, TypeOK, Step, WorkerLabels, ClientLabels, OwnerLabels,
          StopLabels, AddLabels, Threads, pool, sync, local, history, Acquire,
          Release
  <1>1. ASSUME NEW w \in Workers, WorkerAct(w) PROVE InHand'
    <2>1. CASE WorkerHead(w)      BY <2>1 DEF WorkerHead
    <2>2. CASE WorkerLock(w)      BY <2>2 DEF WorkerLock
    <2>3. CASE WorkerPop(w)       BY PopType, <2>3 DEF WorkerPop
    <2>4. CASE WorkerFindsNone(w) BY <2>4 DEF WorkerFindsNone
    <2>5. CASE WorkerStay(w)      BY <2>5 DEF WorkerStay
    <2>6. CASE WorkerWait(w)      BY <2>6 DEF WorkerWait
    <2>7. CASE WorkerBreak(w)     BY <2>7 DEF WorkerBreak
    <2>8. CASE SpuriousWake(w)    BY <2>8 DEF SpuriousWake
    <2>9. CASE WorkerRelock(w)    BY <2>9 DEF WorkerRelock
    <2>10. CASE WorkerWoken(w)    BY <2>10 DEF WorkerWoken
    <2>11. CASE TaskReturn(w)     BY <2>11 DEF TaskReturn
    <2>12. CASE TaskFree(w)       BY <2>12 DEF TaskFree
    <2>13. QED
      BY <1>1, <2>1, <2>2, <2>3, <2>4, <2>5, <2>6, <2>7, <2>8, <2>9, <2>10,
         <2>11, <2>12
      DEF WorkerAct, WorkerStep
  <1>2. ASSUME NEW t \in Threads, CallAct(t) PROVE InHand'
    <2>1. ASSUME NEW k \in Tasks, AddCall(t, k) PROVE InHand'
      BY <2>1 DEF AddCall, MayCall, Home
    <2>2. CASE AddRefuse(t)       BY <2>2 DEF AddRefuse, Home
    <2>3. CASE AddAdmit(t)        BY <2>3 DEF AddAdmit
    <2>4. CASE AddLock(t)         BY <2>4 DEF AddLock
    <2>5. CASE AddPush(t)         BY <2>5 DEF AddPush
    <2>6. CASE AddUnlock(t)       BY <2>6 DEF AddUnlock, Home
    <2>7. QED
      BY <1>2, <2>1, <2>2, <2>3, <2>4, <2>5, <2>6
      DEF CallAct, AddStep
  <1>3. CASE OwnerAct
    <2>1. ASSUME NEW w \in Workers, Spawn(w) PROVE InHand'
      BY <2>1 DEF Spawn
    <2>2. CASE CreateReturn       BY <2>2 DEF CreateReturn
    <2>3. CASE PollCall           BY <2>3 DEF PollCall
    <2>4. CASE PollLock           BY <2>4 DEF PollLock
    <2>5. CASE PollReturn         BY <2>5 DEF PollReturn
    <2>6. CASE StopSet            BY <2>6 DEF StopSet
    <2>7. CASE StopLock           BY <2>7 DEF StopLock
    <2>8. CASE StopBroadcast      BY <2>8 DEF StopBroadcast
    <2>9. CASE StopJoin           BY <2>9 DEF StopJoin
    <2>10. CASE StopDestroy       BY <2>10 DEF StopDestroy
    <2>11. QED
      BY <1>3, <2>1, <2>2, <2>3, <2>4, <2>5, <2>6, <2>7, <2>8, <2>9, <2>10
      DEF OwnerAct, OwnerStep
  <1>4. CASE UNCHANGED vars       BY <1>4 DEF vars
  <1>5. QED BY <1>1, <1>2, <1>3, <1>4, StepKinds

\* idles++ and idles-- stay in step with the workers between them.
LEMMA IdlesStep == Base /\ [Next]_vars => IdlesCountWaiters'
  <1> SUFFICES ASSUME TypeOK, InHand, IdlesCountWaiters, [Next]_vars
               PROVE  IdlesCountWaiters'
    BY DEF Base
  <1> USE ThreadPoolAssumption
      DEF TypeOK, Step, WorkerLabels, ClientLabels, OwnerLabels, StopLabels,
          AddLabels, Threads, pool, sync, local, history, Acquire, Release
  <1>1. ASSUME NEW w \in Workers, WorkerAct(w) PROVE IdlesCountWaiters'
    <2>1. CASE WorkerHead(w)
      BY <2>1 DEF WorkerHead, IdlesCountWaiters, Idle
    <2>2. CASE WorkerLock(w)
      BY <2>2 DEF WorkerLock, IdlesCountWaiters, Idle
    <2>3. CASE WorkerPop(w)       BY <2>3 DEF WorkerPop, IdlesCountWaiters, Idle
    <2>4. CASE WorkerFindsNone(w)
      BY <2>4 DEF WorkerFindsNone, IdlesCountWaiters, Idle
    <2>5. CASE WorkerStay(w)
      <3>1. w \notin Idle /\ Idle' = Idle \cup {w} BY <2>5 DEF WorkerStay, Idle
      <3>2. QED
        BY <2>5, <3>1, IdleFinite, FS_AddElement DEF WorkerStay,
           IdlesCountWaiters
    <2>6. CASE WorkerWait(w)
      BY <2>6 DEF WorkerWait, IdlesCountWaiters, Idle
    <2>7. CASE WorkerBreak(w)
      BY <2>7 DEF WorkerBreak, IdlesCountWaiters, Idle
    <2>8. CASE SpuriousWake(w)
      BY <2>8 DEF SpuriousWake, IdlesCountWaiters, Idle
    <2>9. CASE WorkerRelock(w)
      BY <2>9 DEF WorkerRelock, IdlesCountWaiters, Idle
    <2>10. CASE WorkerWoken(w)
      <3>1. w \in Idle /\ Idle' = Idle \ {w} BY <2>10 DEF WorkerWoken, Idle
      <3>2. QED
        BY <2>10, <3>1, IdleFinite, FS_RemoveElement DEF WorkerWoken,
           IdlesCountWaiters
    <2>11. CASE TaskReturn(w)
      BY <2>11 DEF TaskReturn, IdlesCountWaiters, Idle
    <2>12. CASE TaskFree(w)       BY <2>12 DEF TaskFree, IdlesCountWaiters, Idle
    <2>13. QED
      BY <1>1, <2>1, <2>2, <2>3, <2>4, <2>5, <2>6, <2>7, <2>8, <2>9, <2>10,
         <2>11, <2>12
      DEF WorkerAct, WorkerStep
  <1>2. ASSUME NEW t \in Threads, CallAct(t) PROVE IdlesCountWaiters'
    <2>1. ASSUME NEW k \in Tasks, AddCall(t, k) PROVE IdlesCountWaiters'
      BY <2>1 DEF AddCall, IdlesCountWaiters, Idle, Home, MayCall
    <2>2. CASE AddRefuse(t)
      BY <2>2 DEF AddRefuse, IdlesCountWaiters, Idle, Home
    <2>3. CASE AddAdmit(t)        BY <2>3 DEF AddAdmit, IdlesCountWaiters, Idle
    <2>4. CASE AddLock(t)         BY <2>4 DEF AddLock, IdlesCountWaiters, Idle
    <2>5. CASE AddPush(t)         BY <2>5 DEF AddPush, IdlesCountWaiters, Idle
    <2>6. CASE AddUnlock(t)
      BY <2>6, ZenonT(40) DEF AddUnlock, IdlesCountWaiters, Idle, Home
    <2>7. QED
      BY <1>2, <2>1, <2>2, <2>3, <2>4, <2>5, <2>6
      DEF CallAct, AddStep
  <1>3. CASE OwnerAct
    <2>1. ASSUME NEW w \in Workers, Spawn(w) PROVE IdlesCountWaiters'
      BY <2>1 DEF Spawn, IdlesCountWaiters, Idle
    <2>2. CASE CreateReturn
      BY <2>2 DEF CreateReturn, IdlesCountWaiters, Idle
    <2>3. CASE PollCall           BY <2>3 DEF PollCall, IdlesCountWaiters, Idle
    <2>4. CASE PollLock           BY <2>4 DEF PollLock, IdlesCountWaiters, Idle
    <2>5. CASE PollReturn
      BY <2>5 DEF PollReturn, IdlesCountWaiters, Idle
    <2>6. CASE StopSet            BY <2>6 DEF StopSet, IdlesCountWaiters, Idle
    <2>7. CASE StopLock           BY <2>7 DEF StopLock, IdlesCountWaiters, Idle
    <2>8. CASE StopBroadcast
      BY <2>8 DEF StopBroadcast, IdlesCountWaiters, Idle
    <2>9. CASE StopJoin           BY <2>9 DEF StopJoin, IdlesCountWaiters, Idle
    <2>10. CASE StopDestroy
      BY <2>10 DEF StopDestroy, IdlesCountWaiters, Idle
    <2>11. QED
      BY <1>3, <2>1, <2>2, <2>3, <2>4, <2>5, <2>6, <2>7, <2>8, <2>9, <2>10
      DEF OwnerAct, OwnerStep
  <1>4. CASE UNCHANGED vars       BY <1>4 DEF vars, IdlesCountWaiters, Idle
  <1>5. QED BY <1>1, <1>2, <1>3, <1>4, StepKinds

-----------------------------------------------------------------------------
(* The mutex, the sleepers and the phases of the pool.                      *)

Control == MutexHeld /\ SleepersWait /\ PhaseFollows

\* Only Acquire enters a critical section and only its holder leaves it.
LEMMA MutexStep == TypeOK /\ MutexHeld /\ [Next]_vars => MutexHeld'
  <1> SUFFICES ASSUME TypeOK, MutexHeld, [Next]_vars PROVE MutexHeld'
    OBVIOUS
  <1> USE ThreadPoolAssumption
      DEF TypeOK, MutexHeld, Critical, Step, WorkerLabels, ClientLabels,
          OwnerLabels, StopLabels, AddLabels, Threads, pool, sync, local,
          history, Acquire, Release
  <1>1. ASSUME NEW w \in Workers, WorkerAct(w) PROVE MutexHeld'
    <2>1. CASE WorkerHead(w)      BY <2>1 DEF WorkerHead
    <2>2. CASE WorkerLock(w)      BY <2>2 DEF WorkerLock
    <2>3. CASE WorkerPop(w)       BY <2>3 DEF WorkerPop
    <2>4. CASE WorkerFindsNone(w) BY <2>4 DEF WorkerFindsNone
    <2>5. CASE WorkerStay(w)      BY <2>5 DEF WorkerStay
    <2>6. CASE WorkerWait(w)      BY <2>6 DEF WorkerWait
    <2>7. CASE WorkerBreak(w)     BY <2>7 DEF WorkerBreak
    <2>8. CASE SpuriousWake(w)    BY <2>8 DEF SpuriousWake
    <2>9. CASE WorkerRelock(w)    BY <2>9 DEF WorkerRelock
    <2>10. CASE WorkerWoken(w)    BY <2>10 DEF WorkerWoken
    <2>11. CASE TaskReturn(w)     BY <2>11 DEF TaskReturn
    <2>12. CASE TaskFree(w)       BY <2>12 DEF TaskFree
    <2>13. QED
      BY <1>1, <2>1, <2>2, <2>3, <2>4, <2>5, <2>6, <2>7, <2>8, <2>9, <2>10,
         <2>11, <2>12
      DEF WorkerAct, WorkerStep
  <1>2. ASSUME NEW t \in Threads, CallAct(t) PROVE MutexHeld'
    <2>1. ASSUME NEW k \in Tasks, AddCall(t, k) PROVE MutexHeld'
      BY <2>1 DEF AddCall, MayCall, Home
    <2>2. CASE AddRefuse(t)       BY <2>2 DEF AddRefuse, Home
    <2>3. CASE AddAdmit(t)        BY <2>3 DEF AddAdmit
    <2>4. CASE AddLock(t)         BY <2>4 DEF AddLock
    <2>5. CASE AddPush(t)         BY <2>5 DEF AddPush, Signal
    <2>6. CASE AddUnlock(t)       BY <2>6 DEF AddUnlock, Home
    <2>7. QED
      BY <1>2, <2>1, <2>2, <2>3, <2>4, <2>5, <2>6
      DEF CallAct, AddStep
  <1>3. CASE OwnerAct
    <2>1. ASSUME NEW w \in Workers, Spawn(w) PROVE MutexHeld'
      BY <2>1 DEF Spawn
    <2>2. CASE CreateReturn       BY <2>2 DEF CreateReturn
    <2>3. CASE PollCall           BY <2>3 DEF PollCall
    <2>4. CASE PollLock           BY <2>4 DEF PollLock
    <2>5. CASE PollReturn         BY <2>5 DEF PollReturn
    <2>6. CASE StopSet            BY <2>6 DEF StopSet
    <2>7. CASE StopLock           BY <2>7 DEF StopLock
    <2>8. CASE StopBroadcast      BY <2>8 DEF StopBroadcast
    <2>9. CASE StopJoin           BY <2>9 DEF StopJoin
    <2>10. CASE StopDestroy       BY <2>10 DEF StopDestroy
    <2>11. QED
      BY <1>3, <2>1, <2>2, <2>3, <2>4, <2>5, <2>6, <2>7, <2>8, <2>9, <2>10
      DEF OwnerAct, OwnerStep
  <1>4. CASE UNCHANGED vars       BY <1>4 DEF vars
  <1>5. QED BY <1>1, <1>2, <1>3, <1>4, StepKinds

\* A blocked worker stays at pthread_cond_wait until it is woken.
LEMMA SleepersStep == TypeOK /\ SleepersWait /\ [Next]_vars => SleepersWait'
  <1> SUFFICES ASSUME TypeOK, SleepersWait, [Next]_vars PROVE SleepersWait'
    OBVIOUS
  <1> USE ThreadPoolAssumption
      DEF TypeOK, SleepersWait, Step, WorkerLabels, ClientLabels, OwnerLabels,
          StopLabels, AddLabels, Threads, pool, sync, local, history, Acquire,
          Release
  <1>1. ASSUME NEW w \in Workers, WorkerAct(w) PROVE SleepersWait'
    <2>1. CASE WorkerHead(w)      BY <2>1 DEF WorkerHead
    <2>2. CASE WorkerLock(w)      BY <2>2 DEF WorkerLock
    <2>3. CASE WorkerPop(w)       BY <2>3 DEF WorkerPop
    <2>4. CASE WorkerFindsNone(w) BY <2>4 DEF WorkerFindsNone
    <2>5. CASE WorkerStay(w)      BY <2>5 DEF WorkerStay
    <2>6. CASE WorkerWait(w)      BY <2>6 DEF WorkerWait
    <2>7. CASE WorkerBreak(w)     BY <2>7 DEF WorkerBreak
    <2>8. CASE SpuriousWake(w)    BY <2>8 DEF SpuriousWake
    <2>9. CASE WorkerRelock(w)    BY <2>9 DEF WorkerRelock
    <2>10. CASE WorkerWoken(w)    BY <2>10 DEF WorkerWoken
    <2>11. CASE TaskReturn(w)     BY <2>11 DEF TaskReturn
    <2>12. CASE TaskFree(w)       BY <2>12 DEF TaskFree
    <2>13. QED
      BY <1>1, <2>1, <2>2, <2>3, <2>4, <2>5, <2>6, <2>7, <2>8, <2>9, <2>10,
         <2>11, <2>12
      DEF WorkerAct, WorkerStep
  <1>2. ASSUME NEW t \in Threads, CallAct(t) PROVE SleepersWait'
    <2>1. ASSUME NEW k \in Tasks, AddCall(t, k) PROVE SleepersWait'
      BY <2>1 DEF AddCall, MayCall, Home
    <2>2. CASE AddRefuse(t)       BY <2>2 DEF AddRefuse, Home
    <2>3. CASE AddAdmit(t)        BY <2>3 DEF AddAdmit
    <2>4. CASE AddLock(t)         BY <2>4 DEF AddLock
    <2>5. CASE AddPush(t)         BY <2>5 DEF AddPush, Signal
    <2>6. CASE AddUnlock(t)       BY <2>6 DEF AddUnlock, Home
    <2>7. QED
      BY <1>2, <2>1, <2>2, <2>3, <2>4, <2>5, <2>6
      DEF CallAct, AddStep
  <1>3. CASE OwnerAct
    <2>1. ASSUME NEW w \in Workers, Spawn(w) PROVE SleepersWait'
      BY <2>1 DEF Spawn
    <2>2. CASE CreateReturn       BY <2>2 DEF CreateReturn
    <2>3. CASE PollCall           BY <2>3 DEF PollCall
    <2>4. CASE PollLock           BY <2>4 DEF PollLock
    <2>5. CASE PollReturn         BY <2>5 DEF PollReturn
    <2>6. CASE StopSet            BY <2>6 DEF StopSet
    <2>7. CASE StopLock           BY <2>7 DEF StopLock
    <2>8. CASE StopBroadcast      BY <2>8 DEF StopBroadcast
    <2>9. CASE StopJoin           BY <2>9 DEF StopJoin
    <2>10. CASE StopDestroy       BY <2>10 DEF StopDestroy
    <2>11. QED
      BY <1>3, <2>1, <2>2, <2>3, <2>4, <2>5, <2>6, <2>7, <2>8, <2>9, <2>10
      DEF OwnerAct, OwnerStep
  <1>4. CASE UNCHANGED vars       BY <1>4 DEF vars
  <1>5. QED BY <1>1, <1>2, <1>3, <1>4, StepKinds

\* status and alive change with the owner's place in thread_pool_stop.
LEMMA PhaseStep == TypeOK /\ PhaseFollows /\ [Next]_vars => PhaseFollows'
  <1> SUFFICES ASSUME TypeOK, PhaseFollows, [Next]_vars PROVE PhaseFollows'
    OBVIOUS
  <1> USE ThreadPoolAssumption
      DEF TypeOK, PhaseFollows, Step, WorkerLabels, ClientLabels, OwnerLabels,
          StopLabels, AddLabels, Threads, pool, sync, local, history, Acquire,
          Release
  <1>1. ASSUME NEW w \in Workers, WorkerAct(w) PROVE PhaseFollows'
    <2>1. CASE WorkerHead(w)      BY <2>1 DEF WorkerHead
    <2>2. CASE WorkerLock(w)      BY <2>2 DEF WorkerLock
    <2>3. CASE WorkerPop(w)       BY <2>3 DEF WorkerPop
    <2>4. CASE WorkerFindsNone(w) BY <2>4 DEF WorkerFindsNone
    <2>5. CASE WorkerStay(w)      BY <2>5 DEF WorkerStay
    <2>6. CASE WorkerWait(w)      BY <2>6 DEF WorkerWait
    <2>7. CASE WorkerBreak(w)     BY <2>7 DEF WorkerBreak
    <2>8. CASE SpuriousWake(w)    BY <2>8 DEF SpuriousWake
    <2>9. CASE WorkerRelock(w)    BY <2>9 DEF WorkerRelock
    <2>10. CASE WorkerWoken(w)    BY <2>10 DEF WorkerWoken
    <2>11. CASE TaskReturn(w)     BY <2>11 DEF TaskReturn
    <2>12. CASE TaskFree(w)       BY <2>12 DEF TaskFree
    <2>13. QED
      BY <1>1, <2>1, <2>2, <2>3, <2>4, <2>5, <2>6, <2>7, <2>8, <2>9, <2>10,
         <2>11, <2>12
      DEF WorkerAct, WorkerStep
  <1>2. ASSUME NEW t \in Threads, CallAct(t) PROVE PhaseFollows'
    <2>1. ASSUME NEW k \in Tasks, AddCall(t, k) PROVE PhaseFollows'
      BY <2>1 DEF AddCall, MayCall, Home
    <2>2. CASE AddRefuse(t)       BY <2>2 DEF AddRefuse, Home
    <2>3. CASE AddAdmit(t)        BY <2>3 DEF AddAdmit
    <2>4. CASE AddLock(t)         BY <2>4 DEF AddLock
    <2>5. CASE AddPush(t)         BY <2>5 DEF AddPush, Signal
    <2>6. CASE AddUnlock(t)       BY <2>6 DEF AddUnlock, Home
    <2>7. QED
      BY <1>2, <2>1, <2>2, <2>3, <2>4, <2>5, <2>6
      DEF CallAct, AddStep
  <1>3. CASE OwnerAct
    <2>1. ASSUME NEW w \in Workers, Spawn(w) PROVE PhaseFollows'
      BY <2>1 DEF Spawn
    <2>2. CASE CreateReturn       BY <2>2 DEF CreateReturn
    <2>3. CASE PollCall           BY <2>3 DEF PollCall
    <2>4. CASE PollLock           BY <2>4 DEF PollLock
    <2>5. CASE PollReturn         BY <2>5 DEF PollReturn
    <2>6. CASE StopSet            BY <2>6 DEF StopSet
    <2>7. CASE StopLock           BY <2>7 DEF StopLock
    <2>8. CASE StopBroadcast      BY <2>8 DEF StopBroadcast
    <2>9. CASE StopJoin           BY <2>9 DEF StopJoin
    <2>10. CASE StopDestroy       BY <2>10 DEF StopDestroy
    <2>11. QED
      BY <1>3, <2>1, <2>2, <2>3, <2>4, <2>5, <2>6, <2>7, <2>8, <2>9, <2>10
      DEF OwnerAct, OwnerStep
  <1>4. CASE UNCHANGED vars       BY <1>4 DEF vars
  <1>5. QED BY <1>1, <1>2, <1>3, <1>4, StepKinds

\* Nobody pushes while a worker that found no task holds the mutex.
LEMMA SawEmptyStep ==
    TypeOK /\ MutexHeld /\ SawEmpty /\ [Next]_vars => SawEmpty'
  <1> SUFFICES ASSUME TypeOK, MutexHeld, SawEmpty, [Next]_vars PROVE SawEmpty'
    OBVIOUS
  <1> USE ThreadPoolAssumption
      DEF TypeOK, MutexHeld, Critical, SawEmpty, Step, WorkerLabels,
          ClientLabels, OwnerLabels, StopLabels, AddLabels, Threads, pool,
          sync, local, history, Acquire, Release
  <1>1. ASSUME NEW w \in Workers, WorkerAct(w) PROVE SawEmpty'
    <2>1. CASE WorkerHead(w)      BY <2>1 DEF WorkerHead
    <2>2. CASE WorkerLock(w)      BY <2>2 DEF WorkerLock
    <2>3. CASE WorkerPop(w)       BY <2>3 DEF WorkerPop
    <2>4. CASE WorkerFindsNone(w) BY <2>4 DEF WorkerFindsNone
    <2>5. CASE WorkerStay(w)      BY <2>5 DEF WorkerStay
    <2>6. CASE WorkerWait(w)      BY <2>6 DEF WorkerWait
    <2>7. CASE WorkerBreak(w)     BY <2>7 DEF WorkerBreak
    <2>8. CASE SpuriousWake(w)    BY <2>8 DEF SpuriousWake
    <2>9. CASE WorkerRelock(w)    BY <2>9 DEF WorkerRelock
    <2>10. CASE WorkerWoken(w)    BY <2>10 DEF WorkerWoken
    <2>11. CASE TaskReturn(w)     BY <2>11 DEF TaskReturn
    <2>12. CASE TaskFree(w)       BY <2>12 DEF TaskFree
    <2>13. QED
      BY <1>1, <2>1, <2>2, <2>3, <2>4, <2>5, <2>6, <2>7, <2>8, <2>9, <2>10,
         <2>11, <2>12
      DEF WorkerAct, WorkerStep
  <1>2. ASSUME NEW t \in Threads, CallAct(t) PROVE SawEmpty'
    <2>1. ASSUME NEW k \in Tasks, AddCall(t, k) PROVE SawEmpty'
      BY <2>1 DEF AddCall, MayCall, Home
    <2>2. CASE AddRefuse(t)       BY <2>2 DEF AddRefuse, Home
    <2>3. CASE AddAdmit(t)        BY <2>3 DEF AddAdmit
    <2>4. CASE AddLock(t)         BY <2>4 DEF AddLock
    <2>5. CASE AddPush(t)         BY <2>5 DEF AddPush, Signal
    <2>6. CASE AddUnlock(t)       BY <2>6 DEF AddUnlock, Home
    <2>7. QED
      BY <1>2, <2>1, <2>2, <2>3, <2>4, <2>5, <2>6
      DEF CallAct, AddStep
  <1>3. CASE OwnerAct
    <2>1. ASSUME NEW w \in Workers, Spawn(w) PROVE SawEmpty'
      BY <2>1 DEF Spawn
    <2>2. CASE CreateReturn       BY <2>2 DEF CreateReturn
    <2>3. CASE PollCall           BY <2>3 DEF PollCall
    <2>4. CASE PollLock           BY <2>4 DEF PollLock
    <2>5. CASE PollReturn         BY <2>5 DEF PollReturn
    <2>6. CASE StopSet            BY <2>6 DEF StopSet
    <2>7. CASE StopLock           BY <2>7 DEF StopLock
    <2>8. CASE StopBroadcast      BY <2>8 DEF StopBroadcast
    <2>9. CASE StopJoin           BY <2>9 DEF StopJoin
    <2>10. CASE StopDestroy       BY <2>10 DEF StopDestroy
    <2>11. QED
      BY <1>3, <2>1, <2>2, <2>3, <2>4, <2>5, <2>6, <2>7, <2>8, <2>9, <2>10
      DEF OwnerAct, OwnerStep
  <1>4. CASE UNCHANGED vars       BY <1>4 DEF vars
  <1>5. QED BY <1>1, <1>2, <1>3, <1>4, StepKinds

\* The broadcast needs the mutex, and after it RUNNING is not read again.
LEMMA NoneEntersStep ==
    TypeOK /\ Control /\ NoneEnters /\ [Next]_vars => NoneEnters'
  <1> SUFFICES ASSUME TypeOK, MutexHeld, PhaseFollows, NoneEnters, [Next]_vars
               PROVE  NoneEnters'
    BY DEF Control
  <1> USE ThreadPoolAssumption
      DEF TypeOK, MutexHeld, Critical, PhaseFollows, NoneEnters, Step,
          WorkerLabels, ClientLabels, OwnerLabels, StopLabels, AddLabels,
          Threads, pool, sync, local, history, Acquire, Release
  <1>1. ASSUME NEW w \in Workers, WorkerAct(w) PROVE NoneEnters'
    <2>1. CASE WorkerHead(w)      BY <2>1 DEF WorkerHead
    <2>2. CASE WorkerLock(w)      BY <2>2 DEF WorkerLock
    <2>3. CASE WorkerPop(w)       BY <2>3 DEF WorkerPop
    <2>4. CASE WorkerFindsNone(w) BY <2>4 DEF WorkerFindsNone
    <2>5. CASE WorkerStay(w)      BY <2>5 DEF WorkerStay
    <2>6. CASE WorkerWait(w)      BY <2>6 DEF WorkerWait
    <2>7. CASE WorkerBreak(w)     BY <2>7 DEF WorkerBreak
    <2>8. CASE SpuriousWake(w)    BY <2>8 DEF SpuriousWake
    <2>9. CASE WorkerRelock(w)    BY <2>9 DEF WorkerRelock
    <2>10. CASE WorkerWoken(w)    BY <2>10 DEF WorkerWoken
    <2>11. CASE TaskReturn(w)     BY <2>11 DEF TaskReturn
    <2>12. CASE TaskFree(w)       BY <2>12 DEF TaskFree
    <2>13. QED
      BY <1>1, <2>1, <2>2, <2>3, <2>4, <2>5, <2>6, <2>7, <2>8, <2>9, <2>10,
         <2>11, <2>12
      DEF WorkerAct, WorkerStep
  <1>2. ASSUME NEW t \in Threads, CallAct(t) PROVE NoneEnters'
    <2>1. ASSUME NEW k \in Tasks, AddCall(t, k) PROVE NoneEnters'
      BY <2>1 DEF AddCall, MayCall, Home
    <2>2. CASE AddRefuse(t)       BY <2>2 DEF AddRefuse, Home
    <2>3. CASE AddAdmit(t)        BY <2>3 DEF AddAdmit
    <2>4. CASE AddLock(t)         BY <2>4 DEF AddLock
    <2>5. CASE AddPush(t)         BY <2>5 DEF AddPush, Signal
    <2>6. CASE AddUnlock(t)       BY <2>6 DEF AddUnlock, Home
    <2>7. QED
      BY <1>2, <2>1, <2>2, <2>3, <2>4, <2>5, <2>6
      DEF CallAct, AddStep
  <1>3. CASE OwnerAct
    <2>1. ASSUME NEW w \in Workers, Spawn(w) PROVE NoneEnters'
      BY <2>1 DEF Spawn
    <2>2. CASE CreateReturn       BY <2>2 DEF CreateReturn
    <2>3. CASE PollCall           BY <2>3 DEF PollCall
    <2>4. CASE PollLock           BY <2>4 DEF PollLock
    <2>5. CASE PollReturn         BY <2>5 DEF PollReturn
    <2>6. CASE StopSet            BY <2>6 DEF StopSet
    <2>7. CASE StopLock           BY <2>7 DEF StopLock
    <2>8. CASE StopBroadcast      BY <2>8 DEF StopBroadcast
    <2>9. CASE StopJoin           BY <2>9 DEF StopJoin
    <2>10. CASE StopDestroy       BY <2>10 DEF StopDestroy
    <2>11. QED
      BY <1>3, <2>1, <2>2, <2>3, <2>4, <2>5, <2>6, <2>7, <2>8, <2>9, <2>10
      DEF OwnerAct, OwnerStep
  <1>4. CASE UNCHANGED vars       BY <1>4 DEF vars
  <1>5. QED BY <1>1, <1>2, <1>3, <1>4, StepKinds

\* The broadcast wakes all, and with NoneEnters nobody blocks again.
LEMMA NoSleeperStep ==
    /\ TypeOK /\ Control /\ NoneEnters /\ NoSleeperAfterBroadcast
    /\ [Next]_vars
    => NoSleeperAfterBroadcast'
  <1> SUFFICES ASSUME TypeOK, NoneEnters, NoSleeperAfterBroadcast, [Next]_vars
               PROVE  NoSleeperAfterBroadcast'
    OBVIOUS
  <1> USE ThreadPoolAssumption
      DEF TypeOK, NoneEnters, NoSleeperAfterBroadcast, Step, WorkerLabels,
          ClientLabels, OwnerLabels, StopLabels, AddLabels, Threads, pool,
          sync, local, history, Acquire, Release
  <1>1. ASSUME NEW w \in Workers, WorkerAct(w) PROVE NoSleeperAfterBroadcast'
    <2>1. CASE WorkerHead(w)      BY <2>1 DEF WorkerHead
    <2>2. CASE WorkerLock(w)      BY <2>2 DEF WorkerLock
    <2>3. CASE WorkerPop(w)       BY <2>3 DEF WorkerPop
    <2>4. CASE WorkerFindsNone(w) BY <2>4 DEF WorkerFindsNone
    <2>5. CASE WorkerStay(w)      BY <2>5 DEF WorkerStay
    <2>6. CASE WorkerWait(w)      BY <2>6 DEF WorkerWait
    <2>7. CASE WorkerBreak(w)     BY <2>7 DEF WorkerBreak
    <2>8. CASE SpuriousWake(w)    BY <2>8 DEF SpuriousWake
    <2>9. CASE WorkerRelock(w)    BY <2>9 DEF WorkerRelock
    <2>10. CASE WorkerWoken(w)    BY <2>10 DEF WorkerWoken
    <2>11. CASE TaskReturn(w)     BY <2>11 DEF TaskReturn
    <2>12. CASE TaskFree(w)       BY <2>12 DEF TaskFree
    <2>13. QED
      BY <1>1, <2>1, <2>2, <2>3, <2>4, <2>5, <2>6, <2>7, <2>8, <2>9, <2>10,
         <2>11, <2>12
      DEF WorkerAct, WorkerStep
  <1>2. ASSUME NEW t \in Threads, CallAct(t) PROVE NoSleeperAfterBroadcast'
    <2>1. ASSUME NEW k \in Tasks, AddCall(t, k) PROVE NoSleeperAfterBroadcast'
      BY <2>1 DEF AddCall, MayCall, Home
    <2>2. CASE AddRefuse(t)       BY <2>2 DEF AddRefuse, Home
    <2>3. CASE AddAdmit(t)        BY <2>3 DEF AddAdmit
    <2>4. CASE AddLock(t)         BY <2>4 DEF AddLock
    <2>5. CASE AddPush(t)         BY <2>5 DEF AddPush, Signal
    <2>6. CASE AddUnlock(t)       BY <2>6 DEF AddUnlock, Home
    <2>7. QED
      BY <1>2, <2>1, <2>2, <2>3, <2>4, <2>5, <2>6
      DEF CallAct, AddStep
  <1>3. CASE OwnerAct
    <2>1. ASSUME NEW w \in Workers, Spawn(w) PROVE NoSleeperAfterBroadcast'
      BY <2>1 DEF Spawn
    <2>2. CASE CreateReturn       BY <2>2 DEF CreateReturn
    <2>3. CASE PollCall           BY <2>3 DEF PollCall
    <2>4. CASE PollLock           BY <2>4 DEF PollLock
    <2>5. CASE PollReturn         BY <2>5 DEF PollReturn
    <2>6. CASE StopSet            BY <2>6 DEF StopSet
    <2>7. CASE StopLock           BY <2>7 DEF StopLock
    <2>8. CASE StopBroadcast      BY <2>8 DEF StopBroadcast
    <2>9. CASE StopJoin           BY <2>9 DEF StopJoin
    <2>10. CASE StopDestroy       BY <2>10 DEF StopDestroy
    <2>11. QED
      BY <1>3, <2>1, <2>2, <2>3, <2>4, <2>5, <2>6, <2>7, <2>8, <2>9, <2>10
      DEF OwnerAct, OwnerStep
  <1>4. CASE UNCHANGED vars       BY <1>4 DEF vars
  <1>5. QED BY <1>1, <1>2, <1>3, <1>4, StepKinds

-----------------------------------------------------------------------------
(* Where the tasks are.                                                     *)

\* A call brings a new task, and only its own push or refusal makes it known.
LEMMA ArgFreshStep == TypeOK /\ InHand /\ ArgFresh /\ [Next]_vars => ArgFresh'
  <1> SUFFICES ASSUME TypeOK, InHand, ArgFresh, [Next]_vars PROVE ArgFresh'
    OBVIOUS
  <1> USE ThreadPoolAssumption
      DEF TypeOK, InHand, ArgFresh, Accepted, Step, WorkerLabels,
          ClientLabels, OwnerLabels, StopLabels, AddLabels, Threads, pool,
          sync, local, history, Acquire, Release
  <1>1. ASSUME NEW w \in Workers, WorkerAct(w) PROVE ArgFresh'
    <2>1. CASE WorkerHead(w)      BY <2>1 DEF WorkerHead
    <2>2. CASE WorkerLock(w)      BY <2>2 DEF WorkerLock
    <2>3. CASE WorkerPop(w)       BY <2>3 DEF WorkerPop
    <2>4. CASE WorkerFindsNone(w) BY <2>4 DEF WorkerFindsNone
    <2>5. CASE WorkerStay(w)      BY <2>5 DEF WorkerStay
    <2>6. CASE WorkerWait(w)      BY <2>6 DEF WorkerWait
    <2>7. CASE WorkerBreak(w)     BY <2>7 DEF WorkerBreak
    <2>8. CASE SpuriousWake(w)    BY <2>8 DEF SpuriousWake
    <2>9. CASE WorkerRelock(w)    BY <2>9 DEF WorkerRelock
    <2>10. CASE WorkerWoken(w)    BY <2>10 DEF WorkerWoken
    <2>11. CASE TaskReturn(w)     BY <2>11 DEF TaskReturn
    <2>12. CASE TaskFree(w)       BY <2>12 DEF TaskFree
    <2>13. QED
      BY <1>1, <2>1, <2>2, <2>3, <2>4, <2>5, <2>6, <2>7, <2>8, <2>9, <2>10,
         <2>11, <2>12
      DEF WorkerAct, WorkerStep
  <1>2. ASSUME NEW t \in Threads, CallAct(t) PROVE ArgFresh'
    <2>1. ASSUME NEW k \in Tasks, AddCall(t, k) PROVE ArgFresh'
      BY <2>1 DEF AddCall, MayCall, Home, Fresh
    <2>2. CASE AddRefuse(t)       BY <2>2 DEF AddRefuse, Home
    <2>3. CASE AddAdmit(t)        BY <2>3 DEF AddAdmit
    <2>4. CASE AddLock(t)         BY <2>4 DEF AddLock
    <2>5. CASE AddPush(t)         BY <2>5 DEF AddPush, Signal
    <2>6. CASE AddUnlock(t)       BY <2>6 DEF AddUnlock, Home
    <2>7. QED
      BY <1>2, <2>1, <2>2, <2>3, <2>4, <2>5, <2>6
      DEF CallAct, AddStep
  <1>3. CASE OwnerAct
    <2>1. ASSUME NEW w \in Workers, Spawn(w) PROVE ArgFresh'
      BY <2>1 DEF Spawn
    <2>2. CASE CreateReturn       BY <2>2 DEF CreateReturn
    <2>3. CASE PollCall           BY <2>3 DEF PollCall
    <2>4. CASE PollLock           BY <2>4 DEF PollLock
    <2>5. CASE PollReturn         BY <2>5 DEF PollReturn
    <2>6. CASE StopSet            BY <2>6 DEF StopSet
    <2>7. CASE StopLock           BY <2>7 DEF StopLock
    <2>8. CASE StopBroadcast      BY <2>8 DEF StopBroadcast
    <2>9. CASE StopJoin           BY <2>9 DEF StopJoin
    <2>10. CASE StopDestroy       BY <2>10 DEF StopDestroy
    <2>11. QED
      BY <1>3, <2>1, <2>2, <2>3, <2>4, <2>5, <2>6, <2>7, <2>8, <2>9, <2>10
      DEF OwnerAct, OwnerStep
  <1>4. CASE UNCHANGED vars       BY <1>4 DEF vars
  <1>5. QED BY <1>1, <1>2, <1>3, <1>4, StepKinds

\* Pop, free and push move a task from one place to the next.
LEMMA ConservedStep ==
    TypeOK /\ InHand /\ ArgFresh /\ TasksConserved /\ [Next]_vars
    => TasksConserved'
  <1> SUFFICES ASSUME TypeOK, InHand, ArgFresh, TasksConserved, [Next]_vars
               PROVE  TasksConserved'
    OBVIOUS
  <1> USE ThreadPoolAssumption
      DEF TypeOK, Step, WorkerLabels, ClientLabels, OwnerLabels, StopLabels,
          AddLabels, Threads, pool, sync, local, history, Acquire, Release
  <1>1. ASSUME NEW w \in Workers, WorkerAct(w) PROVE TasksConserved'
    <2>1. CASE WorkerHead(w)
      BY <2>1 DEF WorkerHead, TasksConserved, Accepted, Running
    <2>2. CASE WorkerLock(w)
      BY <2>2 DEF WorkerLock, TasksConserved, Accepted, Running
    <2>3. CASE WorkerPop(w)
      <3>1. /\ ToSet(stack) = ToSet(stack') \cup {Last(stack)}
            /\ Last(stack) \notin ToSet(stack') /\ IsInjective(stack')
        BY <2>3, PopSet DEF WorkerPop, TasksConserved
      <3>2. Last(stack) \in Tasks /\ task[w] = None
        BY <2>3, PopType DEF WorkerPop, InHand
      <3>3. Running' = Running \cup {Last(stack)}
        BY <2>3, <3>2 DEF WorkerPop, Running
      <3>4. QED
        BY <2>3, <3>1, <3>2, <3>3 DEF WorkerPop, TasksConserved, Accepted,
           Running
    <2>4. CASE WorkerFindsNone(w)
      BY <2>4 DEF WorkerFindsNone, TasksConserved, Accepted, Running
    <2>5. CASE WorkerStay(w)
      BY <2>5 DEF WorkerStay, TasksConserved, Accepted, Running
    <2>6. CASE WorkerWait(w)
      BY <2>6 DEF WorkerWait, TasksConserved, Accepted, Running
    <2>7. CASE WorkerBreak(w)
      BY <2>7 DEF WorkerBreak, TasksConserved, Accepted, Running
    <2>8. CASE SpuriousWake(w)
      BY <2>8 DEF SpuriousWake, TasksConserved, Accepted, Running
    <2>9. CASE WorkerRelock(w)
      BY <2>9 DEF WorkerRelock, TasksConserved, Accepted, Running
    <2>10. CASE WorkerWoken(w)
      BY <2>10 DEF WorkerWoken, TasksConserved, Accepted, Running
    <2>11. CASE TaskReturn(w)
      BY <2>11 DEF TaskReturn, TasksConserved, Accepted, Running
    <2>12. CASE TaskFree(w)
      <3>1. task[w] \in Running /\ Running' = Running \ {task[w]}
        BY <2>12 DEF TaskFree, InHand, Running, TasksConserved
      <3>2. QED
        BY <2>12, <3>1 DEF TaskFree, TasksConserved, Accepted
    <2>13. QED
      BY <1>1, <2>1, <2>2, <2>3, <2>4, <2>5, <2>6, <2>7, <2>8, <2>9, <2>10,
         <2>11, <2>12
      DEF WorkerAct, WorkerStep
  <1>2. ASSUME NEW t \in Threads, CallAct(t) PROVE TasksConserved'
    <2>1. ASSUME NEW k \in Tasks, AddCall(t, k) PROVE TasksConserved'
      BY <2>1 DEF AddCall, TasksConserved, Accepted, Running, MayCall, Home
    <2>2. CASE AddRefuse(t)
      BY <2>2 DEF AddRefuse, TasksConserved, Accepted, Running
    <2>3. CASE AddAdmit(t)
      BY <2>3 DEF AddAdmit, TasksConserved, Accepted, Running
    <2>4. CASE AddLock(t)
      BY <2>4 DEF AddLock, TasksConserved, Accepted, Running
    <2>5. CASE AddPush(t)
      <3>1. arg[t] \in Tasks \ Accepted
        BY <2>5 DEF AddPush, InHand, ArgFresh
      <3>2. /\ ToSet(stack') = ToSet(stack) \cup {arg[t]}
            /\ IsInjective(stack')
        BY <2>5, <3>1, PushSet DEF AddPush, TasksConserved
      <3>3. Accepted' = Accepted \cup {arg[t]}
        BY <2>5, <3>1 DEF AddPush, Accepted
      <3>4. Running' = Running
        BY <2>5 DEF AddPush, Running
      <3>5. QED
        BY <2>5, <3>1, <3>2, <3>3, <3>4 DEF AddPush, TasksConserved
    <2>6. CASE AddUnlock(t)
      BY <2>6 DEF AddUnlock, TasksConserved, Accepted, Running
    <2>7. QED
      BY <1>2, <2>1, <2>2, <2>3, <2>4, <2>5, <2>6
      DEF CallAct, AddStep
  <1>3. CASE OwnerAct
    <2>1. ASSUME NEW w \in Workers, Spawn(w) PROVE TasksConserved'
      BY <2>1 DEF Spawn, TasksConserved, Accepted, Running
    <2>2. CASE CreateReturn
      BY <2>2 DEF CreateReturn, TasksConserved, Accepted, Running
    <2>3. CASE PollCall
      BY <2>3 DEF PollCall, TasksConserved, Accepted, Running
    <2>4. CASE PollLock
      BY <2>4 DEF PollLock, TasksConserved, Accepted, Running
    <2>5. CASE PollReturn
      BY <2>5 DEF PollReturn, TasksConserved, Accepted, Running
    <2>6. CASE StopSet
      BY <2>6 DEF StopSet, TasksConserved, Accepted, Running
    <2>7. CASE StopLock
      BY <2>7 DEF StopLock, TasksConserved, Accepted, Running
    <2>8. CASE StopBroadcast
      BY <2>8 DEF StopBroadcast, TasksConserved, Accepted, Running
    <2>9. CASE StopJoin
      BY <2>9 DEF StopJoin, TasksConserved, Accepted, Running
    <2>10. CASE StopDestroy
      BY <2>10 DEF StopDestroy, TasksConserved, Accepted, Running
    <2>11. QED
      BY <1>3, <2>1, <2>2, <2>3, <2>4, <2>5, <2>6, <2>7, <2>8, <2>9, <2>10
      DEF OwnerAct, OwnerStep
  <1>4. CASE UNCHANGED vars
    BY <1>4 DEF vars, TasksConserved, Accepted, Running
  <1>5. QED BY <1>1, <1>2, <1>3, <1>4, StepKinds

-----------------------------------------------------------------------------
(* What holds when the pool is quiet, and when it is freed.                 *)

\* When all workers count as idle and the stack is empty, no worker has a task.
LEMMA QuiescentStep ==
    /\ TypeOK /\ IdlesCountWaiters /\ InHand /\ Quiescent /\ [Next]_vars
    => Quiescent'
  <1> SUFFICES ASSUME TypeOK, IdlesCountWaiters, InHand, Quiescent, [Next]_vars
               PROVE  Quiescent'
    BY DEF Quiescent
  <1> USE ThreadPoolAssumption
      DEF TypeOK, InHand, Quiescent, Step, WorkerLabels, ClientLabels,
          OwnerLabels, StopLabels, AddLabels, Threads, pool, sync, local,
          history, Acquire, Release
  <1>1. ASSUME NEW w \in Workers, WorkerAct(w) PROVE Quiescent'
    <2>1. CASE WorkerHead(w)      BY <2>1 DEF WorkerHead
    <2>2. CASE WorkerLock(w)      BY <2>2 DEF WorkerLock
    <2>3. CASE WorkerPop(w)       BY <2>3 DEF WorkerPop
    <2>4. CASE WorkerFindsNone(w) BY <2>4 DEF WorkerFindsNone
    <2>5. CASE WorkerStay(w)      BY <2>5 DEF WorkerStay
    <2>6. CASE WorkerWait(w)      BY <2>6 DEF WorkerWait
    <2>7. CASE WorkerBreak(w)     BY <2>7 DEF WorkerBreak
    <2>8. CASE SpuriousWake(w)    BY <2>8 DEF SpuriousWake
    <2>9. CASE WorkerRelock(w)    BY <2>9 DEF WorkerRelock
    <2>10. CASE WorkerWoken(w)    BY <2>10 DEF WorkerWoken
    <2>11. CASE TaskReturn(w)     BY <2>11 DEF TaskReturn
    <2>12. CASE TaskFree(w)       BY <2>12 DEF TaskFree
    <2>13. QED
      BY <1>1, <2>1, <2>2, <2>3, <2>4, <2>5, <2>6, <2>7, <2>8, <2>9, <2>10,
         <2>11, <2>12
      DEF WorkerAct, WorkerStep
  <1>2. ASSUME NEW t \in Threads, CallAct(t) PROVE Quiescent'
    <2>1. ASSUME NEW k \in Tasks, AddCall(t, k) PROVE Quiescent'
      BY <2>1 DEF AddCall, MayCall, Home
    <2>2. CASE AddRefuse(t)       BY <2>2 DEF AddRefuse, Home
    <2>3. CASE AddAdmit(t)        BY <2>3 DEF AddAdmit
    <2>4. CASE AddLock(t)         BY <2>4 DEF AddLock
    <2>5. CASE AddPush(t)         BY <2>5 DEF AddPush, Signal
    <2>6. CASE AddUnlock(t)       BY <2>6 DEF AddUnlock, Home
    <2>7. QED
      BY <1>2, <2>1, <2>2, <2>3, <2>4, <2>5, <2>6
      DEF CallAct, AddStep
  <1>3. CASE OwnerAct
    <2>1. ASSUME NEW w \in Workers, Spawn(w) PROVE Quiescent'
      BY <2>1 DEF Spawn
    <2>2. CASE CreateReturn       BY <2>2 DEF CreateReturn
    <2>3. CASE PollCall           BY <2>3 DEF PollCall
    <2>4. CASE PollLock           BY <2>4 DEF PollLock
    <2>5. CASE PollReturn

      <3>1. ASSUME quiet' PROVE Idle = Workers /\ stack = <<>>
        BY <2>5, <3>1, FS_Subset DEF PollReturn, IdlesCountWaiters, Idle, size
      <3>2. QED BY <2>5, <3>1 DEF PollReturn, Idle
    <2>6. CASE StopSet            BY <2>6 DEF StopSet
    <2>7. CASE StopLock           BY <2>7 DEF StopLock
    <2>8. CASE StopBroadcast      BY <2>8 DEF StopBroadcast
    <2>9. CASE StopJoin           BY <2>9 DEF StopJoin
    <2>10. CASE StopDestroy       BY <2>10 DEF StopDestroy
    <2>11. QED
      BY <1>3, <2>1, <2>2, <2>3, <2>4, <2>5, <2>6, <2>7, <2>8, <2>9, <2>10
      DEF OwnerAct, OwnerStep
  <1>4. CASE UNCHANGED vars       BY <1>4 DEF vars
  <1>5. QED BY <1>1, <1>2, <1>3, <1>4, StepKinds

\* The last worker leaves an empty stack; only a late client pushes after it.
LEMMA DrainedStep ==
    /\ TypeOK /\ InHand /\ ArgFresh /\ PhaseFollows /\ SawEmpty
    /\ TasksConserved /\ Drained /\ [Next]_vars
    => Drained'
  <1> SUFFICES ASSUME TypeOK, InHand, ArgFresh, PhaseFollows, SawEmpty,
                      TasksConserved, Drained, [Next]_vars
               PROVE  Drained'
    OBVIOUS
  <1> USE ThreadPoolAssumption
      DEF TypeOK, PhaseFollows, Drained, Late, Step, WorkerLabels,
          ClientLabels, OwnerLabels, StopLabels, AddLabels, Threads, pool,
          sync, local, history, Acquire, Release
  <1>1. ASSUME alive, NEW w \in Workers, WorkerAct(w) PROVE Drained'
    <2>1. CASE WorkerHead(w)      BY <1>1, <2>1 DEF WorkerHead
    <2>2. CASE WorkerLock(w)      BY <2>2 DEF WorkerLock
    <2>3. CASE WorkerPop(w)       BY <2>3 DEF WorkerPop
    <2>4. CASE WorkerFindsNone(w) BY <2>4 DEF WorkerFindsNone
    <2>5. CASE WorkerStay(w)      BY <2>5 DEF WorkerStay
    <2>6. CASE WorkerWait(w)      BY <2>6 DEF WorkerWait
    <2>7. CASE WorkerBreak(w)     BY <2>7 DEF WorkerBreak, SawEmpty, ToSet
    <2>8. CASE SpuriousWake(w)    BY <2>8 DEF SpuriousWake
    <2>9. CASE WorkerRelock(w)    BY <2>9 DEF WorkerRelock
    <2>10. CASE WorkerWoken(w)    BY <2>10 DEF WorkerWoken
    <2>11. CASE TaskReturn(w)     BY <2>11 DEF TaskReturn
    <2>12. CASE TaskFree(w)       BY <2>12 DEF TaskFree
    <2>13. QED
      BY <1>1, <2>1, <2>2, <2>3, <2>4, <2>5, <2>6, <2>7, <2>8, <2>9, <2>10,
         <2>11, <2>12
      DEF WorkerAct, WorkerStep
  <1>2. ASSUME NEW t \in Threads, CallAct(t) PROVE Drained'
    <2>1. ASSUME NEW k \in Tasks, AddCall(t, k) PROVE Drained'
      BY <2>1 DEF AddCall, MayCall, Home
    <2>2. CASE AddRefuse(t)       BY <2>2 DEF AddRefuse, Home
    <2>3. CASE AddAdmit(t)        BY <2>3 DEF AddAdmit
    <2>4. CASE AddLock(t)         BY <2>4 DEF AddLock
    <2>5. CASE AddPush(t)

      <3>1. arg[t] \in Tasks \ Accepted
        BY <2>5 DEF AddPush, InHand, ArgFresh
      <3>2. ToSet(stack') = ToSet(stack) \cup {arg[t]}
        BY <2>5, <3>1, PushSet DEF AddPush
      <3>3. \A k \in ToSet(stack) : by'[k] = by[k]
        BY <2>5, <3>1 DEF AddPush, TasksConserved
      <3>4. (\A w \in Workers : pc'[w] = "exited") => Overlap /\ t \in Clients
        <4>1. \A w \in Workers : pc'[w] = "exited" => pc[w] = "exited" /\ w # t
          BY <2>5 DEF AddPush
        <4>2. QED BY <2>5, <4>1 DEF AddPush
      <3>5. by'[arg[t]] = t
        BY <2>5, <3>1 DEF AddPush
      <3>6. (\A w \in Workers : pc'[w] = "exited") =>
               (\A w \in Workers : pc[w] = "exited")
        BY <2>5 DEF AddPush
      <3>7. QED BY <3>2, <3>3, <3>4, <3>5, <3>6
    <2>6. CASE AddUnlock(t)       BY <2>6 DEF AddUnlock, Home
    <2>7. QED
      BY <1>2, <2>1, <2>2, <2>3, <2>4, <2>5, <2>6
      DEF CallAct, AddStep
  <1>3. CASE OwnerAct
    <2>1. ASSUME NEW w \in Workers, Spawn(w) PROVE Drained'
      BY <2>1 DEF Spawn
    <2>2. CASE CreateReturn       BY <2>2 DEF CreateReturn
    <2>3. CASE PollCall           BY <2>3 DEF PollCall
    <2>4. CASE PollLock           BY <2>4 DEF PollLock
    <2>5. CASE PollReturn         BY <2>5 DEF PollReturn
    <2>6. CASE StopSet            BY <2>6 DEF StopSet
    <2>7. CASE StopLock           BY <2>7 DEF StopLock
    <2>8. CASE StopBroadcast      BY <2>8 DEF StopBroadcast
    <2>9. CASE StopJoin           BY <2>9 DEF StopJoin
    <2>10. CASE StopDestroy       BY <2>10 DEF StopDestroy
    <2>11. QED
      BY <1>3, <2>1, <2>2, <2>3, <2>4, <2>5, <2>6, <2>7, <2>8, <2>9, <2>10
      DEF OwnerAct, OwnerStep
  <1>4. CASE UNCHANGED vars       BY <1>4 DEF vars
  <1>5. QED BY <1>1, <1>2, <1>3, <1>4, StepKinds

\* The joins wait for every worker, and none comes back.
LEMMA AllJoinedStep == TypeOK /\ AllJoined /\ [Next]_vars => AllJoined'
  <1> SUFFICES ASSUME TypeOK, AllJoined, [Next]_vars PROVE AllJoined'
    OBVIOUS
  <1> USE ThreadPoolAssumption
      DEF TypeOK, AllJoined, Step, WorkerLabels, ClientLabels, OwnerLabels,
          StopLabels, AddLabels, Threads, pool, sync, local, history, Acquire,
          Release
  <1>1. ASSUME NEW w \in Workers, WorkerAct(w) PROVE AllJoined'
    <2>1. CASE WorkerHead(w)      BY <2>1 DEF WorkerHead
    <2>2. CASE WorkerLock(w)      BY <2>2 DEF WorkerLock
    <2>3. CASE WorkerPop(w)       BY <2>3 DEF WorkerPop
    <2>4. CASE WorkerFindsNone(w) BY <2>4 DEF WorkerFindsNone
    <2>5. CASE WorkerStay(w)      BY <2>5 DEF WorkerStay
    <2>6. CASE WorkerWait(w)      BY <2>6 DEF WorkerWait
    <2>7. CASE WorkerBreak(w)     BY <2>7 DEF WorkerBreak
    <2>8. CASE SpuriousWake(w)    BY <2>8 DEF SpuriousWake
    <2>9. CASE WorkerRelock(w)    BY <2>9 DEF WorkerRelock
    <2>10. CASE WorkerWoken(w)    BY <2>10 DEF WorkerWoken
    <2>11. CASE TaskReturn(w)     BY <2>11 DEF TaskReturn
    <2>12. CASE TaskFree(w)       BY <2>12 DEF TaskFree
    <2>13. QED
      BY <1>1, <2>1, <2>2, <2>3, <2>4, <2>5, <2>6, <2>7, <2>8, <2>9, <2>10,
         <2>11, <2>12
      DEF WorkerAct, WorkerStep
  <1>2. ASSUME NEW t \in Threads, CallAct(t) PROVE AllJoined'
    <2>1. ASSUME NEW k \in Tasks, AddCall(t, k) PROVE AllJoined'
      BY <2>1 DEF AddCall, MayCall, Home
    <2>2. CASE AddRefuse(t)       BY <2>2 DEF AddRefuse, Home
    <2>3. CASE AddAdmit(t)        BY <2>3 DEF AddAdmit
    <2>4. CASE AddLock(t)         BY <2>4 DEF AddLock
    <2>5. CASE AddPush(t)         BY <2>5 DEF AddPush, Signal
    <2>6. CASE AddUnlock(t)       BY <2>6 DEF AddUnlock, Home
    <2>7. QED
      BY <1>2, <2>1, <2>2, <2>3, <2>4, <2>5, <2>6
      DEF CallAct, AddStep
  <1>3. CASE OwnerAct
    <2>1. ASSUME NEW w \in Workers, Spawn(w) PROVE AllJoined'
      BY <2>1 DEF Spawn
    <2>2. CASE CreateReturn       BY <2>2 DEF CreateReturn
    <2>3. CASE PollCall           BY <2>3 DEF PollCall
    <2>4. CASE PollLock           BY <2>4 DEF PollLock
    <2>5. CASE PollReturn         BY <2>5 DEF PollReturn
    <2>6. CASE StopSet            BY <2>6 DEF StopSet
    <2>7. CASE StopLock           BY <2>7 DEF StopLock
    <2>8. CASE StopBroadcast      BY <2>8 DEF StopBroadcast
    <2>9. CASE StopJoin           BY <2>9 DEF StopJoin
    <2>10. CASE StopDestroy       BY <2>10 DEF StopDestroy
    <2>11. QED
      BY <1>3, <2>1, <2>2, <2>3, <2>4, <2>5, <2>6, <2>7, <2>8, <2>9, <2>10
      DEF OwnerAct, OwnerStep
  <1>4. CASE UNCHANGED vars       BY <1>4 DEF vars
  <1>5. QED BY <1>1, <1>2, <1>3, <1>4, StepKinds

-----------------------------------------------------------------------------
(* One signal per push is enough.                                           *)

\* The stack stays as it is and the seekers do not get fewer.
LEMMA MoreSeekers ==
    ASSUME TypeOK, WorkConserving, stack' = stack,
           asleep' # {} => asleep # {} /\ Seeking \subseteq Seeking'
    PROVE  WorkConserving'
  <1>1. Seeking' \in SUBSET Workers
    BY DEF Seeking
  <1>2. IsFiniteSet(Seeking') /\ Cardinality(Seeking') \in Nat
    BY <1>1, SomeWorkers
  <1>3. Cardinality(Seeking) \in Nat /\ Len(stack) \in Nat
    BY SomeWorkers DEF Seeking, TypeOK
  <1>4. asleep' # {} => Cardinality(Seeking) <= Cardinality(Seeking')
    BY <1>2, FS_Subset
  <1>5. QED BY <1>2, <1>3, <1>4 DEF WorkConserving

\* With an empty stack there is no work to wake anyone for.
LEMMA NothingToDo == ASSUME stack' = <<>> PROVE WorkConserving'
  <1>1. Seeking' \in SUBSET Workers
    BY DEF Seeking
  <1>2. Cardinality(Seeking') \in Nat
    BY <1>1, SomeWorkers
  <1>3. QED BY <1>2 DEF WorkConserving

\* A push wakes a worker if one sleeps; a pop takes a task with a seeker.
LEMMA WorkStep ==
    /\ TypeOK /\ InHand /\ SleepersWait /\ PhaseFollows /\ SawEmpty
    /\ WorkConserving /\ [Next]_vars
    => WorkConserving'
  <1> SUFFICES ASSUME TypeOK, InHand, SleepersWait, PhaseFollows, SawEmpty,
                      WorkConserving, [Next]_vars
               PROVE  WorkConserving'
    OBVIOUS
  <1> USE ThreadPoolAssumption
      DEF TypeOK, Step, WorkerLabels, ClientLabels, OwnerLabels, StopLabels,
          AddLabels, Threads, pool, sync, local, history, Acquire, Release
  <1>1. ASSUME alive, NEW w \in Workers, WorkerAct(w) PROVE WorkConserving'
    <2>1. CASE WorkerHead(w)
      BY <1>1, MoreSeekers, <2>1 DEF WorkerHead, PhaseFollows, Seeking
    <2>2. CASE WorkerLock(w)      BY MoreSeekers, <2>2 DEF WorkerLock, Seeking
    <2>3. CASE WorkerPop(w)

      <3>1. Seeking' = Seeking \ {w} /\ w \in Seeking
        BY <2>3 DEF WorkerPop, Seeking
      <3>2. IsFiniteSet(Seeking) /\ Cardinality(Seeking) \in Nat
        BY SomeWorkers DEF Seeking
      <3>3. Cardinality(Seeking') = Cardinality(Seeking) - 1
        BY <3>1, <3>2, FS_RemoveElement
      <3>4. Len(stack') = Len(stack) - 1 /\ asleep' = asleep
        BY <2>3, PopType DEF WorkerPop
      <3>5. Len(stack) \in Nat
        OBVIOUS
      <3>6. QED BY <3>2, <3>3, <3>4, <3>5 DEF WorkConserving
    <2>4. CASE WorkerFindsNone(w) BY NothingToDo, <2>4 DEF WorkerFindsNone
    <2>5. CASE WorkerStay(w)      BY MoreSeekers, <2>5 DEF WorkerStay, Seeking
    <2>6. CASE WorkerWait(w)      BY NothingToDo, <2>6 DEF WorkerWait, SawEmpty
    <2>7. CASE WorkerBreak(w)     BY MoreSeekers, <2>7 DEF WorkerBreak, Seeking
    <2>8. CASE SpuriousWake(w)
      BY MoreSeekers, <2>8 DEF SpuriousWake, SleepersWait, Seeking
    <2>9. CASE WorkerRelock(w)    BY MoreSeekers, <2>9 DEF WorkerRelock, Seeking
    <2>10. CASE WorkerWoken(w)    BY MoreSeekers, <2>10 DEF WorkerWoken, Seeking
    <2>11. CASE TaskReturn(w)     BY MoreSeekers, <2>11 DEF TaskReturn, Seeking
    <2>12. CASE TaskFree(w)       BY MoreSeekers, <2>12 DEF TaskFree, Seeking
    <2>13. QED
      BY <1>1, <2>1, <2>2, <2>3, <2>4, <2>5, <2>6, <2>7, <2>8, <2>9, <2>10,
         <2>11, <2>12
      DEF WorkerAct, WorkerStep
  <1>2. ASSUME NEW t \in Threads, CallAct(t) PROVE WorkConserving'
    <2>1. ASSUME NEW k \in Tasks, AddCall(t, k) PROVE WorkConserving'
      BY MoreSeekers, <2>1 DEF AddCall, Seeking, MayCall, Home
    <2>2. CASE AddRefuse(t)
      BY MoreSeekers, <2>2 DEF AddRefuse, Seeking, Home
    <2>3. CASE AddAdmit(t)        BY MoreSeekers, <2>3 DEF AddAdmit, Seeking
    <2>4. CASE AddLock(t)         BY MoreSeekers, <2>4 DEF AddLock, Seeking
    <2>5. CASE AddPush(t)

      <3>1. SUFFICES ASSUME asleep' # {}
                     PROVE  Len(stack') <= Cardinality(Seeking')
        BY DEF WorkConserving
      <3>2. PICK v \in asleep : asleep' = asleep \ {v}
        BY <2>5, <3>1 DEF AddPush, Signal
      <3>3. v \notin Seeking /\ Seeking' = Seeking \cup {v}
        BY <2>5, <3>2 DEF AddPush, Seeking, SleepersWait
      <3>4. IsFiniteSet(Seeking) /\ Cardinality(Seeking) \in Nat
        BY SomeWorkers DEF Seeking
      <3>5. Cardinality(Seeking') = Cardinality(Seeking) + 1
        BY <3>3, <3>4, FS_AddElement
      <3>6. Len(stack) \in Nat /\ Len(stack') = Len(stack) + 1
        BY <2>5 DEF AddPush, InHand
      <3>7. Len(stack) <= Cardinality(Seeking)
        BY <3>2 DEF WorkConserving
      <3>8. QED BY <3>4, <3>5, <3>6, <3>7
    <2>6. CASE AddUnlock(t)
      BY MoreSeekers, <2>6 DEF AddUnlock, Seeking, Home
    <2>7. QED
      BY <1>2, <2>1, <2>2, <2>3, <2>4, <2>5, <2>6
      DEF CallAct, AddStep
  <1>3. CASE OwnerAct
    <2>1. ASSUME NEW w \in Workers, Spawn(w) PROVE WorkConserving'
      BY MoreSeekers, <2>1 DEF Spawn, Seeking
    <2>2. CASE CreateReturn       BY MoreSeekers, <2>2 DEF CreateReturn, Seeking
    <2>3. CASE PollCall           BY MoreSeekers, <2>3 DEF PollCall, Seeking
    <2>4. CASE PollLock           BY MoreSeekers, <2>4 DEF PollLock, Seeking
    <2>5. CASE PollReturn         BY MoreSeekers, <2>5 DEF PollReturn, Seeking
    <2>6. CASE StopSet            BY MoreSeekers, <2>6 DEF StopSet, Seeking
    <2>7. CASE StopLock           BY MoreSeekers, <2>7 DEF StopLock, Seeking
    <2>8. CASE StopBroadcast      BY <2>8 DEF StopBroadcast, WorkConserving
    <2>9. CASE StopJoin           BY MoreSeekers, <2>9 DEF StopJoin, Seeking
    <2>10. CASE StopDestroy       BY MoreSeekers, <2>10 DEF StopDestroy, Seeking
    <2>11. QED
      BY <1>3, <2>1, <2>2, <2>3, <2>4, <2>5, <2>6, <2>7, <2>8, <2>9, <2>10
      DEF OwnerAct, OwnerStep
  <1>4. CASE UNCHANGED vars
    BY <1>4, MoreSeekers DEF vars, Seeking
  <1>5. QED BY <1>1, <1>2, <1>3, <1>4, StepKinds

-----------------------------------------------------------------------------
(* The inductive invariant, and the properties that follow from it.         *)

IInv ==
    /\ Base /\ Control
    /\ SawEmpty /\ NoneEnters /\ NoSleeperAfterBroadcast
    /\ ArgFresh /\ TasksConserved
    /\ Quiescent /\ Drained /\ AllJoined /\ WorkConserving

\* The invariant holds when thread_pool_create starts its workers.
LEMMA InitIInv == Init => IInv
  <1> SUFFICES ASSUME Init PROVE IInv
    OBVIOUS
  <1> USE ThreadPoolAssumption DEF Init
  <1>1. TypeOK
    <2>1. /\ pc \in [Threads -> {"unborn", "create", "out"}]
          /\ \A w \in Workers : pc[w] = "unborn"
          /\ \A c \in Clients : pc[c] = "out"
          /\ pc[Owner] = "create"
      BY DEF Threads
    <2>2. /\ task \in [Workers -> Tasks \cup {None}]
          /\ arg \in [Threads -> Tasks \cup {None}]
          /\ by \in [Tasks -> Threads \cup {None}]
          /\ stack \in Seq(Tasks)
      OBVIOUS
    <2>3. /\ pc \in [Threads -> WorkerLabels \cup OwnerLabels]
          /\ \A w \in Workers : pc[w] \in WorkerLabels
          /\ \A c \in Clients : pc[c] \in ClientLabels
          /\ pc[Owner] \in OwnerLabels
      BY <2>1 DEF WorkerLabels, ClientLabels, OwnerLabels
    <2>4. QED BY <2>2, <2>3 DEF TypeOK
  <1>2. IdlesCountWaiters
    <2>1. Idle = {} BY DEF Idle, Threads
    <2>2. QED BY <2>1, FS_EmptySet DEF IdlesCountWaiters
  <1>3. InHand /\ Control
    BY DEF InHand, Control, MutexHeld, Critical, SleepersWait, PhaseFollows,
           Threads, StopLabels, AddLabels
  <1>4. SawEmpty /\ NoneEnters /\ NoSleeperAfterBroadcast /\ AllJoined
    BY DEF SawEmpty, NoneEnters, NoSleeperAfterBroadcast, AllJoined, Threads
  <1>5. ToSet(stack) = {} /\ Running = {} /\ Accepted = {}
    BY DEF ToSet, Running, Accepted
  <1>6. TasksConserved /\ ArgFresh
    BY <1>5 DEF TasksConserved, IsInjective, ArgFresh, Threads
  <1>7. Quiescent /\ Drained
    BY <1>5 DEF Quiescent, Drained
  <1>8. WorkConserving
    BY DEF WorkConserving
  <1>9. QED BY <1>1, <1>2, <1>3, <1>4, <1>6, <1>7, <1>8 DEF IInv, Base

\* The steps together.
LEMMA NextIInv == IInv /\ [Next]_vars => IInv'
  BY TypeStep, IdlesStep, InHandStep, MutexStep, SleepersStep, PhaseStep,
     SawEmptyStep, NoneEntersStep, NoSleeperStep, ArgFreshStep, ConservedStep,
     QuiescentStep, DrainedStep, AllJoinedStep, WorkStep
  DEF IInv, Base, Control

\* The invariant holds in every reachable state.
LEMMA Invariant == Spec => []IInv
  BY InitIInv, NextIInv, PTL DEF Spec

\* The types, among them that `idles` is never negative.
THEOREM TypeCorrect == Spec => []TypeOK
  BY Invariant, PTL DEF IInv, Base

\* Every accepted task is in exactly one place, and no two workers run it.
THEOREM Conservation == Spec => []TasksConserved
  BY Invariant, PTL DEF IInv

\* pool->idles counts the workers between idles++ and idles--.
THEOREM IdlesCorrect == Spec => []IdlesCountWaiters
  BY Invariant, PTL DEF IInv, Base

\* One signal per push wakes enough workers, whatever is scheduled between.
THEOREM WorkConservation == Spec => []WorkConserving
  BY Invariant, PTL DEF IInv

\* No worker is blocked, or blocks, after the broadcast of thread_pool_stop.
THEOREM NoMissedStop == Spec => []NoSleeperAfterBroadcast
  BY Invariant, PTL DEF IInv

\* An AT_TRUE of thread_pool_is_all_idle stays right until the next submission
\* from outside.
THEOREM AllIdleCorrect == Spec => []AllIdleMeansDone
  <1>1. IInv => AllIdleMeansDone
    <2>1. Quiescent /\ TasksConserved => AllIdleMeansDone
      BY DEF Quiescent, TasksConserved, AllIdleMeansDone, Running, ToSet
    <2>2. QED BY <2>1 DEF IInv
  <1>2. QED BY <1>1, Invariant, PTL

\* thread_pool_stop frees the pool with no worker in it and nothing undone but
\* what an overlapping client submitted.
THEOREM StopDrains == Spec => []FreedWhenDrained
  <1>1. IInv => FreedWhenDrained
    <2> SUFFICES ASSUME IInv, ~alive PROVE FreedWhenDrained
      BY DEF FreedWhenDrained
    <2>1. \A w \in Workers : pc[w] = "exited"
      BY DEF IInv, Control, PhaseFollows, AllJoined
    <2>2. Running = {}
      BY <2>1 DEF IInv, Base, InHand, AddLabels, Running
    <2>3. \A k \in ToSet(stack) : Overlap /\ by[k] \in Clients
      BY <2>1 DEF IInv, Drained, Late
    <2>4. QED BY <2>1, <2>2, <2>3 DEF IInv, TasksConserved, FreedWhenDrained
  <1>2. QED BY <1>1, Invariant, PTL

-----------------------------------------------------------------------------
(* The pool implements TaskPool when no client overlaps the stop.           *)

\* A worker without a task leaves room for one more running task.
LEMMA RoomToRun ==
    ASSUME TypeOK, NEW w \in Workers, task[w] = None
    PROVE  Cardinality(Running) < size
  <1> DEFINE Busy == {v \in Workers : task[v] # None}
             hold == [v \in Busy |-> task[v]]
  <1>1. IsFiniteSet(Busy) /\ Cardinality(Busy) \in Nat
    BY SomeWorkers
  <1>2. hold \in Surjection(Busy, Running)
    BY DEF Surjection, Running
  <1>3. IsFiniteSet(Running) /\ Cardinality(Running) <= Cardinality(Busy)
    BY <1>1, <1>2, FS_Surjection
  <1>4. Busy \in SUBSET (Workers \ {w})
    OBVIOUS
  <1>5. /\ IsFiniteSet(Workers \ {w})
        /\ Cardinality(Workers \ {w}) = size - 1
    BY ThreadPoolAssumption, FS_RemoveElement DEF size
  <1>6. Cardinality(Busy) <= size - 1
    BY <1>4, <1>5, FS_Subset
  <1>7. Cardinality(Running) \in Nat /\ size \in Nat
    BY <1>3, ThreadPoolAssumption, FS_CardinalityType DEF size
  <1>8. QED BY <1>1, <1>3, <1>6, <1>7

\* The initial states are initial states of TaskPool.
LEMMA InitMaps == Init => Abstract!Init
  BY ThreadPoolAssumption
  DEF Init, Abstract!Init, PhaseOf, ToSet, Running

\* Every step is a step of TaskPool or leaves its variables alone.
LEMMA StepMaps ==
    ASSUME ~Overlap, IInv, [Next]_vars
    PROVE  [Abstract!Next]_(Abstract!vars)
  <1> DEFINE Goal == [Abstract!Next]_(Abstract!vars)
  <1> USE ThreadPoolAssumption
      DEF Step, pool, sync, local, history, Acquire, Release
  <1>0. /\ TypeOK /\ InHand /\ PhaseFollows /\ ArgFresh /\ TasksConserved
        /\ Drained /\ AllJoined
    BY DEF IInv, Base, Control
  <1>1. ASSUME alive, NEW w \in Workers, WorkerAct(w) PROVE Goal
    <2>1. CASE WorkerPop(w)
      <3>1. /\ ToSet(stack) = ToSet(stack') \cup {Last(stack)}
            /\ Last(stack) \notin ToSet(stack')
        BY <1>0, <2>1, PopSet DEF WorkerPop, TasksConserved, TypeOK
      <3>2. Last(stack) \in Tasks /\ task[w] = None
        BY <1>0, <2>1, PopType DEF WorkerPop, InHand, TypeOK, AddLabels
      <3>3. Running' = Running \cup {Last(stack)}
        BY <1>0, <2>1, <3>2 DEF WorkerPop, Running, TypeOK
      <3>4. Cardinality(Running) < size
        BY <1>0, <3>2, RoomToRun
      <3>5. Abstract!Start(Last(stack))
        <4>1. /\ Last(stack) \in ToSet(stack)
              /\ ToSet(stack') = ToSet(stack) \ {Last(stack)}
          BY <3>1
        <4>2. UNCHANGED <<PhaseOf, finished, refused>>
          BY <2>1 DEF WorkerPop, PhaseOf
        <4>3. QED BY <4>1, <4>2, <3>3, <3>4 DEF Abstract!Start, Cardinality,
            Abstract!Cardinality
      <3>6. QED BY <3>2, <3>5 DEF Abstract!Next
    <2>2. CASE TaskFree(w)
      <3>1. task[w] \in Tasks /\ task[w] \in Running
        BY <1>0, <2>2 DEF TaskFree, InHand, TypeOK, Running
      <3>2. Running' = Running \ {task[w]}
        BY <1>0, <2>2 DEF TaskFree, TypeOK, Running, TasksConserved
      <3>3. Abstract!Finish(task[w])
        BY <2>2, <3>1, <3>2 DEF TaskFree, Abstract!Finish, PhaseOf
      <3>4. QED BY <3>1, <3>3 DEF Abstract!Next
    <2>3. CASE ~WorkerPop(w) /\ ~TaskFree(w)
      BY <1>1, <2>3
      DEF WorkerAct, WorkerStep, WorkerHead, WorkerLock, WorkerFindsNone,
          WorkerStay, WorkerWait, WorkerBreak, SpuriousWake, WorkerRelock,
          WorkerWoken, TaskReturn, Abstract!vars, PhaseOf, Running
    <2>4. QED BY <2>1, <2>2, <2>3
  <1>2. ASSUME alive, NEW t \in Threads, CallAct(t) PROVE Goal
    <2>1. CASE AddPush(t)
      <3>1. arg[t] \in Tasks /\ arg[t] \notin Accepted \cup refused
        BY <1>0, <2>1 DEF AddPush, InHand, TypeOK, ArgFresh
      <3>2. ToSet(stack') = ToSet(stack) \cup {arg[t]}
        BY <1>0, <2>1, <3>1, PushSet DEF AddPush, TypeOK
      <3>3. status = "RUNNING" \/ (status = "STOPPING" /\ Running # {})
        <4>1. CASE t \in Workers
          BY <1>0, <1>2, <2>1, <4>1, ZenonT(40)
          DEF AddPush, InHand, TypeOK, Running, PhaseFollows, AddLabels
        <4>2. CASE t \notin Workers
          BY <1>0, <2>1, <4>2
          DEF AddPush, PhaseFollows, TypeOK, Threads, StopLabels
        <4>3. QED BY <4>1, <4>2
      <3>4. Abstract!Submit(arg[t])
        BY <1>0, <2>1, <3>1, <3>2, <3>3
        DEF AddPush, Abstract!Submit, Abstract!Known, TasksConserved, Running,
            PhaseOf
      <3>5. QED BY <3>1, <3>4 DEF Abstract!Next
    <2>2. CASE AddRefuse(t)
      <3>1. arg[t] \in Tasks /\ arg[t] \notin Accepted \cup refused
        BY <1>0, <2>2 DEF AddRefuse, InHand, TypeOK, ArgFresh
      <3>2. status = "STOPPING"
        BY <1>0, <1>2, <2>2 DEF AddRefuse, PhaseFollows, TypeOK
      <3>3. Abstract!Refuse(arg[t])
        BY <1>0, <2>2, <3>1, <3>2
        DEF AddRefuse, Abstract!Refuse, Abstract!Known, TasksConserved, Running,
            PhaseOf
      <3>4. QED BY <3>1, <3>3 DEF Abstract!Next
    <2>3. CASE ~AddPush(t) /\ ~AddRefuse(t)
      BY <1>2, <2>3
      DEF CallAct, AddStep, AddCall, AddAdmit, AddLock, AddUnlock,
          Abstract!vars, PhaseOf, Running
    <2>4. QED BY <2>1, <2>2, <2>3
  <1>3. CASE alive /\ OwnerAct
    <2>1. CASE StopSet
      <3>1. status = "RUNNING"
        BY <1>0, <2>1 DEF StopSet, PhaseFollows, StopLabels
      <3>2. Abstract!Close
        BY <2>1, <3>1 DEF StopSet, Abstract!Close, PhaseOf, Running
      <3>3. QED BY <3>2 DEF Abstract!Next
    <2>2. CASE StopDestroy
      <3>1. \A w \in Workers : pc[w] = "exited"
        BY <1>0, <2>2 DEF StopDestroy, AllJoined
      <3>2. ToSet(stack) = {} /\ Running = {}
        BY <1>0, <3>1 DEF Drained, Late, InHand, Running, AddLabels
      <3>3. status = "STOPPING"
        BY <1>0, <2>2 DEF StopDestroy, PhaseFollows, StopLabels, TypeOK
      <3>4. Abstract!Shut
        BY <2>2, <3>2, <3>3 DEF StopDestroy, Abstract!Shut, PhaseOf, Running
      <3>5. QED BY <3>4 DEF Abstract!Next
    <2>3. CASE ~StopSet /\ ~StopDestroy
      BY <1>3, <2>3
      DEF OwnerAct, OwnerStep, Spawn, CreateReturn, PollCall, PollLock,
          PollReturn, StopLock, StopBroadcast, StopJoin,
          Abstract!vars, PhaseOf, Running
    <2>4. QED BY <2>1, <2>2, <2>3
  <1>4. CASE UNCHANGED vars
    BY <1>4 DEF vars, Abstract!vars, PhaseOf, Running
  <1>5. QED BY <1>1, <1>2, <1>3, <1>4, StepKinds

\* Threads, mutex, condition variable and stack together do what TaskPool says.
THEOREM Refinement ==
    ASSUME ~Overlap
    PROVE  Spec => ImplementsTaskPool
  <1>1. IInv /\ [Next]_vars => [Abstract!Next]_(Abstract!vars)
    BY StepMaps
  <1>2. QED
    BY <1>1, InitMaps, Invariant, PTL DEF Spec, ImplementsTaskPool,
       Abstract!Spec
=============================================================================
