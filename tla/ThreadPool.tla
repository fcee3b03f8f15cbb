----------------------------- MODULE ThreadPool -----------------------------
(***************************************************************************)
(* at_thread_pool.c: a fixed set of worker threads, one mutex, one         *)
(* condition variable and a stack of tasks.                                *)
(*                                                                         *)
(* A step of this module is what one thread does between two points where  *)
(* another thread can see or disturb it: one access to the unlocked field  *)
(* `status`, one acquisition of the mutex, or one piece of a critical      *)
(* section.  pc[t] names the next piece.  The build is `gcc -g`, without   *)
(* optimisation, so the unsynchronised reads of `status` are single loads. *)
(*                                                                         *)
(* An operator that stands directly before an action and that nothing uses *)
(* is a mutant of that action: the mistake the properties must notice.     *)
(***************************************************************************)
EXTENDS Integers, SequencesExt

CONSTANTS Workers,   \* the threads pthread_create starts, `size` of them
          Owner,     \* the thread that creates the pool, polls it and stops it
          Clients,   \* further threads that submit tasks
          Tasks,     \* the task objects that may be submitted, each once
          None,      \* the NULL pointer
          Overlap    \* TRUE if clients may still be submitting while the
                     \* owner stops the pool

ASSUME ThreadPoolAssumption ==
    /\ IsFiniteSet(Workers)
    /\ Workers # {}
    /\ Owner \notin Workers \cup Clients
    /\ Workers \cap Clients = {}
    /\ None \notin Tasks \cup Workers \cup Clients \cup {Owner}
    /\ Overlap \in BOOLEAN

Threads == Workers \cup Clients \cup {Owner}
size == Cardinality(Workers)

VARIABLES
    status,    \* pool->status
    idles,     \* pool->idles
    stack,     \* pool->tasks, the top last
    alive,     \* FALSE once the pool has been freed
    lock,      \* the thread that holds pool->lock, or None
    asleep,    \* the workers blocked in pthread_cond_wait and not yet woken
    pc,        \* where each thread is
    task,      \* run()'s local variable, per worker
    arg,       \* the argument of the thread_pool_add_task call in progress
    quiet,     \* what the owner's last thread_pool_is_all_idle call returned,
               \* until a thread other than a worker submits again
    by,        \* history: the thread that pushed each task, or None
    finished,  \* history: the tasks that were run and freed
    refused    \* history: the tasks for which add_task returned AT_FALSE

pool == <<status, idles, stack, alive>>
sync == <<lock, asleep>>
local == <<task, arg, quiet>>
history == <<by, finished, refused>>
vars == <<pool, sync, pc, local, history>>

AddLabels == {"add_check", "add_lock", "add_push", "add_unlock"}
WorkerLabels == {"unborn", "head", "lock", "pop", "check", "enter", "wait",
                 "woken", "run", "free", "exited"} \cup AddLabels
ClientLabels == {"out"} \cup AddLabels
StopLabels == {"stop_lock", "stop_bcast", "join", "destroy", "stopped"}
OwnerLabels ==
    {"create", "poll_lock", "poll_read"} \cup ClientLabels \cup StopLabels

Step(t, from, to) == pc[t] = from /\ pc' = [pc EXCEPT ![t] = to]
Acquire(t) == lock = None /\ lock' = t /\ UNCHANGED asleep
Release(t) == lock' = None /\ UNCHANGED asleep

Fresh(k) == by[k] = None /\ k \notin refused /\ \A t \in Threads : arg[t] # k
Accepted == {k \in Tasks : by[k] # None}

Init ==
    /\ status = "RUNNING" /\ idles = 0 /\ stack = <<>> /\ alive = TRUE
    /\ lock = None /\ asleep = {}
    /\ pc = [t \in Threads |-> IF t \in Workers THEN "unborn"
                               ELSE IF t = Owner THEN "create" ELSE "out"]
    /\ task = [w \in Workers |-> None]
    /\ arg = [t \in Threads |-> None]
    /\ quiet = FALSE
    /\ by = [k \in Tasks |-> None] /\ finished = {} /\ refused = {}

-----------------------------------------------------------------------------
(* thread_pool_create: the fields are set in Init; what is left is the      *)
(* loop that starts the workers, which run from then on.                    *)

Spawn(w) ==
    /\ pc[Owner] = "create"
    /\ Step(w, "unborn", "head")
    /\ UNCHANGED <<pool, sync, local, history>>

CreateReturn ==
    /\ \A w \in Workers : pc[w] # "unborn"
    /\ Step(Owner, "create", "out")
    /\ UNCHANGED <<pool, sync, local, history>>

-----------------------------------------------------------------------------
(* run, the body of a worker thread.                                        *)

HeadWhileRunning(w) ==
    /\ Step(w, "head", IF status = "RUNNING" THEN "lock" ELSE "exited")
    /\ UNCHANGED <<pool, sync, local, history>>

WorkerHead(w) ==
    /\ Step(w, "head", IF status # "STOPPED" THEN "lock" ELSE "exited")
    /\ UNCHANGED <<pool, sync, local, history>>

WorkerLock(w) ==
    /\ Step(w, "lock", "pop")
    /\ Acquire(w)
    /\ UNCHANGED <<pool, local, history>>

PopPeeks(w) ==
    /\ stack # <<>>
    /\ Step(w, "pop", "run")
    /\ task' = [task EXCEPT ![w] = Last(stack)]
    /\ Release(w)
    /\ UNCHANGED <<pool, arg, quiet, history>>

WorkerPop(w) ==
    /\ stack # <<>>
    /\ Step(w, "pop", "run")
    /\ task' = [task EXCEPT ![w] = Last(stack)]
    /\ stack' = Front(stack)
    /\ Release(w)
    /\ UNCHANGED <<status, idles, alive, arg, quiet, history>>

WorkerFindsNone(w) ==
    /\ stack = <<>>
    /\ Step(w, "pop", "check")
    /\ UNCHANGED <<pool, sync, local, history>>

WorkerStay(w) ==
    /\ status = "RUNNING"
    /\ Step(w, "check", "enter")
    /\ idles' = idles + 1
    /\ UNCHANGED <<status, stack, alive, sync, local, history>>

\* pthread_cond_wait releases the mutex and blocks in one step.  The worker
\* has read `status` before and does not look at it again.
WorkerWait(w) ==
    /\ Step(w, "enter", "wait")
    /\ asleep' = asleep \cup {w}
    /\ lock' = None
    /\ UNCHANGED <<pool, local, history>>

WorkerBreak(w) ==
    /\ status # "RUNNING"
    /\ Step(w, "check", "exited")
    /\ Release(w)
    /\ UNCHANGED <<pool, local, history>>

\* POSIX lets pthread_cond_wait return although nobody signalled.
SpuriousWake(w) ==
    /\ w \in asleep
    /\ asleep' = asleep \ {w}
    /\ UNCHANGED <<pool, lock, pc, local, history>>

WorkerRelock(w) ==
    /\ w \notin asleep
    /\ Step(w, "wait", "woken")
    /\ Acquire(w)
    /\ UNCHANGED <<pool, local, history>>

WokenUncounted(w) ==
    /\ Step(w, "woken", "head")
    /\ Release(w)
    /\ UNCHANGED <<pool, local, history>>

WorkerWoken(w) ==
    /\ Step(w, "woken", "head")
    /\ idles' = idles - 1
    /\ Release(w)
    /\ UNCHANGED <<status, stack, alive, local, history>>

TaskReturn(w) ==
    /\ Step(w, "run", "free")
    /\ UNCHANGED <<pool, sync, local, history>>

TaskFree(w) ==
    /\ Step(w, "free", "head")
    /\ finished' = finished \cup {task[w]}
    /\ task' = [task EXCEPT ![w] = None]
    /\ UNCHANGED <<pool, sync, arg, quiet, by, refused>>

-----------------------------------------------------------------------------
(* thread_pool_add_task, called by a running task, a client or the owner.   *)
(* `status` is read before the mutex is taken and not looked at again.      *)

MayCall(t) ==
    \/ t \in Workers /\ pc[t] = "run"
    \/ t = Owner /\ pc[t] = "out"
    \/ /\ t \in Clients /\ pc[t] = "out"
       /\ pc[Owner] # "create"
       /\ Overlap \/ pc[Owner] \notin StopLabels

Home(t) == IF t \in Workers THEN "run" ELSE "out"

AddCall(t, k) ==
    /\ MayCall(t)
    /\ Fresh(k)
    /\ Step(t, Home(t), "add_check")
    /\ arg' = [arg EXCEPT ![t] = k]
    /\ UNCHANGED <<pool, sync, task, quiet, history>>

AddRefuse(t) ==
    /\ status # "RUNNING"
    /\ Step(t, "add_check", Home(t))
    /\ refused' = refused \cup {arg[t]}
    /\ arg' = [arg EXCEPT ![t] = None]
    /\ UNCHANGED <<pool, sync, task, quiet, by, finished>>

AddAdmit(t) ==
    /\ status = "RUNNING"
    /\ Step(t, "add_check", "add_lock")
    /\ UNCHANGED <<pool, sync, local, history>>

AddLock(t) ==
    /\ Step(t, "add_lock", "add_push")
    /\ Acquire(t)
    /\ UNCHANGED <<pool, local, history>>

SignalNobody == UNCHANGED asleep

SignalFirst ==
    \/ (asleep = {} \/ stack # <<>>) /\ UNCHANGED asleep
    \/ stack = <<>> /\ \E w \in asleep : asleep' = asleep \ {w}

\* pthread_cond_signal wakes one sleeper, whichever, if there is one.
Signal ==
    \/ asleep = {} /\ UNCHANGED asleep
    \/ \E w \in asleep : asleep' = asleep \ {w}

AddPush(t) ==
    /\ Step(t, "add_push", "add_unlock")
    /\ stack' = Append(stack, arg[t])
    /\ by' = [by EXCEPT ![arg[t]] = t]
    /\ arg' = [arg EXCEPT ![t] = None]
    /\ Signal
    /\ quiet' = (quiet /\ t \in Workers)
    /\ UNCHANGED <<status, idles, alive, lock, task, finished, refused>>

AddUnlock(t) ==
    /\ Step(t, "add_unlock", Home(t))
    /\ Release(t)
    /\ UNCHANGED <<pool, local, history>>

-----------------------------------------------------------------------------
(* thread_pool_is_all_idle, called by the owner.                            *)

PollCall ==
    /\ Step(Owner, "out", "poll_lock")
    /\ UNCHANGED <<pool, sync, local, history>>

PollLock ==
    /\ Step(Owner, "poll_lock", "poll_read")
    /\ Acquire(Owner)
    /\ UNCHANGED <<pool, local, history>>

PollCountsOnly ==
    /\ Step(Owner, "poll_read", "out")
    /\ quiet' = (idles = size)
    /\ Release(Owner)
    /\ UNCHANGED <<pool, task, arg, history>>

PollReturn ==
    /\ Step(Owner, "poll_read", "out")
    /\ quiet' = (idles = size /\ stack = <<>>)
    /\ Release(Owner)
    /\ UNCHANGED <<pool, task, arg, history>>

-----------------------------------------------------------------------------
(* thread_pool_stop, called by the owner.  `status` is written before the   *)
(* mutex is taken; the joins are one step, enabled when the last of them    *)
(* would return.  The tasks left on the stack when it is freed stay in the  *)
(* model's `stack`, so that the properties can see them.                    *)

StopSet ==
    /\ Overlap \/ \A c \in Clients : pc[c] = "out"
    /\ Step(Owner, "out", "stop_lock")
    /\ status' = "STOPPING"
    /\ UNCHANGED <<idles, stack, alive, sync, local, history>>

StopUnlocked ==
    /\ Step(Owner, "stop_lock", "join")
    /\ asleep' = {}
    /\ UNCHANGED <<pool, lock, local, history>>

StopLock ==
    /\ Step(Owner, "stop_lock", "stop_bcast")
    /\ Acquire(Owner)
    /\ UNCHANGED <<pool, local, history>>

StopBroadcast ==
    /\ Step(Owner, "stop_bcast", "join")
    /\ asleep' = {}
    /\ lock' = None
    /\ UNCHANGED <<pool, local, history>>

StopJoinShort ==
    /\ \E v \in Workers : \A w \in Workers \ {v} : pc[w] = "exited"
    /\ Step(Owner, "join", "destroy")
    /\ UNCHANGED <<pool, sync, local, history>>

StopJoin ==
    /\ \A w \in Workers : pc[w] = "exited"
    /\ Step(Owner, "join", "destroy")
    /\ UNCHANGED <<pool, sync, local, history>>

StopDestroy ==
    /\ Step(Owner, "destroy", "stopped")
    /\ status' = "STOPPED"
    /\ alive' = FALSE
    /\ UNCHANGED <<idles, stack, sync, local, history>>

\* A second call finds *pool_ptr NULL and returns.
StopAgain == pc[Owner] = "stopped" /\ UNCHANGED vars

-----------------------------------------------------------------------------
\* The steps that only take the mutex, and the other steps a thread inside
\* run() or inside a call takes of itself.
TakeLock(t) ==
    \/ t \in Workers /\ (WorkerLock(t) \/ WorkerRelock(t))
    \/ AddLock(t)
    \/ t = Owner /\ (PollLock \/ StopLock)

WorkerStep(w) ==
    \/ WorkerHead(w) \/ WorkerPop(w) \/ WorkerFindsNone(w)
    \/ WorkerStay(w) \/ WorkerWait(w) \/ WorkerBreak(w) \/ WorkerWoken(w)
    \/ TaskReturn(w) \/ TaskFree(w)

AddStep(t) == AddRefuse(t) \/ AddAdmit(t) \/ AddPush(t) \/ AddUnlock(t)

OwnerStep ==
    \/ CreateReturn \/ PollReturn \/ StopBroadcast \/ StopJoin \/ StopDestroy
    \/ \E w \in Workers : Spawn(w)

Proceed(t) ==
    \/ t \in Workers /\ WorkerStep(t)
    \/ AddStep(t)
    \/ t = Owner /\ OwnerStep

\* A freed pool is not accessed again: an access would be undefined, so the
\* model has no step for it, and FreedWhenDrained says who could still try.
Next ==
    \/ /\ alive
       /\ \/ \E t \in Threads : Proceed(t) \/ TakeLock(t)
          \/ \E t \in Threads, k \in Tasks : AddCall(t, k)
          \/ \E w \in Workers : SpuriousWake(w)
          \/ PollCall
          \/ StopSet
    \/ StopAgain

Spec == Init /\ [][Next]_vars

\* The scheduler runs every thread, tasks return, and no thread waits for the
\* mutex for ever while it is released again and again.  Nothing forces a
\* caller to call, and nothing forces or forbids a spurious wake-up.
Fairness ==
    \A t \in Threads :
        WF_vars(alive /\ Proceed(t)) /\ SF_vars(alive /\ TakeLock(t))

FairSpec == Spec /\ Fairness

-----------------------------------------------------------------------------
(* Properties.                                                              *)

TypeOK ==
    /\ status \in {"RUNNING", "STOPPING", "STOPPED"}
    /\ idles \in Nat
    /\ stack \in Seq(Tasks)
    /\ alive \in BOOLEAN
    /\ lock \in Threads \cup {None}
    /\ asleep \subseteq Workers
    /\ pc \in [Threads -> WorkerLabels \cup OwnerLabels]
    /\ \A w \in Workers : pc[w] \in WorkerLabels
    /\ \A c \in Clients : pc[c] \in ClientLabels
    /\ pc[Owner] \in OwnerLabels
    /\ task \in [Workers -> Tasks \cup {None}]
    /\ arg \in [Threads -> Tasks \cup {None}]
    /\ quiet \in BOOLEAN
    /\ by \in [Tasks -> Threads \cup {None}]
    /\ finished \subseteq Tasks
    /\ refused \subseteq Tasks

Running == {task[w] : w \in Workers} \ {None}

\* Every accepted task is in exactly one place -- on the stack, in the hands
\* of one worker, or finished -- however pushes, pops and wake-ups interleave:
\* none is dropped, none is handed to two workers.  (stack_push under the lock
\* in add_task against stack_pop in run.)
TasksConserved ==
    /\ Accepted = ToSet(stack) \cup Running \cup finished
    /\ ToSet(stack) \cap (Running \cup finished) = {}
    /\ Running \cap finished = {}
    /\ IsInjective(stack)
    /\ \A v, w \in Workers : task[v] = task[w] /\ task[v] # None => v = w

\* pool->idles is the number of workers inside pthread_cond_wait, those that
\* were woken and have not got the mutex back included: a worker that was
\* signalled still counts as idle until it runs again.
Idle == {w \in Workers : pc[w] \in {"enter", "wait", "woken"}}
IdlesCountWaiters == idles = Cardinality(Idle)

\* What thread_pool_is_all_idle answered stays true after it has released the
\* mutex: when it said AT_TRUE, every task accepted so far has been run and
\* freed, and no wake-up still under way, and no worker, can change that; only
\* a submission from outside the pool can.  The idles counter may include
\* workers that a signal has already woken.
AllIdleMeansDone == quiet => Accepted = finished

\* No task waits while a worker sleeps: as long as one worker is blocked, the
\* workers that are awake and on their way to stack_pop are at least as many
\* as the tasks on the stack.  (One pthread_cond_signal per push is enough,
\* though it may wake a worker that finds the task already taken.)
Seeking == {w \in Workers : \/ pc[w] \in {"head", "lock", "pop", "woken"}
                            \/ (pc[w] = "wait" /\ w \notin asleep)}
WorkConserving == asleep # {} => Len(stack) <= Cardinality(Seeking)

\* No worker sleeps through the stop: once the broadcast has been sent none is
\* blocked, and none blocks again.  status is written outside the mutex, so a
\* worker may read RUNNING before that write and start to wait after it.
NoSleeperAfterBroadcast ==
    pc[Owner] \in {"join", "destroy", "stopped"} => asleep = {}

\* When thread_pool_stop frees the pool, no worker is left inside it and every
\* task that was accepted has been run, the tasks submitted by tasks during
\* the stop included.  Only a client that submits while the owner stops the
\* pool can lose a task: add_task looks at status once, before it locks.
FreedWhenDrained ==
    ~alive => /\ \A w \in Workers : pc[w] = "exited"
              /\ \A k \in Accepted :
                    k \in finished \/ (Overlap /\ by[k] \in Clients)

\* The pool implements TaskPool: the owner's stop closes it, and it is closed
\* when it is freed.
PhaseOf == IF status = "RUNNING" THEN "open"
           ELSE IF status = "STOPPING" THEN "closing" ELSE "closed"
Abstract == INSTANCE TaskPool WITH
    PoolSize <- size, phase <- PhaseOf, waiting <- ToSet(stack),
    running <- Running, finished <- finished, refused <- refused
ImplementsTaskPool == Abstract!Spec

\* thread_pool_stop returns, whatever the workers were doing when it was called.
StopReturns == pc[Owner] = "stop_lock" ~> ~alive

\* A task that was pushed is run and freed, with no further call to the pool.
AcceptedRuns == \A k \in Tasks : k \in Accepted ~> k \in finished

\* The loop that polls thread_pool_is_all_idle until it is AT_TRUE ends: unless
\* the pool is stopped, or wakes up spuriously for ever, or somebody submits for
\* ever, a moment comes again and again when the answer would be AT_TRUE.
PollSucceeds ==
    <>[][~\E w \in Workers : SpuriousWake(w)]_vars =>
        []<>(status # "RUNNING" \/ (idles = size /\ stack = <<>>))
=============================================================================
