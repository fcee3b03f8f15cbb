------------------------------ MODULE TaskPool ------------------------------
(***************************************************************************)
(* What a thread pool promises to its callers, with no threads, no lock    *)
(* and no condition variable: a task that is taken is run, by at most      *)
(* PoolSize tasks at a time, and the pool is closed only after every task  *)
(* it took has finished.  ThreadPool implements it.                        *)
(***************************************************************************)
EXTENDS Naturals, FiniteSets

CONSTANTS Tasks,     \* the task objects callers may submit
          PoolSize   \* how many tasks may run at the same time

VARIABLES phase,     \* "open", "closing" once closing was asked, "closed"
          waiting,   \* tasks taken and not started
          running,   \* tasks started and not finished
          finished,  \* tasks whose run is over and whose object is freed
          refused    \* tasks the pool declined

vars == <<phase, waiting, running, finished, refused>>

Known == waiting \cup running \cup finished \cup refused

Init ==
    /\ phase = "open"
    /\ waiting = {}
    /\ running = {}
    /\ finished = {}
    /\ refused = {}

\* A closing pool still takes the tasks that running tasks submit: they are
\* the work the pool already owes.
Submit(k) ==
    /\ k \notin Known
    /\ phase = "open" \/ (phase = "closing" /\ running # {})
    /\ waiting' = waiting \cup {k}
    /\ UNCHANGED <<phase, running, finished, refused>>

Refuse(k) ==
    /\ k \notin Known
    /\ phase = "closing"
    /\ refused' = refused \cup {k}
    /\ UNCHANGED <<phase, waiting, running, finished>>

Start(k) ==
    /\ k \in waiting
    /\ Cardinality(running) < PoolSize
    /\ waiting' = waiting \ {k}
    /\ running' = running \cup {k}
    /\ UNCHANGED <<phase, finished, refused>>

Finish(k) ==
    /\ k \in running
    /\ running' = running \ {k}
    /\ finished' = finished \cup {k}
    /\ UNCHANGED <<phase, waiting, refused>>

Close ==
    /\ phase = "open"
    /\ phase' = "closing"
    /\ UNCHANGED <<waiting, running, finished, refused>>

Shut ==
    /\ phase = "closing"
    /\ waiting = {}
    /\ running = {}
    /\ phase' = "closed"
    /\ UNCHANGED <<waiting, running, finished, refused>>

Next ==
    \/ \E k \in Tasks : Submit(k) \/ Refuse(k) \/ Start(k) \/ Finish(k)
    \/ Close
    \/ Shut

Spec == Init /\ [][Next]_vars
=============================================================================
