--------------------------- MODULE HttpClientPool ---------------------------
(***************************************************************************)
(* at_httpclient_pool.c: threads borrow clients from a stack under a mutex *)
(* and give them back; the owner destroys the pool without the mutex.  A   *)
(* call of get or return is one critical section and so one step; the      *)
(* threads make none once the owner has begun to destroy the pool.         *)
(*                                                                         *)
(* An operator that stands directly before an action and that nothing uses *)
(* is a mutant of that action.                                             *)
(***************************************************************************)
EXTENDS Integers, Sequences, FiniteSets, Functions

CONSTANTS Thread,    \* the threads that borrow
          Client,    \* the clients made by httpclient_pool_create
          Null,      \* the NULL pointer, which get returns and return accepts
          Nothing    \* a thread that has borrowed nothing, and has no answer

ASSUME HttpClientPoolAssumption ==
    /\ IsFiniteSet(Client) /\ IsFiniteSet(Thread)
    /\ Null \notin Client \cup {Nothing}
    /\ Nothing \notin Client \cup Thread

VARIABLES
    set,         \* pool->set: the stack, its top last
    borrowed,    \* what each thread got and has not given back
    response,    \* client->response: the thread whose request filled it
    waiting,     \* history: the threads that have a response to read
    state,       \* "live", "destroying" or "gone"
    destroyed,   \* the clients that were destroyed
    nulls        \* history: a NULL was given back

vars == <<set, borrowed, response, waiting, state, destroyed, nulls>>

Top == set[Len(set)]
Below == SubSeq(set, 1, Len(set) - 1)
Pooled == {set[i] : i \in DOMAIN set} \ {Null}
Borrowed == {borrowed[t] : t \in Thread} \ {Null, Nothing}

\* httpclient_pool_create; the clients in the order they were made.
Init ==
    /\ set \in Bijection(1..Cardinality(Client), Client)
    /\ borrowed = [t \in Thread |-> Nothing]
    /\ response = [c \in Client |-> Nothing]
    /\ waiting = {}
    /\ state = "live"
    /\ destroyed = {}
    /\ nulls = FALSE

GetPeeks(t) ==
    /\ state = "live" /\ borrowed[t] = Nothing
    /\ borrowed' = [borrowed EXCEPT ![t] = IF set = <<>> THEN Null ELSE Top]
    /\ UNCHANGED <<set, response, waiting, state, destroyed, nulls>>

\* httpclient_pool_get: NULL when all clients are out, and never any waiting.
Get(t) ==
    /\ state = "live" /\ borrowed[t] = Nothing
    /\ IF set = <<>>
       THEN /\ borrowed' = [borrowed EXCEPT ![t] = Null]
            /\ UNCHANGED set
       ELSE /\ borrowed' = [borrowed EXCEPT ![t] = Top]
            /\ set' = Below
    /\ UNCHANGED <<response, waiting, state, destroyed, nulls>>

\* httpclient_head, _get or _post: the response lives in the client, and the
\* next request on the client overwrites it.
Request(t) ==
    /\ borrowed[t] \in Client
    /\ response' = [response EXCEPT ![borrowed[t]] = t]
    /\ waiting' = waiting \cup {t}
    /\ UNCHANGED <<set, borrowed, state, destroyed, nulls>>

\* httpclient_pool_return of whatever get returned.
Return(t) ==
    /\ state = "live" /\ borrowed[t] # Nothing
    /\ set' = Append(set, borrowed[t])
    /\ borrowed' = [borrowed EXCEPT ![t] = Nothing]
    /\ waiting' = waiting \ {t}
    /\ nulls' = (nulls \/ borrowed[t] = Null)
    /\ UNCHANGED <<response, state, destroyed>>

\* httpclient_pool_destroy is called ...
DestroyCall ==
    /\ state = "live"
    /\ state' = "destroying"
    /\ UNCHANGED <<set, borrowed, response, waiting, destroyed, nulls>>

\* ... pops and destroys one client after the other ...
DestroyClient ==
    /\ state = "destroying" /\ set # <<>>
    /\ Top # Null
    /\ set' = Below
    /\ destroyed' = destroyed \cup {Top}
    /\ UNCHANGED <<borrowed, response, waiting, state, nulls>>

DestroyEndEarly ==
    /\ state = "destroying"
    /\ Len(set) <= 1
    /\ state' = "gone"
    /\ UNCHANGED <<set, borrowed, response, waiting, destroyed, nulls>>

\* ... until a pop returns NULL, for an empty stack or for a NULL on it.
DestroyEnd ==
    /\ state = "destroying"
    /\ \/ set = <<>>
       \/ set # <<>> /\ Top = Null
    /\ state' = "gone"
    /\ UNCHANGED <<set, borrowed, response, waiting, destroyed, nulls>>

Over == state = "gone" /\ UNCHANGED vars

Next ==
    \/ \E t \in Thread : Get(t) \/ Request(t) \/ Return(t)
    \/ DestroyCall
    \/ DestroyClient
    \/ DestroyEnd
    \/ Over

Spec == Init /\ [][Next]_vars

-----------------------------------------------------------------------------
(* Properties.                                                              *)

\* Every client is in one place: once on the stack, or with one thread, or
\* destroyed; nobody uses a client that another thread has or that is no more.
OnePlace ==
    /\ \A i, j \in DOMAIN set : set[i] = set[j] /\ set[i] # Null => i = j
    /\ \A t, u \in Thread :
          borrowed[t] = borrowed[u] /\ borrowed[t] \in Client => t = u
    /\ Pooled \cap Borrowed = {}
    /\ (Pooled \cup Borrowed) \cap destroyed = {}
    /\ Pooled \cup Borrowed \cup destroyed = Client

\* What a thread reads in the response of the client it has borrowed is the
\* answer to its own request, until it gives the client back.
ResponseIsOwn ==
    \A t \in waiting : borrowed[t] \in Client /\ response[borrowed[t]] = t

\* The pool is destroyed with all its clients but those that are out, unless
\* somebody has given a NULL back, which ends the loop too early.
DestroyedWithClients ==
    state = "gone" /\ ~nulls => destroyed = Client \ Borrowed
=============================================================================
