------------------------- MODULE HttpServiceProofs --------------------------
(***************************************************************************)
(* Proofs about HttpClientPool and HttpService for every set of threads,   *)
(* clients, headers and statuses.  In the pool no client is ever in two    *)
(* places, a thread reads the answer to its own request, and destruction   *)
(* takes the clients along.  The service implements the pool, so that      *)
(* holds for it, and the state of the clients, which pass from borrower to *)
(* borrower as they are, has an invariant of its own.                      *)
(***************************************************************************)
EXTENDS HttpService, FiniteSetTheorems, TLAPS

-----------------------------------------------------------------------------
(* The pool.                                                                *)

\* The types.
Types ==
    /\ set \in Seq(Client \cup {Null})
    /\ borrowed \in [Thread -> Client \cup {Null, Nothing}]
    /\ response \in [Client -> Thread \cup {Nothing}]
    /\ waiting \subseteq Thread
    /\ state \in {"live", "destroying", "gone"}
    /\ nulls \in BOOLEAN

\* Nobody has given a NULL back as long as there is none on the stack.
NoNullUnseen == ~nulls => \A i \in DOMAIN set : set[i] # Null

\* Destruction ends at an empty stack or at a NULL on it.
EndsEmpty == state = "gone" /\ ~nulls => set = <<>>

IInv == Types /\ OnePlace /\ ResponseIsOwn /\ NoNullUnseen /\ EndsEmpty

\* The stack without its top.
LEMMA BelowTop ==
    ASSUME Types, set # <<>>
    PROVE  /\ Below \in Seq(Client \cup {Null}) /\ Top \in Client \cup {Null}
           /\ DOMAIN Below = 1..Len(set) - 1 /\ DOMAIN set = 1..Len(set)
           /\ Len(set) \in DOMAIN set
           /\ \A i \in DOMAIN Below : i \in DOMAIN set /\ Below[i] = set[i]
           /\ \A i \in DOMAIN set : i \in DOMAIN Below \/ i = Len(set)
  BY DEF Types, Below, Top

\* The stack with one more on it.
LEMMA OneMore ==
    ASSUME Types, NEW c \in Client \cup {Null}
    PROVE  /\ Append(set, c) \in Seq(Client \cup {Null})
           /\ DOMAIN Append(set, c) = DOMAIN set \cup {Len(set) + 1}
           /\ Len(set) + 1 \notin DOMAIN set
           /\ Append(set, c)[Len(set) + 1] = c
           /\ \A i \in DOMAIN set : Append(set, c)[i] = set[i]
  BY DEF Types

\* A new pool has the inductive invariant.
LEMMA InitIInv == Init => IInv
  <1> SUFFICES ASSUME Init PROVE IInv
    OBVIOUS
  <1> USE HttpClientPoolAssumption
  <1>1. Cardinality(Client) \in Nat
    BY FS_CardinalityType
  <1>2. /\ set \in [1..Cardinality(Client) -> Client]
        /\ \A i, j \in 1..Cardinality(Client) : set[i] = set[j] => i = j
        /\ \A c \in Client : \E i \in 1..Cardinality(Client) : set[i] = c
    BY DEF Init, Bijection, Injection, Surjection, IsInjective
  <1>3. Types /\ NoNullUnseen /\ EndsEmpty /\ ResponseIsOwn
    <2>1. set \in Seq(Client) /\ \A i \in DOMAIN set : set[i] # Null
      BY <1>1, <1>2
    <2>2. Types
      <3>1. set \in Seq(Client \cup {Null})
        BY <2>1
      <3>2. QED BY <3>1 DEF Init, Types
    <2>3. QED
      BY <2>1, <2>2 DEF Init, NoNullUnseen, EndsEmpty, ResponseIsOwn
  <1>4. Pooled = Client /\ Borrowed = {} /\ destroyed = {}
    BY <1>2 DEF Init, Pooled, Borrowed
  <1>5. OnePlace
    BY <1>2, <1>4 DEF Init, OnePlace
  <1>6. QED BY <1>3, <1>5 DEF IInv

\* Taking the top off the stack moves one client, or none if it is NULL.
LEMMA PopMoves ==
    ASSUME Types, OnePlace, set # <<>>, set' = Below
    PROVE  /\ Pooled' = Pooled \ {Top}
           /\ Top # Null => Top \in Pooled
           /\ \A i, j \in DOMAIN set' :
                 set'[i] = set'[j] /\ set'[i] # Null => i = j
  <1> DEFINE n == Len(set)
  <1>1. /\ DOMAIN set = 1..n /\ DOMAIN Below = 1..n - 1 /\ n \in 1..n
        /\ n \notin 1..n - 1 /\ 1..n = 1..n - 1 \cup {n} /\ Top = set[n]
        /\ \A i \in 1..n - 1 : Below[i] = set[i]
    BY BelowTop DEF Types, Top
  <1>2. \A i, j \in 1..n : set[i] = set[j] /\ set[i] # Null => i = j
    BY <1>1 DEF OnePlace
  <1> HIDE DEF n
  <1>3. Pooled = {set[i] : i \in 1..n} \ {Null}
        /\ Pooled' = {Below[i] : i \in 1..n - 1} \ {Null}
    BY <1>1 DEF Pooled
  <1>4. Pooled' = Pooled \ {Top}
    BY <1>1, <1>2, <1>3
  <1>5. QED BY <1>1, <1>2, <1>3, <1>4

\* Putting one on moves one client, or none if it is NULL.
LEMMA PushMoves ==
    ASSUME Types, OnePlace, NEW c \in Client \cup {Null},
           set' = Append(set, c), c \notin Pooled
    PROVE  /\ Pooled' = Pooled \cup ({c} \ {Null})
           /\ \A i, j \in DOMAIN set' :
                 set'[i] = set'[j] /\ set'[i] # Null => i = j
  BY OneMore DEF OnePlace, Pooled

\* What a thread that has borrowed nothing takes is borrowed by it alone.
LEMMA Borrows ==
    ASSUME Types, OnePlace, NEW t \in Thread, borrowed[t] = Nothing,
           NEW c \in Client \cup {Null}, c \notin Borrowed,
           borrowed' = [borrowed EXCEPT ![t] = c]
    PROVE  /\ Borrowed' = Borrowed \cup ({c} \ {Null})
           /\ \A u, v \in Thread :
                 borrowed'[u] = borrowed'[v] /\ borrowed'[u] \in Client => u = v
  BY HttpClientPoolAssumption DEF Types, OnePlace, Borrowed

\* What a thread gives back is borrowed by nobody.
LEMMA Returns ==
    ASSUME Types, OnePlace, NEW t \in Thread, borrowed[t] # Nothing,
           borrowed' = [borrowed EXCEPT ![t] = Nothing]
    PROVE  /\ Borrowed' = Borrowed \ {borrowed[t]}
           /\ borrowed[t] # Null => borrowed[t] \in Borrowed
           /\ \A u, v \in Thread :
                 borrowed'[u] = borrowed'[v] /\ borrowed'[u] \in Client => u = v
  BY HttpClientPoolAssumption DEF Types, OnePlace, Borrowed

\* Every step keeps it.
LEMMA StepIInv == IInv /\ [Next]_vars => IInv'
  <1> SUFFICES ASSUME IInv, [Next]_vars PROVE IInv'
    OBVIOUS
  <1> USE HttpClientPoolAssumption DEF IInv
  <1>1. ASSUME NEW t \in Thread, Get(t) PROVE IInv'
    <2>1. CASE set = <<>>
      <3>1. Borrowed' = Borrowed /\ Pooled' = Pooled
        BY <1>1, <2>1 DEF Get, Borrowed, Pooled, Types
      <3>2. Types' /\ NoNullUnseen' /\ EndsEmpty'
        BY <1>1, <2>1 DEF Get, Types, NoNullUnseen, EndsEmpty
      <3>3. ResponseIsOwn'
        BY <1>1, <2>1 DEF Get, Types, ResponseIsOwn
      <3>4. OnePlace'
        BY <1>1, <2>1, <3>1 DEF Get, Types, OnePlace
      <3>5. QED BY <3>2, <3>3, <3>4
    <2>2. CASE set # <<>>
      <3>0. /\ borrowed' = [borrowed EXCEPT ![t] = Top] /\ set' = Below
            /\ borrowed[t] = Nothing /\ state = "live"
            /\ UNCHANGED <<response, waiting, state, destroyed, nulls>>
        BY <1>1, <2>2 DEF Get
      <3>1. Types' /\ NoNullUnseen' /\ EndsEmpty'
        BY <2>2, <3>0, BelowTop DEF Types, NoNullUnseen, EndsEmpty
      <3>2. ResponseIsOwn'
        BY <3>0 DEF Types, ResponseIsOwn
      <3>3. Top \in Client \cup {Null} /\ Top \notin Borrowed
        BY <2>2, BelowTop, PopMoves, <3>0 DEF OnePlace, Borrowed
      <3>4. /\ Borrowed' = Borrowed \cup ({Top} \ {Null})
            /\ \A u, v \in Thread : borrowed'[u] = borrowed'[v]
                                  /\ borrowed'[u] \in Client => u = v
        BY <3>0, <3>3, Borrows
      <3>5. /\ Pooled' = Pooled \ {Top} /\ (Top # Null => Top \in Pooled)
            /\ \A i, j \in DOMAIN set' :
                  set'[i] = set'[j] /\ set'[i] # Null => i = j
        BY <2>2, <3>0, PopMoves
      <3>6. Null \notin Pooled /\ Null \notin Borrowed
        BY DEF Pooled, Borrowed
      <3>7. OnePlace'
        BY <3>0, <3>3, <3>4, <3>5, <3>6 DEF OnePlace
      <3>8. QED BY <3>1, <3>2, <3>7
    <2>3. QED BY <2>1, <2>2
  <1>2. ASSUME NEW t \in Thread, Request(t) PROVE IInv'
    <2>1. Types' /\ NoNullUnseen' /\ EndsEmpty'
      BY <1>2 DEF Request, Types, NoNullUnseen, EndsEmpty
    <2>2. ResponseIsOwn'
      BY <1>2 DEF Request, Types, ResponseIsOwn, OnePlace
    <2>3. OnePlace'
      BY <1>2 DEF Request, OnePlace, Pooled, Borrowed
    <2>4. QED BY <2>1, <2>2, <2>3
  <1>3. ASSUME NEW t \in Thread, Return(t) PROVE IInv'
    <2>0. /\ set' = Append(set, borrowed[t]) /\ state = "live"
          /\ borrowed[t] # Nothing
          /\ borrowed' = [borrowed EXCEPT ![t] = Nothing]
          /\ waiting' = waiting \ {t}
          /\ nulls' = (nulls \/ borrowed[t] = Null)
          /\ UNCHANGED <<response, state, destroyed>>
      BY <1>3 DEF Return
    <2>1. borrowed[t] \in Client \cup {Null} /\ borrowed[t] \notin Pooled
      BY <2>0, Returns DEF Types, OnePlace, Pooled
    <2>2. Types' /\ NoNullUnseen' /\ EndsEmpty'
      <3>1. Types'
        BY <2>0, <2>1, OneMore DEF Types
      <3>2. ~nulls' => ~nulls /\ borrowed[t] # Null
        BY <2>0
      <3>3. \A i \in DOMAIN set' :
               \/ set'[i] = borrowed[t]
               \/ i \in DOMAIN set /\ set'[i] = set[i]
        BY <2>0, <2>1, OneMore
      <3>4. NoNullUnseen' /\ EndsEmpty'
        BY <2>0, <3>2, <3>3 DEF NoNullUnseen, EndsEmpty
      <3>5. QED BY <3>1, <3>4
    <2>3. ResponseIsOwn'
      BY <2>0 DEF Types, ResponseIsOwn
    <2>4. /\ Borrowed' = Borrowed \ {borrowed[t]}
          /\ borrowed[t] # Null => borrowed[t] \in Borrowed
          /\ \A u, v \in Thread : borrowed'[u] = borrowed'[v]
                                /\ borrowed'[u] \in Client => u = v
      BY <2>0, Returns
    <2>5. /\ Pooled' = Pooled \cup ({borrowed[t]} \ {Null})
          /\ \A i, j \in DOMAIN set' :
                set'[i] = set'[j] /\ set'[i] # Null => i = j
      BY <2>0, <2>1, PushMoves
    <2>6. Null \notin Borrowed
      BY DEF Borrowed
    <2>7. OnePlace'
      BY <2>0, <2>1, <2>4, <2>5, <2>6 DEF OnePlace
    <2>8. QED BY <2>2, <2>3, <2>7
  <1>4. CASE DestroyCall
    <2>1. Types' /\ ResponseIsOwn' /\ NoNullUnseen' /\ EndsEmpty'
      BY <1>4 DEF DestroyCall, Types, ResponseIsOwn, NoNullUnseen, EndsEmpty
    <2>2. OnePlace'
      BY <1>4 DEF DestroyCall, OnePlace, Pooled, Borrowed
    <2>3. QED BY <2>1, <2>2
  <1>5. CASE DestroyClient
    <2>1. Types' /\ NoNullUnseen' /\ EndsEmpty'
      BY <1>5, BelowTop DEF DestroyClient, Types, NoNullUnseen, EndsEmpty
    <2>2. ResponseIsOwn'
      BY <1>5 DEF DestroyClient, ResponseIsOwn
    <2>3. Borrowed' = Borrowed
      BY <1>5 DEF DestroyClient, Borrowed
    <2>4. OnePlace'
      BY <1>5, <2>3, PopMoves DEF DestroyClient, OnePlace
    <2>5. QED BY <2>1, <2>2, <2>4
  <1>6. CASE DestroyEnd
    <2>1. Types' /\ OnePlace' /\ ResponseIsOwn' /\ NoNullUnseen'
      BY <1>6 DEF DestroyEnd, Types, OnePlace, ResponseIsOwn, NoNullUnseen,
                  Pooled, Borrowed
    <2>2. set # <<>> => Len(set) \in DOMAIN set
      BY BelowTop
    <2>3. EndsEmpty'
      BY <1>6, <2>2 DEF DestroyEnd, EndsEmpty, NoNullUnseen, Top
    <2>4. QED BY <2>1, <2>3
  <1>7. CASE UNCHANGED vars
    <2>1. Types' /\ ResponseIsOwn' /\ NoNullUnseen' /\ EndsEmpty'
      BY <1>7 DEF vars, Types, ResponseIsOwn, NoNullUnseen, EndsEmpty
    <2>2. Pooled' = Pooled /\ Borrowed' = Borrowed
      BY <1>7 DEF vars, Pooled, Borrowed
    <2>3. OnePlace'
      BY <1>7, <2>2 DEF vars, OnePlace
    <2>4. QED BY <2>1, <2>3
  <1>8. QED
    BY <1>1, <1>2, <1>3, <1>4, <1>5, <1>6, <1>7 DEF Next, Over

\* Every reachable state has it.
LEMMA Invariant == Spec => []IInv
  BY InitIInv, StepIInv, PTL DEF Spec

\* The types, which the invariant needs: set holds clients and NULLs only.
THEOREM TypeCorrect == Spec => []Types
  BY Invariant, PTL DEF IInv

\* No client is in two places or lost: it is on the stack once, with one
\* thread, or destroyed.
THEOREM OneOwner == Spec => []OnePlace
  BY Invariant, PTL DEF IInv

\* The response a thread reads is the answer to its own request.
THEOREM OwnResponse == Spec => []ResponseIsOwn
  BY Invariant, PTL DEF IInv

\* Nothing but a borrowed client survives the pool when no NULL was given back.
THEOREM DestroyComplete == Spec => []DestroyedWithClients
  <1>1. IInv => DestroyedWithClients
    BY DEF IInv, EndsEmpty, DestroyedWithClients, OnePlace, Pooled
  <1>2. QED BY <1>1, Invariant, PTL

-----------------------------------------------------------------------------
(* The clients in it.                                                       *)

ClientRecord ==
    [header_list : SUBSET Header, httpheader : {"none", "current", "freed"},
     nobody : BOOLEAN, postfields : Param \cup {NotSet},
     op_code : {0, 1}, http_status : Status \cup {HTTP_OK}]

ClientTypes ==
    /\ client \in [Client -> ClientRecord]
    /\ answer \in [Client -> Status \cup {NotSet}]
    /\ wanted \in [Client -> SUBSET Header]
    /\ crashed \in BOOLEAN
    /\ response \in [Client -> Thread \cup {Nothing}]
    /\ Nothing \notin Thread

\* The list is what was set since the last reset, and a response that claims
\* success has the answer.
ClientSound ==
    \A c \in Client :
       /\ client[c].header_list = wanted[c]
       /\ response[c] # Nothing /\ ~crashed /\ client[c].op_code = 0 =>
             client[c].http_status = answer[c]

ServiceInv == ClientTypes /\ ClientSound

-----------------------------------------------------------------------------
(* The service implements the pool.                                         *)

LEMMA StepPool == [ServiceNext]_svars => [Next]_vars
  <1> SUFFICES ASSUME [ServiceNext]_svars PROVE [Next]_vars
    OBVIOUS
  <1> USE DEF Next
  <1>1. ASSUME NEW t \in Thread, NEW h \in Header, BorrowerSetsHeader(t, h)
        PROVE  UNCHANGED vars
    BY <1>1 DEF BorrowerSetsHeader
  <1>2. ASSUME NEW t \in Thread, BorrowerResetsHeader(t) PROVE UNCHANGED vars
    BY <1>2 DEF BorrowerResetsHeader
  <1>3. ASSUME NEW t \in Thread, NEW call \in Calls,
               \/ BorrowerRequests(t, call.method, call.param)
               \/ BorrowerCrashes(t, call.method, call.param)
        PROVE  Next
    BY <1>3 DEF BorrowerRequests, BorrowerCrashes
  <1>4. CASE PoolStep
    BY <1>4 DEF PoolStep
  <1>5. CASE ServiceOver
    BY <1>5 DEF ServiceOver, svars
  <1>6. CASE UNCHANGED svars
    BY <1>6 DEF svars
  <1> QED BY <1>1, <1>2, <1>3, <1>4, <1>5, <1>6 DEF ServiceNext

\* Whatever the borrowers do with the clients, the pool under them behaves as
\* HttpClientPool says.
THEOREM ServiceImplementsPool == ServiceSpec => Spec
  <1>1. ServiceInit => Init
    BY DEF ServiceInit
  <1>2. QED BY <1>1, StepPool, PTL DEF ServiceSpec, Spec

\* Through all requests no client is in two hands.
THEOREM ServiceOneOwner == ServiceSpec => []OnePlace
  BY ServiceImplementsPool, OneOwner, PTL

-----------------------------------------------------------------------------
(* The state of the clients.                                                *)

LEMMA InitService == ServiceInit => ServiceInv
  <1> SUFFICES ASSUME ServiceInit PROVE ServiceInv
    OBVIOUS
  <1> USE HttpClientPoolAssumption, HttpServiceAssumption
          DEF ServiceInit, Init, httpclient_new
  <1>1. ClientTypes
    BY DEF ClientTypes, ClientRecord
  <1>2. ClientSound
    BY DEF ClientSound
  <1> QED BY <1>1, <1>2 DEF ServiceInv

\* What the options and the answer of a request make of a client.
LEMMA AskedKeeps ==
    ASSUME NEW r \in ClientRecord, NEW method, NEW param \in Param \cup {NotSet}
    PROVE  /\ Asked(r, method, param) \in ClientRecord
           /\ Asked(r, method, param).header_list = r.header_list
  BY DEF Asked, ClientRecord

LEMMA PreparedKeeps ==
    ASSUME NEW r \in ClientRecord
    PROVE  /\ Prepared(r) \in ClientRecord
           /\ Prepared(r).header_list = r.header_list
  BY DEF Prepared, ClientRecord

LEMMA RespondedKeeps ==
    ASSUME NEW r \in ClientRecord, NEW a \in Status \cup {NotSet}
    PROVE  /\ Responded(r, a) \in ClientRecord
           /\ Responded(r, a).header_list = r.header_list
           /\ Responded(r, a).op_code = 0 => Responded(r, a).http_status = a
  <1>1. CASE a = NotSet
    BY <1>1 DEF Responded, ClientRecord
  <1>2. CASE a # NotSet
    <2>1. Responded(r, a) = [r EXCEPT !.op_code = 0, !.http_status = a]
      BY <1>2 DEF Responded
    <2>2. a \in Status \cup {HTTP_OK}
      BY <1>2
    <2>3. QED BY <2>1, <2>2 DEF ClientRecord
  <1> QED BY <1>1, <1>2

\* A request changes the state of one client; its answer is in the response.
LEMMA RequestSound ==
    ASSUME ServiceInv, NEW t \in Thread, NEW method, NEW param \in Param \cup {NotSet},
           BorrowerRequests(t, method, param)
    PROVE  ServiceInv'
  <1> DEFINE c == borrowed[t]
             ready == Prepared(Asked(client[c], method, param))
  <1> USE HttpServiceAssumption
  <1>1. /\ c \in Client
        /\ response' = [response EXCEPT ![c] = t]
        /\ wanted' = wanted /\ crashed' = crashed
    BY DEF BorrowerRequests, Request
  <1>2. PICK a \in Status \cup {NotSet} :
               /\ answer' = [answer EXCEPT ![c] = a]
               /\ client' = [client EXCEPT ![c] = Responded(ready, a)]
    BY DEF BorrowerRequests
  <1>3. client[c] \in ClientRecord
    BY <1>1 DEF ServiceInv, ClientTypes
  <1>4. /\ ready \in ClientRecord
        /\ ready.header_list = client[c].header_list
    <2>1. /\ Asked(client[c], method, param) \in ClientRecord
          /\ Asked(client[c], method, param).header_list = client[c].header_list
      BY <1>3, AskedKeeps
    <2>2. QED BY <2>1, PreparedKeeps
  <1>5. /\ Responded(ready, a) \in ClientRecord
        /\ Responded(ready, a).header_list = client[c].header_list
        /\ Responded(ready, a).op_code = 0 => Responded(ready, a).http_status = a
    BY <1>2, <1>4, RespondedKeeps
  <1>6. ClientTypes'
    BY <1>1, <1>2, <1>5 DEF ServiceInv, ClientTypes
  <1>7. ClientSound'
    <2> SUFFICES ASSUME NEW d \in Client
                 PROVE  /\ client'[d].header_list = wanted'[d]
                        /\ response'[d] # Nothing /\ ~crashed'
                           /\ client'[d].op_code = 0 =>
                              client'[d].http_status = answer'[d]
      BY DEF ClientSound
    <2>1. CASE d = c
      BY <2>1, <1>1, <1>2, <1>5 DEF ServiceInv, ClientSound, ClientTypes
    <2>2. CASE d # c
      BY <2>2, <1>1, <1>2 DEF ServiceInv, ClientSound, ClientTypes
    <2> QED BY <2>1, <2>2
  <1> QED BY <1>6, <1>7 DEF ServiceInv

LEMMA StepService == ServiceInv /\ [ServiceNext]_svars => ServiceInv'
  <1> SUFFICES ASSUME ServiceInv, [ServiceNext]_svars PROVE ServiceInv'
    OBVIOUS
  <1> USE DEF ServiceInv
  <1>1. ASSUME NEW t \in Thread, NEW h \in Header, BorrowerSetsHeader(t, h)
        PROVE  ServiceInv'
    <2> DEFINE c == borrowed[t]
    <2>1. /\ c \in Client
          /\ client' = [client EXCEPT ![c] = SetHeader(client[c], h)]
          /\ wanted' = [wanted EXCEPT ![c] = wanted[c] \cup {h}]
          /\ UNCHANGED <<response, answer, crashed>>
      BY <1>1 DEF BorrowerSetsHeader, ClientTypes, vars
    <2>2. ASSUME NEW r \in ClientRecord
          PROVE  /\ SetHeader(r, h) \in ClientRecord
                 /\ SetHeader(r, h).header_list = r.header_list \cup {h}
                 /\ SetHeader(r, h).op_code = r.op_code
                 /\ SetHeader(r, h).http_status = r.http_status
      BY DEF SetHeader, ClientRecord
    <2> HIDE DEF c
    <2>3. ClientTypes'
      BY <2>1, <2>2 DEF ClientTypes
    <2>4. ClientSound'
      <3>1. client[c] \in ClientRecord
        BY <2>1 DEF ClientTypes
      <3>2. /\ client'[c] = SetHeader(client[c], h)
            /\ wanted'[c] = wanted[c] \cup {h}
            /\ \A d \in Client \ {c} : /\ client'[d] = client[d]
                                       /\ wanted'[d] = wanted[d]
        BY <2>1 DEF ClientTypes
      <3>3. /\ client'[c].header_list = wanted'[c]
            /\ client'[c].op_code = client[c].op_code
            /\ client'[c].http_status = client[c].http_status
        BY <3>1, <3>2, <2>1, <2>2 DEF ClientSound
      <3> SUFFICES ASSUME NEW d \in Client
                   PROVE  /\ client'[d].header_list = wanted'[d]
                          /\ response[d] # Nothing /\ ~crashed
                             /\ client'[d].op_code = 0 =>
                                client'[d].http_status = answer[d]
        BY <2>1 DEF ClientSound
      <3>4. CASE d = c
        BY <3>4, <3>3 DEF ClientSound
      <3>5. CASE d # c
        BY <3>5, <3>2 DEF ClientSound
      <3> QED BY <3>4, <3>5
    <2> QED BY <2>3, <2>4
  <1>2. ASSUME NEW t \in Thread, BorrowerResetsHeader(t) PROVE ServiceInv'
    <2> DEFINE c == borrowed[t]
    <2>1. /\ c \in Client
          /\ client' = [client EXCEPT ![c] = ResetHeader(client[c])]
          /\ wanted' = [wanted EXCEPT ![c] = {}]
          /\ UNCHANGED <<response, answer, crashed>>
      BY <1>2 DEF BorrowerResetsHeader, ClientTypes, vars
    <2>2. ASSUME NEW r \in ClientRecord
          PROVE  /\ ResetHeader(r) \in ClientRecord
                 /\ ResetHeader(r).header_list = {}
                 /\ ResetHeader(r).op_code = r.op_code
                 /\ ResetHeader(r).http_status = r.http_status
      BY DEF ResetHeader, ClientRecord
    <2> HIDE DEF c
    <2>3. ClientTypes'
      BY <2>1, <2>2 DEF ClientTypes
    <2>4. \A d \in Client : d # c => client'[d] = client[d] /\ wanted'[d] = wanted[d]
      BY <2>1 DEF ClientTypes
    <2>5. /\ client'[c] = ResetHeader(client[c]) /\ wanted'[c] = {}
          /\ client[c] \in ClientRecord
      BY <2>1 DEF ClientTypes
    <2>6. ASSUME NEW d \in Client
          PROVE  /\ client'[d].header_list = wanted'[d]
                 /\ client'[d].op_code = client[d].op_code
                 /\ client'[d].http_status = client[d].http_status
      <3>1. CASE d = c
        <4>1. /\ ResetHeader(client[c]).header_list = {}
              /\ ResetHeader(client[c]).op_code = client[c].op_code
              /\ ResetHeader(client[c]).http_status = client[c].http_status
          BY <2>2, <2>5
        <4>2. QED BY <2>5, <3>1, <4>1
      <3>2. CASE d # c
        BY <2>4, <3>2 DEF ClientSound
      <3>3. QED BY <3>1, <3>2
    <2>7. ClientSound'
      BY <2>1, <2>6 DEF ClientSound
    <2> QED BY <2>3, <2>7
  <1>3. ASSUME NEW t \in Thread, NEW call \in Calls,
               BorrowerRequests(t, call.method, call.param)
        PROVE  ServiceInv'
    <2>1. call.param \in Param \cup {NotSet}
      BY DEF Calls
    <2>2. QED BY <1>3, <2>1, RequestSound
  <1>4. ASSUME NEW t \in Thread, NEW call \in Calls,
               BorrowerCrashes(t, call.method, call.param)
        PROVE  ServiceInv'
    BY <1>4 DEF BorrowerCrashes, Request, ClientTypes, ClientSound
  <1>5. CASE PoolStep
    <2>1. UNCHANGED <<response, cvars>>
      BY <1>5 DEF PoolStep, Get, Return, DestroyCall, DestroyClient, DestroyEnd
    <2>2. QED BY <2>1 DEF cvars, ClientTypes, ClientSound
  <1>6. CASE UNCHANGED svars
    BY <1>6 DEF svars, vars, cvars, ClientTypes, ClientSound
  <1> QED BY <1>1, <1>2, <1>3, <1>4, <1>5, <1>6 DEF ServiceNext, ServiceOver

LEMMA ServiceInvariant == ServiceSpec => []ServiceInv
  BY InitService, StepService, PTL DEF ServiceSpec

\* A response that says success has the status of the request just made.
THEOREM FreshStatus == ServiceSpec => []StatusIsFresh
  <1>1. ServiceInv => StatusIsFresh
    BY DEF ServiceInv, ClientSound, StatusIsFresh
  <1>2. QED BY <1>1, ServiceInvariant, PTL

\* No header that was set is missing from a request, and none is left over.
THEOREM CompleteHeaders == ServiceSpec => []HeadersComplete
  <1>1. ServiceInv => HeadersComplete
    BY DEF ServiceInv, ClientTypes, ClientSound, ClientRecord, HeadersComplete,
           Prepared, ReadsFreedList, Headers
  <1>2. QED BY <1>1, ServiceInvariant, PTL
=============================================================================
