---------------------------- MODULE HttpService -----------------------------
(***************************************************************************)
(* The pool of at_httpclient_pool.c with the clients of at_httpclient.c in *)
(* it.  A client goes back to the pool as it is: its headers, the options  *)
(* of its curl handle and its response are there for the next borrower.    *)
(* A borrower makes its calls on a client one after the other, and each    *)
(* is one step: nobody else has the client.                                *)
(***************************************************************************)
EXTENDS HttpClientPool, HttpClient

CONSTANTS Header,     \* the headers a borrower may set
          Param,      \* the bodies a borrower may post
          Status      \* the statuses a server may answer with

ASSUME HttpServiceAssumption ==
    /\ HTTP_OK # NotSet
    /\ NotSet \notin Param \cup Status

VARIABLES
    client,     \* the clients
    answer,     \* history: the server's answer to a client's last request
    wanted,     \* history: the headers set on a client since the last reset
    crashed     \* libcurl has read a list that was freed

cvars == <<client, answer, wanted, crashed>>
svars == <<vars, cvars>>

\* httpclient_pool_create makes the clients and sets proxy, timeout and
\* signal options of each.
ServiceInit ==
    /\ Init
    /\ client = [c \in Client |-> httpclient_new]
    /\ answer = [c \in Client |-> NotSet]
    /\ wanted = [c \in Client |-> {}]
    /\ crashed = FALSE

\* httpclient_set_header and httpclient_reset_header by the borrower.
BorrowerSetsHeader(t, h) ==
    /\ borrowed[t] \in Client
    /\ client' = [client EXCEPT ![borrowed[t]] = SetHeader(@, h)]
    /\ wanted' = [wanted EXCEPT ![borrowed[t]] = @ \cup {h}]
    /\ UNCHANGED <<vars, answer, crashed>>

BorrowerResetsHeader(t) ==
    /\ borrowed[t] \in Client
    /\ client' = [client EXCEPT ![borrowed[t]] = ResetHeader(@)]
    /\ wanted' = [wanted EXCEPT ![borrowed[t]] = {}]
    /\ UNCHANGED <<vars, answer, crashed>>

\* The three calls; only a post has a parameter, or more, or none.
Calls == [method : {"HEAD", "GET", "POST"}, param : {NotSet}]
         \cup [method : {"POST"}, param : Param]

\* httpclient_head, _get or _post by the borrower; the answer may never come.
BorrowerRequests(t, method, param) ==
    LET c == borrowed[t]
        ready == Prepared(Asked(client[c], method, param))
    IN /\ Request(t)
       /\ ~ReadsFreedList(ready)
       /\ \E a \in Status \cup {NotSet} :
             /\ answer' = [answer EXCEPT ![c] = a]
             /\ client' = [client EXCEPT ![c] = Responded(ready, a)]
       /\ UNCHANGED <<wanted, crashed>>

\* The same with a list of headers that was freed and never replaced.
BorrowerCrashes(t, method, param) ==
    /\ Request(t)
    /\ ReadsFreedList(Prepared(Asked(client[borrowed[t]], method, param)))
    /\ crashed' = TRUE
    /\ UNCHANGED <<client, answer, wanted>>

PoolStep ==
    /\ \/ \E t \in Thread : Get(t) \/ Return(t)
       \/ DestroyCall \/ DestroyClient \/ DestroyEnd
    /\ UNCHANGED cvars

ServiceOver == (crashed \/ state = "gone") /\ UNCHANGED svars

ServiceNext ==
    \/ /\ ~crashed
       /\ \/ \E t \in Thread :
                \/ \E h \in Header : BorrowerSetsHeader(t, h)
                \/ BorrowerResetsHeader(t)
                \/ \E call \in Calls :
                      \/ BorrowerRequests(t, call.method, call.param)
                      \/ BorrowerCrashes(t, call.method, call.param)
          \/ PoolStep
    \/ ServiceOver

ServiceSpec == ServiceInit /\ [][ServiceNext]_svars

-----------------------------------------------------------------------------
(* Properties.                                                              *)

\* op_code = 0 is a safe test: http_status is then what the server answered to
\* the last request on the client and not to an earlier one, perhaps another
\* borrower's, whose status stays in the response when a transfer fails.
StatusIsFresh ==
    \A c \in Client :
       response[c] # Nothing /\ ~crashed /\ client[c].op_code = 0 =>
          client[c].http_status = answer[c]

\* A request carries all the headers that were set on the client since the last
\* reset, by whomever, also those added after curl was given the list.
HeadersComplete ==
    \A c \in Client : LET ready == Prepared(client[c])
                      IN ReadsFreedList(ready) \/ Headers(ready) = wanted[c]

\* A request goes out by the method it asks for, whatever was asked of the client
\* before: httpclient_get gets (tests/test_httpclient.c:24-27 prints the text it
\* got).  The options of an earlier HEAD or POST, perhaps another borrower's,
\* are still set, so this fails.
MethodAsAsked ==
    \A t \in Thread, call \in Calls :
       borrowed[t] \in Client /\ (call.method = "POST" => call.param # NotSet) =>
          Method(Asked(client[borrowed[t]], call.method, call.param)) = call.method
=============================================================================
