----------------------------- MODULE HttpClient -----------------------------
(***************************************************************************)
(* at_httpclient.c on one client, as operators: a curl handle whose        *)
(* options stay as they are from one request to the next, and a response   *)
(* that every request overwrites.  libcurl is not part of the repository;  *)
(* of it the model has what the client relies on: an option stays set,     *)
(* CURLOPT_NOBODY makes every request a HEAD and otherwise                 *)
(* CURLOPT_POSTFIELDS makes it a POST, and the handle keeps the pointer to *)
(* the header list and reads the list at the time of the request.          *)
(*                                                                         *)
(* An operator that stands directly before a definition and that nothing   *)
(* uses is a mutant of that definition.                                    *)
(***************************************************************************)
EXTENDS Integers

CONSTANTS HTTP_OK,    \* what http_status is before any request
          NotSet      \* an option that is not set, an answer that never came

\* httpclient_new.  httpheader is "none", "current" (the list of the client)
\* or "freed" (a list that reset_header freed).
httpclient_new ==
    [header_list |-> {}, httpheader |-> "none",
     nobody |-> FALSE, postfields |-> NotSet,
     op_code |-> 0, http_status |-> HTTP_OK]

\* httpclient_set_header; a list that curl already has grows at its end.
SetHeader(c, h) == [c EXCEPT !.header_list = @ \cup {h}]

ResetKeepsList(c) ==
    [c EXCEPT !.httpheader = IF @ = "current" THEN "none" ELSE @]

\* httpclient_reset_header frees the list, and does not tell curl.
ResetHeader(c) ==
    [c EXCEPT !.header_list = {},
              !.httpheader = IF @ = "current" THEN "freed" ELSE @]

\* What the callers of http_request set before it; httpclient_post without any
\* parameter sets nothing.
Asked(c, method, param) ==
    CASE method = "HEAD" -> [c EXCEPT !.nobody = TRUE]
      [] method = "POST" /\ param # NotSet -> [c EXCEPT !.postfields = param]
      [] OTHER -> c

\* The options http_request performs with.
Prepared(c) ==
    IF c.header_list # {} THEN [c EXCEPT !.httpheader = "current"] ELSE c

\* curl would read a header list that is gone.
ReadsFreedList(c) == c.httpheader = "freed"

\* The method and the headers curl sends with the options of c.
Method(c) == IF c.nobody THEN "HEAD"
             ELSE IF c.postfields # NotSet THEN "POST" ELSE "GET"
Headers(c) == IF c.httpheader = "current" THEN c.header_list ELSE {}

OpCodeKept(c, reply) ==
    IF reply = NotSet THEN c ELSE [c EXCEPT !.http_status = reply]

\* The response of http_request; the status is written only when the transfer
\* has succeeded.
Responded(c, reply) ==
    IF reply = NotSet THEN [c EXCEPT !.op_code = 1]
    ELSE [c EXCEPT !.op_code = 0, !.http_status = reply]
=============================================================================
