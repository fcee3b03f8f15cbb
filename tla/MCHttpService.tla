--------------------------- MODULE MCHttpService ----------------------------
(***************************************************************************)
(* HttpService with two clients and three threads, so that a client goes   *)
(* from hand to hand and a thread may find the pool empty.                 *)
(***************************************************************************)
EXTENDS HttpService, TLC

Symmetry == Permutations(Client) \cup Permutations(Thread)
            \cup Permutations(Header)
=============================================================================
