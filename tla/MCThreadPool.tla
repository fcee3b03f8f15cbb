---------------------------- MODULE MCThreadPool ----------------------------
(***************************************************************************)
(* Instances of ThreadPool for TLC.  Threads and tasks are model values;   *)
(* workers, clients and tasks are interchangeable among themselves, so all *)
(* three are symmetric in the runs that check no liveness.                 *)
(***************************************************************************)
EXTENDS ThreadPool

Symmetry == Permutations(Workers) \cup Permutations(Clients)
            \cup Permutations(Tasks)
=============================================================================
