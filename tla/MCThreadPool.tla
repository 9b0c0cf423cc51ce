------------------------------ MODULE MCThreadPool ------------------------------
(* Instances of ThreadPool for TLC. *)
EXTENDS ThreadPool, TLC

\* Clients are interchangeable, and so are workers.
Symmetry == Permutations(Worker) \cup Permutations(Client)
=============================================================================
