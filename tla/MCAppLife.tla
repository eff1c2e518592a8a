------------------------------ MODULE MCAppLife ------------------------------
(* Instances of AppLife small enough for TLC. *)
EXTENDS AppLife, TLC

\* Apps, processes and calls are interchangeable.
Symmetric == Permutations(Apps) \cup Permutations(Procs) \cup Permutations(Users)
==============================================================================
