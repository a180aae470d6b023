---------------------------- MODULE MCRepoBranch ----------------------------
(* A small instance of RepoBranch for TLC. *)
EXTENDS RepoBranch, TLC

\* Executors and tasks are interchangeable, and the run checks safety only.
Symmetry == Permutations(Executor) \union Permutations(Task)
=============================================================================
