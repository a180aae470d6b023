------------------------ MODULE MCExecutionEngine ------------------------
(* Small instances of ExecutionEngine for TLC. *)
EXTENDS ExecutionEngine, TLC

CONSTANTS a, b, c, e1, e2, w1, w2

\* Task graphs.
Chain  == (a :> {}) @@ (b :> {a})
Join   == (a :> {}) @@ (b :> {}) @@ (c :> {a, b})

\* Threads.
OnePool == [w \in {w1, w2} |-> e1]
OneEach == (w1 :> e1) @@ (w2 :> e2)

\* Workers of one pool are interchangeable.
Workers == Permutations({w1, w2})
==========================================================================
