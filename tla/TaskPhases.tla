----------------------------- MODULE TaskPhases -----------------------------
(***************************************************************************)
(* What Phase B hands over: a graph of tasks in phases, and the rows that  *)
(* are made of it.  TaskGraph says how they come about; here is what is    *)
(* asked of them.                                                          *)
(***************************************************************************)
EXTENDS Naturals

VARIABLES
    brief,   \* what the brief names: a database, a product, performance
    stage,   \* where Phase B is
    graph,   \* the graph: a function on the ids of its tasks
    edits,   \* history: what was typed at Gate 2 that changed the graph
    checked, \* history: whether the graph was approved by `approve`
    row      \* the status of the row of each atomic task, once there are rows

Children(g, i) == {j \in DOMAIN g : g[j].parent = i}

\* A set of tasks that may be done at one time, when a composite task is done
\* with its children.
Closed(g, S) == \A k \in S : g[k].deps \union Children(g, k) \subseteq S

InPhases(g) ==
    \A S \in SUBSET DOMAIN g : Closed(g, S) =>
        \A i, j \in DOMAIN g :
            /\ g[i].deps \subseteq S
            /\ ~g[j].composite /\ g[j].phase < g[i].phase
            => j \in S

\* Nothing that was typed at Gate 2 gives up an order, or calls a task something
\* else: `dep add` only asks for more.
OrderKept == \A e \in edits : e[1] = "dep_add"

-----------------------------------------------------------------------------
(* Properties.                                                             *)

\* Whatever rules apply (task-graph-generator-design: parse, design, implement,
\* validate), whatever the model answers and whatever is typed at Gate 2, every
\* generated graph passes the validator and a task runs only when what it waits
\* for is done.  That is all work of earlier phases, also of tasks that a rule
\* put before, beside or after the implementation, unless somebody took that
\* order away with `remove`, `dep remove` or `set ... phase` (terminal_gate2.py).
PhaseOrder ==
    /\ stage # "failed"
    /\ \A i \in DOMAIN row : row[i] \in {"RUNNING", "SUCCESS"} =>
         /\ \A j \in graph[i].deps : j \in DOMAIN row /\ row[j] = "SUCCESS"
         /\ OrderKept => \A j \in DOMAIN row :
              graph[j].phase < graph[i].phase => row[j] = "SUCCESS"

\* "ORDER MATTERS" (rules.py:138): at every stage, and also where the engine
\* counted a composite task as done, which it does not (CompositeIsDone), no
\* task could be begun before all work of earlier phases, unless somebody took
\* that order away at Gate 2.
PhasesAreKept == OrderKept => InPhases(graph)

\* ExecutionEngine assumes that tasks wait for tasks that have rows.  Two things
\* make a row wait for something that never gets one: a product that is not
\* tested for performance, and a `dep add` of a composite task, or, where the
\* end of the input approves, of an id that no task has.
WaitsForRows ==
    \A i \in DOMAIN row :
        /\ ("product" \in brief => "performance" \in brief) =>
             \A j \in graph[i].deps \ DOMAIN row : <<"dep_add", i, j>> \in edits
        /\ checked => graph[i].deps \subseteq DOMAIN graph
=============================================================================
