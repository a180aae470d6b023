----------------------------- MODULE TaskGraph -----------------------------
(***************************************************************************)
(* From an approved spec to the tasks the engine runs: the skeleton of the *)
(* graph, the rules that add to it, the model that words its tasks, the    *)
(* person who edits it at Gate 2 and the rows that are made of it.         *)
(* ExecutionEngine starts where this module ends and takes the tasks and   *)
(* what they depend on as constants; here they run as the engine would run *)
(* them if nothing failed.  Of a task only its place in the graph is kept: *)
(* its words, its facets among them, are nowhere looked at.                *)
(***************************************************************************)
EXTENDS Naturals, Sequences, FiniteSets, TaskPhases

CONSTANT MaxEdit   \* how many different edits are made at Gate 2

ASSUME EditAssumption == MaxEdit \in Nat

VARIABLES
    rules,   \* the rules that are left
    todo     \* tasks the enricher has not come to

vars == <<brief, stage, rules, graph, todo, edits, checked, row>>

Task(phase, deps) ==
    [phase |-> phase, deps |-> deps, parent |-> "none", composite |-> FALSE]

\* The ids in rules.py and skeleton.py; most graphs have only some of them.
TaskIds == {"PARSE", "DESIGN", "DESIGN.SCHEMA", "IMPL", "IMPL.BACKEND",
            "IMPL.FRONTEND", "IMPL.PERF", "VALIDATE"}

\* CORE_SKELETON: phases are numbered by their order.
Skeleton ==
    [i \in {"PARSE", "DESIGN", "IMPL", "VALIDATE"} |->
        CASE i = "PARSE"    -> Task(1, {})
          [] i = "DESIGN"   -> Task(2, {"PARSE"})
          [] i = "IMPL"     -> Task(3, {"DESIGN"})
          [] i = "VALIDATE" -> Task(4, {"IMPL"})]

\* Seeded fault: the rules in another order.
InitUnordered ==
    /\ brief \in SUBSET {"database", "product", "performance"}
    /\ stage = "rules"
    /\ rules = <<"product", "database", "performance">>
    /\ graph = Skeleton /\ todo = {} /\ row = <<>>
    /\ edits = {} /\ checked = FALSE

\* generate_task_graph, on any brief.
Init ==
    /\ brief \in SUBSET {"database", "product", "performance"}
    /\ stage = "rules"
    /\ rules = <<"database", "product", "performance">>
    /\ graph = Skeleton /\ todo = {} /\ row = <<>>
    /\ edits = {} /\ checked = FALSE

-----------------------------------------------------------------------------
(* The rules.                                                              *)

With(g, i, t) == [j \in DOMAIN g \union {i} |-> IF j = i THEN t ELSE g[j]]

\* add_before: i takes what target waited for, and target waits for i.
AddBefore(g, target, i, t) ==
    LET new == [t EXCEPT !.deps = g[target].deps]
    IN  [With(g, i, new) EXCEPT ![target].deps = {i}]

\* add_parallel, of tasks that are alike: target becomes composite, and what
\* waits for it goes on to do so.
AddParallel(g, target, I, t) ==
    LET new == [t EXCEPT !.deps = g[target].deps, !.parent = target]
    IN  [j \in DOMAIN g \union I |->
            IF j \in I THEN new
            ELSE IF j = target THEN [g[j] EXCEPT !.composite = TRUE] ELSE g[j]]

\* Seeded fault: no look whether target is composite.
AddAfterLeaf(g, target, i, t) ==
    LET Redirected(deps) == IF target \in deps THEN (deps \ {target}) \union {i}
                            ELSE deps
    IN  With([j \in DOMAIN g |-> [g[j] EXCEPT !.deps = Redirected(@)]],
             i, [t EXCEPT !.deps = {target}])

\* add_after: i waits for target, or for its children; what waited for target
\* waits for i.
AddAfter(g, target, i, t) ==
    LET last == IF g[target].composite THEN Children(g, target) ELSE {target}
        Redirected(deps) == IF target \in deps THEN (deps \ {target}) \union {i}
                            ELSE deps
    IN  With([j \in DOMAIN g |-> [g[j] EXCEPT !.deps = Redirected(@)]],
             i, [t EXCEPT !.deps = last])

\* rule_database, rule_product_split, rule_performance.
Applied(rule, g) ==
    CASE rule = "database" ->
            AddBefore(g, "IMPL", "DESIGN.SCHEMA", Task(2, {}))
      [] rule = "product" ->
            AddParallel(g, "IMPL", {"IMPL.BACKEND", "IMPL.FRONTEND"},
                        Task(3, {}))
      [] rule = "performance" ->
            AddAfter(g, "IMPL", "IMPL.PERF", Task(3, {}))

\* apply_rules.
ApplyRule ==
    /\ stage = "rules" /\ rules # <<>>
    /\ rules' = Tail(rules)
    /\ graph' = IF Head(rules) \in brief THEN Applied(Head(rules), graph)
                ELSE graph
    /\ UNCHANGED <<brief, stage, todo, edits, checked, row>>

\* enrich_all visits the atomic tasks; without a model it visits none.
BeginEnrichment ==
    /\ stage = "rules" /\ rules = <<>>
    /\ stage' = "enrich"
    /\ todo' \in {{i \in DOMAIN graph : ~graph[i].composite}, {}}
    /\ UNCHANGED <<brief, rules, graph, edits, checked, row>>

-----------------------------------------------------------------------------
(* The model, and the validator.                                           *)

\* Seeded fault: the answer is taken as it is, with the deps it gives.
EnrichedAsGiven(t, deps) == [t EXCEPT !.deps = deps]

\* enrich_task: whatever an answer says of the deps (or the phase, or the
\* parent), only the fields of ENRICHABLE_FIELDS are taken over, and those are
\* words.
Enriched(t, deps) == t

\* The answer is any object, whatever it says of deps, or cannot be read.
Enrich ==
    /\ stage = "enrich"
    /\ \E i \in todo :
         /\ todo' = todo \ {i}
         /\ \/ \E deps \in {{}} \union {{j} : j \in DOMAIN graph} :
                  graph' = [graph EXCEPT ![i] = Enriched(@, deps)]
            \/ UNCHANGED graph
    /\ UNCHANGED <<brief, stage, rules, edits, checked, row>>

EndEnrichment ==
    /\ stage = "enrich" /\ todo = {} /\ stage' = "validate"
    /\ UNCHANGED <<brief, rules, graph, todo, edits, checked, row>>

\* Seeded fault: only a task that waits for itself is seen.
HasLoop(g) == \E i \in DOMAIN g : i \in g[i].deps

\* _has_cycle: what Kahn's algorithm cannot take away.
HasCycle(g) ==
    \E S \in SUBSET DOMAIN g :
        S # {} /\ \A i \in S : g[i].deps \intersect S # {}

\* validate_graph; all fields but deps are there by construction.
IsValid(g) ==
    /\ {"PARSE", "DESIGN", "IMPL", "VALIDATE"} \subseteq DOMAIN g
    /\ \A i \in DOMAIN g :
         /\ g[i].deps \subseteq DOMAIN g
         /\ g[i].composite <=> Children(g, i) # {}
    /\ ~HasCycle(g)

\* generate_task_graph: a GraphValidationError ends Phase B.  Facets, which are
\* words, are added behind it.
Validate ==
    /\ stage = "validate"
    /\ stage' = IF IsValid(graph) THEN "gate2" ELSE "failed"
    /\ UNCHANGED <<brief, rules, graph, todo, edits, checked, row>>

-----------------------------------------------------------------------------
(* Gate 2: what a person can type (TerminalGate2IO).                       *)

Edit(command) ==
    /\ stage = "gate2"
    /\ command \notin edits => Cardinality(edits) < MaxEdit
    /\ edits' = edits \union {command}
    /\ UNCHANGED <<brief, stage, rules, todo, checked, row>>

\* `set <ID> phase`; the other fields that can be set are words.  Any word is
\* taken, of which the phases are those that have a place in an order.
SetPhase(i, p) ==
    /\ i \in DOMAIN graph /\ p # graph[i].phase
    /\ graph' = [graph EXCEPT ![i].phase = p]
    /\ Edit(<<"set", i, "phase">>)

\* `remove <ID>`: nobody waits for it any more.  Its children keep it as their
\* parent.
Remove(i) ==
    /\ i \in DOMAIN graph
    /\ graph' = [k \in DOMAIN graph \ {i} |-> [graph[k] EXCEPT !.deps = @ \ {i}]]
    /\ Edit(<<"remove", i, "all">>)

\* `dep add <ID> <DEP>`: any DEP, also one that is no task, or that is composite.
DepAdd(i, j) ==
    /\ i \in DOMAIN graph /\ j \notin graph[i].deps
    /\ graph' = [graph EXCEPT ![i].deps = @ \union {j}]
    /\ Edit(<<"dep_add", i, j>>)

DepRemove(i, j) ==
    /\ i \in DOMAIN graph /\ j \in graph[i].deps
    /\ graph' = [graph EXCEPT ![i].deps = @ \ {j}]
    /\ Edit(<<"dep_remove", i, j>>)

Reject ==
    /\ stage = "gate2" /\ stage' = "rejected"
    /\ UNCHANGED <<brief, rules, graph, todo, edits, checked, row>>

\* materialize_task_runs: rows for the atomic tasks, with the deps of the graph
\* as they are.
Materialize ==
    /\ stage' = "execution"
    /\ row' = [i \in {j \in DOMAIN graph : ~graph[j].composite} |-> "PENDING"]
    /\ UNCHANGED <<brief, rules, graph, todo, edits>>

\* `approve`, which is refused while validate_graph finds something.
ApproveCommand ==
    /\ stage = "gate2" /\ IsValid(graph)
    /\ checked' = TRUE
    /\ Materialize

\* The end of the input approves what is there (lines 71-73).  So does
\* an auto-approval, or one given in chat or web, of a graph nobody edited.
EndOfInput ==
    /\ stage = "gate2"
    /\ checked' = FALSE
    /\ Materialize

-----------------------------------------------------------------------------
(* Execution.                                                              *)

Succeeded(i) == i \in DOMAIN row /\ row[i] = "SUCCESS"

\* _deps_satisfied: as many successful rows as there are deps.
Resolvable(i) == \A j \in graph[i].deps : Succeeded(j)

\* mark_ready_tasks.
Resolve ==
    /\ stage = "execution"
    /\ \E i \in DOMAIN row : row[i] = "PENDING" /\ Resolvable(i)
    /\ row' = [i \in DOMAIN row |->
                 IF row[i] = "PENDING" /\ Resolvable(i) THEN "READY" ELSE row[i]]
    /\ UNCHANGED <<brief, stage, rules, graph, todo, edits, checked>>

\* What workers do with a task, if they succeed.
Pickup(i) ==
    /\ i \in DOMAIN row /\ row[i] = "READY"
    /\ row' = [row EXCEPT ![i] = "RUNNING"]
    /\ UNCHANGED <<brief, stage, rules, graph, todo, edits, checked>>

Succeed(i) ==
    /\ i \in DOMAIN row /\ row[i] = "RUNNING"
    /\ row' = [row EXCEPT ![i] = "SUCCESS"]
    /\ UNCHANGED <<brief, stage, rules, graph, todo, edits, checked>>

Next ==
    \/ ApplyRule \/ BeginEnrichment \/ Enrich \/ EndEnrichment \/ Validate
    \/ \E i \in TaskIds :
          \/ Remove(i)
          \/ \E p \in 1..4 : SetPhase(i, p)
          \/ \E j \in TaskIds : DepAdd(i, j) \/ DepRemove(i, j)
    \/ Reject \/ ApproveCommand \/ EndOfInput \/ Resolve
    \/ \E i \in DOMAIN row : Pickup(i) \/ Succeed(i)

Spec == Init /\ [][Next]_vars

\* The background loop resolves, workers pick up what is ready, and agents
\* come to an end; nothing is asked of the people at Gate 2.
FairSpec ==
    /\ Spec
    /\ WF_vars(Resolve)
    /\ \A i \in TaskIds : WF_vars(Pickup(i)) /\ WF_vars(Succeed(i))

-----------------------------------------------------------------------------
(* Properties.                                                             *)

\* What `approve` lets pass, and what nobody edited, runs to its end, unless a
\* row waits for something that gets none (WaitsForRows): the validator keeps
\* out the cycles and the unknown ids that edits can bring in.
CheckedGraphEnds ==
    (/\ stage = "execution" /\ (checked \/ edits = {})
     /\ \A i \in DOMAIN row : graph[i].deps \intersect DOMAIN graph
                                \subseteq DOMAIN row)
    ~> (\A i \in DOMAIN row : Succeeded(i))

\* rules.py: "Downstream keeps depending on composite target (composite = done
\* when all children done)": what waits for a composite task runs when its
\* children are done.
CompositeIsDone ==
    (stage = "execution" /\ graph["IMPL"].composite
        /\ \A j \in Children(graph, "IMPL") : Succeeded(j))
    ~> Succeeded("VALIDATE")
=============================================================================
