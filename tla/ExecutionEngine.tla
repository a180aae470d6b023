-------------------------- MODULE ExecutionEngine --------------------------
(***************************************************************************)
(* The execution engine (engine/): the threads of one or more executor     *)
(* processes that work through the task graph of ONE run, and the people   *)
(* who intervene.  Everything they share is in SQLite: the run's status,   *)
(* one task_runs row per (task, attempt), and the escalations.  A BEGIN .. *)
(* COMMIT of the code is one action here, because SQLite has one writer;   *)
(* what a thread does between two transactions is interleaved with         *)
(* everybody else.                                                         *)
(***************************************************************************)
EXTENDS Naturals, FiniteSets

CONSTANTS
    Task, Dep,   \* the atomic tasks of the approved graph; Dep[t]: t's deps
    Executor,    \* processes that may call run_execution for this run
    Worker,      \* all their worker threads (max_parallel_workers each)
    Home,        \* Home[w]: the executor a worker thread belongs to
    Operator,    \* what people may do in this instance
    ExecMax,     \* retry_policy["EXECUTION_ERROR"]["max_retries"]
    EnvMax,      \* retry_policy["ENVIRONMENT_ERROR"]["max_retries"]
    MaxAttempt   \* bound: attempts of a task that are explored

ASSUME TaskAssumption     == Dep \in [Task -> SUBSET Task]
ASSUME ExecutorAssumption == Home \in [Worker -> Executor]
ASSUME PolicyAssumption   == ExecMax \in Nat /\ EnvMax \in Nat
ASSUME AttemptAssumption  == MaxAttempt \in Nat \ {0}
ASSUME OperatorAssumption ==
    Operator \subseteq {"retry", "skip", "abort", "resume",
                        "web-abort", "web-approve"}

Row == Task \X (1 .. MaxAttempt)
Following(r) == <<r[1], r[2] + 1>>
NoRow == <<>>

Done   == {"SUCCESS", "SKIPPED"}
Active == {"PENDING", "READY", "RUNNING"}
Live   == Active \union {"BLOCKED_BY_FAILURE"}
TaskRunStatus ==
    {"NONE"} \union Live \union Done
             \union {"FAILED_RETRYABLE", "FAILED_FINAL", "ABORTED"}

Terminal  == {"COMPLETED", "FAILED", "ABORTED"}
RunStatus == {"CREATED", "RUNNING_EXECUTION", "PAUSED_FOR_DECISION"}
                 \union Terminal

VARIABLES
    run,       \* runs.status
    status,    \* task_runs.status of each row; "NONE": no such row
    linked,    \* rows with task_graph_artifact_id and resolved_dependencies
    count,     \* task_runs.retry_count
    delayed,   \* PENDING rows whose retry_at lies ahead
    startedAt, \* rows with started_at, never cleared
    open,      \* rows with an OPEN escalation
    resolved,  \* rows with a RESOLVED escalation
    exec,      \* each executor process: "new", "up" or "gone"
    pc, job,   \* each worker thread: where it is, the row it holds
    web        \* the status change a web request has decided on but not written

table == <<status, linked, count, delayed, startedAt>>
human == <<open, resolved>>
procs == <<exec, pc, job>>
vars  == <<run, table, human, procs, web>>

Init ==
    /\ run = "CREATED"
    /\ status = [r \in Row |-> "NONE"]
    /\ linked = {} /\ delayed = {} /\ startedAt = {}
    /\ count = [r \in Row |-> 0]
    /\ open = {} /\ resolved = {}
    /\ exec = [e \in Executor |-> "new"]
    /\ pc = [w \in Worker |-> "off"]
    /\ job = [w \in Worker |-> NoRow]
    /\ web = "none"

-----------------------------------------------------------------------------
(* Queries over task_runs, for a table of statuses st.                     *)

\* Seeded fault: resolved_dependencies parsed as if always empty.
DepsUnparsed(r) == {}

\* resolved_dependencies of a row.
Deps(r) == IF r \in linked THEN Dep[r[1]] ELSE {}

Running == {r \in Row : status[r] = "RUNNING"}

RowsOf(T, st) == {r \in Row : r[1] \in T /\ st[r] # "NONE"}

\* A dependency counts once per satisfied ROW, as the COUNT(*) does.
DepsSatisfied(r, st) ==
    Cardinality({q \in RowsOf(Deps(r), st) : st[q] \in Done})
        = Cardinality(Deps(r))

\* The one row of its task a breadth-first search touches: the index on
\* (run_id, status) returns rows by status, then in order of insertion.
ScanRank == [s \in Live |-> CASE s = "BLOCKED_BY_FAILURE" -> 1
                              [] s = "PENDING" -> 2
                              [] s = "READY"   -> 3
                              [] s = "RUNNING" -> 4]
FirstOf(rows) ==
    {r \in rows : \A q \in rows : q[1] = r[1] =>
        \/ ScanRank[status[r]] < ScanRank[status[q]]
        \/ ScanRank[status[r]] = ScanRank[status[q]] /\ r[2] <= q[2]}

\* Tasks a search that starts at roots and walks dependents visits, when it
\* can pass only through the tasks in via.
Reached(roots, via) ==
    {t \in via : \A X \in SUBSET via :
        (\A u \in via : Dep[u] \cap (roots \union X) # {} => u \in X) => t \in X}

\* propagate_failure: the PENDING and READY rows downstream of failed tasks.
Downstream(failed) ==
    LET scanned == {r \in linked : status[r] \in Live}
        hit     == Reached(failed, {r[1] : r \in scanned})
    IN  {r \in FirstOf(scanned) : r[1] \in hit /\ status[r] \in {"PENDING", "READY"}}


\* _unblock_downstream_bfs: BLOCKED rows below t that have no dependency
\* with a FAILED_FINAL row, in the table st.
Unblocked(t, st) ==
    LET scanned == FirstOf({r \in linked : st[r] = "BLOCKED_BY_FAILURE"})
        free    == {r \in scanned : \A q \in RowsOf(Deps(r), st) :
                                        st[q] # "FAILED_FINAL"}
    IN  {r \in free : r[1] \in Reached({t}, {q[1] : q \in free})}

\* Seeded fault: an escalation is deduplicated by run, not by task_run.
EscalateOnce(rows) == open' = IF open = {} THEN rows ELSE open

\* upsert_open: at most one OPEN escalation per row.
Escalate(rows) == open' = open \union rows

-----------------------------------------------------------------------------
(* Executor processes.                                                     *)

Spawn(e) ==
    /\ exec' = [exec EXCEPT ![e] = "up"]
    /\ pc' = [w \in Worker |-> IF Home[w] = e THEN "idle" ELSE pc[w]]
    /\ UNCHANGED job

\* run_execution on an approved graph: materialize every task as attempt 1,
\* then start the worker and background threads.
RunExecution(e) ==
    /\ exec[e] = "new"
    /\ run = "CREATED"
    /\ status' = [r \in Row |-> IF r[2] = 1 THEN "PENDING" ELSE status[r]]
    /\ linked' = {r \in Row : r[2] = 1}
    /\ run' = "RUNNING_EXECUTION"
    /\ Spawn(e)
    /\ UNCHANGED <<count, delayed, startedAt, human, web>>

\* run_resume, in a process of its own while an earlier executor may still
\* be up: RUNNING rows go back to PENDING; materialize finds rows and skips.
Resume(e) ==
    /\ "resume" \in Operator
    /\ exec[e] = "new"
    /\ run # "CREATED"
    /\ status' = [r \in Row |-> IF status[r] = "RUNNING" THEN "PENDING" ELSE status[r]]
    /\ Spawn(e)
    /\ UNCHANGED <<run, linked, count, delayed, startedAt, human, web>>

\* The process ends with all its (daemon) threads: it is killed, or
\* _wait_for_terminal_state returned.  Rows its workers held stay RUNNING.
Crash(e) ==
    /\ exec[e] = "up"
    /\ exec' = [exec EXCEPT ![e] = "gone"]
    /\ pc'  = [w \in Worker |-> IF Home[w] = e THEN "off" ELSE pc[w]]
    /\ job' = [w \in Worker |-> IF Home[w] = e THEN NoRow ELSE job[w]]
    /\ UNCHANGED <<run, table, human, web>>

-----------------------------------------------------------------------------
(* worker_loop.                                                            *)

Release(w, to) ==
    /\ pc' = [pc EXCEPT ![w] = to]
    /\ job' = [job EXCEPT ![w] = NoRow]
    /\ UNCHANGED exec

\* Loop head: a finished run ends the thread.
WorkerExits(w) ==
    /\ pc[w] = "idle"
    /\ run \in Terminal
    /\ Release(w, "off")
    /\ UNCHANGED <<run, table, human, web>>

\* The dependency double-check: no row of a dependency, of ANY attempt, may
\* be in another state than SUCCESS or SKIPPED.
Pickable(r) ==
    /\ status[r] = "READY"
    /\ \A q \in RowsOf(Deps(r), status) : status[q] \in Done

\* ORDER BY retry_count, materialized_at: NULL, that is a retry, sorts first.
Precedes(r, q) ==
    \/ count[r] < count[q]
    \/ count[r] = count[q] /\ r[2] > 1 /\ q[2] = 1

Pickup(w, r) ==
    /\ pc[w] = "idle"
    /\ Pickable(r)
    /\ \A q \in Row : Pickable(q) => ~Precedes(q, r)
    /\ run = "RUNNING_EXECUTION"
    /\ status' = [status EXCEPT ![r] = "RUNNING"]
    /\ startedAt' = startedAt \union {r}
    /\ pc' = [pc EXCEPT ![w] = "agent"]
    /\ job' = [job EXCEPT ![w] = r]
    /\ UNCHANGED <<run, linked, count, delayed, human, exec, web>>

\* agent.run returned, the heartbeat stopped, and the abort guard read the
\* run's status outside any transaction.  The guard's UPDATE to ABORTED is
\* never committed: close() rolls the implicit transaction back.
AgentReturns(w, outcome) ==
    /\ pc[w] = "agent"
    /\ IF run \in {"ABORTED", "FAILED"}
       THEN Release(w, "off")
       ELSE pc' = [pc EXCEPT ![w] = outcome] /\ UNCHANGED <<job, exec>>
    /\ UNCHANGED <<run, table, human, web>>

\* Seeded fault: mark_success without status = 'RUNNING' in its WHERE.
StillHeldUnchecked(r) == status[r] # "NONE"

\* The WHERE of mark_success: nobody else took the row away meanwhile.
StillHeld(r) == status[r] = "RUNNING"

\* promote_output or mark_success; they do nothing when the row is not held.
Promote(w) ==
    /\ pc[w] = "succeeded"
    /\ StillHeld(job[w])
    /\ status' = [status EXCEPT ![job[w]] = "SUCCESS"]
    /\ Release(w, "idle")
    /\ UNCHANGED <<run, linked, count, delayed, startedAt, human, web>>

\* The transaction raised or matched no row.  ROLLBACK leaves the row alone;
\* the best-effort UPDATE to FAILED_FINAL that follows opens an implicit
\* transaction that the next BEGIN error, or close(), rolls back.
ResultDropped(w) ==
    /\ pc[w] \in {"succeeded", "failed"}
    /\ Release(w, "idle")
    /\ UNCHANGED <<run, table, human, web>>

\* create_retry: the INSERT of the next attempt, which raises when the
\* attempt exists.  Every column of linked is copied when the source row
\* has them all.
RetryFrom(r, keeps, n) ==
    /\ r[2] < MaxAttempt
    /\ status[Following(r)] = "NONE"
    /\ linked' = IF keeps /\ r \in linked THEN linked \union {Following(r)} ELSE linked
    /\ count' = [count EXCEPT ![Following(r)] = n]

\* _handle_failure with retries left.
FailRetryable(w) ==
    LET r == job[w] IN
    /\ pc[w] = "failed"
    /\ count[r] < ExecMax
    /\ RetryFrom(r, TRUE, count[r] + 1)
    /\ status' = [q \in Row |->
          CASE q = Following(r) -> "PENDING"
            [] q = r /\ status[r] = "RUNNING" -> "FAILED_RETRYABLE"
            [] OTHER -> status[q]]
    /\ Release(w, "idle")
    /\ UNCHANGED <<run, delayed, startedAt, human, web>>

\* _handle_failure without: FAILED_FINAL, block downstream, escalate.  Only
\* the first of the three looks at the row's status.
FailFinal(w) ==
    LET r == job[w] IN
    /\ pc[w] = "failed"
    /\ count[r] >= ExecMax
    /\ status' = [q \in Row |->
          CASE q = r /\ status[r] = "RUNNING" -> "FAILED_FINAL"
            [] q \in Downstream({r[1]}) -> "BLOCKED_BY_FAILURE"
            [] OTHER -> status[q]]
    /\ Escalate({r})
    /\ Release(w, "idle")
    /\ UNCHANGED <<run, linked, count, delayed, startedAt, resolved, web>>

-----------------------------------------------------------------------------
(* background_loop: one transaction per tick.                              *)

\* Seeded fault: running_count left out of active_count.
CheckCompletionEarly(st) ==
    LET graph == {st[r] : r \in linked}
    IN  IF run # "RUNNING_EXECUTION" \/ graph \cap {"PENDING", "READY"} # {} THEN run
        ELSE IF graph \cap {"FAILED_FINAL", "BLOCKED_BY_FAILURE"} # {}
        THEN "PAUSED_FOR_DECISION"
        ELSE IF "SUCCESS" \in graph THEN "COMPLETED" ELSE run

\* check_completion over the rows of the graph: those without a
\* task_graph_artifact_id are not counted.
CheckCompletion(st) ==
    LET graph == {st[r] : r \in linked}
    IN  IF run # "RUNNING_EXECUTION" \/ graph \cap Active # {} THEN run
        ELSE IF graph \cap {"FAILED_FINAL", "BLOCKED_BY_FAILURE"} # {}
        THEN "PAUSED_FOR_DECISION"
        ELSE IF "SUCCESS" \in graph THEN "COMPLETED" ELSE run

\* mark_ready_tasks on the table st.
MarkReady(st, late) ==
    [r \in Row |-> IF st[r] = "PENDING" /\ r \notin late /\ DepsSatisfied(r, st)
                   THEN "READY" ELSE st[r]]

\* Seeded fault: no look whether the retry slot is taken.
RecoverableUnchecked(r) == count[r] < EnvMax

\* recover_dead_tasks retries a row while its policy allows and the slot of
\* the next attempt is free.
Recoverable(r) ==
    /\ count[r] < EnvMax
    /\ Following(r) \in Row => status[Following(r)] = "NONE"

\* recover_dead_tasks on the rows whose heartbeat is stale, mark_ready_tasks,
\* check_completion.  The SELECT of recover_dead_tasks leaves out
\* task_graph_artifact_id and resolved_dependencies, so its retries are not
\* linked.  Which heartbeats are stale is left open: the row of a live worker
\* can be among them (heartbeat writes fail silently, and none is sent while
\* its result is promoted).
Tick(stale) ==
    LET retry == {r \in stale : Recoverable(r)}
        final == stale \ retry
        fresh == {Following(r) : r \in retry}
        recovered == [r \in Row |->
            CASE r \in retry -> "FAILED_RETRYABLE"
              [] r \in final -> "FAILED_FINAL"
              [] r \in fresh -> "PENDING"
              [] r \in Downstream({q[1] : q \in final}) -> "BLOCKED_BY_FAILURE"
              [] OTHER -> status[r]]
    IN
    /\ \E e \in Executor : exec[e] = "up"
    /\ stale \subseteq Running
    /\ fresh \subseteq {r \in Row : status[r] = "NONE"}
    /\ count' = [r \in Row |-> IF r \in fresh THEN count[<<r[1], r[2] - 1>>] + 1
                                              ELSE count[r]]
    /\ delayed' = delayed \union fresh
    /\ status' = MarkReady(recovered, delayed')
    /\ Escalate(final)
    /\ run' = CheckCompletion(status')
    /\ UNCHANGED <<linked, startedAt, resolved, procs, web>>

\* The clock passes a row's retry_at.
RetryDue(r) ==
    /\ r \in delayed
    /\ delayed' = delayed \ {r}
    /\ UNCHANGED <<run, status, linked, count, startedAt, human, procs, web>>

-----------------------------------------------------------------------------
(* People: resolve_escalation, and the run page of the web UI.             *)

\* An escalation is resolved once; a second RESOLVED row for the same
\* task_run would violate UNIQUE (run_id, task_run_id, reason, status).
Resolve(r, resolution) ==
    /\ resolution \in Operator
    /\ r \in open \ resolved
    /\ open' = open \ {r}
    /\ resolved' = resolved \union {r}

\* Seeded fault: a status the runs table does not know.
UnpausedWrong == IF run = "PAUSED_FOR_DECISION" THEN "RUNNING_PHASE_B" ELSE run

\* Both resolutions that let the run go on.
Unpaused == IF run = "PAUSED_FOR_DECISION" THEN "RUNNING_EXECUTION" ELSE run

ResolveRetry(r) ==
    /\ Resolve(r, "retry")
    /\ RetryFrom(r, TRUE, 0)
    /\ status' = [q \in Row |->
          CASE q = Following(r) \/ q \in Unblocked(r[1], status) -> "PENDING"
            [] OTHER -> status[q]]
    /\ run' = Unpaused
    /\ UNCHANGED <<delayed, startedAt, procs, web>>

ResolveSkip(r) ==
    LET skipped == [q \in Row |-> IF q = r /\ status[r] = "FAILED_FINAL"
                                  THEN "SKIPPED" ELSE status[q]]
    IN
    /\ Resolve(r, "skip")
    /\ status' = [q \in Row |-> IF q \in Unblocked(r[1], skipped)
                                THEN "PENDING" ELSE skipped[q]]
    /\ run' = Unpaused
    /\ UNCHANGED <<linked, count, delayed, startedAt, procs, web>>

\* Statuses an abort leaves alone.
AbortSpares == {"NONE", "SUCCESS", "FAILED_FINAL", "SKIPPED", "ABORTED"}

ResolveAbort(r) ==
    /\ Resolve(r, "abort")
    /\ status' = [q \in Row |-> IF status[q] \in AbortSpares THEN status[q] ELSE "ABORTED"]
    /\ run' = "FAILED"
    /\ UNCHANGED <<linked, count, delayed, startedAt, procs, web>>

\* _abort_run and _do_run_approve: each reads the status and decides, then
\* writes without looking again.
WebReads ==
    /\ web = "none"
    /\ \/ "web-abort" \in Operator /\ run = "RUNNING_EXECUTION" /\ web' = "ABORTED"
       \/ /\ "web-approve" \in Operator
          /\ run = "PAUSED_FOR_DECISION"
          /\ web' = "RUNNING_EXECUTION"
    /\ UNCHANGED <<run, table, human, procs>>

WebWrites ==
    /\ web # "none"
    /\ run' = web
    /\ web' = "none"
    /\ UNCHANGED <<table, human, procs>>

-----------------------------------------------------------------------------
WorkerStep(w) ==
    \/ WorkerExits(w)
    \/ \E r \in Row : Pickup(w, r)
    \/ \E outcome \in {"succeeded", "failed"} : AgentReturns(w, outcome)
    \/ Promote(w)
    \/ ResultDropped(w)
    \/ FailRetryable(w)
    \/ FailFinal(w)

OperatorStep ==
    \/ \E r \in Row : ResolveRetry(r) \/ ResolveSkip(r) \/ ResolveAbort(r)
    \/ WebReads
    \/ WebWrites

Next ==
    \/ \E e \in Executor : RunExecution(e) \/ Resume(e) \/ Crash(e)
    \/ \E w \in Worker : WorkerStep(w)
    \/ \E stale \in SUBSET Running : Tick(stale)
    \/ \E r \in Row : RetryDue(r)
    \/ OperatorStep

Spec == Init /\ [][Next]_vars

\* RUNNING rows that no thread works for any more; their heartbeat gets stale.
Orphans == {r \in Running : \A w \in Worker : job[w] # r}

\* Threads that are up keep running, agents end within task_timeout_s, the
\* heartbeat of an orphan goes stale and retry_at passes.  Nothing is assumed
\* of people, of new executors, or of how an agent's work ends.
Fairness ==
    /\ \A w \in Worker : WF_vars(WorkerStep(w))
    /\ WF_vars(\E stale \in SUBSET Running : Orphans \subseteq stale /\ Tick(stale))
    /\ \A r \in Row : WF_vars(RetryDue(r))

FairSpec == Spec /\ Fairness

-----------------------------------------------------------------------------
(* Properties.                                                             *)

\* Every variable has the type of its column or thread attribute.
TypeOK ==
    /\ run \in RunStatus
    /\ status \in [Row -> TaskRunStatus]
    /\ linked \subseteq Row /\ delayed \subseteq Row /\ startedAt \subseteq Row
    /\ count \in [Row -> Nat]
    /\ open \subseteq Row /\ resolved \subseteq Row
    /\ exec \in [Executor -> {"new", "up", "gone"}]
    /\ pc \in [Worker -> {"off", "idle", "agent", "succeeded", "failed"}]
    /\ job \in [Worker -> Row \union {NoRow}]
    /\ web \in {"none", "ABORTED", "RUNNING_EXECUTION"}

\* Every dependency of t has an attempt that succeeded or was skipped.
DepsDone(t) == \A d \in Dep[t] : \E r \in Row : r[1] = d /\ status[r] \in Done

\* No agent is ever started on a task before everything it depends on is
\* done, although the retry rows recover_dead_tasks inserts have lost their
\* dependencies and mark_ready_tasks and pickup see none for them.
DependencyOrder == \A r \in startedAt : DepsDone(r[1])

\* A row that failed for good has an escalation a human can see or has
\* resolved: no failure blocks downstream work silently.
FinalIsEscalated ==
    \A r \in Row : status[r] = "FAILED_FINAL" => r \in open \union resolved

\* While nobody resumes a run that is still alive, a task has at most one
\* attempt that can run or may still run, and once an attempt succeeded or
\* was skipped there is none: a late answer of a worker given up for dead
\* neither succeeds nor retries beside the attempt that replaced it.
OneLiveAttempt ==
    \A r, q \in Row :
        r[1] = q[1] /\ r # q /\ status[r] \in Live \union Done
            => status[q] \notin Live \union Done

\* Attempts of a task that were not given up for a later one.
InForce(t, st) == {r \in RowsOf({t}, st) : st[r] # "FAILED_RETRYABLE"}

\* check_completion reports a run COMPLETED over an unfinished task only for
\* two reasons, named here: a human's abort took the task's attempt away, or
\* the attempt that carries on dead work is not linked to the graph, and
\* check_completion does not see it (docs/schema/execution-engine.md:38 has
\* every task done by then).  Otherwise each task has an attempt that
\* succeeded or was skipped: no attempt is given up without a successor, and
\* none that is blocked, failed or in hand is overlooked.
CompletionIsEarned ==
    [][run # "COMPLETED" /\ run' = "COMPLETED" =>
          \A t \in Task : \E r \in InForce(t, status') :
              \/ status'[r] \in Done
              \/ status'[r] = "ABORTED"
              \/ r \notin linked']_vars


\* A task some worker was running when it died, or whose result could not be
\* written, does not stay RUNNING while an executor is up: recover_dead_tasks
\* takes it back, also when the slot of its next attempt is taken.
DeadWorkIsReclaimed ==
    \A r \in Row :
        status[r] = "RUNNING" ~> \/ status[r] # "RUNNING"
                                 \/ run \in Terminal
                                 \/ \A e \in Executor : exec[e] # "up"

\* The engine implements the promise of TaskOrder, tasks being begun from
\* their first started_at and done from SUCCESS or SKIPPED on.
Order == INSTANCE TaskOrder WITH
    begun <- {r[1] : r \in startedAt},
    done  <- {r[1] : r \in {q \in Row : status[q] \in Done}}
ImplementsOrder == Order!Spec
=============================================================================
