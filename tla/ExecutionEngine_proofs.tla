----------------------- MODULE ExecutionEngine_proofs -----------------------
(***************************************************************************)
(* Proofs about ExecutionEngine for every task graph, every number of      *)
(* executors, workers and attempts, and every retry policy.                *)
(*                                                                         *)
(* DependencyOrder is not inductive: a retry row that recover_dead_tasks   *)
(* inserts has no dependencies of its own, so nothing in its row justifies *)
(* picking it up.  What justifies it is that its task was started before.  *)
(* Inv below adds that, and where started rows can be found: in the hands  *)
(* of workers, among the RUNNING rows and among the escalated ones.        *)
(*                                                                         *)
(* On top of Inv: Carried, for CompletionIsEarned, and Attempts, under     *)
(* assumptions its theorem states, for OneLiveAttempt.                     *)
(*                                                                         *)
(* The second half is about where the tasks come from, TaskGraph: which    *)
(* graphs keep the phases in order, that the rules make such graphs, and   *)
(* that the engine keeps their phases whatever fails in it.                *)
(***************************************************************************)
EXTENDS ExecutionEngine, TaskPhases, Sequences, TLAPS

Busy == {"agent", "succeeded", "failed"}

\* Before materialize nothing exists; after it every task has its linked
\* first attempt.
Materialized ==
    /\ run = "CREATED" => /\ startedAt = {} /\ web = "none"
                          /\ \A r \in Row : status[r] = "NONE"
    /\ run # "CREATED" => \A r \in Row : r[2] = 1 => status[r] # "NONE" /\ r \in linked

\* Rows in the hands of a worker, RUNNING or escalated were started.
Held ==
    /\ \A w \in Worker : pc[w] \in Busy => job[w] \in startedAt
    /\ \A r \in Row : status[r] = "RUNNING" => r \in startedAt
    /\ open \subseteq startedAt

\* A task with a second attempt was started once.
LaterAttempts ==
    \A r \in Row : r[2] > 1 /\ status[r] # "NONE" => DepsDone(r[1])

Inv == /\ TypeOK /\ Materialized /\ Held
       /\ DependencyOrder /\ LaterAttempts /\ FinalIsEscalated

\* What every step but RunExecution and Pickup does: it starts nothing, it
\* loses no row, the rows of fin and no others get done, a row that is new
\* belongs to a task that was started, and a row that fails is escalated.
Tame(fin) ==
    /\ startedAt' = startedAt /\ linked \subseteq linked'
    /\ open' \subseteq open \union startedAt
    /\ open \union resolved \subseteq open' \union resolved'
    /\ run = "CREATED" => run' = "CREATED" /\ web' = "none"
    /\ run # "CREATED" => run' # "CREATED"
    /\ \A w \in Worker : pc'[w] \in Busy => pc[w] \in Busy /\ job'[w] = job[w]
    /\ \A r \in Row :
          /\ status[r] # "NONE" => status'[r] # "NONE"
          /\ status'[r] \in Done <=> status[r] \in Done \/ r \in fin
          /\ status'[r] = "RUNNING" => status[r] = "RUNNING"
          /\ status'[r] = "FAILED_FINAL" => status[r] = "FAILED_FINAL" \/ r \in open'
          /\ status[r] = "NONE" /\ status'[r] # "NONE" =>
                \E q \in startedAt : q[1] = r[1]

-----------------------------------------------------------------------------
(* Rows and the operators on the table.                                    *)

LEMMA RowParts ==
    ASSUME NEW r \in Row
    PROVE  r[1] \in Task /\ r[2] \in 1 .. MaxAttempt /\ r[2] \in Nat
  BY AttemptAssumption DEF Row

LEMMA FollowingRow ==
    ASSUME NEW r \in Row, r[2] < MaxAttempt
    PROVE  /\ Following(r) \in Row
           /\ Following(r)[1] = r[1]
           /\ Following(r)[2] = r[2] + 1
           /\ Following(r)[2] > 1
           /\ Following(r) # r
  BY RowParts, AttemptAssumption DEF Row, Following

LEMMA DownstreamRows ==
    ASSUME TypeOK, NEW F, NEW r \in Downstream(F)
    PROVE  r \in Row /\ status[r] \in {"PENDING", "READY"}
  BY DEF Downstream, FirstOf, TypeOK

LEMMA UnblockedRows ==
    ASSUME TypeOK, NEW t, NEW st, NEW r \in Unblocked(t, st)
    PROVE  r \in Row /\ st[r] = "BLOCKED_BY_FAILURE"
  BY DEF Unblocked, FirstOf, TypeOK

LEMMA MarkReadyRows ==
    ASSUME NEW st, NEW late, NEW r \in Row
    PROVE  \/ MarkReady(st, late)[r] = st[r]
           \/ st[r] = "PENDING" /\ MarkReady(st, late)[r] = "READY"
  BY DEF MarkReady

LEMMA CompletionStatus ==
    ASSUME NEW st
    PROVE  \/ CheckCompletion(st) = run
           \/ /\ run = "RUNNING_EXECUTION"
              /\ CheckCompletion(st) \in {"PAUSED_FOR_DECISION", "COMPLETED"}
  BY DEF CheckCompletion

-----------------------------------------------------------------------------
(* Type correctness.                                                       *)

LEMMA TypeInit == Init => TypeOK
  <1> SUFFICES ASSUME Init PROVE TypeOK
    OBVIOUS
  <1>1. \A r \in Row : status[r] = "NONE" /\ count[r] = 0
    BY DEF Init
  <1> QED
    BY <1>1 DEF Init, TypeOK, RunStatus, TaskRunStatus, NoRow

LEMMA SpawnType ==
    ASSUME TypeOK, NEW e \in Executor, Spawn(e)
    PROVE  /\ exec' \in [Executor -> {"new", "up", "gone"}]
           /\ pc' \in [Worker -> {"off", "idle", "agent", "succeeded", "failed"}]
           /\ job' \in [Worker -> Row \union {NoRow}]
  BY DEF TypeOK, Spawn

LEMMA ReleaseType ==
    ASSUME TypeOK, NEW w \in Worker, NEW to \in {"off", "idle"}, Release(w, to)
    PROVE  /\ exec' \in [Executor -> {"new", "up", "gone"}]
           /\ pc' \in [Worker -> {"off", "idle", "agent", "succeeded", "failed"}]
           /\ job' \in [Worker -> Row \union {NoRow}]
  BY DEF TypeOK, Release

LEMMA JobRow ==
    ASSUME Inv, NEW w \in Worker, pc[w] \in Busy
    PROVE  job[w] \in Row /\ job[w] \in startedAt
  BY DEF Inv, TypeOK, Held

LEMMA RetryType ==
    ASSUME TypeOK, NEW r \in Row, NEW keeps, NEW n \in Nat, RetryFrom(r, keeps, n)
    PROVE  /\ Following(r) \in Row
           /\ Following(r)[1] = r[1]
           /\ Following(r)[2] > 1
           /\ Following(r) # r
           /\ status[Following(r)] = "NONE"
           /\ linked' \subseteq Row
           /\ linked \subseteq linked'
           /\ count' \in [Row -> Nat]
  BY FollowingRow DEF TypeOK, RetryFrom

-----------------------------------------------------------------------------
(* Steps that start nothing.                                               *)

LEMMA StartedOnlyIfCreated ==
    ASSUME Inv, startedAt # {}
    PROVE  run # "CREATED"
  BY DEF Inv, Materialized

LEMMA TameInv ==
    ASSUME Inv, TypeOK', NEW fin, Tame(fin)
    PROVE  Inv'
  <1>1. Materialized'
    BY RowParts DEF Inv, Materialized, Tame, TypeOK
  <1>2. Held'
    BY DEF Inv, Held, Tame, TypeOK
  <1>3. ASSUME NEW t, DepsDone(t) PROVE DepsDone(t)'
    BY <1>3 DEF DepsDone, Tame
  <1>4. DependencyOrder'
    BY <1>3 DEF Inv, DependencyOrder, Tame
  <1>5. LaterAttempts'
    <2> SUFFICES ASSUME NEW r \in Row, r[2] > 1, status'[r] # "NONE"
                 PROVE  DepsDone(r[1])'
      BY DEF LaterAttempts
    <2>1. CASE status[r] # "NONE"
      BY <2>1, <1>3 DEF Inv, LaterAttempts
    <2>2. CASE status[r] = "NONE"
      <3>1. PICK q \in startedAt : q[1] = r[1]
        BY <2>2 DEF Tame
      <3>2. DepsDone(r[1])
        BY <3>1 DEF Inv, DependencyOrder
      <3> QED
        BY <3>2, <1>3
    <2> QED
      BY <2>1, <2>2
  <1>6. FinalIsEscalated'
    BY DEF Inv, FinalIsEscalated, Tame
  <1> QED
    BY <1>1, <1>2, <1>4, <1>5, <1>6 DEF Inv

LEMMA ResumeStep ==
    ASSUME Inv, NEW e \in Executor, Resume(e)
    PROVE  TypeOK' /\ Tame({})
  <1> USE DEF Resume, human, Spawn, Inv
  <1>1. TypeOK'
    BY DEF TypeOK, TaskRunStatus, Live, Active
  <1>2. Tame({})
    BY DEF TypeOK, Tame, Done, Busy
  <1> QED
    BY <1>1, <1>2

LEMMA CrashStep ==
    ASSUME Inv, NEW e \in Executor, Crash(e)
    PROVE  TypeOK' /\ Tame({})
  <1> USE DEF Crash, human, table, Inv
  <1>1. TypeOK'
    BY DEF TypeOK
  <1>2. Tame({})
    BY DEF TypeOK, Tame, Busy, Materialized
  <1> QED
    BY <1>1, <1>2

LEMMA WorkerExitsStep ==
    ASSUME Inv, NEW w \in Worker, WorkerExits(w)
    PROVE  TypeOK' /\ Tame({})
  <1> USE DEF WorkerExits, Release, human, table, Inv
  <1>1. TypeOK'
    BY DEF TypeOK
  <1>2. Tame({})
    BY DEF TypeOK, Tame, Busy, Materialized
  <1> QED
    BY <1>1, <1>2

LEMMA AgentReturnsStep ==
    ASSUME Inv, NEW w \in Worker, NEW outcome \in {"succeeded", "failed"},
           AgentReturns(w, outcome)
    PROVE  TypeOK' /\ Tame({})
  <1> USE DEF AgentReturns, Release, human, table, Inv
  <1>1. TypeOK'
    BY DEF TypeOK
  <1>2. Tame({})
    BY DEF TypeOK, Tame, Busy, Materialized
  <1> QED
    BY <1>1, <1>2

LEMMA PromoteStep ==
    ASSUME Inv, NEW w \in Worker, Promote(w)
    PROVE  TypeOK' /\ Tame({job[w]})
  <1>1. job[w] \in Row /\ job[w] \in startedAt
    BY JobRow DEF Promote, Busy
  <1> USE DEF Promote, StillHeld, Release, human, Inv
  <1>2. TypeOK'
    BY DEF TypeOK, TaskRunStatus, Done
  <1>3. Tame({job[w]})
    BY <1>1 DEF TypeOK, Tame, Busy, Materialized, Done
  <1> QED
    BY <1>2, <1>3

LEMMA ResultDroppedStep ==
    ASSUME Inv, NEW w \in Worker, ResultDropped(w)
    PROVE  TypeOK' /\ Tame({})
  <1> USE DEF ResultDropped, Release, human, table, Inv
  <1>1. TypeOK'
    BY DEF TypeOK
  <1>2. Tame({})
    BY DEF TypeOK, Tame, Busy, Materialized
  <1> QED
    BY <1>1, <1>2

LEMMA FailRetryableStep ==
    ASSUME Inv, NEW w \in Worker, FailRetryable(w)
    PROVE  TypeOK' /\ Tame({})
  <1> DEFINE r == job[w]
  <1>1. r \in Row /\ r \in startedAt
    BY JobRow DEF FailRetryable, Busy
  <1>2. count[r] \in Nat /\ RetryFrom(r, TRUE, count[r] + 1)
    <2>1. count \in [Row -> Nat]
      BY DEF Inv, TypeOK
    <2> QED
      BY <1>1, <2>1 DEF FailRetryable
  <1>3. /\ Following(r) \in Row /\ Following(r)[1] = r[1] /\ Following(r) # r
        /\ status[Following(r)] = "NONE"
        /\ linked' \subseteq Row /\ linked \subseteq linked'
        /\ count' \in [Row -> Nat]
    <2>1. count[r] + 1 \in Nat
      BY <1>2
    <2> QED
      BY <1>1, <1>2, <2>1, RetryType DEF Inv
  <1>4. \A q \in Row :
          \/ status'[q] = status[q]
          \/ q = Following(r) /\ status'[q] = "PENDING"
          \/ q = r /\ status[q] = "RUNNING" /\ status'[q] = "FAILED_RETRYABLE"
    BY DEF FailRetryable
  <1>5. /\ status' \in [Row -> TaskRunStatus]
        /\ UNCHANGED <<run, delayed, startedAt, open, resolved, web>>
        /\ Release(w, "idle")
    BY <1>4 DEF FailRetryable, human, Inv, TypeOK, TaskRunStatus, Live, Active
  <1>6. TypeOK'
    BY <1>3, <1>5, ReleaseType DEF Inv, TypeOK
  <1>7. Tame({})
    BY <1>1, <1>3, <1>4, <1>5
       DEF Inv, TypeOK, Tame, Release, Busy, Materialized, Done
  <1> QED
    BY <1>6, <1>7

LEMMA FailFinalStep ==
    ASSUME Inv, NEW w \in Worker, FailFinal(w)
    PROVE  TypeOK' /\ Tame({})
  <1> DEFINE r == job[w]
  <1>1. r \in Row /\ r \in startedAt
    BY JobRow DEF FailFinal, Busy
  <1>2. \A q \in Row :
          \/ status'[q] = status[q]
          \/ q = r /\ status[q] = "RUNNING" /\ status'[q] = "FAILED_FINAL"
          \/ status[q] \in {"PENDING", "READY"} /\ status'[q] = "BLOCKED_BY_FAILURE"
    BY DownstreamRows DEF FailFinal, Inv
  <1>3. /\ status' \in [Row -> TaskRunStatus]
        /\ UNCHANGED <<run, linked, count, delayed, startedAt, resolved, web>>
        /\ open' = open \union {r}
        /\ Release(w, "idle")
    BY <1>2 DEF FailFinal, Escalate, Inv, TypeOK, TaskRunStatus, Live, Active
  <1>4. TypeOK'
    BY <1>1, <1>3, ReleaseType DEF Inv, TypeOK
  <1>5. Tame({})
    BY <1>1, <1>2, <1>3
       DEF Inv, TypeOK, Tame, Release, Busy, Materialized, Done
  <1> QED
    BY <1>4, <1>5

\* The stale rows a tick retries, those it gives up, and the retries.
Retried(stale)   == {r \in stale : Recoverable(r)}
Finalized(stale) == stale \ Retried(stale)
Fresh(stale)     == {Following(r) : r \in Retried(stale)}

\* What a tick does, row by row.
LEMMA TickRows ==
    ASSUME Inv, NEW stale \in SUBSET Running, Tick(stale)
    PROVE  /\ \A q \in stale : q \in Row /\ status[q] = "RUNNING"
           /\ \A q \in Fresh(stale) : q \in Row /\ status[q] = "NONE"
           /\ \A q \in Retried(stale) : status'[q] = "FAILED_RETRYABLE"
           /\ \A q \in Finalized(stale) : status'[q] = "FAILED_FINAL"
           /\ \A q \in Fresh(stale) : status'[q] \in {"PENDING", "READY"}
           /\ \A q \in Row \ (stale \union Fresh(stale)) :
                 \/ status'[q] = status[q]
                 \/ status[q] = "PENDING" /\ status'[q] = "READY"
                 \/ status[q] \in {"PENDING", "READY"}
                       /\ status'[q] = "BLOCKED_BY_FAILURE"
           /\ status' \in [Row -> TaskRunStatus]
           /\ count' = [r \in Row |-> IF r \in Fresh(stale)
                                      THEN count[<<r[1], r[2] - 1>>] + 1
                                      ELSE count[r]]
           /\ delayed' = delayed \union Fresh(stale)
           /\ open' = open \union Finalized(stale)
           /\ run' = CheckCompletion(status')
           /\ UNCHANGED <<linked, startedAt, resolved, exec, pc, job, web>>
  <1> DEFINE blocked == Downstream({q[1] : q \in Finalized(stale)})
             recovered == [r \in Row |->
                CASE r \in Retried(stale) -> "FAILED_RETRYABLE"
                  [] r \in Finalized(stale) -> "FAILED_FINAL"
                  [] r \in Fresh(stale) -> "PENDING"
                  [] r \in blocked -> "BLOCKED_BY_FAILURE"
                  [] OTHER -> status[r]]
  <1>1. \A q \in stale : q \in Row /\ status[q] = "RUNNING"
    BY DEF Running
  <1>2. \A q \in Fresh(stale) : q \in Row /\ status[q] = "NONE"
    BY DEF Tick, Fresh, Retried
  <1>3. /\ count' = [r \in Row |-> IF r \in Fresh(stale)
                                   THEN count[<<r[1], r[2] - 1>>] + 1
                                   ELSE count[r]]
        /\ delayed' = delayed \union Fresh(stale)
        /\ status' = MarkReady(recovered, delayed')
        /\ open' = open \union Finalized(stale)
        /\ run' = CheckCompletion(status')
        /\ UNCHANGED <<linked, startedAt, resolved, exec, pc, job, web>>
    BY DEF Tick, Escalate, procs, Fresh, Retried, Finalized
  <1>4. \A q \in Row :
          /\ q \in Retried(stale) => recovered[q] = "FAILED_RETRYABLE"
          /\ q \in Finalized(stale) => recovered[q] = "FAILED_FINAL"
          /\ q \in Fresh(stale) => recovered[q] = "PENDING"
          /\ q \notin stale \union Fresh(stale) =>
                \/ recovered[q] = status[q]
                \/ status[q] \in {"PENDING", "READY"} /\ recovered[q] = "BLOCKED_BY_FAILURE"
    <2>1. \A q \in Row : q \in Finalized(stale) => q \notin Retried(stale)
      BY DEF Finalized
    <2>2. \A q \in Row : q \in Fresh(stale) => q \notin Retried(stale) \union Finalized(stale)
      BY <1>1, <1>2 DEF Retried, Finalized
    <2>3. \A q \in Row : q \in Retried(stale) \/ q \in Finalized(stale) => q \in stale
      BY DEF Retried, Finalized
    <2>4. \A q \in blocked : status[q] \in {"PENDING", "READY"}
      BY DownstreamRows DEF Inv
    <2> HIDE DEF blocked
    <2> QED
      BY <1>1, <1>2, <2>1, <2>2, <2>3, <2>4
  <1> HIDE DEF recovered
  <1>5. \A q \in Row : \/ status'[q] = recovered[q]
                       \/ recovered[q] = "PENDING" /\ status'[q] = "READY"
    BY <1>3, MarkReadyRows
  <1>6. /\ \A q \in Retried(stale) : status'[q] = "FAILED_RETRYABLE"
        /\ \A q \in Finalized(stale) : status'[q] = "FAILED_FINAL"
        /\ \A q \in Fresh(stale) : status'[q] \in {"PENDING", "READY"}
    BY <1>1, <1>2, <1>4, <1>5 DEF Retried, Finalized
  <1>7. \A q \in Row \ (stale \union Fresh(stale)) :
          \/ status'[q] = status[q]
          \/ status[q] = "PENDING" /\ status'[q] = "READY"
          \/ status[q] \in {"PENDING", "READY"} /\ status'[q] = "BLOCKED_BY_FAILURE"
    BY <1>4, <1>5
  <1>8. status' \in [Row -> TaskRunStatus]
    <2>1. \A q \in Row : status'[q] \in TaskRunStatus
      BY <1>6, <1>7 DEF Retried, Finalized, Inv, TypeOK, TaskRunStatus, Live, Active
    <2> QED
      BY <1>3, <2>1 DEF MarkReady
  <1> QED
    BY <1>1, <1>2, <1>3, <1>6, <1>7, <1>8

LEMMA TickStep ==
    ASSUME Inv, NEW stale \in SUBSET Running, Tick(stale)
    PROVE  TypeOK' /\ Tame({})
  <1> USE TickRows
  <1>1. \A q \in stale : q \in startedAt
    BY DEF Inv, Held
  <1>2. \A r \in Fresh(stale) : \E q \in stale : q[1] = r[1] /\ r[2] - 1 = q[2]
    <2>1. \A q \in stale : q[2] \in Nat
      BY RowParts
    <2> QED
      BY <2>1 DEF Fresh, Retried, Following
  <1>3. Finalized(stale) \subseteq stale /\ Retried(stale) \subseteq stale
        /\ stale = Retried(stale) \union Finalized(stale)
    BY DEF Finalized, Retried
  <1>4. count' \in [Row -> Nat]
    <2>1. \A r \in Fresh(stale) : <<r[1], r[2] - 1>> \in Row
      <3> SUFFICES ASSUME NEW r \in Fresh(stale)
                   PROVE  <<r[1], r[2] - 1>> \in Row
        OBVIOUS
      <3>1. PICK q \in stale : q[1] = r[1] /\ r[2] - 1 = q[2]
        BY <1>2
      <3>2. q \in Row
        OBVIOUS
      <3>3. q = <<q[1], q[2]>>
        BY <3>2 DEF Row
      <3> QED
        BY <3>1, <3>2, <3>3
    <2>2. count \in [Row -> Nat]
      BY DEF Inv, TypeOK
    <2>3. count' = [r \in Row |-> IF r \in Fresh(stale)
                                  THEN count[<<r[1], r[2] - 1>>] + 1
                                  ELSE count[r]]
      OBVIOUS
    <2> HIDE TickRows
    <2> QED
      BY <2>1, <2>2, <2>3
  <1>5. run' \in RunStatus /\ (run' = run \/ (run = "RUNNING_EXECUTION" /\ run' # "CREATED"))
    BY CompletionStatus DEF Inv, TypeOK, RunStatus, Terminal
  <1>6. TypeOK'
    BY <1>3, <1>4, <1>5 DEF Inv, TypeOK
  <1>7. Tame({})
    <2>1. \A r \in Row : status[r] = "NONE" /\ status'[r] # "NONE" =>
             \E q \in startedAt : q[1] = r[1]
      BY <1>1, <1>2, <1>3
    <2>2. \A r \in Row :
             /\ status[r] # "NONE" => status'[r] # "NONE"
             /\ status'[r] \in Done <=> status[r] \in Done
             /\ status'[r] = "RUNNING" => status[r] = "RUNNING"
             /\ status'[r] = "FAILED_FINAL" => status[r] = "FAILED_FINAL" \/ r \in open'
      BY <1>3 DEF Done
    <2>3. run = "CREATED" => run' = "CREATED" /\ web' = "none"
      BY <1>5 DEF Inv, Materialized
    <2> QED
      BY <2>1, <2>2, <2>3, <1>1, <1>3, <1>5 DEF Tame
  <1> QED
    BY <1>6, <1>7

LEMMA RetryDueStep ==
    ASSUME Inv, NEW r \in Row, RetryDue(r)
    PROVE  TypeOK' /\ Tame({})
  <1> USE DEF RetryDue, procs, human, Inv
  <1>1. TypeOK'
    BY DEF TypeOK
  <1>2. Tame({})
    BY DEF TypeOK, Tame, Busy, Materialized
  <1> QED
    BY <1>1, <1>2

LEMMA ResolvedRow ==
    ASSUME Inv, NEW r \in Row, NEW resolution, Resolve(r, resolution)
    PROVE  /\ r \in startedAt /\ run # "CREATED"
           /\ open' \subseteq open /\ resolved' \subseteq Row
           /\ open \union resolved \subseteq open' \union resolved'
  <1>1. r \in startedAt
    BY DEF Resolve, Inv, Held
  <1> QED
    BY <1>1, StartedOnlyIfCreated DEF Resolve, Inv, TypeOK

LEMMA ResolveRetryStep ==
    ASSUME Inv, NEW r \in Row, ResolveRetry(r)
    PROVE  TypeOK' /\ Tame({})
  <1>1. /\ r \in startedAt /\ run # "CREATED"
        /\ open' \subseteq open /\ resolved' \subseteq Row
        /\ open \union resolved \subseteq open' \union resolved'
    BY ResolvedRow DEF ResolveRetry
  <1>2. /\ Following(r) \in Row /\ Following(r)[1] = r[1]
        /\ status[Following(r)] = "NONE"
        /\ linked' \subseteq Row /\ linked \subseteq linked'
        /\ count' \in [Row -> Nat]
    <2>1. RetryFrom(r, TRUE, 0) /\ 0 \in Nat
      BY DEF ResolveRetry
    <2> QED
      BY <2>1, RetryType DEF Inv
  <1>3. \A q \in Row :
          \/ status'[q] = status[q]
          \/ q = Following(r) /\ status'[q] = "PENDING"
          \/ status[q] = "BLOCKED_BY_FAILURE" /\ status'[q] = "PENDING"
    BY UnblockedRows DEF ResolveRetry, Inv
  <1>4. /\ status' \in [Row -> TaskRunStatus]
        /\ run' \in RunStatus /\ run' # "CREATED"
        /\ UNCHANGED <<delayed, startedAt, exec, pc, job, web>>
    BY <1>1, <1>3
       DEF ResolveRetry, Unpaused, procs, Inv, TypeOK, TaskRunStatus, Live, Active, RunStatus
  <1>5. TypeOK'
    BY <1>1, <1>2, <1>4 DEF Inv, TypeOK
  <1>6. Tame({})
    BY <1>1, <1>2, <1>3, <1>4 DEF Inv, TypeOK, Tame, Busy, Done
  <1> QED
    BY <1>5, <1>6

LEMMA ResolveSkipStep ==
    ASSUME Inv, NEW r \in Row, ResolveSkip(r)
    PROVE  TypeOK' /\ Tame({q \in {r} : status[q] = "FAILED_FINAL"})
  <1> DEFINE skipped == [q \in Row |-> IF q = r /\ status[r] = "FAILED_FINAL"
                                       THEN "SKIPPED" ELSE status[q]]
  <1>1. /\ r \in startedAt /\ run # "CREATED"
        /\ open' \subseteq open /\ resolved' \subseteq Row
        /\ open \union resolved \subseteq open' \union resolved'
    BY ResolvedRow DEF ResolveSkip
  <1>2. \A q \in Row :
          \/ status'[q] = skipped[q]
          \/ skipped[q] = "BLOCKED_BY_FAILURE" /\ status'[q] = "PENDING"
    BY UnblockedRows DEF ResolveSkip, Inv
  <1>3. \A q \in Row :
          \/ q # r /\ status'[q] = status[q]
          \/ q = r /\ status[r] # "FAILED_FINAL" /\ status'[r] = status[r]
          \/ q = r /\ status[r] = "FAILED_FINAL" /\ status'[r] = "SKIPPED"
          \/ status[q] = "BLOCKED_BY_FAILURE" /\ status'[q] = "PENDING"
    BY <1>2
  <1>4. /\ status' \in [Row -> TaskRunStatus]
        /\ run' \in RunStatus /\ run' # "CREATED"
        /\ UNCHANGED <<linked, count, delayed, startedAt, exec, pc, job, web>>
    BY <1>1, <1>3
       DEF ResolveSkip, Unpaused, procs, Inv, TypeOK, TaskRunStatus, Live, Active, Done, RunStatus
  <1>5. TypeOK'
    BY <1>1, <1>4 DEF Inv, TypeOK
  <1>6. Tame({q \in {r} : status[q] = "FAILED_FINAL"})
    BY <1>1, <1>3, <1>4 DEF Inv, TypeOK, Tame, Busy, Done
  <1> QED
    BY <1>5, <1>6

LEMMA ResolveAbortStep ==
    ASSUME Inv, NEW r \in Row, ResolveAbort(r)
    PROVE  TypeOK' /\ Tame({})
  <1>1. /\ r \in startedAt /\ run # "CREATED"
        /\ open' \subseteq open /\ resolved' \subseteq Row
        /\ open \union resolved \subseteq open' \union resolved'
    BY ResolvedRow DEF ResolveAbort
  <1>2. \A q \in Row :
          \/ status'[q] = status[q]
          \/ status[q] \notin AbortSpares /\ status'[q] = "ABORTED"
    BY DEF ResolveAbort
  <1>3. /\ status' \in [Row -> TaskRunStatus]
        /\ run' = "FAILED"
        /\ UNCHANGED <<linked, count, delayed, startedAt, exec, pc, job, web>>
    BY <1>2 DEF ResolveAbort, procs, Inv, TypeOK, TaskRunStatus
  <1>4. TypeOK'
    BY <1>1, <1>3 DEF Inv, TypeOK, RunStatus, Terminal
  <1>5. Tame({})
    BY <1>1, <1>2, <1>3 DEF Inv, TypeOK, Tame, Busy, Done, AbortSpares
  <1> QED
    BY <1>4, <1>5

LEMMA WebStep ==
    ASSUME Inv, WebReads \/ WebWrites
    PROVE  TypeOK' /\ Tame({})
  <1> USE DEF WebReads, WebWrites, table, human, procs, Inv
  <1>1. TypeOK'
    BY DEF TypeOK, RunStatus, Terminal
  <1>2. Tame({})
    BY DEF TypeOK, Tame, Busy, Materialized
  <1> QED
    BY <1>1, <1>2

-----------------------------------------------------------------------------
(* The two steps that are not tame.                                        *)

LEMMA RunExecutionInv ==
    ASSUME Inv, NEW e \in Executor, RunExecution(e)
    PROVE  Inv'
  <1> USE DEF RunExecution
  <1>1. /\ startedAt = {} /\ startedAt' = {} /\ run' = "RUNNING_EXECUTION"
        /\ open = {} /\ open' = {}
        /\ \A r \in Row : status[r] = "NONE"
        /\ \A r \in Row : status'[r] = IF r[2] = 1 THEN "PENDING" ELSE "NONE"
        /\ linked' = {r \in Row : r[2] = 1}
    BY DEF human, Inv, Materialized, Held
  <1>2. \A w \in Worker : pc'[w] \in Busy => pc[w] \in Busy
    BY DEF Spawn, Busy, Inv, TypeOK
  <1>3. TypeOK'
    BY SpawnType DEF human, Inv, TypeOK, TaskRunStatus, Live, Active, RunStatus
  <1>4. Materialized' /\ Held'
    BY <1>1, <1>2 DEF Materialized, Held, Inv
  <1>5. DependencyOrder' /\ LaterAttempts' /\ FinalIsEscalated'
    BY <1>1, RowParts DEF DependencyOrder, LaterAttempts, FinalIsEscalated
  <1> QED
    BY <1>3, <1>4, <1>5 DEF Inv

\* What pickup's double-check is worth: for a first attempt it looks at the
\* dependencies, for a later one the task was started before.
LEMMA PickableDeps ==
    ASSUME Inv, run = "RUNNING_EXECUTION", NEW r \in Row, Pickable(r)
    PROVE  DepsDone(r[1])
  <1>1. CASE r[2] > 1
    BY <1>1 DEF Pickable, Inv, LaterAttempts
  <1>2. CASE r[2] = 1
    <2>1. Deps(r) = Dep[r[1]]
      BY <1>2 DEF Inv, Materialized, Deps
    <2> SUFFICES ASSUME NEW d \in Dep[r[1]]
                 PROVE  \E q \in Row : q[1] = d /\ status[q] \in Done
      BY DEF DepsDone
    <2>2. d \in Task
      BY RowParts, TaskAssumption
    <2>3. <<d, 1>> \in Row /\ status[<<d, 1>>] # "NONE"
      BY <2>2, AttemptAssumption DEF Row, Inv, Materialized
    <2>4. <<d, 1>> \in RowsOf(Deps(r), status)
      BY <2>1, <2>3 DEF RowsOf
    <2> QED
      BY <2>3, <2>4 DEF Pickable
  <1> QED
    BY <1>1, <1>2, RowParts

LEMMA PickupInv ==
    ASSUME Inv, NEW w \in Worker, NEW r \in Row, Pickup(w, r)
    PROVE  Inv'
  <1>1. /\ status[r] = "READY" /\ DepsDone(r[1])
        /\ status' = [status EXCEPT ![r] = "RUNNING"]
        /\ startedAt' = startedAt \union {r}
        /\ pc' = [pc EXCEPT ![w] = "agent"] /\ job' = [job EXCEPT ![w] = r]
        /\ run = "RUNNING_EXECUTION"
        /\ UNCHANGED <<run, linked, count, delayed, open, resolved, exec, web>>
    BY PickableDeps DEF Pickup, Pickable, human
  <1>2. TypeOK'
    BY <1>1 DEF Inv, TypeOK, TaskRunStatus, Live, Active
  <1>3. \A q \in Row : status'[q] = IF q = r THEN "RUNNING" ELSE status[q]
    BY <1>1 DEF Inv, TypeOK
  <1>4. Materialized'
    BY <1>1, <1>3 DEF Inv, Materialized
  <1>5. Held'
    BY <1>1, <1>3 DEF Inv, TypeOK, Held
  <1>6. ASSUME NEW t, DepsDone(t) PROVE DepsDone(t)'
    BY <1>1, <1>3, <1>6 DEF DepsDone, Done
  <1>7. DependencyOrder' /\ LaterAttempts'
    BY <1>1, <1>3, <1>6 DEF Inv, DependencyOrder, LaterAttempts
  <1>8. FinalIsEscalated'
    BY <1>1, <1>3 DEF Inv, FinalIsEscalated
  <1> QED
    BY <1>2, <1>4, <1>5, <1>7, <1>8 DEF Inv

-----------------------------------------------------------------------------
(* The theorems.                                                           *)

\* Every step is RunExecution, Pickup or tame; only Promote and ResolveSkip
\* finish a row, and it was started.
LEMMA StepKinds ==
    ASSUME Inv, Next
    PROVE  \/ \E e \in Executor : RunExecution(e)
           \/ \E w \in Worker, r \in Row : Pickup(w, r)
           \/ TypeOK' /\ Tame({})
           \/ \E r \in startedAt : TypeOK' /\ Tame({r})
  <1>1. CASE \E e \in Executor : RunExecution(e) \/ Resume(e) \/ Crash(e)
    BY <1>1, ResumeStep, CrashStep
  <1>2. ASSUME NEW w \in Worker, WorkerStep(w)
        PROVE  \/ \E r \in Row : Pickup(w, r)
               \/ TypeOK' /\ Tame({})
               \/ \E r \in startedAt : TypeOK' /\ Tame({r})
    <2>1. CASE WorkerExits(w)
      BY <2>1, WorkerExitsStep
    <2>2. CASE \E r \in Row : Pickup(w, r)
      BY <2>2
    <2>3. CASE \E outcome \in {"succeeded", "failed"} : AgentReturns(w, outcome)
      BY <2>3, AgentReturnsStep
    <2>4. CASE Promote(w)
      <3>1. job[w] \in startedAt
        BY <2>4, JobRow DEF Promote, Busy
      <3> QED
        BY <2>4, <3>1, PromoteStep
    <2>5. CASE ResultDropped(w)
      BY <2>5, ResultDroppedStep
    <2>6. CASE FailRetryable(w)
      BY <2>6, FailRetryableStep
    <2>7. CASE FailFinal(w)
      BY <2>7, FailFinalStep
    <2> QED
      BY <1>2, <2>1, <2>2, <2>3, <2>4, <2>5, <2>6, <2>7 DEF WorkerStep
  <1>3. CASE \E stale \in SUBSET Running : Tick(stale)
    BY <1>3, TickStep
  <1>4. CASE \E r \in Row : RetryDue(r)
    BY <1>4, RetryDueStep
  <1>5. CASE OperatorStep
    <2>1. ASSUME NEW r \in Row, ResolveSkip(r)
          PROVE  \/ TypeOK' /\ Tame({})
                 \/ \E q \in startedAt : TypeOK' /\ Tame({q})
      <3>1. r \in startedAt
        BY <2>1, ResolvedRow DEF ResolveSkip
      <3>2. TypeOK' /\ Tame({q \in {r} : status[q] = "FAILED_FINAL"})
        BY <2>1, ResolveSkipStep
      <3>3. CASE status[r] = "FAILED_FINAL"
        <4>1. {q \in {r} : status[q] = "FAILED_FINAL"} = {r}
          BY <3>3
        <4> QED
          BY <3>1, <3>2, <4>1
      <3>4. CASE status[r] # "FAILED_FINAL"
        <4>1. {q \in {r} : status[q] = "FAILED_FINAL"} = {}
          BY <3>4
        <4> QED
          BY <3>2, <4>1
      <3> QED
        BY <3>3, <3>4
    <2>2. CASE \E r \in Row : ResolveRetry(r) \/ ResolveSkip(r) \/ ResolveAbort(r)
      BY <2>1, <2>2, ResolveRetryStep, ResolveAbortStep
    <2>3. CASE WebReads \/ WebWrites
      BY <2>3, WebStep
    <2> QED
      BY <1>5, <2>2, <2>3 DEF OperatorStep
  <1> QED
    BY <1>1, <1>2, <1>3, <1>4, <1>5 DEF Next

LEMMA InvInit == Init => Inv
  <1> SUFFICES ASSUME Init PROVE Inv
    OBVIOUS
  <1>1. \A r \in Row : status[r] = "NONE"
    BY DEF Init
  <1>2. Materialized /\ Held
    BY <1>1 DEF Init, Materialized, Held, Busy
  <1>3. DependencyOrder /\ LaterAttempts /\ FinalIsEscalated
    BY <1>1 DEF Init, DependencyOrder, LaterAttempts, FinalIsEscalated
  <1> QED
    BY <1>2, <1>3, TypeInit DEF Inv

LEMMA InvStep == Inv /\ [Next]_vars => Inv'
  <1> SUFFICES ASSUME Inv, [Next]_vars PROVE Inv'
    OBVIOUS
  <1>1. CASE Next
    BY <1>1, StepKinds, RunExecutionInv, PickupInv, TameInv
  <1>2. CASE UNCHANGED vars
    BY <1>2
       DEF vars, table, human, procs, Inv, TypeOK, Materialized, Held,
           DependencyOrder, DepsDone, LaterAttempts, FinalIsEscalated
  <1> QED
    BY <1>1, <1>2

\* The inductive invariant holds in every reachable state.
THEOREM Invariance == Spec => []Inv
  BY InvInit, InvStep, PTL DEF Spec

\* Every column, escalation and thread attribute keeps its type, for every
\* graph, number of threads, policy and set of operators.
THEOREM TypeCorrect == Spec => []TypeOK
  <1>1. Inv => TypeOK
    BY DEF Inv
  <1> QED
    BY <1>1, Invariance, PTL

\* No agent is ever started on a task before everything it depends on is
\* done, although retries of dead tasks lose their dependencies.
THEOREM OrderIsKept == Spec => []DependencyOrder
  <1>1. Inv => DependencyOrder
    BY DEF Inv
  <1> QED
    BY <1>1, Invariance, PTL

\* No row is FAILED_FINAL without an escalation, open or resolved.
THEOREM FailuresAreEscalated == Spec => []FinalIsEscalated
  <1>1. Inv => FinalIsEscalated
    BY DEF Inv
  <1> QED
    BY <1>1, Invariance, PTL

-----------------------------------------------------------------------------
(* The refinement.                                                         *)

LEMMA OrderInit == Init => Order!Init
  BY DEF Init, Order!Init, Done

\* Pickup begins its task.
LEMMA PickupBegins ==
    ASSUME Inv, NEW w \in Worker, NEW r \in Row, Pickup(w, r)
    PROVE  Order!Next
  <1>1. /\ status[r] = "READY" /\ DepsDone(r[1])
        /\ status' = [status EXCEPT ![r] = "RUNNING"]
        /\ startedAt' = startedAt \union {r}
    BY PickableDeps DEF Pickup, Pickable
  <1>2. \A q \in Row : status'[q] \in Done <=> status[q] \in Done
    BY <1>1 DEF Inv, TypeOK, Done
  <1>3. Order!Begin(r[1])
    <2>1. Dep[r[1]] \subseteq {q[1] : q \in {p \in Row : status[p] \in Done}}
      BY <1>1, RowParts, TaskAssumption DEF DepsDone
    <2>2. {q[1] : q \in startedAt'} = {q[1] : q \in startedAt} \union {r[1]}
      BY <1>1
    <2>3. {q[1] : q \in {p \in Row : status'[p] \in Done}}
            = {q[1] : q \in {p \in Row : status[p] \in Done}}
      BY <1>2
    <2> QED
      BY <2>1, <2>2, <2>3 DEF Order!Begin
  <1> QED
    BY <1>3, RowParts DEF Order!Next

\* A tame step that finishes a started row finishes its task.
LEMMA TameFinishes ==
    ASSUME Inv, NEW r \in startedAt, Tame({r})
    PROVE  Order!Next
  <1>1. r \in Row
    BY DEF Inv, TypeOK
  <1>2. \A q \in Row : status'[q] \in Done <=> status[q] \in Done \/ q = r
    BY DEF Tame
  <1>3. {q[1] : q \in {p \in Row : status'[p] \in Done}}
          = {q[1] : q \in {p \in Row : status[p] \in Done}} \union {r[1]}
    BY <1>1, <1>2
  <1>4. startedAt' = startedAt
    BY DEF Tame
  <1>5. Order!Finish(r[1])
    BY <1>3, <1>4 DEF Order!Finish
  <1> QED
    BY <1>1, <1>5, RowParts DEF Order!Next

LEMMA TameStutters ==
    ASSUME Inv, Tame({})
    PROVE  UNCHANGED Order!vars
  <1>1. \A q \in Row : status'[q] \in Done <=> status[q] \in Done
    BY DEF Tame
  <1>2. startedAt' = startedAt
    BY DEF Tame
  <1> QED
    BY <1>1, <1>2 DEF Order!vars

LEMMA RunExecutionStutters ==
    ASSUME Inv, NEW e \in Executor, RunExecution(e)
    PROVE  UNCHANGED Order!vars
  <1>1. \A q \in Row : status'[q] \notin Done /\ status[q] \notin Done
    BY DEF RunExecution, Inv, Materialized, Done
  <1>2. startedAt' = startedAt
    BY DEF RunExecution
  <1> QED
    BY <1>1, <1>2 DEF Order!vars

LEMMA OrderStep == Inv /\ [Next]_vars => [Order!Next]_(Order!vars)
  <1> SUFFICES ASSUME Inv, [Next]_vars PROVE Order!Next \/ UNCHANGED Order!vars
    OBVIOUS
  <1>1. CASE Next
    BY <1>1, StepKinds, RunExecutionStutters, PickupBegins, TameFinishes, TameStutters
  <1>2. CASE UNCHANGED vars
    BY <1>2 DEF vars, table, Order!vars
  <1> QED
    BY <1>1, <1>2

\* The engine, with all its threads, retries, crashes and interventions,
\* implements the promise of TaskOrder.
THEOREM EngineImplementsOrder == Spec => ImplementsOrder
  BY OrderInit, OrderStep, Invariance, PTL DEF Spec, ImplementsOrder, Order!Spec

-----------------------------------------------------------------------------
(***************************************************************************)
(* OneLiveAttempt: while nobody resumes a live run, and when the retries   *)
(* of failed work do not outnumber those of dead work (retry_policy has 2  *)
(* and 3), a task never has two attempts that can run or have succeeded.   *)
(*                                                                         *)
(* The attempts of a task are numbered without gaps and only the last can  *)
(* be alive.  What endangers this is a worker given up for dead: its late  *)
(* answer may insert an attempt or open an escalation, and a human's       *)
(* decision on an escalation may do so too.  StaleHolders says what such a *)
(* worker can still hold, Decisions what a human can still decide.         *)
(***************************************************************************)
Waiting == {"PENDING", "READY", "BLOCKED_BY_FAILURE"}
Given   == {"FAILED_RETRYABLE", "FAILED_FINAL", "ABORTED"}

Earlier(r, q) == r[1] = q[1] /\ r[2] < q[2]

\* Attempts are numbered without gaps; all but the last were given up.
Numbered ==
    \A r, q \in Row : Earlier(r, q) /\ status[q] # "NONE" => status[r] \in Given

\* A row is picked up once, by one worker.
StartedOnce ==
    /\ \A r \in startedAt : status[r] \notin Waiting \union {"NONE"}
    /\ \A v, w \in Worker :
          pc[v] \in Busy /\ pc[w] \in Busy /\ job[v] = job[w] => v = w

\* A worker that comes late does not hold a row somebody else finished, and
\* has no retries left when its row is final.
StaleHolders ==
    \A w \in Worker : pc[w] \in Busy =>
        /\ status[job[w]] # "SUCCESS"
        /\ status[job[w]] \in {"FAILED_FINAL", "SKIPPED"} => count[job[w]] >= EnvMax

\* What is skipped was decided, what can be decided was given up, and a final
\* failure nobody decided on has no later attempt.
Decisions ==
    /\ \A r \in Row : status[r] = "SKIPPED" => r \in resolved
    /\ \A r \in open \ resolved : status[r] \in Given
    /\ \A r, q \in Row :
          status[r] = "FAILED_FINAL" /\ r \notin resolved /\ Earlier(r, q)
             => status[q] = "NONE"

Attempts == Numbered /\ StartedOnce /\ StaleHolders /\ Decisions

-----------------------------------------------------------------------------
(* The steps, but for RunExecution and Pickup, row by row.                 *)

\* No worker holds r after the step.
Dropped(r) == \A w \in Worker : pc'[w] \in Busy => job'[w] # r

\* The new row r is the attempt after p, which was given up and decided on.
Succeeds(r, p) ==
    /\ r = Following(p) /\ status[p] # "NONE"
    /\ \/ status'[p] \in {"FAILED_RETRYABLE", "ABORTED"}
       \/ status'[p] = "FAILED_FINAL" /\ p \in resolved'

RowStep(r) ==
    \/ status'[r] = status[r]
    \/ status[r] \in Waiting /\ status'[r] \in Waiting \union {"ABORTED"}
    \/ status[r] \in {"RUNNING", "FAILED_RETRYABLE"}
          /\ status'[r] \in {"FAILED_RETRYABLE", "ABORTED"}
    \/ status[r] = "RUNNING" /\ status'[r] = "SUCCESS" /\ Dropped(r)
    \/ status[r] = "RUNNING" /\ status'[r] = "FAILED_FINAL"
          /\ (Dropped(r) \/ count[r] >= EnvMax)
    \/ status[r] = "FAILED_FINAL" /\ status'[r] = "SKIPPED"
          /\ r \notin resolved /\ r \in resolved'
    \/ status[r] = "NONE" /\ status'[r] \in Waiting /\ \E p \in Row : Succeeds(r, p)

Orderly ==
    /\ startedAt' = startedAt /\ resolved \subseteq resolved'
    /\ \A w \in Worker : pc'[w] \in Busy => pc[w] \in Busy /\ job'[w] = job[w]
    /\ \A r \in Row : RowStep(r)
    /\ \A r \in Row : status[r] # "NONE" => count'[r] = count[r]
    /\ \A r \in open' \ resolved' : r \in open \ resolved \/ status'[r] \in Given

-----------------------------------------------------------------------------
(* Orderly steps keep Attempts.                                            *)

LEMMA EarlierFollowing ==
    ASSUME NEW r \in Row, NEW p \in Row, Earlier(r, Following(p))
    PROVE  r = p \/ Earlier(r, p)
  <1>1. /\ r[1] = p[1] /\ r[2] < p[2] + 1
        /\ r[2] \in Nat /\ p[2] \in Nat
    BY RowParts DEF Earlier, Following
  <1>2. r = <<r[1], r[2]>> /\ p = <<p[1], p[2]>>
    BY DEF Row
  <1>3. CASE r[2] = p[2]
    BY <1>1, <1>2, <1>3
  <1>4. CASE r[2] < p[2]
    BY <1>1, <1>4 DEF Earlier
  <1> QED
    BY <1>1, <1>3, <1>4

LEMMA EarlierOrEqual ==
    ASSUME NEW r \in Row, NEW q \in Row, r[1] = q[1], r # q
    PROVE  Earlier(r, q) \/ Earlier(q, r)
  <1>1. r = <<r[1], r[2]>> /\ q = <<q[1], q[2]>>
    BY DEF Row
  <1>2. r[2] # q[2] /\ r[2] \in Nat /\ q[2] \in Nat
    BY <1>1, RowParts
  <1> QED
    BY <1>2 DEF Earlier

\* The rows before a row that exists after the step.
LEMMA OrderlyEarlier ==
    ASSUME Attempts, Orderly, NEW r \in Row, NEW q \in Row,
           Earlier(r, q), status'[q] # "NONE"
    PROVE  \/ status[r] \in Given /\ status'[r] \in Given
                 /\ (status[r] = "FAILED_FINAL" => r \in resolved)
           \/ Succeeds(q, r)
  <1>1. ASSUME NEW p \in Row, Earlier(r, p), status[p] # "NONE"
        PROVE  status[r] \in Given /\ status'[r] \in Given
                 /\ (status[r] = "FAILED_FINAL" => r \in resolved)
    <2>1. status[r] \in Given
      BY <1>1 DEF Attempts, Numbered
    <2>2. status[r] = "FAILED_FINAL" => r \in resolved
      BY <1>1 DEF Attempts, Decisions
    <2>3. RowStep(r)
      BY DEF Orderly
    <2> QED
      BY <2>1, <2>2, <2>3 DEF RowStep, Given, Waiting
  <1>2. CASE status[q] # "NONE"
    BY <1>1, <1>2
  <1>3. CASE status[q] = "NONE"
    <2>1. PICK p \in Row : Succeeds(q, p)
      BY <1>3 DEF Orderly, RowStep, Waiting
    <2>2. r = p \/ Earlier(r, p)
      BY <2>1, EarlierFollowing DEF Succeeds
    <2> QED
      BY <1>1, <2>1, <2>2 DEF Succeeds
  <1> QED
    BY <1>2, <1>3

LEMMA OrderlyAttempts ==
    ASSUME Inv, Attempts, Orderly
    PROVE  Attempts'
  <1>1. Numbered'
    <2> SUFFICES ASSUME NEW r \in Row, NEW q \in Row, Earlier(r, q), status'[q] # "NONE"
                 PROVE  status'[r] \in Given
      BY DEF Numbered, Earlier
    <2> QED
      BY OrderlyEarlier DEF Succeeds, Given
  <1>2. StartedOnce'
    <2>1. \A r \in startedAt : r \in Row /\ status[r] \notin Waiting \union {"NONE"}
      BY DEF Inv, TypeOK, Attempts, StartedOnce
    <2>2. \A r \in startedAt : status'[r] \notin Waiting \union {"NONE"}
      BY <2>1 DEF Orderly, RowStep, Waiting
    <2> QED
      BY <2>2 DEF Attempts, StartedOnce, Orderly
  <1>3. StaleHolders'
    <2> SUFFICES ASSUME NEW w \in Worker, pc'[w] \in Busy
                 PROVE  /\ status'[job'[w]] # "SUCCESS"
                        /\ status'[job'[w]] \in {"FAILED_FINAL", "SKIPPED"}
                              => count'[job'[w]] >= EnvMax
      BY DEF StaleHolders
    <2> DEFINE r == job[w]
    <2>1. pc[w] \in Busy /\ job'[w] = r /\ ~Dropped(r)
      BY DEF Orderly, Dropped
    <2>2. r \in Row /\ r \in startedAt
      BY <2>1, JobRow
    <2>3. status[r] \notin Waiting \union {"NONE"}
      BY <2>2 DEF Attempts, StartedOnce
    <2>4. /\ status[r] # "SUCCESS"
          /\ status[r] \in {"FAILED_FINAL", "SKIPPED"} => count[r] >= EnvMax
      BY <2>1 DEF Attempts, StaleHolders
    <2>5. RowStep(r) /\ count'[r] = count[r]
      BY <2>2, <2>3 DEF Orderly
    <2> QED
      BY <2>1, <2>3, <2>4, <2>5 DEF RowStep, Waiting
  <1>4. Decisions'
    <2>1. ASSUME NEW r \in Row, status'[r] = "SKIPPED"
          PROVE  r \in resolved'
      BY <2>1 DEF Attempts, Decisions, Orderly, RowStep, Waiting
    <2>2. ASSUME NEW r \in open' \ resolved'
          PROVE  status'[r] \in Given
      <3>1. CASE status'[r] \in Given
        BY <3>1
      <3>2. CASE r \in open \ resolved
        <4>1. status[r] \in Given /\ r \in Row
          BY <3>2 DEF Attempts, Decisions, Inv, TypeOK
        <4>2. RowStep(r)
          BY <4>1 DEF Orderly
        <4> QED
          BY <4>1, <4>2 DEF RowStep, Given, Waiting
      <3> QED
        BY <3>1, <3>2 DEF Orderly
    <2>3. ASSUME NEW r \in Row, NEW q \in Row,
                 status'[r] = "FAILED_FINAL", r \notin resolved', Earlier(r, q)
          PROVE  status'[q] = "NONE"
      <3> SUFFICES ASSUME status'[q] # "NONE"
                   PROVE  FALSE
        OBVIOUS
      <3>1. ~Succeeds(q, r)
        BY <2>3 DEF Succeeds
      <3>2. status[r] \in Given /\ (status[r] = "FAILED_FINAL" => r \in resolved)
        BY <2>3, <3>1, OrderlyEarlier
      <3>3. RowStep(r) /\ r \notin resolved
        BY <2>3 DEF Orderly
      <3> QED
        BY <2>3, <3>2, <3>3 DEF RowStep, Given, Waiting
    <2> QED
      BY <2>1, <2>2, <2>3 DEF Decisions, Earlier
  <1> QED
    BY <1>1, <1>2, <1>3, <1>4 DEF Attempts

-----------------------------------------------------------------------------
(* Every step but RunExecution, Pickup and Resume is orderly.              *)

LEMMA HeldRow ==
    ASSUME Inv, Attempts, NEW w \in Worker, pc[w] \in Busy
    PROVE  /\ job[w] \in Row
           /\ status[job[w]] \in Given \union {"RUNNING", "SKIPPED"}
           /\ status[job[w]] \in {"FAILED_FINAL", "SKIPPED"} => count[job[w]] >= EnvMax
  <1>1. job[w] \in Row /\ job[w] \in startedAt
    BY JobRow
  <1>2. status[job[w]] \in TaskRunStatus
    BY <1>1 DEF Inv, TypeOK
  <1> QED
    BY <1>1, <1>2
       DEF Attempts, StartedOnce, StaleHolders, TaskRunStatus, Live, Active, Done,
           Waiting, Given

LEMMA UntouchedOrderly ==
    ASSUME Inv, Attempts, UNCHANGED <<status, count, startedAt, open, resolved>>,
           \A w \in Worker : pc'[w] \in Busy => pc[w] \in Busy /\ job'[w] = job[w]
    PROVE  Orderly
  BY DEF Orderly, RowStep

LEMMA ReleaseDrops ==
    ASSUME Inv, Attempts, NEW w \in Worker, pc[w] \in Busy, Release(w, "idle")
    PROVE  /\ Dropped(job[w])
           /\ \A v \in Worker : pc'[v] \in Busy => pc[v] \in Busy /\ job'[v] = job[v]
  BY DEF Release, Dropped, Busy, Inv, TypeOK, Attempts, StartedOnce

LEMMA PromoteOrderly ==
    ASSUME Inv, Attempts, NEW w \in Worker, Promote(w)
    PROVE  Orderly
  <1>1. pc[w] \in Busy /\ Release(w, "idle")
    BY DEF Promote, Busy
  <1>2. \A q \in Row :
          \/ status'[q] = status[q]
          \/ q = job[w] /\ status[q] = "RUNNING" /\ status'[q] = "SUCCESS"
    BY DEF Promote, StillHeld, Inv, TypeOK
  <1> QED
    BY <1>1, <1>2, ReleaseDrops DEF Promote, human, Orderly, RowStep

LEMMA FailRetryableOrderly ==
    ASSUME Inv, Attempts, ExecMax <= EnvMax, NEW w \in Worker, FailRetryable(w)
    PROVE  Orderly
  <1> DEFINE r == job[w]
  <1>1. pc[w] \in Busy /\ Release(w, "idle")
    BY DEF FailRetryable, Busy
  <1>2. r \in Row /\ count[r] \in Nat /\ count[r] < ExecMax
    BY <1>1, HeldRow DEF FailRetryable, Inv, TypeOK
  <1>3. status[r] \in {"RUNNING", "FAILED_RETRYABLE", "ABORTED"}
    <2>1. ~(count[r] >= EnvMax)
      BY <1>2, PolicyAssumption
    <2> QED
      BY <1>1, <2>1, HeldRow DEF Given
  <1>4. /\ Following(r) \in Row /\ Following(r) # r /\ status[Following(r)] = "NONE"
        /\ count' = [count EXCEPT ![Following(r)] = count[r] + 1]
    BY <1>2, FollowingRow DEF FailRetryable, RetryFrom
  <1>5. /\ status'[Following(r)] = "PENDING"
        /\ status'[r] = IF status[r] = "RUNNING" THEN "FAILED_RETRYABLE" ELSE status[r]
        /\ \A q \in Row : q # r /\ q # Following(r) => status'[q] = status[q]
        /\ UNCHANGED <<startedAt, open, resolved>>
    BY <1>2, <1>3, <1>4 DEF FailRetryable, human
  <1>6. Succeeds(Following(r), r)
    BY <1>3, <1>5 DEF Succeeds
  <1>7. ASSUME NEW q \in Row
        PROVE  RowStep(q)
    <2>1. CASE q = Following(r)
      <3>1. status[q] = "NONE" /\ status'[q] \in Waiting
        BY <1>4, <1>5, <2>1 DEF Waiting
      <3>2. \E p \in Row : Succeeds(q, p)
        BY <1>2, <1>6, <2>1
      <3> QED
        BY <3>1, <3>2 DEF RowStep
    <2>2. CASE q = r
      BY <1>3, <1>5, <2>2 DEF RowStep
    <2>3. CASE q # r /\ q # Following(r)
      BY <1>5, <2>3 DEF RowStep
    <2> QED
      BY <2>1, <2>2, <2>3
  <1>8. \A q \in Row : status[q] # "NONE" => count'[q] = count[q]
    BY <1>4 DEF Inv, TypeOK
  <1> QED
    BY <1>1, <1>5, <1>7, <1>8, ReleaseDrops DEF Orderly

LEMMA FailFinalOrderly ==
    ASSUME Inv, Attempts, NEW w \in Worker, FailFinal(w)
    PROVE  Orderly
  <1> DEFINE r == job[w]
  <1>1. pc[w] \in Busy /\ Release(w, "idle")
    BY DEF FailFinal, Busy
  <1>2. r \in Row /\ status[r] \in Given \union {"RUNNING", "SKIPPED"}
    BY <1>1, HeldRow
  <1>3. \A q \in Row :
          \/ status'[q] = status[q]
          \/ q = r /\ status[q] = "RUNNING" /\ status'[q] = "FAILED_FINAL"
          \/ status[q] \in {"PENDING", "READY"} /\ status'[q] = "BLOCKED_BY_FAILURE"
    BY DownstreamRows DEF FailFinal, Inv
  <1>4. /\ UNCHANGED <<count, startedAt, resolved>>
        /\ open' = open \union {r}
    BY DEF FailFinal, Escalate
  <1>5. \A q \in Row : RowStep(q)
    BY <1>1, <1>3, ReleaseDrops DEF RowStep, Waiting
  <1>6. status'[r] \in Given \/ r \in resolved
    <2>1. CASE status[r] = "RUNNING"
      BY <1>2, <2>1, DownstreamRows DEF FailFinal, Given, Inv
    <2>2. CASE status[r] \in Given
      BY <1>2, <1>3, <2>2 DEF Given
    <2>3. CASE status[r] = "SKIPPED"
      BY <1>2, <2>3 DEF Attempts, Decisions
    <2> QED
      BY <1>2, <2>1, <2>2, <2>3
  <1> QED
    BY <1>1, <1>4, <1>5, <1>6, ReleaseDrops DEF Orderly

\* A row recover_dead_tasks gives up had no retries left: its next attempt
\* cannot exist while it is RUNNING.
LEMMA FinalizedSpent ==
    ASSUME Inv, Attempts, NEW stale \in SUBSET Running, NEW r \in Finalized(stale)
    PROVE  count[r] >= EnvMax
  <1>1. r \in Row /\ status[r] = "RUNNING" /\ ~Recoverable(r)
    BY DEF Finalized, Retried, Running
  <1>2. ASSUME Following(r) \in Row
        PROVE  status[Following(r)] = "NONE"
    <2>1. Earlier(r, Following(r))
      BY <1>1, RowParts DEF Earlier, Following
    <2> QED
      BY <1>1, <1>2, <2>1 DEF Attempts, Numbered, Given
  <1>3. count[r] \in Nat
    BY <1>1 DEF Inv, TypeOK
  <1> QED
    BY <1>1, <1>2, <1>3, PolicyAssumption DEF Recoverable

LEMMA TickOrderly ==
    ASSUME Inv, Attempts, NEW stale \in SUBSET Running, Tick(stale)
    PROVE  Orderly
  <1> USE TickRows
  <1>1. Finalized(stale) \subseteq stale /\ Retried(stale) \subseteq stale
        /\ stale = Retried(stale) \union Finalized(stale)
    BY DEF Finalized, Retried
  <1>2. ASSUME NEW q \in Row
        PROVE  RowStep(q)
    <2>1. CASE q \in Retried(stale)
      BY <1>1, <2>1 DEF RowStep
    <2>2. CASE q \in Finalized(stale)
      BY <1>1, <2>2, FinalizedSpent DEF RowStep
    <2>3. CASE q \in Fresh(stale)
      <3>1. PICK p \in Retried(stale) : q = Following(p)
        BY <2>3 DEF Fresh
      <3>2. p \in Row /\ Succeeds(q, p)
        BY <1>1, <3>1 DEF Succeeds
      <3> QED
        BY <2>3, <3>2 DEF RowStep, Waiting
    <2>4. CASE q \notin stale \union Fresh(stale)
      BY <2>4 DEF RowStep, Waiting
    <2> QED
      BY <1>1, <2>1, <2>2, <2>3, <2>4
  <1>3. \A q \in Row : status[q] # "NONE" => count'[q] = count[q]
    <2>1. count' = [r \in Row |-> IF r \in Fresh(stale)
                                  THEN count[<<r[1], r[2] - 1>>] + 1
                                  ELSE count[r]]
      OBVIOUS
    <2>2. \A q \in Fresh(stale) : status[q] = "NONE"
      OBVIOUS
    <2> HIDE TickRows
    <2> QED
      BY <2>1, <2>2
  <1>4. \A q \in open' \ resolved' : q \in open \ resolved \/ status'[q] \in Given
    BY DEF Given
  <1> QED
    BY <1>2, <1>3, <1>4 DEF Orderly

\* What can be decided on was given up before.
LEMMA DecidedRow ==
    ASSUME Inv, Attempts, NEW r \in Row, NEW resolution, Resolve(r, resolution)
    PROVE  /\ status[r] \in Given
           /\ r \notin resolved /\ r \in resolved'
           /\ resolved \subseteq resolved' /\ open' \subseteq open
  BY DEF Resolve, Attempts, Decisions

LEMMA ResolveRetryOrderly ==
    ASSUME Inv, Attempts, NEW r \in Row, ResolveRetry(r)
    PROVE  Orderly
  <1>1. /\ status[r] \in Given /\ r \in resolved'
        /\ resolved \subseteq resolved' /\ open' \subseteq open
    BY DecidedRow DEF ResolveRetry
  <1>2. /\ Following(r) \in Row /\ Following(r) # r /\ status[Following(r)] = "NONE"
        /\ count' = [count EXCEPT ![Following(r)] = 0]
    BY FollowingRow DEF ResolveRetry, RetryFrom
  <1>3. \A q \in Row :
          \/ q # Following(r) /\ status'[q] = status[q]
          \/ q = Following(r) /\ status'[q] = "PENDING"
          \/ status[q] = "BLOCKED_BY_FAILURE" /\ status'[q] = "PENDING"
    BY UnblockedRows DEF ResolveRetry, Inv
  <1>4. Succeeds(Following(r), r)
    BY <1>1, <1>2, <1>3 DEF Succeeds, Given
  <1>5. \A q \in Row : RowStep(q)
    BY <1>2, <1>3, <1>4 DEF RowStep, Waiting
  <1>6. \A q \in Row : status[q] # "NONE" => count'[q] = count[q]
    BY <1>2 DEF Inv, TypeOK
  <1>7. UNCHANGED <<startedAt, pc, job>>
    BY DEF ResolveRetry, procs
  <1> QED
    BY <1>1, <1>5, <1>6, <1>7 DEF Orderly

LEMMA ResolveSkipOrderly ==
    ASSUME Inv, Attempts, NEW r \in Row, ResolveSkip(r)
    PROVE  Orderly
  <1> DEFINE skipped == [q \in Row |-> IF q = r /\ status[r] = "FAILED_FINAL"
                                       THEN "SKIPPED" ELSE status[q]]
  <1>1. /\ r \notin resolved /\ r \in resolved'
        /\ resolved \subseteq resolved' /\ open' \subseteq open
    BY DecidedRow DEF ResolveSkip
  <1>2. \A q \in Row :
          \/ status'[q] = skipped[q]
          \/ skipped[q] = "BLOCKED_BY_FAILURE" /\ status'[q] = "PENDING"
    BY UnblockedRows DEF ResolveSkip, Inv
  <1>3. \A q \in Row : RowStep(q)
    BY <1>1, <1>2 DEF RowStep, Waiting
  <1>4. UNCHANGED <<count, startedAt, pc, job>>
    BY DEF ResolveSkip, procs
  <1> QED
    BY <1>1, <1>3, <1>4 DEF Orderly

LEMMA ResolveAbortOrderly ==
    ASSUME Inv, Attempts, NEW r \in Row, ResolveAbort(r)
    PROVE  Orderly
  <1>1. resolved \subseteq resolved' /\ open' \subseteq open
    BY DecidedRow DEF ResolveAbort
  <1>2. \A q \in Row : status[q] \in TaskRunStatus
    BY DEF Inv, TypeOK
  <1>3. \A q \in Row : RowStep(q)
    BY <1>2 DEF ResolveAbort, AbortSpares, RowStep, TaskRunStatus, Live, Active, Done, Waiting
  <1>4. UNCHANGED <<count, startedAt, pc, job>>
    BY DEF ResolveAbort, procs
  <1> QED
    BY <1>1, <1>3, <1>4 DEF Orderly

LEMMA OrderlyStep ==
    ASSUME Inv, Attempts, Next, "resume" \notin Operator, ExecMax <= EnvMax
    PROVE  \/ \E e \in Executor : RunExecution(e)
           \/ \E w \in Worker, r \in Row : Pickup(w, r)
           \/ Orderly
  <1>1. CASE \E e \in Executor : RunExecution(e) \/ Resume(e) \/ Crash(e)
    <2>1. ASSUME NEW e \in Executor, Crash(e)
          PROVE  Orderly
      BY <2>1, UntouchedOrderly DEF Crash, human, table, Busy, Inv, TypeOK
    <2> QED
      BY <1>1, <2>1 DEF Resume
  <1>2. ASSUME NEW w \in Worker, WorkerStep(w)
        PROVE  (\E r \in Row : Pickup(w, r)) \/ Orderly
    <2>1. CASE WorkerExits(w) \/ ResultDropped(w)
      BY <2>1, UntouchedOrderly
         DEF WorkerExits, ResultDropped, Release, human, table, Busy, Inv, TypeOK
    <2>2. CASE \E outcome \in {"succeeded", "failed"} : AgentReturns(w, outcome)
      BY <2>2, UntouchedOrderly
         DEF AgentReturns, Release, human, table, Busy, Inv, TypeOK
    <2> QED
      BY <1>2, <2>1, <2>2, PromoteOrderly, FailRetryableOrderly, FailFinalOrderly
         DEF WorkerStep
  <1>3. CASE \E stale \in SUBSET Running : Tick(stale)
    BY <1>3, TickOrderly
  <1>4. CASE \E r \in Row : RetryDue(r)
    BY <1>4, UntouchedOrderly DEF RetryDue, human, procs
  <1>5. CASE OperatorStep
    <2>1. CASE WebReads \/ WebWrites
      BY <2>1, UntouchedOrderly DEF WebReads, WebWrites, human, table, procs
    <2> QED
      BY <1>5, <2>1, ResolveRetryOrderly, ResolveSkipOrderly, ResolveAbortOrderly
         DEF OperatorStep
  <1> QED
    BY <1>1, <1>2, <1>3, <1>4, <1>5 DEF Next

-----------------------------------------------------------------------------
(* The other two steps, and the theorem.                                   *)

LEMMA RunExecutionAttempts ==
    ASSUME Inv, NEW e \in Executor, RunExecution(e)
    PROVE  Attempts'
  <1>1. /\ startedAt = {} /\ startedAt' = {} /\ open' = {}
        /\ \A r \in Row : status[r] = "NONE"
        /\ \A r \in Row : status'[r] = IF r[2] = 1 THEN "PENDING" ELSE "NONE"
    BY DEF RunExecution, human, Inv, Materialized, Held
  <1>2. \A w \in Worker : pc'[w] \notin Busy
    <2>1. \A w \in Worker : pc[w] \notin Busy
      BY <1>1 DEF Inv, Held
    <2> QED
      BY <2>1 DEF RunExecution, Spawn, Busy, Inv, TypeOK
  <1>3. \A r, q \in Row : Earlier(r, q) => status'[q] = "NONE"
    BY <1>1, RowParts DEF Earlier
  <1> QED
    BY <1>1, <1>2, <1>3
       DEF Attempts, Numbered, StartedOnce, StaleHolders, Decisions, Earlier

LEMMA PickupAttempts ==
    ASSUME Inv, Attempts, NEW w \in Worker, NEW r \in Row, Pickup(w, r)
    PROVE  Attempts'
  <1>1. /\ status[r] = "READY" /\ pc[w] = "idle"
        /\ status' = [status EXCEPT ![r] = "RUNNING"]
        /\ startedAt' = startedAt \union {r}
        /\ pc' = [pc EXCEPT ![w] = "agent"] /\ job' = [job EXCEPT ![w] = r]
        /\ UNCHANGED <<count, open, resolved>>
    BY DEF Pickup, Pickable, human
  <1>2. \A q \in Row : status'[q] = IF q = r THEN "RUNNING" ELSE status[q]
    BY <1>1 DEF Inv, TypeOK
  <1>3. r \notin startedAt /\ r \notin open
    BY <1>1 DEF Attempts, StartedOnce, Waiting, Inv, Held
  <1>4. \A v \in Worker : /\ v # w => pc'[v] = pc[v] /\ job'[v] = job[v]
                         /\ pc'[w] = "agent" /\ job'[w] = r
    BY <1>1 DEF Inv, TypeOK
  <1>5. \A v \in Worker : pc[v] \in Busy => v # w /\ job[v] \in Row /\ job[v] # r
    BY <1>1, <1>3, JobRow DEF Busy
  <1>6. Numbered'
    BY <1>1, <1>2 DEF Attempts, Numbered, Earlier, Given
  <1>7. StartedOnce'
    <2>1. \A q \in startedAt' : status'[q] \notin Waiting \union {"NONE"}
      BY <1>1, <1>2 DEF Attempts, StartedOnce, Inv, TypeOK, Waiting
    <2> QED
      BY <2>1, <1>4, <1>5 DEF Attempts, StartedOnce
  <1>8. StaleHolders'
    BY <1>1, <1>2, <1>4, <1>5 DEF Attempts, StaleHolders
  <1>9. Decisions'
    BY <1>1, <1>2, <1>3 DEF Attempts, Decisions, Earlier, Inv, TypeOK
  <1> QED
    BY <1>6, <1>7, <1>8, <1>9 DEF Attempts

LEMMA AttemptsInit == Init => Attempts
  <1> SUFFICES ASSUME Init PROVE Attempts
    OBVIOUS
  <1>1. \A r \in Row : status[r] = "NONE"
    BY DEF Init
  <1> QED
    BY <1>1 DEF Init, Attempts, Numbered, StartedOnce, StaleHolders, Decisions, Busy

LEMMA AttemptsStep ==
    ASSUME "resume" \notin Operator, ExecMax <= EnvMax
    PROVE  Inv /\ Attempts /\ [Next]_vars => Attempts'
  <1> SUFFICES ASSUME Inv, Attempts, [Next]_vars PROVE Attempts'
    OBVIOUS
  <1>1. CASE Next
    BY <1>1, OrderlyStep, OrderlyAttempts, RunExecutionAttempts, PickupAttempts
  <1>2. CASE UNCHANGED vars
    BY <1>2
       DEF vars, table, human, procs, Attempts, Numbered, StartedOnce, StaleHolders, Decisions
  <1> QED
    BY <1>1, <1>2

LEMMA AttemptsSuffice == Attempts => OneLiveAttempt
  <1> SUFFICES ASSUME Attempts, NEW r \in Row, NEW q \in Row,
                      r[1] = q[1], r # q,
                      status[r] \in Live \union Done, status[q] \in Live \union Done
               PROVE  FALSE
    BY DEF OneLiveAttempt
  <1>1. Earlier(r, q) \/ Earlier(q, r)
    BY EarlierOrEqual
  <1> QED
    BY <1>1 DEF Attempts, Numbered, Given, Live, Active, Done

\* While nobody resumes a run that is still alive, and failed work is not
\* retried more often than dead work, a task has at most one attempt that
\* can run or was done: however late a worker given up for dead answers, it
\* neither succeeds nor retries beside the attempt that replaced it.
THEOREM AttemptsAreSerial ==
    ASSUME "resume" \notin Operator, ExecMax <= EnvMax
    PROVE  Spec => []OneLiveAttempt
  <1>1. Inv /\ Attempts /\ [Next]_vars => Attempts'
    BY AttemptsStep
  <1> QED
    BY <1>1, AttemptsInit, AttemptsSuffice, Invariance, PTL DEF Spec

-----------------------------------------------------------------------------
(***************************************************************************)
(* CompletionIsEarned.  Only a tick completes a run, and it looks at the   *)
(* rows of the graph one by one, never along the attempts of a task.  What *)
(* makes the outcome right is that a task once materialized has always an  *)
(* attempt in force: a row is given up only in the transaction that        *)
(* inserts its successor.                                                  *)
(***************************************************************************)

\* After materialize, some attempt of each task is in force.
Carried == run # "CREATED" => \A t \in Task : InForce(t, status) # {}

\* What every step does to the attempts in force.
Succeeded ==
    \A r \in Row : status[r] \notin {"NONE", "FAILED_RETRYABLE"} =>
        \/ status'[r] \notin {"NONE", "FAILED_RETRYABLE"}
        \/ /\ Following(r) \in Row
           /\ status'[Following(r)] \notin {"NONE", "FAILED_RETRYABLE"}

LEMMA FailRetryableSucceeded ==
    ASSUME Inv, NEW w \in Worker, FailRetryable(w)
    PROVE  Succeeded
  <1> DEFINE r == job[w]
  <1>1. r \in Row
    BY JobRow DEF FailRetryable, Inv, Busy
  <1>2. Following(r) \in Row /\ Following(r) # r /\ status[Following(r)] = "NONE"
    BY <1>1, FollowingRow DEF FailRetryable, RetryFrom
  <1>3. /\ status'[Following(r)] = "PENDING"
        /\ \A q \in Row : q # r /\ q # Following(r) => status'[q] = status[q]
    BY <1>1, <1>2 DEF FailRetryable
  <1> HIDE DEF r
  <1> QED
    BY <1>1, <1>2, <1>3 DEF Succeeded

LEMMA FailFinalSucceeded ==
    ASSUME Inv, NEW w \in Worker, FailFinal(w)
    PROVE  Succeeded
  <1>1. \A q \in Row :
          \/ status'[q] = status[q]
          \/ status'[q] \in {"FAILED_FINAL", "BLOCKED_BY_FAILURE"}
    BY DEF FailFinal, Inv, TypeOK
  <1> QED
    BY <1>1 DEF Succeeded

LEMMA TickSucceeded ==
    ASSUME Inv, NEW stale \in SUBSET Running, Tick(stale)
    PROVE  Succeeded
  <1> SUFFICES ASSUME NEW r \in Row, status[r] \notin {"NONE", "FAILED_RETRYABLE"},
                      status'[r] \in {"NONE", "FAILED_RETRYABLE"}
               PROVE  /\ Following(r) \in Row
                      /\ status'[Following(r)] \notin {"NONE", "FAILED_RETRYABLE"}
    BY DEF Succeeded
  <1>1. r \in Retried(stale)
    BY TickRows DEF Finalized, Retried
  <1>2. Following(r) \in Fresh(stale)
    BY <1>1 DEF Fresh
  <1> QED
    BY <1>2, TickRows

LEMMA ResolveSucceeded ==
    ASSUME Inv, NEW r \in Row, ResolveRetry(r) \/ ResolveSkip(r) \/ ResolveAbort(r)
    PROVE  Succeeded
  <1>1. ASSUME NEW q \in Row
        PROVE  \/ status'[q] = status[q]
               \/ status'[q] \in {"PENDING", "SKIPPED", "ABORTED"}
    BY <1>1 DEF ResolveRetry, ResolveSkip, ResolveAbort, Inv, TypeOK
  <1> QED
    BY <1>1 DEF Succeeded

LEMMA EveryStepSucceeded == Inv /\ [Next]_vars => Succeeded
  <1> SUFFICES ASSUME Inv, [Next]_vars PROVE Succeeded
    OBVIOUS
  <1>1. ASSUME UNCHANGED status
        PROVE  Succeeded
    BY <1>1 DEF Succeeded
  <1>2. ASSUME NEW e \in Executor, RunExecution(e) \/ Resume(e) \/ Crash(e)
        PROVE  Succeeded
    <2>1. \A q \in Row : status'[q] \in {status[q], "PENDING"}
      BY <1>2 DEF RunExecution, Resume, Crash, table, Inv, TypeOK
    <2> QED
      BY <2>1 DEF Succeeded
  <1>3. ASSUME NEW w \in Worker, WorkerStep(w)
        PROVE  Succeeded
    <2>1. ASSUME (\E r \in Row : Pickup(w, r)) \/ Promote(w)
          PROVE  Succeeded
      <3>1. \A q \in Row : status'[q] \in {status[q], "RUNNING", "SUCCESS"}
        BY <2>1 DEF Pickup, Promote, Inv, TypeOK
      <3> QED
        BY <3>1 DEF Succeeded
    <2> QED
      BY <1>1, <1>3, <2>1, FailRetryableSucceeded, FailFinalSucceeded
         DEF WorkerStep, WorkerExits, AgentReturns, ResultDropped, table
  <1>4. ASSUME OperatorStep
        PROVE  Succeeded
    BY <1>1, <1>4, ResolveSucceeded DEF OperatorStep, WebReads, WebWrites, table
  <1> QED
    BY <1>1, <1>2, <1>3, <1>4, TickSucceeded DEF Next, RetryDue, vars, table

LEMMA CarriedStep == Inv /\ Inv' /\ Carried /\ [Next]_vars => Carried'
  <1> SUFFICES ASSUME Inv, Inv', Carried, [Next]_vars, run' # "CREATED", NEW t \in Task
               PROVE  InForce(t, status') # {}
    BY DEF Carried, InForce, RowsOf
  <1>1. CASE run = "CREATED"
    <2>1. PICK e \in Executor : RunExecution(e)
      <3>1. Next
        BY <1>1 DEF vars
      <3> QED
        BY <1>1, <3>1, StepKinds DEF Tame, Pickup
    <2>2. <<t, 1>> \in Row
      BY AttemptAssumption DEF Row
    <2>3. status'[<<t, 1>>] = "PENDING"
      BY <2>1, <2>2 DEF RunExecution
    <2> QED
      BY <2>2, <2>3 DEF InForce, RowsOf
  <1>2. CASE run # "CREATED"
    <2>1. PICK r \in Row : r[1] = t /\ status[r] \notin {"NONE", "FAILED_RETRYABLE"}
      BY <1>2 DEF Carried, InForce, RowsOf
    <2>2. PICK q \in {r, Following(r)} :
              q \in Row /\ status'[q] \notin {"NONE", "FAILED_RETRYABLE"}
      BY <2>1, EveryStepSucceeded DEF Succeeded
    <2>3. q[1] = t
      BY <2>1 DEF Following
    <2> QED
      BY <2>2, <2>3 DEF InForce, RowsOf
  <1> QED
    BY <1>1, <1>2

\* A run is completed by a tick, on the statuses the tick leaves behind.
LEMMA CompletedByTick ==
    ASSUME Inv, [Next]_vars, run # "COMPLETED", run' = "COMPLETED"
    PROVE  run' = CheckCompletion(status') /\ linked' = linked
  <1>1. ASSUME NEW w \in Worker, WorkerStep(w)
        PROVE  run' = run
    BY <1>1 DEF WorkerStep, WorkerExits, Pickup, AgentReturns, Promote, ResultDropped,
                FailRetryable, FailFinal
  <1>2. ASSUME OperatorStep
        PROVE  run' = run \/ run' # "COMPLETED"
    BY <1>2 DEF OperatorStep, ResolveRetry, ResolveSkip, ResolveAbort, Unpaused,
                WebReads, WebWrites, Inv, TypeOK
  <1> QED
    BY <1>1, <1>2 DEF Next, RunExecution, Resume, Crash, Tick, RetryDue, vars

LEMMA EarnedStep ==
    ASSUME Inv, Inv', Carried', [Next]_vars, run # "COMPLETED", run' = "COMPLETED",
           NEW t \in Task
    PROVE  \E r \in InForce(t, status') :
              status'[r] \in Done \/ status'[r] = "ABORTED" \/ r \notin linked'
  <1>1. \A r \in linked :
          status'[r] \notin Active \union {"FAILED_FINAL", "BLOCKED_BY_FAILURE"}
    BY CompletedByTick DEF CheckCompletion
  <1>2. PICK r \in Row : /\ r \in InForce(t, status')
                         /\ status'[r] \notin {"NONE", "FAILED_RETRYABLE"}
    BY DEF Carried, InForce, RowsOf
  <1>3. status'[r] \in TaskRunStatus
    BY DEF Inv, TypeOK
  <1>4. r \in linked' => status'[r] \in Done \union {"ABORTED"}
    BY <1>1, <1>2, <1>3, CompletedByTick DEF TaskRunStatus, Live, Done, Active
  <1> QED
    BY <1>2, <1>4

\* A run is never reported COMPLETED over a task that is blocked, failed, in
\* hand or given up, unless a human aborted it or the attempt in force is one
\* check_completion does not see: for every graph, policy and set of people,
\* also those who resume a live run or abort and approve at the same time.
THEOREM CompletionEarned == Spec => CompletionIsEarned
  <1>1. Init => Carried
    BY DEF Init, Carried
  <1>2. Inv /\ Inv' /\ Carried /\ Carried' /\ [Next]_vars =>
          [run # "COMPLETED" /\ run' = "COMPLETED" =>
              \A t \in Task : \E r \in InForce(t, status') :
                  \/ status'[r] \in Done
                  \/ status'[r] = "ABORTED"
                  \/ r \notin linked']_vars
    BY EarnedStep
  <1> QED
    BY <1>1, <1>2, CarriedStep, Invariance, PTL DEF Spec, CompletionIsEarned

-----------------------------------------------------------------------------
(***************************************************************************)
(* Where the tasks come from: module TaskGraph, here as Graph.  What is    *)
(* asked of it is in TaskPhases, which this module extends as well.        *)
(*                                                                         *)
(* Each of the rules that add to a graph keeps it Sound, whatever graph it *)
(* is, under conditions on the phases of the target's neighbours that its  *)
(* lemma states and that the order of the rules provides.  A set of done   *)
(* tasks of the new graph is turned into one of the old graph, and what is *)
(* in it because the old graph keeps the phases is in the other one too.   *)
(***************************************************************************)
CONSTANT MaxEdit

VARIABLES rules, todo

Graph == INSTANCE TaskGraph

Node(g) ==
    [phase : Nat, deps : SUBSET DOMAIN g, parent : DOMAIN g \union {"none"},
     composite : BOOLEAN]

IsGraph(g) ==
    /\ "none" \notin DOMAIN g
    /\ \A i \in DOMAIN g :
          /\ g[i] \in Node(g)
          /\ g[i].composite <=> Graph!Children(g, i) # {}

Sound(g) == IsGraph(g) /\ Graph!InPhases(g) /\ ~Graph!HasCycle(g)

\* A task as the rules make it.
NewTask ==
    [phase : Nat, deps : {{}}, parent : {"none"}, composite : {FALSE}]

LEMMA InPhasesUse ==
    ASSUME NEW g, Graph!InPhases(g), NEW S, S \subseteq DOMAIN g,
           Graph!Closed(g, S),
           NEW i \in DOMAIN g, g[i].deps \subseteq S,
           NEW j \in DOMAIN g, ~g[j].composite, g[j].phase < g[i].phase
    PROVE  j \in S
  BY DEF Graph!InPhases

-----------------------------------------------------------------------------
(* add_before.                                                             *)

BeforeEffect(g, T, n, t, h) ==
    /\ DOMAIN h = DOMAIN g \union {n}
    /\ h[n].deps = g[T].deps /\ h[n].phase = t.phase
    /\ h[n].parent = "none" /\ h[n].composite = FALSE
    /\ h[T].deps = {n}
    /\ \A j \in DOMAIN g \ {T} : h[j].deps = g[j].deps
    /\ \A j \in DOMAIN g : /\ h[j].phase = g[j].phase
                           /\ h[j].parent = g[j].parent
                           /\ h[j].composite = g[j].composite
    /\ \A j \in DOMAIN g : Graph!Children(h, j) = Graph!Children(g, j)
    /\ IsGraph(h)

LEMMA BeforeShape ==
    ASSUME NEW g, IsGraph(g), NEW T \in DOMAIN g, NEW n, n \notin DOMAIN g,
           n # "none", NEW t \in NewTask,
           NEW h, h = Graph!AddBefore(g, T, n, t)
    PROVE  BeforeEffect(g, T, n, t, h)
  <1>1. \A j \in DOMAIN g : g[j] \in Node(g)
    BY DEF IsGraph
  <1>2. /\ DOMAIN h = DOMAIN g \union {n}
        /\ h[n] = [t EXCEPT !.deps = g[T].deps]
        /\ h[T] = [g[T] EXCEPT !.deps = {n}]
        /\ \A j \in DOMAIN g \ {T} : h[j] = g[j]
    BY DEF Graph!AddBefore, Graph!With
  <1>3. /\ h[n].deps = g[T].deps /\ h[n].phase = t.phase
        /\ h[n].parent = "none" /\ h[n].composite = FALSE
    BY <1>2 DEF NewTask
  <1>4. /\ h[T].deps = {n} /\ h[T].phase = g[T].phase
        /\ h[T].parent = g[T].parent /\ h[T].composite = g[T].composite
    BY <1>1, <1>2 DEF Node
  <1>5. \A j \in DOMAIN g : /\ h[j].phase = g[j].phase
                            /\ h[j].parent = g[j].parent
                            /\ h[j].composite = g[j].composite
    BY <1>2, <1>4
  <1>6. ASSUME NEW j \in DOMAIN g
        PROVE  Graph!Children(h, j) = Graph!Children(g, j)
    <2>1. j # "none"
      BY DEF IsGraph
    <2> QED
      BY <2>1, <1>2, <1>3, <1>5 DEF Graph!Children
  <1>7. Graph!Children(h, n) = {}
    <2>1. \A j \in DOMAIN g : g[j].parent # n
      BY <1>1 DEF Node
    <2> QED
      BY <2>1, <1>2, <1>3, <1>5 DEF Graph!Children
  <1>8. \A j \in DOMAIN h : h[j] \in Node(h)
    <2>1. h[n] \in Node(h)
      BY <1>1, <1>2 DEF Node, NewTask
    <2>2. h[T] \in Node(h)
      BY <1>1, <1>2 DEF Node
    <2>3. \A j \in DOMAIN g \ {T} : h[j] \in Node(h)
      BY <1>1, <1>2 DEF Node
    <2> QED
      BY <1>2, <2>1, <2>2, <2>3
  <1>9. IsGraph(h)
    BY <1>2, <1>3, <1>5, <1>6, <1>7, <1>8 DEF IsGraph
  <1> QED
    BY <1>2, <1>3, <1>4, <1>5, <1>6, <1>9
       DEF BeforeEffect

\* A task before an atomic one keeps the phases if it is of a phase no later,
\* and what is after the one is after the other.
LEMMA BeforeSound ==
    ASSUME NEW g, Sound(g), NEW T \in DOMAIN g, ~g[T].composite,
           NEW n, n \notin DOMAIN g, n # "none", NEW t \in NewTask,
           t.phase <= g[T].phase,
           \A j \in DOMAIN g : t.phase < g[j].phase =>
                j = T \/ g[T].phase < g[j].phase
    PROVE  Sound(Graph!AddBefore(g, T, n, t))
  <1> SUFFICES ASSUME NEW h, h = Graph!AddBefore(g, T, n, t) PROVE Sound(h)
    OBVIOUS
  <1>g. IsGraph(g) /\ \A j \in DOMAIN g : g[j] \in Node(g)
    BY DEF Sound, IsGraph
  <1>t. t.phase \in Nat /\ \A j \in DOMAIN g : g[j].phase \in Nat
                           /\ g[j].deps \subseteq DOMAIN g
    BY <1>g DEF NewTask, Node
  <1>e. BeforeEffect(g, T, n, t, h)
    BY <1>g, BeforeShape
  <1>h. /\ DOMAIN h = DOMAIN g \union {n}
        /\ h[n].deps = g[T].deps /\ h[n].phase = t.phase
        /\ h[n].composite = FALSE
        /\ h[T].deps = {n}
        /\ \A j \in DOMAIN g \ {T} : h[j].deps = g[j].deps
        /\ \A j \in DOMAIN g : /\ h[j].phase = g[j].phase
                               /\ h[j].composite = g[j].composite
        /\ \A j \in DOMAIN g : Graph!Children(h, j) = Graph!Children(g, j)
        /\ IsGraph(h)
    BY <1>e DEF BeforeEffect
  <1>1. Graph!InPhases(h)
    <2> SUFFICES ASSUME NEW S \in SUBSET DOMAIN h, Graph!Closed(h, S),
                        NEW i \in DOMAIN h, NEW j \in DOMAIN h,
                        h[i].deps \subseteq S,
                        ~h[j].composite, h[j].phase < h[i].phase
                 PROVE  j \in S
      BY DEF Graph!InPhases
    <2> DEFINE R == S \ {n}
    <2>1. R \subseteq DOMAIN g
      BY <1>h
    <2>2. \A k \in S : h[k].deps \subseteq S
      BY DEF Graph!Closed
    <2>3. T \in S \/ n \in S => g[T].deps \subseteq R
      BY <1>h, <1>t, <2>2
    <2>4. \A k \in R : g[k].deps \subseteq R
      BY <1>h, <1>t, <2>1, <2>2, <2>3
    <2>5. \A k \in R : Graph!Children(g, k) \subseteq R
      BY <1>h, <2>1 DEF Graph!Closed, Graph!Children
    <2>6. Graph!Closed(g, R)
      BY <2>4, <2>5 DEF Graph!Closed
    <2>7. CASE i = n \/ i = T
      <3>1. g[T].deps \subseteq R
        BY <2>2, <2>7, <1>h, <1>t
      <3>2. j = n => i = T /\ n \in S
        BY <2>7, <1>h, <1>t
      <3>3. j # n => j \in DOMAIN g /\ ~g[j].composite /\ g[j].phase < g[T].phase
        BY <2>7, <1>h, <1>t
      <3> QED
        BY <3>1, <3>2, <3>3, <2>1, <2>6, InPhasesUse DEF Sound
    <2>8. CASE i # n /\ i # T
      <3>1. i \in DOMAIN g /\ g[i].deps \subseteq R
        BY <2>8, <1>h, <1>t
      <3>2. CASE j # n
        BY <3>1, <3>2, <1>h, <2>1, <2>6, InPhasesUse DEF Sound
      <3>3. CASE j = n
        <4>1. g[T].phase < g[i].phase
          BY <3>1, <3>3, <2>8, <1>h
        <4>2. T \in R
          BY <4>1, <3>1, <2>1, <2>6, InPhasesUse DEF Sound
        <4> QED
          BY <4>2, <3>3, <2>2, <1>h
      <3> QED
        BY <3>2, <3>3
    <2> QED
      BY <2>7, <2>8
  <1>2. ~Graph!HasCycle(h)
    <2> SUFFICES ASSUME NEW S \in SUBSET DOMAIN h, S # {},
                        \A i \in S : h[i].deps \intersect S # {}
                 PROVE  Graph!HasCycle(g)
      BY DEF Sound, Graph!HasCycle
    <2> DEFINE R == S \ {n}
    <2>1. R \subseteq DOMAIN g
      BY <1>h
    <2>2. n \in S => g[T].deps \intersect R # {}
      BY <1>h, <1>t
    <2>3. R # {}
      BY <2>2
    <2>4. \A i \in R : g[i].deps \intersect R # {}
      BY <2>1, <2>2, <1>h, <1>t
    <2> QED
      BY <2>1, <2>3, <2>4 DEF Graph!HasCycle
  <1> QED
    BY <1>1, <1>2, <1>h DEF Sound

-----------------------------------------------------------------------------
(* add_parallel.                                                           *)

ParallelEffect(g, T, I, t, h) ==
    /\ DOMAIN h = DOMAIN g \union I
    /\ \A j \in I : /\ h[j].deps = g[T].deps /\ h[j].phase = t.phase
                    /\ h[j].parent = T /\ h[j].composite = FALSE
    /\ h[T].composite = TRUE
    /\ \A j \in DOMAIN g \ {T} : h[j].composite = g[j].composite
    /\ \A j \in DOMAIN g : /\ h[j].phase = g[j].phase
                           /\ h[j].parent = g[j].parent
                           /\ h[j].deps = g[j].deps
    /\ \A j \in DOMAIN g \ {T} : Graph!Children(h, j) = Graph!Children(g, j)
    /\ Graph!Children(h, T) = Graph!Children(g, T) \union I
    /\ IsGraph(h)

LEMMA ParallelShape ==
    ASSUME NEW g, IsGraph(g), NEW T \in DOMAIN g, NEW I, I # {},
           I \intersect DOMAIN g = {}, "none" \notin I, NEW t \in NewTask,
           NEW h, h = Graph!AddParallel(g, T, I, t)
    PROVE  ParallelEffect(g, T, I, t, h)
  <1>1. \A j \in DOMAIN g : g[j] \in Node(g)
    BY DEF IsGraph
  <1> DEFINE new == [t EXCEPT !.deps = g[T].deps, !.parent = T]
  <1>2. /\ DOMAIN h = DOMAIN g \union I
        /\ \A j \in I : h[j] = new
        /\ h[T] = [g[T] EXCEPT !.composite = TRUE]
        /\ \A j \in DOMAIN g \ {T} : h[j] = g[j]
    BY DEF Graph!AddParallel
  <1>n. \A d \in SUBSET DOMAIN h : g[T].deps = d /\ T \in DOMAIN h =>
            new \in [phase : {t.phase}, deps : {d}, parent : {T},
                     composite : {FALSE}]
    <2> SUFFICES ASSUME NEW d \in SUBSET DOMAIN h, g[T].deps = d
                 PROVE  new \in [phase : {t.phase}, deps : {d},
                                 parent : {T}, composite : {FALSE}]
      OBVIOUS
    <2>1. PICK half : half = [t EXCEPT !.deps = d]
      OBVIOUS
    <2>2. half \in [phase : {t.phase}, deps : {d},
                    parent : {"none"}, composite : {FALSE}]
      BY <2>1 DEF NewTask
    <2>3. [half EXCEPT !.parent = T] \in
              [phase : {t.phase}, deps : {d}, parent : {T},
               composite : {FALSE}]
      BY <2>2
    <2> QED
      BY <2>1, <2>3
  <1> HIDE DEF new
  <1>3. \A j \in I : /\ h[j].deps = g[T].deps /\ h[j].phase = t.phase
                     /\ h[j].parent = T /\ h[j].composite = FALSE
    <2>1. g[T].deps \in SUBSET DOMAIN h /\ T \in DOMAIN h
      BY <1>1, <1>2 DEF Node
    <2>2. /\ new.deps = g[T].deps /\ new.phase = t.phase
          /\ new.parent = T /\ new.composite = FALSE
      <3>1. PICK d \in SUBSET DOMAIN h : d = g[T].deps
        BY <2>1
      <3>2. new \in [phase : {t.phase}, deps : {d},
                     parent : {T}, composite : {FALSE}]
        BY <3>1, <2>1, <1>n
      <3> QED
        BY <3>1, <3>2
    <2> QED
      BY <2>2, <1>2
  <1>4. /\ h[T].deps = g[T].deps /\ h[T].phase = g[T].phase
        /\ h[T].parent = g[T].parent /\ h[T].composite = TRUE
    BY <1>1, <1>2 DEF Node
  <1>5. \A j \in DOMAIN g : /\ h[j].phase = g[j].phase
                            /\ h[j].parent = g[j].parent
                            /\ h[j].deps = g[j].deps
    BY <1>2, <1>4
  <1>6. \A j \in DOMAIN g \ {T} : Graph!Children(h, j) = Graph!Children(g, j)
    BY <1>2, <1>3, <1>5 DEF Graph!Children
  <1>7. Graph!Children(h, T) = Graph!Children(g, T) \union I
    BY <1>2, <1>3, <1>5 DEF Graph!Children
  <1>8. \A j \in I : Graph!Children(h, j) = {}
    <2>1. \A j \in DOMAIN g : g[j].parent \notin I
      BY <1>1 DEF Node
    <2> QED
      BY <2>1, <1>2, <1>3, <1>5 DEF Graph!Children
  <1>9. \A j \in DOMAIN h : h[j] \in Node(h)
    <2>1. \A j \in I : h[j] \in Node(h)
      <3>1. g[T].deps \in SUBSET DOMAIN h /\ T \in DOMAIN h
        BY <1>1, <1>2 DEF Node
      <3>2. t.phase \in Nat
        BY DEF NewTask
      <3>3. new \in Node(h)
        BY <3>1, <3>2, <1>n DEF Node
      <3> QED
        BY <3>3, <1>2
    <2>2. h[T] \in Node(h)
      BY <1>1, <1>2 DEF Node
    <2>3. \A j \in DOMAIN g \ {T} : h[j] \in Node(h)
      BY <1>1, <1>2 DEF Node
    <2> QED
      BY <1>2, <2>1, <2>2, <2>3
  <1>10. IsGraph(h)
    <2>1. \A j \in I : h[j].composite <=> Graph!Children(h, j) # {}
      BY <1>3, <1>8
    <2>2. h[T].composite <=> Graph!Children(h, T) # {}
      BY <1>4, <1>7
    <2>3. \A j \in DOMAIN g \ {T} : h[j].composite <=> Graph!Children(h, j) # {}
      BY <1>2, <1>6 DEF IsGraph
    <2> QED
      BY <1>2, <1>9, <2>1, <2>2, <2>3 DEF IsGraph
  <1> QED
    BY <1>2, <1>3, <1>4, <1>5, <1>6, <1>7, <1>10
       DEF ParallelEffect

\* Tasks in the place of an atomic one of the same phase keep the phases.
LEMMA ParallelSound ==
    ASSUME NEW g, Sound(g), NEW T \in DOMAIN g, ~g[T].composite,
           NEW I, I # {}, I \intersect DOMAIN g = {}, "none" \notin I,
           NEW t \in NewTask, t.phase = g[T].phase
    PROVE  Sound(Graph!AddParallel(g, T, I, t))
  <1> SUFFICES ASSUME NEW h, h = Graph!AddParallel(g, T, I, t) PROVE Sound(h)
    OBVIOUS
  <1>g. IsGraph(g) /\ \A j \in DOMAIN g : g[j] \in Node(g)
    BY DEF Sound, IsGraph
  <1>t. t.phase \in Nat /\ \A j \in DOMAIN g : g[j].phase \in Nat
                           /\ g[j].deps \subseteq DOMAIN g
    BY <1>g DEF NewTask, Node
  <1>e. ParallelEffect(g, T, I, t, h)
    BY <1>g, ParallelShape
  <1>h. /\ DOMAIN h = DOMAIN g \union I
        /\ \A j \in I : /\ h[j].deps = g[T].deps /\ h[j].phase = g[T].phase
                        /\ h[j].composite = FALSE
        /\ h[T].composite = TRUE
        /\ \A j \in DOMAIN g \ {T} : h[j].composite = g[j].composite
        /\ \A j \in DOMAIN g : h[j].phase = g[j].phase /\ h[j].deps = g[j].deps
        /\ \A j \in DOMAIN g \ {T} : Graph!Children(h, j) = Graph!Children(g, j)
        /\ Graph!Children(h, T) = Graph!Children(g, T) \union I
        /\ IsGraph(h)
    BY <1>e DEF ParallelEffect
  <1>1. Graph!InPhases(h)
    <2> SUFFICES ASSUME NEW S \in SUBSET DOMAIN h, Graph!Closed(h, S),
                        NEW i \in DOMAIN h, NEW j \in DOMAIN h,
                        h[i].deps \subseteq S,
                        ~h[j].composite, h[j].phase < h[i].phase
                 PROVE  j \in S
      BY DEF Graph!InPhases
    <2> DEFINE R == S \ I
    <2>1. R \subseteq DOMAIN g
      BY <1>h
    <2>2. \A k \in S : h[k].deps \subseteq S /\ Graph!Children(h, k) \subseteq S
      BY DEF Graph!Closed
    <2>3. \A k \in R : g[k].deps \subseteq R
      BY <1>h, <1>t, <2>1, <2>2
    <2>4. \A k \in R : Graph!Children(g, k) \subseteq R
      BY <1>h, <2>1, <2>2 DEF Graph!Children
    <2>5. Graph!Closed(g, R)
      BY <2>3, <2>4 DEF Graph!Closed
    <2>6. CASE i \in I
      <3>1. g[T].deps \subseteq R
        BY <2>6, <1>h, <1>t
      <3>2. j \in DOMAIN g /\ j # T /\ ~g[j].composite /\ g[j].phase < g[T].phase
        BY <2>6, <1>h, <1>t
      <3> QED
        BY <3>1, <3>2, <2>1, <2>5, InPhasesUse DEF Sound
    <2>7. CASE i \notin I
      <3>1. i \in DOMAIN g /\ g[i].deps \subseteq R
        BY <2>7, <1>h, <1>t
      <3>2. CASE j \notin I
        <4>1. j \in DOMAIN g /\ ~g[j].composite /\ g[j].phase < g[i].phase
          BY <3>1, <3>2, <1>h
        <4> QED
          BY <4>1, <3>1, <2>1, <2>5, InPhasesUse DEF Sound
      <3>3. CASE j \in I
        <4>1. g[T].phase < g[i].phase
          BY <3>1, <3>3, <1>h
        <4>2. T \in R
          BY <4>1, <3>1, <2>1, <2>5, InPhasesUse DEF Sound
        <4> QED
          BY <4>2, <3>3, <2>2, <1>h
      <3> QED
        BY <3>2, <3>3
    <2> QED
      BY <2>6, <2>7
  <1>2. ~Graph!HasCycle(h)
    <2> SUFFICES ASSUME NEW S \in SUBSET DOMAIN h, S # {},
                        \A i \in S : h[i].deps \intersect S # {}
                 PROVE  Graph!HasCycle(g)
      BY DEF Sound, Graph!HasCycle
    <2> DEFINE R == S \ I
    <2>1. R \subseteq DOMAIN g
      BY <1>h
    <2>2. \A i \in S \intersect I : g[T].deps \intersect R # {}
      BY <1>h, <1>t
    <2>3. R # {}
      BY <2>2
    <2>4. \A i \in R : g[i].deps \intersect R # {}
      BY <2>1, <1>h, <1>t
    <2> QED
      BY <2>1, <2>3, <2>4 DEF Graph!HasCycle
  <1> QED
    BY <1>1, <1>2, <1>h DEF Sound

-----------------------------------------------------------------------------
(* add_after.                                                              *)

\* What a task after T waits for.
LastOf(g, T) == IF g[T].composite THEN Graph!Children(g, T) ELSE {T}

AfterEffect(g, T, n, t, h) ==
    /\ DOMAIN h = DOMAIN g \union {n}
    /\ h[n].deps = LastOf(g, T) /\ h[n].phase = t.phase
    /\ h[n].parent = "none" /\ h[n].composite = FALSE
    /\ \A j \in DOMAIN g : T \notin g[j].deps => h[j].deps = g[j].deps
    /\ \A j \in DOMAIN g : T \in g[j].deps =>
                             h[j].deps = (g[j].deps \ {T}) \union {n}
    /\ \A j \in DOMAIN g : /\ h[j].phase = g[j].phase
                           /\ h[j].parent = g[j].parent
                           /\ h[j].composite = g[j].composite
    /\ \A j \in DOMAIN g : Graph!Children(h, j) = Graph!Children(g, j)
    /\ IsGraph(h)

LEMMA AfterShape ==
    ASSUME NEW g, IsGraph(g), NEW T \in DOMAIN g, NEW n, n \notin DOMAIN g,
           n # "none", NEW t \in NewTask,
           NEW h, h = Graph!AddAfter(g, T, n, t)
    PROVE  AfterEffect(g, T, n, t, h)
  <1>1. \A j \in DOMAIN g : g[j] \in Node(g)
    BY DEF IsGraph
  <1> DEFINE D(j) == IF T \in g[j].deps THEN (g[j].deps \ {T}) \union {n}
                     ELSE g[j].deps
  <1>2. /\ DOMAIN h = DOMAIN g \union {n}
        /\ h[n] = [t EXCEPT !.deps = LastOf(g, T)]
        /\ \A j \in DOMAIN g : h[j] = [g[j] EXCEPT !.deps = D(j)]
    BY DEF Graph!AddAfter, Graph!With, LastOf
  <1>3. /\ h[n].deps = LastOf(g, T) /\ h[n].phase = t.phase
        /\ h[n].parent = "none" /\ h[n].composite = FALSE
    BY <1>2 DEF NewTask
  <1>4. \A j \in DOMAIN g : /\ h[j].phase = g[j].phase
                            /\ h[j].parent = g[j].parent
                            /\ h[j].composite = g[j].composite
                            /\ h[j].deps = D(j)
    <2> HIDE DEF D
    <2> QED
      BY <1>1, <1>2 DEF Node
  <1>6. ASSUME NEW j \in DOMAIN g
        PROVE  Graph!Children(h, j) = Graph!Children(g, j)
    <2>1. j # "none"
      BY DEF IsGraph
    <2> HIDE DEF D
    <2> QED
      BY <2>1, <1>2, <1>3, <1>4 DEF Graph!Children
  <1>7. Graph!Children(h, n) = {}
    <2>1. \A j \in DOMAIN g : g[j].parent # n
      BY <1>1 DEF Node
    <2> QED
      BY <2>1, <1>2, <1>3, <1>4 DEF Graph!Children
  <1>8. \A j \in DOMAIN h : h[j] \in Node(h)
    <2>1. h[n] \in Node(h)
      <3>1. LastOf(g, T) \subseteq DOMAIN h
        BY <1>2 DEF LastOf, Graph!Children
      <3> QED
        BY <1>2, <3>1 DEF Node, NewTask
    <2>2. ASSUME NEW j \in DOMAIN g PROVE h[j] \in Node(h)
      <3>1. D(j) \subseteq DOMAIN h
        BY <1>1, <1>2 DEF Node
      <3> HIDE DEF D
      <3> QED
        BY <1>1, <1>2, <3>1 DEF Node
    <2> QED
      BY <1>2, <2>1, <2>2
  <1>9. IsGraph(h)
    BY <1>2, <1>3, <1>4, <1>6, <1>7, <1>8 DEF IsGraph
  <1> QED
    BY <1>2, <1>3, <1>4, <1>6, <1>9
       DEF AfterEffect

\* A task after another one of its phase, or after its children, keeps the
\* phases if nobody waits for a child and the children wait for what their
\* parent waits for.
LEMMA AfterSound ==
    ASSUME NEW g, Sound(g), NEW T \in DOMAIN g,
           NEW n, n \notin DOMAIN g, n # "none", NEW t \in NewTask,
           \A j \in DOMAIN g : T \notin Graph!Children(g, j),
           \A c \in LastOf(g, T) : g[c].phase = t.phase /\ ~g[c].composite,
           \A c \in Graph!Children(g, T) :
                /\ g[c].deps = g[T].deps
                /\ \A j \in DOMAIN g : c \notin g[j].deps
    PROVE  Sound(Graph!AddAfter(g, T, n, t))
  <1> SUFFICES ASSUME NEW h, h = Graph!AddAfter(g, T, n, t) PROVE Sound(h)
    OBVIOUS
  <1> DEFINE L == LastOf(g, T)
  <1>g. IsGraph(g) /\ \A j \in DOMAIN g : g[j] \in Node(g)
    BY DEF Sound, IsGraph
  <1>t. t.phase \in Nat /\ \A j \in DOMAIN g : g[j].phase \in Nat
                           /\ g[j].deps \subseteq DOMAIN g
    BY <1>g DEF NewTask, Node
  <1>e. AfterEffect(g, T, n, t, h)
    BY <1>g, AfterShape
  <1>h. /\ DOMAIN h = DOMAIN g \union {n}
        /\ h[n].deps = L /\ h[n].phase = t.phase
        /\ h[n].composite = FALSE
        /\ \A j \in DOMAIN g : T \notin g[j].deps => h[j].deps = g[j].deps
        /\ \A j \in DOMAIN g : T \in g[j].deps =>
                                 h[j].deps = (g[j].deps \ {T}) \union {n}
        /\ \A j \in DOMAIN g : /\ h[j].phase = g[j].phase
                               /\ h[j].composite = g[j].composite
        /\ \A j \in DOMAIN g : Graph!Children(h, j) = Graph!Children(g, j)
        /\ IsGraph(h)
    BY <1>e DEF AfterEffect
  <1>l. /\ L # {} /\ L \subseteq DOMAIN g
        /\ \A c \in L : c = T \/ c \in Graph!Children(g, T)
        /\ \A c \in L : /\ g[c].deps = g[T].deps
                        /\ g[c].phase = t.phase /\ ~g[c].composite
    BY <1>g DEF LastOf, IsGraph, Graph!Children
  <1>c. \/ T \in L /\ Graph!Children(g, T) = {}
        \/ g[T].composite /\ L = Graph!Children(g, T)
    BY <1>g DEF LastOf, IsGraph
  <1>k. \A k \in DOMAIN g : Graph!Children(g, k) \subseteq DOMAIN g
    BY DEF Graph!Children
  <1> HIDE DEF L
  <1>1. Graph!InPhases(h)
    <2> SUFFICES ASSUME NEW S \in SUBSET DOMAIN h, Graph!Closed(h, S),
                        NEW i \in DOMAIN h, NEW j \in DOMAIN h,
                        h[i].deps \subseteq S,
                        ~h[j].composite, h[j].phase < h[i].phase
                 PROVE  j \in S
      BY DEF Graph!InPhases
    <2> DEFINE R == (S \ {n}) \union (IF n \in S THEN {T} ELSE {})
    <2>1. R \subseteq DOMAIN g
      BY <1>h
    <2>2. \A k \in S : h[k].deps \subseteq S /\ Graph!Children(h, k) \subseteq S
      BY DEF Graph!Closed
    \* In S or not, what waits for T in the old graph has n in the new one.
    <2>3. \A k \in DOMAIN g : h[k].deps \subseteq S => g[k].deps \subseteq R
      BY <1>h, <1>t
    <2>4. n \in S => L \subseteq S
      BY <2>2, <1>h
    <2>5. L \subseteq S => g[T].deps \subseteq R
      BY <1>l, <2>2, <2>3
    <2>6. \A k \in R : g[k].deps \subseteq R
      BY <2>1, <2>2, <2>3, <2>4, <2>5
    <2>7. \A k \in R : Graph!Children(g, k) \subseteq R
      <3>1. ASSUME NEW k \in R, k \in S
            PROVE  Graph!Children(g, k) \subseteq R
        BY <3>1, <1>h, <1>k, <2>1, <2>2
      <3>2. n \in S => Graph!Children(g, T) \subseteq R
        BY <1>c, <1>k, <2>4
      <3> QED
        BY <3>1, <3>2
    <2>8. Graph!Closed(g, R)
      BY <2>6, <2>7 DEF Graph!Closed
    <2>9. CASE i = n
      <3>1. PICK c \in L : TRUE
        BY <1>l
      <3>2. c \in DOMAIN g /\ c \in S /\ g[c].phase = t.phase
        BY <3>1, <2>9, <1>h, <1>l
      <3>3. g[c].deps \subseteq R
        BY <3>2, <2>2, <2>3
      <3>4. j \in DOMAIN g /\ ~g[j].composite /\ g[j].phase < g[c].phase
        BY <3>2, <2>9, <1>h, <1>t
      <3>5. j \in R
        BY <3>2, <3>3, <3>4, <2>1, <2>8, InPhasesUse DEF Sound
      <3>6. j # T
        BY <3>2, <3>4, <1>c, <1>l, <1>t
      <3> QED
        BY <3>5, <3>6
    <2>10. CASE i # n
      <3>1. i \in DOMAIN g /\ g[i].deps \subseteq R
        BY <2>10, <2>3, <1>h
      <3>2. CASE j # n
        <4>1. j \in DOMAIN g /\ ~g[j].composite /\ g[j].phase < g[i].phase
          BY <3>1, <3>2, <1>h
        <4>2. j \in R
          BY <4>1, <3>1, <2>1, <2>8, InPhasesUse DEF Sound
        <4>3. CASE j = T
          <5>1. T \in L
            BY <4>1, <4>3, <1>c
          <5> QED
            BY <4>2, <4>3, <5>1, <2>4
        <4> QED
          BY <4>2, <4>3
      <3>3. CASE j = n
        <4> SUFFICES ASSUME n \notin S PROVE FALSE
          BY <3>3
        <4> DEFINE Q == S \ ({T} \union L)
        <4>1. Q \subseteq DOMAIN g /\ S \subseteq DOMAIN g
          BY <1>h
        <4>2. \A k \in DOMAIN g : h[k].deps \subseteq S => T \notin g[k].deps
          BY <1>h
        <4>3. \A k \in DOMAIN g : h[k].deps \subseteq S => g[k].deps \subseteq Q
          <5>1. ASSUME NEW k \in DOMAIN g, h[k].deps \subseteq S
                PROVE  g[k].deps \intersect L = {}
            BY <5>1, <4>2, <1>l
          <5> QED
            BY <5>1, <4>2, <1>h
        <4>4. \A k \in Q : Graph!Children(g, k) \subseteq Q
          <5>1. \A k \in Q : Graph!Children(g, k) \subseteq S
            BY <4>1, <2>2, <1>h
          <5>2. \A k \in Q : T \notin Graph!Children(g, k)
            BY <4>1
          <5>3. \A k \in Q : Graph!Children(g, k) \intersect Graph!Children(g, T) = {}
            BY <4>1 DEF Graph!Children
          <5> QED
            BY <5>1, <5>2, <5>3, <1>l
        <4>5. Graph!Closed(g, Q)
          BY <4>1, <4>3, <4>4, <2>2 DEF Graph!Closed
        <4>6. g[i].deps \subseteq Q
          BY <3>1, <4>3
        <4>7. PICK c \in L : TRUE
          BY <1>l
        <4>8. c \in DOMAIN g /\ ~g[c].composite /\ g[c].phase < g[i].phase
          BY <4>7, <3>1, <3>3, <1>h, <1>l
        <4>9. c \in Q
          BY <4>1, <4>5, <4>6, <4>8, <3>1, InPhasesUse DEF Sound
        <4> QED
          BY <4>7, <4>9
      <3> QED
        BY <3>2, <3>3
    <2> QED
      BY <2>9, <2>10
  <1>2. ~Graph!HasCycle(h)
    <2> SUFFICES ASSUME NEW S \in SUBSET DOMAIN h, S # {},
                        \A i \in S : h[i].deps \intersect S # {}
                 PROVE  Graph!HasCycle(g)
      BY DEF Sound, Graph!HasCycle
    <2> DEFINE R == (S \ {n}) \union (IF n \in S THEN {T} ELSE {})
    <2>1. R \subseteq DOMAIN g
      BY <1>h
    <2>2. R # {}
      OBVIOUS
    <2>3. ASSUME NEW i \in S \ {n} PROVE g[i].deps \intersect R # {}
      <3>1. PICK d \in h[i].deps : d \in S
        OBVIOUS
      <3>2. CASE d = n
        BY <3>1, <3>2, <1>h, <1>t
      <3>3. CASE d # n
        BY <3>1, <3>3, <1>h
      <3> QED
        BY <3>2, <3>3
    <2>4. n \in S => g[T].deps \intersect R # {}
      <3> SUFFICES ASSUME n \in S PROVE g[T].deps \intersect R # {}
        OBVIOUS
      <3>1. PICK c \in L : c \in S
        BY <1>h
      <3> QED
        BY <3>1, <2>3, <1>h, <1>l
    <2>5. \A i \in R : g[i].deps \intersect R # {}
      BY <2>3, <2>4
    <2> HIDE DEF R
    <2> QED
      BY <2>1, <2>2, <2>5 DEF Graph!HasCycle
  <1> QED
    BY <1>1, <1>2, <1>h DEF Sound

-----------------------------------------------------------------------------
(* The graph of a run.                                                     *)

Core  == {"PARSE", "DESIGN", "IMPL", "VALIDATE"}
Split == {"IMPL.BACKEND", "IMPL.FRONTEND"}

Atomic(g) == {i \in DOMAIN g : ~g[i].composite}

\* What a rule that has not been looked at counts on.
ReadyForSplit(g) ==
    /\ Atomic(g) = DOMAIN g
    /\ g["IMPL"].phase = 3 /\ g["IMPL"].parent = "none"
    /\ (Split \union {"IMPL.PERF"}) \intersect DOMAIN g = {}

ReadyForPerformance(g) ==
    /\ g["IMPL"].parent = "none" /\ "IMPL.PERF" \notin DOMAIN g
    /\ "product" \notin brief => Atomic(g) = DOMAIN g
    /\ \A c \in LastOf(g, "IMPL") : g[c].phase = 3 /\ ~g[c].composite
    /\ \A c \in Graph!Children(g, "IMPL") :
          /\ g[c].deps = g["IMPL"].deps
          /\ \A j \in DOMAIN g : c \notin g[j].deps

LeafDeps(g) ==
    ("product" \in brief => "performance" \in brief) =>
        \A i \in Atomic(g) : g[i].deps \subseteq Atomic(g)

RulesInv ==
    \/ rules = <<"database", "product", "performance">> /\ graph = Graph!Skeleton
    \/ rules = <<"product", "performance">> /\ ReadyForSplit(graph)
    \/ rules = <<"performance">> /\ ReadyForPerformance(graph)
    \/ rules = <<>> /\ LeafDeps(graph)

\* Once there are rows: what has got READY had all it waits for.
RowsInv ==
    /\ DOMAIN row = Atomic(graph)
    /\ \A i \in DOMAIN row :
          row[i] \in {"READY", "RUNNING", "SUCCESS"} => Graph!Resolvable(i)

\* A graph that anybody may have edited still consists of tasks.
LooseNode(D, P) ==
    [phase : Nat, deps : SUBSET D, parent : P, composite : BOOLEAN]

LooseIn(g, D, P) ==
    Graph!TaskIds \subseteq D /\ \A i \in DOMAIN g : g[i] \in LooseNode(D, P)

Loose(g) == \E D, P : LooseIn(g, D, P)

Typed(i, j) == <<"dep_add", i, j>>

\* What is left of Sound and LeafDeps when somebody has edited the graph.
EditedInv ==
    /\ Loose(graph)
    /\ OrderKept => Graph!InPhases(graph)
    /\ \A i \in DOMAIN graph :
          ~graph[i].composite => Graph!Children(graph, i) = {}
    /\ ("product" \in brief => "performance" \in brief) =>
          \A i \in Atomic(graph) : \A j \in graph[i].deps \ Atomic(graph) :
              Typed(i, j) \in edits
    /\ checked => \A i \in DOMAIN graph : graph[i].deps \subseteq DOMAIN graph

GeneratedInv ==
    /\ Sound(graph) /\ Core \subseteq DOMAIN graph
    /\ \A i \in DOMAIN graph : graph[i].composite => i = "IMPL"
    /\ edits = {}
    /\ IF stage = "rules" THEN RulesInv ELSE LeafDeps(graph)

GraphInv ==
    /\ \/ stage \in {"rules", "enrich", "validate"} /\ GeneratedInv
       \/ stage \in {"gate2", "rejected", "execution"} /\ EditedInv
    /\ IF stage = "execution" THEN RowsInv ELSE row = <<>> /\ checked = FALSE

LEMMA NoRows == DOMAIN <<>> = {}
  OBVIOUS

\* What the skeleton is, without its records.
SkeletonEffect(s) ==
    /\ DOMAIN s = Core
    /\ s["PARSE"].phase = 1 /\ s["PARSE"].deps = {}
    /\ s["DESIGN"].phase = 2 /\ s["DESIGN"].deps = {"PARSE"}
    /\ s["IMPL"].phase = 3 /\ s["IMPL"].deps = {"DESIGN"}
    /\ s["VALIDATE"].phase = 4 /\ s["VALIDATE"].deps = {"IMPL"}
    /\ \A i \in Core : /\ s[i] \in Node(s)
                       /\ s[i].parent = "none" /\ s[i].composite = FALSE

IsTask(s, i, p, d) ==
    /\ s[i].phase = p /\ s[i].deps = d
    /\ s[i].parent = "none" /\ s[i].composite = FALSE
    /\ s[i] \in Node(s)

LEMMA TaskFields ==
    ASSUME NEW s, NEW i, NEW p \in Nat,
           NEW d \in SUBSET DOMAIN s, s[i] = Graph!Task(p, d)
    PROVE  IsTask(s, i, p, d)
  BY DEF Graph!Task, IsTask, Node

LEMMA SkeletonShape ==
    ASSUME NEW s, s = Graph!Skeleton
    PROVE  SkeletonEffect(s)
  <1>1. DOMAIN s = Core
    BY DEF Graph!Skeleton, Core
  <1>2. /\ s["PARSE"] = Graph!Task(1, {})
        /\ s["DESIGN"] = Graph!Task(2, {"PARSE"})
        /\ s["IMPL"] = Graph!Task(3, {"DESIGN"})
        /\ s["VALIDATE"] = Graph!Task(4, {"IMPL"})
    BY DEF Graph!Skeleton
  <1>c. {} \in SUBSET Core /\ {"PARSE"} \in SUBSET Core
        /\ {"DESIGN"} \in SUBSET Core /\ {"IMPL"} \in SUBSET Core
    BY DEF Core
  <1>3. IsTask(s, "PARSE", 1, {})
    BY <1>1, <1>2, <1>c, TaskFields
  <1>4. IsTask(s, "DESIGN", 2, {"PARSE"})
    BY <1>1, <1>2, <1>c, TaskFields
  <1>5. IsTask(s, "IMPL", 3, {"DESIGN"})
    BY <1>1, <1>2, <1>c, TaskFields
  <1>6. IsTask(s, "VALIDATE", 4, {"IMPL"})
    BY <1>1, <1>2, <1>c, TaskFields
  <1>7. \A i \in Core : i = "PARSE" \/ i = "DESIGN" \/ i = "IMPL" \/ i = "VALIDATE"
    BY DEF Core
  <1> QED
    BY <1>1, <1>3, <1>4, <1>5, <1>6, <1>7 DEF SkeletonEffect, IsTask

LEMMA SkeletonSound == Sound(Graph!Skeleton)
  <1> SUFFICES ASSUME NEW s, s = Graph!Skeleton PROVE Sound(s)
    OBVIOUS
  <1>1. /\ DOMAIN s = Core
        /\ s["PARSE"].phase = 1 /\ s["PARSE"].deps = {}
        /\ s["DESIGN"].phase = 2 /\ s["DESIGN"].deps = {"PARSE"}
        /\ s["IMPL"].phase = 3 /\ s["IMPL"].deps = {"DESIGN"}
        /\ s["VALIDATE"].phase = 4 /\ s["VALIDATE"].deps = {"IMPL"}
        /\ \A i \in Core : /\ s[i] \in Node(s)
                           /\ s[i].parent = "none" /\ s[i].composite = FALSE
    BY SkeletonShape DEF SkeletonEffect
  <1>2. IsGraph(s)
    <2>1. \A i \in Core : Graph!Children(s, i) = {}
      BY <1>1 DEF Graph!Children, Core
    <2> QED
      BY <1>1, <2>1 DEF IsGraph, Core
  <1>3. Graph!InPhases(s)
    <2> SUFFICES ASSUME NEW S \in SUBSET DOMAIN s, Graph!Closed(s, S),
                        NEW i \in DOMAIN s, NEW j \in DOMAIN s,
                        s[i].deps \subseteq S,
                        ~s[j].composite, s[j].phase < s[i].phase
                 PROVE  j \in S
      BY DEF Graph!InPhases
    <2>1. \A k \in S : s[k].deps \subseteq S
      BY DEF Graph!Closed
    <2>2. /\ "IMPL" \in S => "DESIGN" \in S
          /\ "DESIGN" \in S => "PARSE" \in S
      BY <1>1, <2>1
    <2> QED
      BY <1>1, <2>2 DEF Core
  <1>4. ~Graph!HasCycle(s)
    <2> SUFFICES ASSUME NEW S \in SUBSET DOMAIN s, S # {},
                        \A i \in S : s[i].deps \intersect S # {}
                 PROVE  FALSE
      BY DEF Graph!HasCycle
    <2>1. "PARSE" \notin S
      BY <1>1
    <2>2. "DESIGN" \notin S
      BY <1>1, <2>1
    <2>3. "IMPL" \notin S
      BY <1>1, <2>2
    <2> QED
      BY <1>1, <2>1, <2>2, <2>3 DEF Core
  <1> QED
    BY <1>2, <1>3, <1>4 DEF Sound

LEMMA RuleTasks ==
    ASSUME NEW p \in Nat
    PROVE  Graph!Task(p, {}) \in NewTask /\ Graph!Task(p, {}).phase = p
  BY DEF Graph!Task, NewTask

LEMMA InitGraph == Graph!Init => GraphInv
  <1> SUFFICES ASSUME Graph!Init PROVE GraphInv
    OBVIOUS
  <1>1. /\ graph = Graph!Skeleton /\ stage = "rules" /\ row = <<>>
        /\ edits = {} /\ checked = FALSE
        /\ rules = <<"database", "product", "performance">>
    BY DEF Graph!Init
  <1>2. DOMAIN graph = Core /\ \A i \in Core : ~graph[i].composite
    BY <1>1, SkeletonShape DEF SkeletonEffect
  <1> QED
    BY <1>1, <1>2, SkeletonSound DEF GraphInv, GeneratedInv, RulesInv

-----------------------------------------------------------------------------
(* The rules, one by one.                                                  *)

LEMMA DatabaseRule ==
    ASSUME NEW h, h = Graph!Applied("database", Graph!Skeleton)
    PROVE  Sound(h) /\ Core \subseteq DOMAIN h /\ ReadyForSplit(h)
  <1>t. PICK t : t = Graph!Task(2, {})
    OBVIOUS
  <1>g. PICK g : g = Graph!Skeleton
    OBVIOUS
  <1>1. h = Graph!AddBefore(g, "IMPL", "DESIGN.SCHEMA", t)
    BY <1>t, <1>g DEF Graph!Applied
  <1>2. t \in NewTask /\ t.phase = 2
    BY <1>t, RuleTasks
  <1>3. SkeletonEffect(g) /\ Sound(g) /\ IsGraph(g)
    BY <1>g, SkeletonShape, SkeletonSound DEF Sound
  <1>4. /\ DOMAIN g = Core
        /\ g["PARSE"].phase = 1 /\ g["DESIGN"].phase = 2
        /\ g["IMPL"].phase = 3 /\ g["VALIDATE"].phase = 4
        /\ \A i \in Core : g[i].parent = "none" /\ g[i].composite = FALSE
    BY <1>3 DEF SkeletonEffect
  <1>5. \A j \in DOMAIN g : t.phase < g[j].phase =>
                                j = "IMPL" \/ g["IMPL"].phase < g[j].phase
    <2> SUFFICES ASSUME NEW j \in Core, 2 < g[j].phase
                 PROVE  j = "IMPL" \/ 3 < g[j].phase
      BY <1>2, <1>4
    <2>1. j = "PARSE" \/ j = "DESIGN" \/ j = "IMPL" \/ j = "VALIDATE"
      BY DEF Core
    <2> QED
      BY <1>4, <2>1
  <1>6. /\ "IMPL" \in DOMAIN g /\ "DESIGN.SCHEMA" \notin DOMAIN g
        /\ ~g["IMPL"].composite /\ t.phase <= g["IMPL"].phase
    <2>1. "IMPL" \in Core /\ "DESIGN.SCHEMA" \notin Core
      BY DEF Core
    <2> QED
      BY <1>2, <1>4, <2>1
  <1>7. Sound(h)
    BY <1>1, <1>2, <1>3, <1>5, <1>6, BeforeSound
  <1>8. BeforeEffect(g, "IMPL", "DESIGN.SCHEMA", t, h)
    BY <1>1, <1>2, <1>3, <1>6, BeforeShape
  <1>9. /\ DOMAIN h = Core \union {"DESIGN.SCHEMA"}
        /\ \A i \in DOMAIN h : h[i].composite = FALSE
        /\ h["IMPL"].phase = 3 /\ h["IMPL"].parent = "none"
    BY <1>4, <1>6, <1>8 DEF BeforeEffect
  <1>10. (Split \union {"IMPL.PERF"}) \intersect DOMAIN h = {}
    BY <1>9 DEF Core, Split
  <1> QED
    BY <1>7, <1>9, <1>10 DEF ReadyForSplit, Atomic

LEMMA SkeletonReady == ReadyForSplit(Graph!Skeleton)
  <1> SUFFICES ASSUME NEW g, g = Graph!Skeleton PROVE ReadyForSplit(g)
    OBVIOUS
  <1> QED
    BY SkeletonShape DEF SkeletonEffect, ReadyForSplit, Atomic, Core, Split

LEMMA ProductRule ==
    ASSUME NEW g, Sound(g), Core \subseteq DOMAIN g, ReadyForSplit(g),
           "product" \in brief, NEW h, h = Graph!Applied("product", g)
    PROVE  /\ Sound(h) /\ Core \subseteq DOMAIN h /\ ReadyForPerformance(h)
           /\ \A i \in DOMAIN h : h[i].composite => i = "IMPL"
  <1>t. PICK t : t = Graph!Task(3, {})
    OBVIOUS
  <1>1. h = Graph!AddParallel(g, "IMPL", Split, t)
    BY <1>t DEF Graph!Applied, Split
  <1>2. t \in NewTask /\ t.phase = 3
    BY <1>t, RuleTasks
  <1>3. /\ "IMPL" \in DOMAIN g /\ ~g["IMPL"].composite
        /\ g["IMPL"].phase = 3 /\ g["IMPL"].parent = "none"
        /\ Split # {} /\ Split \intersect DOMAIN g = {} /\ "none" \notin Split
        /\ \A i \in DOMAIN g : ~g[i].composite
        /\ "IMPL.PERF" \notin DOMAIN g /\ "IMPL.PERF" \notin Split
    BY DEF ReadyForSplit, Atomic, Core, Split
  <1>4. IsGraph(g)
    BY DEF Sound
  <1>5. Sound(h)
    BY <1>1, <1>2, <1>3, ParallelSound
  <1>6. ParallelEffect(g, "IMPL", Split, t, h)
    BY <1>1, <1>2, <1>3, <1>4, ParallelShape
  <1>7. Graph!Children(g, "IMPL") = {}
    BY <1>3, <1>4 DEF IsGraph
  <1>8. \A j \in DOMAIN g : g[j].deps \subseteq DOMAIN g
    BY <1>4 DEF IsGraph, Node
  <1>9. LastOf(h, "IMPL") = Split /\ Graph!Children(h, "IMPL") = Split
    BY <1>6, <1>7 DEF ParallelEffect, LastOf
  <1>10. \A c \in Split : \A j \in DOMAIN h : c \notin h[j].deps
    BY <1>3, <1>6, <1>8 DEF ParallelEffect
  <1>11. \A c \in Split : /\ h[c].phase = 3 /\ ~h[c].composite
                          /\ h[c].deps = h["IMPL"].deps
    <2>1. h["IMPL"].deps = g["IMPL"].deps
      BY <1>3, <1>6 DEF ParallelEffect
    <2>2. \A c \in Split : /\ h[c].phase = t.phase /\ h[c].composite = FALSE
                           /\ h[c].deps = g["IMPL"].deps
      BY <1>6 DEF ParallelEffect
    <2>3. t.phase = 3
      BY <1>2
    <2> QED
      BY <2>1, <2>2, <2>3
  <1>12. \A i \in DOMAIN h : h[i].composite => i = "IMPL"
    BY <1>3, <1>6 DEF ParallelEffect
  <1>13. /\ h["IMPL"].parent = "none" /\ "IMPL.PERF" \notin DOMAIN h
         /\ Core \subseteq DOMAIN h
    BY <1>3, <1>6 DEF ParallelEffect
  <1> QED
    BY <1>5, <1>9, <1>10, <1>11, <1>12, <1>13 DEF ReadyForPerformance

LEMMA NotProduct ==
    ASSUME NEW g, Sound(g), Core \subseteq DOMAIN g, ReadyForSplit(g)
    PROVE  ReadyForPerformance(g)
  <1>1. Graph!Children(g, "IMPL") = {}
    BY DEF Sound, IsGraph, ReadyForSplit, Atomic, Core
  <1> QED
    BY <1>1 DEF ReadyForSplit, ReadyForPerformance, LastOf, Atomic, Core

LEMMA PerformanceRule ==
    ASSUME NEW g, Sound(g), Core \subseteq DOMAIN g, ReadyForPerformance(g),
           \A i \in DOMAIN g : g[i].composite => i = "IMPL",
           NEW h, h = Graph!Applied("performance", g)
    PROVE  /\ Sound(h) /\ Core \subseteq DOMAIN h /\ LeafDeps(h)
           /\ \A i \in DOMAIN h : h[i].composite => i = "IMPL"
  <1>t. PICK t : t = Graph!Task(3, {})
    OBVIOUS
  <1>1. h = Graph!AddAfter(g, "IMPL", "IMPL.PERF", t)
    BY <1>t DEF Graph!Applied
  <1>2. t \in NewTask /\ t.phase = 3
    BY <1>t, RuleTasks
  <1>3. /\ "IMPL" \in DOMAIN g /\ "IMPL.PERF" \notin DOMAIN g
        /\ g["IMPL"].parent = "none"
    BY DEF ReadyForPerformance, Core
  <1>4. IsGraph(g)
    BY DEF Sound
  <1>5. \A j \in DOMAIN g : "IMPL" \notin Graph!Children(g, j)
    BY <1>3, <1>4 DEF IsGraph, Graph!Children
  <1>6. Sound(h)
    <2>1. \A c \in LastOf(g, "IMPL") : g[c].phase = t.phase /\ ~g[c].composite
      BY <1>2 DEF ReadyForPerformance
    <2>2. \A c \in Graph!Children(g, "IMPL") :
             /\ g[c].deps = g["IMPL"].deps
             /\ \A j \in DOMAIN g : c \notin g[j].deps
      BY DEF ReadyForPerformance
    <2>3. "IMPL.PERF" # "none"
      OBVIOUS
    <2> QED
      BY <1>1, <1>2, <1>3, <1>5, <2>1, <2>2, <2>3, AfterSound
  <1>7. AfterEffect(g, "IMPL", "IMPL.PERF", t, h)
    BY <1>1, <1>2, <1>3, <1>4, AfterShape
  <1>8. \A i \in DOMAIN h : h[i].composite => i = "IMPL"
    BY <1>7 DEF AfterEffect
  <1>9. \A j \in DOMAIN g : g[j].deps \subseteq DOMAIN g
    BY <1>4 DEF IsGraph, Node
  <1>10. ASSUME NEW i \in Atomic(h)
         PROVE  h[i].deps \subseteq Atomic(h)
    <2>1. CASE i = "IMPL.PERF"
      <3>1. LastOf(g, "IMPL") \subseteq DOMAIN g
        BY <1>3 DEF LastOf, Graph!Children
      <3> QED
        BY <2>1, <3>1, <1>7 DEF AfterEffect, Atomic, ReadyForPerformance
    <2>2. CASE i # "IMPL.PERF"
      <3>1. i \in DOMAIN g
        BY <2>2, <1>7 DEF AfterEffect, Atomic
      <3>2. h[i].deps \subseteq (DOMAIN g \ {"IMPL"}) \union {"IMPL.PERF"}
        BY <3>1, <1>7, <1>9 DEF AfterEffect
      <3>3. (DOMAIN g \ {"IMPL"}) \union {"IMPL.PERF"} \subseteq Atomic(h)
        BY <1>7, <1>8 DEF AfterEffect, Atomic
      <3> QED
        BY <3>2, <3>3
    <2> QED
      BY <2>1, <2>2
  <1>11. Core \subseteq DOMAIN h
    BY <1>7 DEF AfterEffect
  <1> QED
    BY <1>6, <1>8, <1>10, <1>11 DEF LeafDeps

LEMMA NotPerformance ==
    ASSUME NEW g, Sound(g), ReadyForPerformance(g), "performance" \notin brief
    PROVE  LeafDeps(g)
  <1>1. \A j \in DOMAIN g : g[j].deps \subseteq DOMAIN g
    BY DEF Sound, IsGraph, Node
  <1> QED
    BY <1>1 DEF LeafDeps, ReadyForPerformance, Atomic

-----------------------------------------------------------------------------
(* Steps.                                                                  *)

LEMMA SameBrief ==
    ASSUME brief' = brief
    PROVE  /\ ReadyForPerformance(graph)' <=> ReadyForPerformance(graph')
           /\ LeafDeps(graph)' <=> LeafDeps(graph')
  BY DEF ReadyForPerformance, LeafDeps, Atomic, LastOf, Graph!Children

LEMMA ApplyRuleStep == GraphInv /\ Graph!ApplyRule => GraphInv'
  <1> SUFFICES ASSUME GraphInv, Graph!ApplyRule PROVE GraphInv'
    OBVIOUS
  <1>1. /\ stage = "rules" /\ rules # <<>> /\ rules' = Tail(rules)
        /\ brief' = brief /\ stage' = stage /\ row' = row
        /\ edits' = edits /\ checked' = checked
        /\ graph' = IF Head(rules) \in brief
                    THEN Graph!Applied(Head(rules), graph) ELSE graph
    BY DEF Graph!ApplyRule
  <1>2. /\ Sound(graph) /\ Core \subseteq DOMAIN graph /\ RulesInv
        /\ \A i \in DOMAIN graph : graph[i].composite => i = "IMPL"
        /\ row' = <<>> /\ edits' = {} /\ checked' = FALSE
    BY <1>1 DEF GraphInv, GeneratedInv
  <1> SUFFICES /\ Sound(graph') /\ Core \subseteq DOMAIN graph'
               /\ \A i \in DOMAIN graph' : graph'[i].composite => i = "IMPL"
               /\ \/ /\ rules' = <<"product", "performance">>
                     /\ ReadyForSplit(graph')
                  \/ rules' = <<"performance">> /\ ReadyForPerformance(graph')
                  \/ rules' = <<>> /\ LeafDeps(graph')
    BY <1>1, <1>2, SameBrief DEF GraphInv, GeneratedInv, RulesInv, Sound,
       IsGraph, Node, Graph!Children, Graph!InPhases, Graph!Closed,
       Graph!HasCycle, ReadyForSplit, Atomic
  <1>3. CASE rules = <<"database", "product", "performance">>
             /\ graph = Graph!Skeleton
    <2>1. rules' = <<"product", "performance">> /\ Head(rules) = "database"
      BY <1>1, <1>3
    <2>2. Sound(graph') /\ Core \subseteq DOMAIN graph' /\ ReadyForSplit(graph')
      BY <1>1, <1>2, <1>3, <2>1, DatabaseRule, SkeletonReady
    <2> QED
      BY <2>1, <2>2 DEF ReadyForSplit, Atomic
  <1>4. CASE rules = <<"product", "performance">> /\ ReadyForSplit(graph)
    <2>1. rules' = <<"performance">> /\ Head(rules) = "product"
      BY <1>1, <1>4
    <2>2. CASE "product" \in brief
      BY <1>1, <1>2, <1>4, <2>1, <2>2, ProductRule
    <2>3. CASE "product" \notin brief
      BY <1>1, <1>2, <1>4, <2>1, <2>3, NotProduct
    <2> QED
      BY <2>2, <2>3
  <1>5. CASE rules = <<"performance">> /\ ReadyForPerformance(graph)
    <2>1. rules' = <<>> /\ Head(rules) = "performance"
      BY <1>1, <1>5
    <2>2. CASE "performance" \in brief
      BY <1>1, <1>2, <1>5, <2>1, <2>2, PerformanceRule
    <2>3. CASE "performance" \notin brief
      BY <1>1, <1>2, <1>5, <2>1, <2>3, NotPerformance
    <2> QED
      BY <2>2, <2>3
  <1> QED
    BY <1>1, <1>2, <1>3, <1>4, <1>5 DEF RulesInv

\* What a graph that passed the rules is when a person gets to see it.
LEMMA GeneratedIsEdited ==
    ASSUME GeneratedInv, stage # "rules", checked = FALSE
    PROVE  EditedInv /\ Graph!IsValid(graph)
  <1>1. /\ Sound(graph) /\ Core \subseteq DOMAIN graph /\ LeafDeps(graph)
        /\ IsGraph(graph)
    BY DEF GeneratedInv, Sound
  <1>2. Loose(graph)
    <2> DEFINE D == DOMAIN graph \union Graph!TaskIds
               P == DOMAIN graph \union {"none"}
    <2>1. LooseIn(graph, D, P)
      BY <1>1 DEF IsGraph, Node, LooseIn, LooseNode
    <2> QED
      BY <2>1 DEF Loose
  <1>3. Graph!IsValid(graph)
    BY <1>1 DEF Sound, IsGraph, Node, Core, Graph!IsValid
  <1> QED
    BY <1>1, <1>2, <1>3 DEF EditedInv, Sound, IsGraph, LeafDeps

\* The steps from the rules to Gate 2, and a rejection.
LEMMA StageStep ==
    GraphInv /\ (Graph!BeginEnrichment \/ Graph!Enrich \/ Graph!EndEnrichment
                    \/ Graph!Validate \/ Graph!Reject)
        => GraphInv'
  <1> SUFFICES ASSUME GraphInv,
                      Graph!BeginEnrichment \/ Graph!Enrich
                        \/ Graph!EndEnrichment \/ Graph!Validate \/ Graph!Reject
               PROVE  GraphInv'
    OBVIOUS
  <1>1. /\ row' = row /\ brief' = brief /\ edits' = edits /\ checked' = checked
        /\ row = <<>> /\ checked = FALSE
    BY DEF GraphInv, Graph!BeginEnrichment, Graph!Enrich, Graph!EndEnrichment,
           Graph!Validate, Graph!Reject
  <1>2. CASE Graph!Reject
    <2>1. EditedInv /\ graph' = graph /\ stage' = "rejected"
      BY <1>2 DEF GraphInv, Graph!Reject
    <2>2. EditedInv'
      BY <2>1, <1>1 DEF EditedInv, Loose, LooseIn, Typed, OrderKept, Atomic, Graph!InPhases,
                        Graph!Closed, Graph!Children
    <2> QED
      BY <1>1, <2>1, <2>2 DEF GraphInv
  <1>3. CASE Graph!Validate
    <2>1. /\ GeneratedInv /\ graph' = graph /\ stage = "validate"
          /\ stage' = IF Graph!IsValid(graph) THEN "gate2" ELSE "failed"
      BY <1>3 DEF GraphInv, Graph!Validate
    <2>2. EditedInv /\ stage' = "gate2"
      BY <2>1, <1>1, GeneratedIsEdited
    <2>3. EditedInv'
      BY <2>1, <2>2, <1>1 DEF EditedInv, Loose, LooseIn, Typed, OrderKept, Atomic,
         Graph!InPhases, Graph!Closed, Graph!Children
    <2> QED
      BY <1>1, <2>2, <2>3 DEF GraphInv
  <1>4. CASE Graph!BeginEnrichment \/ Graph!Enrich \/ Graph!EndEnrichment
    <2>1. /\ GeneratedInv /\ LeafDeps(graph)
          /\ stage' \in {"enrich", "validate"}
      BY <1>4 DEF GraphInv, GeneratedInv, RulesInv, Graph!BeginEnrichment,
                  Graph!Enrich, Graph!EndEnrichment
    <2>2. /\ DOMAIN graph' = DOMAIN graph
          /\ \A i \in DOMAIN graph : graph'[i] = graph[i]
      BY <1>4 DEF Graph!BeginEnrichment, Graph!Enrich, Graph!EndEnrichment,
                  Graph!Enriched
    <2>3. \A i \in DOMAIN graph : Graph!Children(graph', i)
                                       = Graph!Children(graph, i)
      BY <2>2 DEF Graph!Children
    <2>4. Sound(graph')
      BY <2>1, <2>2, <2>3 DEF GeneratedInv, Sound, IsGraph, Node,
         Graph!InPhases, Graph!Closed, Graph!HasCycle
    <2>5. LeafDeps(graph')
      BY <2>1, <2>2 DEF LeafDeps, Atomic
    <2>6. /\ Core \subseteq DOMAIN graph'
          /\ \A i \in DOMAIN graph' : graph'[i].composite => i = "IMPL"
      BY <2>1, <2>2 DEF GeneratedInv
    <2>7. Sound(graph)' /\ LeafDeps(graph)'
      BY <2>4, <2>5, <1>1, SameBrief DEF Sound, IsGraph, Node,
         Graph!Children, Graph!InPhases, Graph!Closed, Graph!HasCycle
    <2>8. edits = {}
      BY <2>1 DEF GeneratedInv
    <2>9. GeneratedInv'
      BY <2>1, <2>6, <2>7, <2>8, <1>1 DEF GeneratedInv
    <2> QED
      BY <1>1, <2>1, <2>9 DEF GraphInv
  <1> QED
    BY <1>2, <1>3, <1>4

-----------------------------------------------------------------------------
(* Gate 2.                                                                 *)

\* An edit in which nobody waits for more than before.
LEMMA LoosenStep ==
    ASSUME GraphInv, NEW command, command[1] # "dep_add", Graph!Edit(command),
           Loose(graph'),
           DOMAIN graph' \subseteq DOMAIN graph,
           \A i \in DOMAIN graph' :
               /\ graph'[i].deps \subseteq graph[i].deps
               /\ graph'[i].deps \intersect (DOMAIN graph \ DOMAIN graph') = {}
               /\ graph'[i].parent = graph[i].parent
               /\ graph'[i].composite = graph[i].composite
    PROVE  GraphInv'
  <1>1. /\ stage = "gate2" /\ stage' = stage /\ edits' = edits \union {command}
        /\ brief' = brief /\ checked' = checked /\ row' = row
        /\ EditedInv /\ row = <<>> /\ checked = FALSE
    BY DEF Graph!Edit, GraphInv
  <1>2. ~OrderKept'
    BY <1>1 DEF OrderKept
  <1>3. \A i \in DOMAIN graph' :
          ~graph'[i].composite => Graph!Children(graph', i) = {}
    BY <1>1 DEF EditedInv, Graph!Children
  <1>4. ("product" \in brief => "performance" \in brief) =>
          \A i \in Atomic(graph') : \A j \in graph'[i].deps \ Atomic(graph') :
              Typed(i, j) \in edits'
    BY <1>1 DEF EditedInv, Atomic
  <1>5. Loose(graph)'
    BY DEF Loose, LooseIn
  <1>6. EditedInv'
    BY <1>1, <1>2, <1>3, <1>4, <1>5 DEF EditedInv, Atomic, Graph!Children
  <1> QED
    BY <1>1, <1>6 DEF GraphInv

LEMMA SetPhaseStep ==
    ASSUME GraphInv, NEW i, NEW p \in 1..4, Graph!SetPhase(i, p)
    PROVE  GraphInv'
  <1>1. /\ i \in DOMAIN graph /\ Loose(graph)
        /\ graph' = [graph EXCEPT ![i].phase = p]
        /\ Graph!Edit(<<"set", i, "phase">>)
    BY DEF Graph!SetPhase, Graph!Edit, GraphInv, EditedInv
  <1>2. PICK D, P : LooseIn(graph, D, P)
    BY <1>1 DEF Loose
  <1>3. /\ DOMAIN graph' = DOMAIN graph
        /\ \A k \in DOMAIN graph :
              graph'[k] = IF k = i THEN [graph[k] EXCEPT !.phase = p] ELSE graph[k]
    BY <1>1
  <1>4. \A k \in DOMAIN graph :
          /\ graph'[k] \in LooseNode(D, P)
          /\ graph'[k].deps = graph[k].deps
          /\ graph'[k].parent = graph[k].parent
          /\ graph'[k].composite = graph[k].composite
    BY <1>2, <1>3 DEF LooseIn, LooseNode
  <1>5. Loose(graph')
    <2>1. LooseIn(graph', D, P)
      BY <1>2, <1>3, <1>4 DEF LooseIn
    <2> QED
      BY <2>1 DEF Loose
  <1> QED
    BY <1>1, <1>3, <1>4, <1>5, LoosenStep

LEMMA RemoveStep ==
    ASSUME GraphInv, NEW i, Graph!Remove(i)
    PROVE  GraphInv'
  <1>1. /\ i \in DOMAIN graph /\ Loose(graph)
        /\ graph' = [k \in DOMAIN graph \ {i} |->
                       [graph[k] EXCEPT !.deps = @ \ {i}]]
        /\ Graph!Edit(<<"remove", i, "all">>)
    BY DEF Graph!Remove, Graph!Edit, GraphInv, EditedInv
  <1>2. PICK D, P : LooseIn(graph, D, P)
    BY <1>1 DEF Loose
  <1>3. /\ DOMAIN graph' = DOMAIN graph \ {i}
        /\ \A k \in DOMAIN graph' :
              graph'[k] = [graph[k] EXCEPT !.deps = graph[k].deps \ {i}]
    BY <1>1
  <1>4. \A k \in DOMAIN graph' :
          /\ graph'[k] \in LooseNode(D, P)
          /\ graph'[k].deps = graph[k].deps \ {i}
          /\ graph'[k].parent = graph[k].parent
          /\ graph'[k].composite = graph[k].composite
    BY <1>2, <1>3 DEF LooseIn, LooseNode
  <1>5. Loose(graph')
    <2>1. LooseIn(graph', D, P)
      BY <1>2, <1>4 DEF LooseIn
    <2> QED
      BY <2>1 DEF Loose
  <1> QED
    BY <1>1, <1>3, <1>4, <1>5, LoosenStep

LEMMA DepRemoveStep ==
    ASSUME GraphInv, NEW i, NEW j, Graph!DepRemove(i, j)
    PROVE  GraphInv'
  <1>1. /\ i \in DOMAIN graph /\ Loose(graph)
        /\ graph' = [graph EXCEPT ![i].deps = @ \ {j}]
        /\ Graph!Edit(<<"dep_remove", i, j>>)
    BY DEF Graph!DepRemove, Graph!Edit, GraphInv, EditedInv
  <1>2. PICK D, P : LooseIn(graph, D, P)
    BY <1>1 DEF Loose
  <1>3. /\ DOMAIN graph' = DOMAIN graph
        /\ \A k \in DOMAIN graph :
              graph'[k] = IF k = i THEN [graph[k] EXCEPT !.deps = graph[k].deps \ {j}]
                          ELSE graph[k]
    BY <1>1
  <1>4. \A k \in DOMAIN graph :
          /\ graph'[k] \in LooseNode(D, P)
          /\ graph'[k].deps \subseteq graph[k].deps
          /\ graph'[k].parent = graph[k].parent
          /\ graph'[k].composite = graph[k].composite
    BY <1>2, <1>3 DEF LooseIn, LooseNode
  <1>5. Loose(graph')
    <2>1. LooseIn(graph', D, P)
      BY <1>2, <1>3, <1>4 DEF LooseIn
    <2> QED
      BY <2>1 DEF Loose
  <1> QED
    BY <1>1, <1>3, <1>4, <1>5, LoosenStep

\* Who waits for more keeps every order there was.
LEMMA DepAddStep ==
    ASSUME GraphInv, NEW i, NEW j \in Graph!TaskIds, Graph!DepAdd(i, j)
    PROVE  GraphInv'
  <1>1. /\ i \in DOMAIN graph /\ Loose(graph) /\ EditedInv
        /\ graph' = [graph EXCEPT ![i].deps = @ \union {j}]
        /\ stage = "gate2" /\ stage' = stage
        /\ edits' = edits \union {<<"dep_add", i, j>>}
        /\ brief' = brief /\ checked' = checked /\ row' = row
        /\ row = <<>> /\ checked = FALSE
    BY DEF Graph!DepAdd, Graph!Edit, GraphInv, EditedInv
  <1>2. PICK D, P : LooseIn(graph, D, P)
    BY <1>1 DEF Loose
  <1>3. /\ DOMAIN graph' = DOMAIN graph
        /\ \A k \in DOMAIN graph :
              graph'[k] = IF k = i
                          THEN [graph[k] EXCEPT !.deps = graph[k].deps \union {j}]
                          ELSE graph[k]
    BY <1>1
  <1>4. \A k \in DOMAIN graph :
          /\ graph'[k] \in LooseNode(D, P)
          /\ graph'[k].deps = IF k = i THEN graph[k].deps \union {j}
                              ELSE graph[k].deps
          /\ graph'[k].phase = graph[k].phase
          /\ graph'[k].parent = graph[k].parent
          /\ graph'[k].composite = graph[k].composite
    <2>1. j \in D /\ \A k \in DOMAIN graph : graph[k] \in LooseNode(D, P)
      BY <1>2 DEF LooseIn
    <2>2. ASSUME NEW t \in LooseNode(D, P), NEW u,
                 u = [t EXCEPT !.deps = t.deps \union {j}]
          PROVE  /\ u \in LooseNode(D, P) /\ u.deps = t.deps \union {j}
                 /\ u.phase = t.phase /\ u.parent = t.parent
                 /\ u.composite = t.composite
      BY <2>1, <2>2 DEF LooseNode
    <2> QED
      BY <1>3, <2>1, <2>2
  <1>5. Loose(graph')
    <2>1. LooseIn(graph', D, P)
      BY <1>2, <1>3, <1>4 DEF LooseIn
    <2> QED
      BY <2>1 DEF Loose
  <1>6. \A k \in DOMAIN graph : Graph!Children(graph', k)
                                    = Graph!Children(graph, k)
    BY <1>3, <1>4 DEF Graph!Children
  <1>7. ASSUME OrderKept' PROVE Graph!InPhases(graph')
    <2>1. Graph!InPhases(graph)
      BY <1>1, <1>7 DEF OrderKept, EditedInv
    <2> SUFFICES ASSUME NEW S \in SUBSET DOMAIN graph', Graph!Closed(graph', S),
                        NEW k \in DOMAIN graph', NEW l \in DOMAIN graph',
                        graph'[k].deps \subseteq S, ~graph'[l].composite,
                        graph'[l].phase < graph'[k].phase
                 PROVE  l \in S
      BY DEF Graph!InPhases
    <2>2. Graph!Closed(graph, S)
      BY <1>3, <1>4, <1>6 DEF Graph!Closed
    <2> QED
      BY <1>3, <1>4, <2>1, <2>2, InPhasesUse
  <1>8. Atomic(graph') = Atomic(graph)
    BY <1>3, <1>4 DEF Atomic
  <1>9. ("product" \in brief => "performance" \in brief) =>
          \A k \in Atomic(graph') : \A l \in graph'[k].deps \ Atomic(graph') :
              Typed(k, l) \in edits'
    <2>1. edits' = edits \union {Typed(i, j)}
      BY <1>1 DEF Typed
    <2>2. \A k \in Atomic(graph) : k \in DOMAIN graph
      BY DEF Atomic
    <2> QED
      BY <1>1, <1>4, <1>8, <2>1, <2>2 DEF EditedInv
  <1>10. Loose(graph)' /\ (OrderKept' => Graph!InPhases(graph)')
    BY <1>5, <1>7 DEF Loose, LooseIn, Graph!InPhases, Graph!Closed,
       Graph!Children
  <1>11. EditedInv'
    BY <1>1, <1>3, <1>4, <1>6, <1>9, <1>10 DEF EditedInv, Atomic, Typed,
       Graph!Children
  <1> QED
    BY <1>1, <1>11 DEF GraphInv

-----------------------------------------------------------------------------
(* Rows.                                                                   *)

LEMMA ApproveStep ==
    GraphInv /\ (Graph!ApproveCommand \/ Graph!EndOfInput) => GraphInv'
  <1> SUFFICES ASSUME GraphInv, Graph!ApproveCommand \/ Graph!EndOfInput
               PROVE  GraphInv'
    OBVIOUS
  <1>1. /\ EditedInv /\ graph' = graph /\ brief' = brief /\ edits' = edits
        /\ stage' = "execution"
        /\ row' = [i \in Atomic(graph) |-> "PENDING"]
        /\ checked' => Graph!IsValid(graph)
    BY DEF GraphInv, Graph!ApproveCommand, Graph!EndOfInput, Graph!Materialize,
           Atomic
  <1>2. checked' => \A i \in DOMAIN graph : graph[i].deps \subseteq DOMAIN graph
    BY <1>1 DEF Graph!IsValid
  <1>3. EditedInv'
    BY <1>1, <1>2 DEF EditedInv, Loose, LooseIn, Typed, OrderKept, Atomic, Graph!InPhases,
                      Graph!Closed, Graph!Children
  <1>4. RowsInv'
    BY <1>1 DEF RowsInv, Atomic
  <1> QED
    BY <1>1, <1>3, <1>4 DEF GraphInv

LEMMA ExecutionStep ==
    GraphInv /\ (Graph!Resolve
                    \/ \E i \in DOMAIN row : Graph!Pickup(i) \/ Graph!Succeed(i))
        => GraphInv'
  <1> SUFFICES ASSUME GraphInv,
                      Graph!Resolve
                        \/ \E i \in DOMAIN row : Graph!Pickup(i) \/ Graph!Succeed(i)
               PROVE  GraphInv'
    OBVIOUS
  <1>1. /\ graph' = graph /\ brief' = brief /\ edits' = edits
        /\ checked' = checked /\ stage' = stage
    BY DEF Graph!Resolve, Graph!Pickup, Graph!Succeed
  <1>2. stage = "execution" /\ EditedInv /\ RowsInv
    <2>1. stage # "execution" => DOMAIN row = {}
      BY NoRows DEF GraphInv
    <2> QED
      BY <2>1 DEF GraphInv, Graph!Resolve, Graph!Pickup, Graph!Succeed
  <1>3. EditedInv'
    BY <1>1, <1>2 DEF EditedInv, Loose, LooseIn, Typed, OrderKept, Atomic, Graph!InPhases,
                      Graph!Closed, Graph!Children
  <1>4. RowsInv'
    <2>1. CASE Graph!Resolve
      <3>1. /\ DOMAIN row' = DOMAIN row
            /\ \A i \in DOMAIN row :
                 \/ row'[i] = row[i]
                 \/ row[i] = "PENDING" /\ row'[i] = "READY" /\ Graph!Resolvable(i)
        BY <2>1 DEF Graph!Resolve
      <3>2. \A i : Graph!Resolvable(i) => Graph!Resolvable(i)'
        BY <3>1, <1>1 DEF Graph!Resolvable, Graph!Succeeded
      <3> QED
        BY <3>1, <3>2, <1>1, <1>2 DEF RowsInv, Atomic
    <2>2. ASSUME NEW i \in DOMAIN row, Graph!Pickup(i) \/ Graph!Succeed(i)
          PROVE  RowsInv'
      <3>1. /\ DOMAIN row' = DOMAIN row
            /\ \A j \in DOMAIN row : j # i => row'[j] = row[j]
            /\ row[i] \in {"READY", "RUNNING"}
        BY <2>2 DEF Graph!Pickup, Graph!Succeed
      <3>2. \A j : Graph!Resolvable(j) => Graph!Resolvable(j)'
        BY <3>1, <1>1 DEF Graph!Resolvable, Graph!Succeeded
      <3> QED
        BY <3>1, <3>2, <1>1, <1>2 DEF RowsInv, Atomic
    <2> QED
      BY <2>1, <2>2
  <1> QED
    BY <1>1, <1>2, <1>3, <1>4 DEF GraphInv

LEMMA GraphStep == GraphInv /\ [Graph!Next]_(Graph!vars) => GraphInv'
  <1> SUFFICES ASSUME GraphInv, [Graph!Next]_(Graph!vars) PROVE GraphInv'
    OBVIOUS
  <1>1. CASE UNCHANGED Graph!vars
    <2>1. UNCHANGED <<brief, stage, rules, graph, todo, edits, checked, row>>
      BY <1>1 DEF Graph!vars
    <2>2. GeneratedInv' <=> GeneratedInv
      BY <2>1 DEF GeneratedInv, RulesInv, ReadyForSplit, ReadyForPerformance,
         LeafDeps, Atomic, LastOf, Sound, IsGraph, Node, Graph!Children,
         Graph!InPhases, Graph!Closed, Graph!HasCycle
    <2>3. EditedInv' <=> EditedInv
      BY <2>1 DEF EditedInv, Loose, LooseIn, Typed, OrderKept, Atomic,
         Graph!Children, Graph!InPhases, Graph!Closed
    <2>4. RowsInv' <=> RowsInv
      BY <2>1 DEF RowsInv, Atomic, Graph!Resolvable, Graph!Succeeded
    <2> QED
      BY <2>1, <2>2, <2>3, <2>4 DEF GraphInv
  <1>2. CASE Graph!Next
    <2>1. ASSUME NEW i \in Graph!TaskIds,
                 \/ Graph!Remove(i)
                 \/ \E p \in 1..4 : Graph!SetPhase(i, p)
                 \/ \E j \in Graph!TaskIds : Graph!DepAdd(i, j) \/ Graph!DepRemove(i, j)
          PROVE  GraphInv'
      BY <2>1, RemoveStep, SetPhaseStep, DepAddStep, DepRemoveStep
    <2> QED
      BY <1>2, <2>1, ApplyRuleStep, StageStep, ApproveStep, ExecutionStep
         DEF Graph!Next
  <1> QED
    BY <1>1, <1>2

\* The graph is Sound until somebody edits it, what the edits leave of that is
\* known, and a row that has got READY had all it waits for, whatever the brief,
\* the model and the person at Gate 2 say (rules.py, terminal_gate2.py,
\* background.py).
THEOREM GraphInvariance == Graph!Spec => []GraphInv
  BY InitGraph, GraphStep, PTL DEF Graph!Spec

\* A task runs only when what it waits for is done, and so is all work of earlier
\* phases unless somebody took that order away (rules.py, materializer.py,
\* task_graph/validator.py, terminal_gate2.py).
THEOREM PhasesInOrder == Graph!Spec => []PhaseOrder
  <1>1. GraphInv => PhaseOrder
    <2> SUFFICES ASSUME GraphInv, NEW i \in DOMAIN row,
                        row[i] \in {"RUNNING", "SUCCESS"}
                 PROVE  /\ \A j \in graph[i].deps :
                              j \in DOMAIN row /\ row[j] = "SUCCESS"
                        /\ OrderKept => \A j \in DOMAIN row :
                              graph[j].phase < graph[i].phase => row[j] = "SUCCESS"
      BY DEF GraphInv, PhaseOrder
    <2>1. stage = "execution" /\ RowsInv /\ EditedInv
      BY NoRows DEF GraphInv
    <2> DEFINE S == {k \in DOMAIN row : row[k] = "SUCCESS"}
    <2>2. S \subseteq DOMAIN graph /\ DOMAIN row \subseteq DOMAIN graph
          /\ \A k \in DOMAIN row : ~graph[k].composite
      BY <2>1 DEF RowsInv, Atomic
    <2>3. \A k \in DOMAIN row : row[k] \in {"READY", "RUNNING", "SUCCESS"} =>
                                    graph[k].deps \subseteq S
      BY <2>1 DEF RowsInv, Graph!Resolvable, Graph!Succeeded
    <2>4. \A k \in S : Graph!Children(graph, k) = {}
      BY <2>1, <2>2 DEF EditedInv
    <2>5. Graph!Closed(graph, S)
      BY <2>3, <2>4 DEF Graph!Closed
    <2>6. OrderKept => Graph!InPhases(graph)
      BY <2>1 DEF EditedInv
    <2> QED
      BY <2>2, <2>3, <2>5, <2>6, InPhasesUse
  <1> QED
    BY <1>1, GraphInvariance, PTL

\* "ORDER MATTERS" (rules.py): the rules, each as it leaves the graph, keep what
\* the one after it counts on, and so does who only adds dependencies.
THEOREM RulesKeepPhases == Graph!Spec => []PhasesAreKept
  <1>1. GraphInv => PhasesAreKept
    BY DEF GraphInv, GeneratedInv, EditedInv, Sound, PhasesAreKept, InPhases,
           Closed, Children, Graph!InPhases, Graph!Closed, Graph!Children
  <1> QED
    BY <1>1, GraphInvariance, PTL

\* What ExecutionEngine assumes of Task and Dep is true of every graph but that
\* of a product which is not tested for performance, and but for what somebody
\* typed (materializer.py, terminal_gate2.py).
THEOREM RowsWaitForRows == Graph!Spec => []WaitsForRows
  <1>1. GraphInv => WaitsForRows
    <2> SUFFICES ASSUME GraphInv, NEW i \in DOMAIN row
                 PROVE  /\ ("product" \in brief => "performance" \in brief) =>
                             \A j \in graph[i].deps \ DOMAIN row :
                                 <<"dep_add", i, j>> \in edits
                        /\ checked => graph[i].deps \subseteq DOMAIN graph
      BY DEF WaitsForRows
    <2>1. RowsInv /\ EditedInv
      BY NoRows DEF GraphInv
    <2> QED
      BY <2>1 DEF RowsInv, EditedInv, Atomic, Typed
  <1> QED
    BY <1>1, GraphInvariance, PTL

-----------------------------------------------------------------------------
(* The graph in the engine.                                                *)

Begun    == {r[1] : r \in startedAt}
Finished == {r[1] : r \in {q \in Row : status[q] \in Done}}

OrderInv ==
    /\ Begun \subseteq Task /\ Finished \subseteq Begun
    /\ \A t \in Begun : Dep[t] \subseteq Finished

LEMMA OrderInvStep == OrderInv /\ [Order!Next]_(Order!vars) => OrderInv'
  <1> SUFFICES ASSUME OrderInv, [Order!Next]_(Order!vars) PROVE OrderInv'
    OBVIOUS
  <1>1. ASSUME NEW t \in Task, Order!Begin(t) PROVE OrderInv'
    <2>1. /\ Dep[t] \subseteq Finished /\ Begun' = Begun \union {t}
          /\ Finished' = Finished
      BY <1>1 DEF Order!Begin, Begun, Finished
    <2> QED
      BY <2>1 DEF OrderInv
  <1>2. ASSUME NEW t \in Task, Order!Finish(t) PROVE OrderInv'
    <2>1. /\ t \in Begun /\ Finished' = Finished \union {t} /\ Begun' = Begun
      BY <1>2 DEF Order!Finish, Begun, Finished
    <2> QED
      BY <2>1 DEF OrderInv
  <1>3. CASE UNCHANGED Order!vars
    <2>1. Begun' = Begun /\ Finished' = Finished
      BY <1>3 DEF Order!vars, Begun, Finished
    <2> QED
      BY <2>1 DEF OrderInv
  <1> QED
    BY <1>1, <1>2, <1>3 DEF Order!Next

\* No task is begun before every task of an earlier phase is done.
BegunInPhases(g) ==
    \A i \in Begun : \A j \in Task : g[j].phase < g[i].phase => j \in Finished

\* What TaskGraph promises where nothing fails holds with all the threads,
\* retries, crashes and interventions of the engine: whatever graph the rules
\* have made (GraphInvariance), an agent is started on a task only when all
\* tasks of earlier phases have succeeded or were skipped.
THEOREM EngineKeepsPhases ==
    ASSUME NEW g, Graph!InPhases(g), Task = Atomic(g),
           \A t \in Task : Graph!Children(g, t) = {} /\ Dep[t] = g[t].deps
    PROVE  Spec => []BegunInPhases(g)
  <1>1. Order!Init => OrderInv
    BY DEF Order!Init, OrderInv, Begun, Finished
  <1>2. OrderInv => BegunInPhases(g)
    <2> SUFFICES ASSUME OrderInv, NEW i \in Begun, NEW j \in Task,
                        g[j].phase < g[i].phase
                 PROVE  j \in Finished
      BY DEF BegunInPhases
    <2>1. /\ Begun \subseteq Task /\ Finished \subseteq Begun
          /\ \A t \in Begun : g[t].deps \subseteq Finished
      BY DEF OrderInv
    <2>2. /\ Task \subseteq DOMAIN g /\ \A t \in Task : ~g[t].composite
      BY DEF Atomic
    <2>3. Graph!Closed(g, Finished)
      BY <2>1 DEF Graph!Closed
    <2> QED
      BY <2>1, <2>2, <2>3, InPhasesUse
  <1> QED
    BY <1>1, <1>2, OrderInvStep, EngineImplementsOrder, PTL
       DEF ImplementsOrder, Order!Spec
=============================================================================
