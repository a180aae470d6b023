----------------------------- MODULE RepoBranch -----------------------------
(***************************************************************************)
(* The working tree of a target repository and all who use it: executors,  *)
(* whose agents write tests and then the implementation, review and repair *)
(* them; spec and plan workers that publish a document on a task's branch; *)
(* the web UI that accepts and rejects branches and learns from a reason;  *)
(* and the operator, who decides about a task that is out of retries.      *)
(* There is one tree, each of them checks out what it needs, and nothing   *)
(* keeps them apart.  Who starts them is ChatTask.                         *)
(***************************************************************************)
EXTENDS Naturals, FiniteSets

CONSTANTS
    Task,       \* coding tasks; a task stands for its branch and its files, too
    Executor,   \* executor processes
    Main,       \* the base branch
    MaxRounds,  \* EXEC_REVIEW_MAX_ROUNDS, EXEC_TEST_REVIEW_MAX_ROUNDS
    MaxRetries, \* retry_policy["EXECUTION_ERROR"]["max_retries"]
    MaxOther    \* bound: documents published, requests to the web UI and
                \* decisions of the operator, together

ASSUME RepoAssumption ==
    /\ Main \notin Task
    /\ MaxRounds \in Nat /\ MaxRetries \in Nat /\ MaxOther \in Nat

None == [branch |-> "none"]

VARIABLES
    head,     \* the branch that is checked out
    at,       \* at[b]: the files at the tip of b
    tree,     \* the files in the working tree
    task,     \* the task of each executor
    pc,       \* where each executor is
    phase,    \* the task of the graph it works on: TASK-TEST, then TASK-IMPL
    rounds,   \* rounds of repair
    retries,  \* attempts of this task of the graph that failed
    failed,   \* executors whose TASK-TEST has the row of an attempt that failed
    verdict,  \* the review of what its agent wrote last
    report,   \* review_status of the implementation
    pub,      \* publish_doc: where the worker of each task is
    learner,  \* learn_from_failure between its read and its write
    others,   \* the counter of the bound
    moved     \* history: executors under which another process checked out

treeVars  == <<head, at, tree>>
agentVars == <<task, pc, phase, rounds, retries, failed, verdict, report>>
vars == <<treeVars, agentVars, pub, learner, others, moved>>

Branch == Task \union {Main}
Files  == [work : SUBSET Task, rules : SUBSET Task]
\* Whoever is, or may be again, at work in the tree.
Busy   == {"edit", "commit", "review", "waits"}

TypeOK ==
    /\ head \in Branch /\ at \in [Branch -> {None} \union Files]
    /\ at[head] \in Files /\ tree \in Files
    /\ task \in [Executor -> {None} \union Task]
    /\ pc \in [Executor -> Busy \union {"new", "starved", "done", "over"}]
    /\ phase \in [Executor -> {"test", "impl"}]
    /\ rounds \in [Executor -> 0..MaxRounds]
    /\ retries \in [Executor -> 0..MaxRetries] /\ failed \subseteq Executor
    /\ verdict \in [Executor -> {"none", "blocking", "fine"}]
    /\ report \in [Executor -> {"none", "clean", "flagged"}]
    /\ pub \in [Task -> {"idle", "fork", "commit"}]
    /\ learner \in [Task -> {None} \union [read : SUBSET Task]]
    /\ others \in 0..MaxOther
    /\ moved \subseteq Executor

Init ==
    /\ head = Main
    /\ at = [b \in Branch |-> IF b = Main THEN [work |-> {}, rules |-> {}]
                                          ELSE None]
    /\ tree = at[Main]
    /\ task = [e \in Executor |-> None]  /\ pc = [e \in Executor |-> "new"]
    /\ phase = [e \in Executor |-> "test"]
    /\ rounds = [e \in Executor |-> 0]
    /\ retries = [e \in Executor |-> 0] /\ failed = {}
    /\ verdict = [e \in Executor |-> "none"]
    /\ report = [e \in Executor |-> "none"]
    /\ pub = [t \in Task |-> "idle"]
    /\ learner = [t \in Task |-> None]
    /\ others = 0
    /\ moved = {}

-----------------------------------------------------------------------------
(* Git.  A file that differs from the tip is uncommitted: checkout carries *)
(* it over, or refuses when the other branch has it different as well.     *)
(* The learned rules are one file.                                         *)

Changed(a, b) == {t \in Task : (t \in a.work) # (t \in b.work)}

CanCheckout(b) ==
    /\ at[b] # None
    /\ Changed(tree, at[head]) \intersect Changed(at[head], at[b]) = {}
    /\ tree.rules = at[head].rules \/ at[head].rules = at[b].rules

CarriedOver(b) ==
    [work  |-> {t \in Task : IF t \in Changed(tree, at[head])
                             THEN t \in tree.work ELSE t \in at[b].work},
     rules |-> IF tree.rules # at[head].rules THEN tree.rules
                                              ELSE at[b].rules]

\* Whoever is at work notices nothing.
MovesOthers(self) ==
    moved' = moved \union {e \in Executor \ self : pc[e] \in Busy}

Checkout(b, self) ==
    /\ CanCheckout(b)
    /\ head' = b /\ tree' = CarriedOver(b)
    /\ UNCHANGED at
    /\ IF b = head THEN UNCHANGED moved ELSE MovesOthers(self)

\* checkout -b: the new branch starts at whatever is checked out.
Fork(b, self) ==
    /\ at[b] = None
    /\ head' = b /\ at' = [at EXCEPT ![b] = at[head]]
    /\ UNCHANGED tree
    /\ MovesOthers(self)

Another == others < MaxOther /\ others' = others + 1

-----------------------------------------------------------------------------
(* publish_doc.  The document itself is not followed any further.          *)

PublishVars == <<agentVars, learner>>

\* ensure_branch_from_base: a new branch is to start from the base, which is
\* checked out first, if it can be.
PublishBegins(t) ==
    /\ pub[t] = "idle" /\ Another
    /\ \/ /\ at[t] # None
          /\ Checkout(t, {})
          /\ pub' = [pub EXCEPT ![t] = "commit"]
       \/ /\ at[t] = None
          /\ \/ Checkout(Main, {})
             \/ ~CanCheckout(Main) /\ UNCHANGED <<treeVars, moved>>
          /\ pub' = [pub EXCEPT ![t] = "fork"]
    /\ UNCHANGED PublishVars

PublishForks(t) ==
    /\ pub[t] = "fork"
    /\ Fork(t, {}) \/ Checkout(t, {})
    /\ pub' = [pub EXCEPT ![t] = "commit"]
    /\ UNCHANGED <<PublishVars, others>>

\* The document's path is added, but the commit names no path: it takes along
\* whatever others have staged.
CommitStaged ==
    \E staged \in SUBSET Changed(tree, at[head]) :
    \E rules \in {tree.rules, at[head].rules} :
        at' = [at EXCEPT ![head] =
                 [work  |-> {t \in Task : IF t \in staged THEN t \in tree.work
                                                        ELSE t \in @.work},
                  rules |-> rules]]

\* The commit, and the push; or the worker is stopped, or the checkout
\* refused, anywhere on the way.
PublishEnds(t) ==
    /\ pub[t] # "idle"
    /\ UNCHANGED at \/ (pub[t] = "commit" /\ CommitStaged)
    /\ pub' = [pub EXCEPT ![t] = "idle"]
    /\ UNCHANGED <<PublishVars, head, tree, others, moved>>

-----------------------------------------------------------------------------
(* Executors and their agents.                                             *)

OtherVars == <<pub, learner, others>>

\* Seeded fault: the exit code of the checkout is not looked at.
BranchRegardless(e, t) ==
    /\ pc[e] = "new"
    /\ task' = [task EXCEPT ![e] = t]
    /\ \/ Checkout(t, {e}) \/ Fork(t, {e})
       \/ /\ at[t] # None /\ ~CanCheckout(t)
          /\ UNCHANGED <<treeVars, moved>>
    /\ pc' = [pc EXCEPT ![e] = "edit"]
    /\ UNCHANGED <<phase, rounds, retries, failed, verdict, report, OtherVars>>

\* run_executor from the gate to the start of the engine: the branch is
\* checked out, or made from the CURRENT ref; else the executor gives up.
ExecutorBranches(e, t) ==
    /\ pc[e] = "new"
    /\ task' = [task EXCEPT ![e] = t]
    /\ \/ /\ Checkout(t, {e}) \/ Fork(t, {e})
          /\ pc' = [pc EXCEPT ![e] = "edit"]
       \/ /\ at[t] # None /\ ~CanCheckout(t)
          /\ pc' = [pc EXCEPT ![e] = "over"]
          /\ UNCHANGED <<treeVars, moved>>
    /\ UNCHANGED <<phase, rounds, retries, failed, verdict, report, OtherVars>>

\* claude -p writes in the tree, whatever is checked out.
AgentEdits(e) ==
    /\ pc[e] = "edit"
    /\ tree' = [tree EXCEPT !.work = @ \union {task[e]}]
    /\ pc' = [pc EXCEPT ![e] = "commit"]
    /\ verdict' = [verdict EXCEPT ![e] = "none"]
    /\ UNCHANGED <<head, at, task, phase, rounds, retries, failed, report,
                   moved, OtherVars>>

\* git add -A && git commit, and exit 0; nothing checks that it did commit.
AgentCommits(e) ==
    /\ pc[e] = "commit"
    /\ at' = [at EXCEPT ![head] = tree] \/ UNCHANGED at
    /\ pc' = [pc EXCEPT ![e] = "review"]
    /\ UNCHANGED <<head, tree, task, phase, rounds, retries, failed, verdict,
                   report, moved, OtherVars>>

\* The row of this attempt stays; it matters to those who depend on it.
RowRemains(e) ==
    failed' = IF phase[e] = "test" THEN failed \union {e} ELSE failed

\* The agent's answer to the engine was an error: the task is tried again
\* from the start, or it is final and the executor waits for the operator.
TaskFails(e) ==
    /\ \/ /\ retries[e] < MaxRetries
          /\ retries' = [retries EXCEPT ![e] = @ + 1]
          /\ pc' = [pc EXCEPT ![e] = "edit"]
          /\ RowRemains(e)
       \/ /\ retries[e] = MaxRetries
          /\ pc' = [pc EXCEPT ![e] = "waits"]
          /\ UNCHANGED <<retries, failed>>
    /\ rounds' = [rounds EXCEPT ![e] = 0]
    /\ UNCHANGED phase

\* TASK-IMPL begins when TASK-TEST has no row but the last one, which succeeded
\* or was skipped: the row of an attempt that failed starves it (README,
\* section 4).
TestsSucceed(e) ==
    /\ \/ /\ e \notin failed
          /\ phase' = [phase EXCEPT ![e] = "impl"]
          /\ pc' = [pc EXCEPT ![e] = "edit"]
          /\ retries' = [retries EXCEPT ![e] = 0]
       \/ /\ e \in failed
          /\ pc' = [pc EXCEPT ![e] = "starved"]
          /\ UNCHANGED <<phase, retries>>
    /\ rounds' = [rounds EXCEPT ![e] = 0]
    /\ UNCHANGED failed

\* Seeded fault: flagged tests are good enough to go on.
LoopGoesOn(e, status) ==
    \/ phase[e] = "test" /\ TestsSucceed(e) /\ UNCHANGED report
    \/ /\ phase[e] = "impl"
       /\ report' = [report EXCEPT ![e] = status]
       /\ pc' = [pc EXCEPT ![e] = "done"]
       /\ UNCHANGED <<phase, rounds, retries, failed>>

\* Seeded fault: an implementation is reported clean after the last round.
LoopEndsClean(e, status) ==
    \/ /\ phase[e] = "test"
       /\ \/ status = "flagged" /\ TaskFails(e)
          \/ status = "clean" /\ TestsSucceed(e)
       /\ UNCHANGED report
    \/ /\ phase[e] = "impl"
       /\ report' = [report EXCEPT ![e] = "clean"]
       /\ pc' = [pc EXCEPT ![e] = "done"]
       /\ UNCHANGED <<phase, rounds, retries, failed>>

\* The review loop is left: flagged tests fail TASK-TEST, while a flagged
\* implementation is left to people.
LoopEnds(e, status) ==
    \/ /\ phase[e] = "test"
       /\ \/ status = "flagged" /\ TaskFails(e)
          \/ status = "clean" /\ TestsSucceed(e)
       /\ UNCHANGED report
    \/ /\ phase[e] = "impl"
       /\ report' = [report EXCEPT ![e] = status]
       /\ pc' = [pc EXCEPT ![e] = "done"]
       /\ UNCHANGED <<phase, rounds, retries, failed>>

\* A timeout, idle or hard, the end of the turns, another exit code.  The
\* edits stay in the tree.  In a round of repair it ends the loop, flagged.
AgentFails(e) ==
    /\ pc[e] \in {"edit", "commit"}
    /\ \/ rounds[e] = 0 /\ TaskFails(e) /\ UNCHANGED report
       \/ rounds[e] > 0 /\ LoopEnds(e, "flagged")
    /\ UNCHANGED <<treeVars, task, verdict, moved, OtherVars>>

\* What a reviewer may say; testsOk stands for "not run, or passed", of the
\* tests for "red".  A reviewer that fails is inconclusive.
Verdict == [verdict : {"pass", "fail", "inconclusive"},
            testsOk : BOOLEAN, high : BOOLEAN]

Blocking(v) == /\ v.verdict # "inconclusive"
               /\ ~v.testsOk \/ v.high \/ v.verdict = "fail"

Repairs(e) ==
    /\ rounds[e] < MaxRounds
    /\ rounds' = [rounds EXCEPT ![e] = @ + 1]
    /\ pc' = [pc EXCEPT ![e] = "edit"]
    /\ UNCHANGED <<phase, retries, failed, report>>

Reviews(e) ==
    /\ pc[e] = "review"
    /\ \E v \in Verdict :
        /\ verdict' = [verdict EXCEPT ![e] = IF Blocking(v) THEN "blocking"
                                                            ELSE "fine"]
        /\ \/ Blocking(v) /\ Repairs(e)
           \/ Blocking(v) /\ rounds[e] = MaxRounds /\ LoopEnds(e, "flagged")
           \/ ~Blocking(v) /\ LoopEnds(e, "clean")
    /\ UNCHANGED <<treeVars, task, moved, OtherVars>>

-----------------------------------------------------------------------------
(* The operator, about a task that is out of retries.                      *)

Decides(e) ==
    /\ pc[e] = "waits" /\ Another
    /\ UNCHANGED <<treeVars, task, verdict, report, moved, pub, learner>>

OperatorRetries(e) ==
    /\ Decides(e)
    /\ pc' = [pc EXCEPT ![e] = "edit"]
    /\ rounds' = [rounds EXCEPT ![e] = 0]
    /\ retries' = [retries EXCEPT ![e] = 0]
    /\ RowRemains(e)
    /\ UNCHANGED phase

\* The row is SKIPPED and unblocks what depends on it, as if it had succeeded.
OperatorSkips(e) ==
    /\ Decides(e)
    /\ \/ phase[e] = "test" /\ TestsSucceed(e)
       \/ /\ phase[e] = "impl"
          /\ pc' = [pc EXCEPT ![e] = "over"]
          /\ UNCHANGED <<phase, rounds, retries, failed>>

OperatorAborts(e) ==
    /\ Decides(e)
    /\ pc' = [pc EXCEPT ![e] = "over"]
    /\ UNCHANGED <<phase, rounds, retries, failed>>

-----------------------------------------------------------------------------
(* The web UI.                                                             *)

\* A branch is shown once its executor has written the exec file.
Shown(t) == \E e \in Executor : task[e] = t /\ pc[e] # "new"

\* /task-exec, accept: the pull request, then "Leave the working tree clean on
\* the base branch", as far as git lets it.
WebAccept(t) ==
    /\ Shown(t) /\ Another
    /\ Checkout(Main, {})
    /\ UNCHANGED <<agentVars, pub, learner>>

\* _learn_from_rejection reads the rules that are in the tree by then.
LearnFromRejection(t) ==
    learner' = [learner EXCEPT ![t] = [read |-> tree'.rules]]

\* /task-exec, reject: checkout base, branch -D, both without a look at the
\* exit code; then a reason is turned into a lesson in <repo>/.ai-dev/rules.
WebReject(t) ==
    /\ Shown(t) /\ learner[t] = None /\ Another
    /\ \/ /\ CanCheckout(Main)
          /\ head' = Main /\ tree' = CarriedOver(Main)
          /\ at' = [at EXCEPT ![t] = None]
          /\ IF head = Main THEN UNCHANGED moved ELSE MovesOthers({})
       \/ /\ ~CanCheckout(Main)
          /\ UNCHANGED <<head, tree, moved>>
          /\ at' = IF head = t THEN at ELSE [at EXCEPT ![t] = None]
    /\ LearnFromRejection(t) \/ UNCHANGED learner
    /\ UNCHANGED <<agentVars, pub>>

\* _merge_unique and _atomic_write_yaml: what was read and the lesson, over
\* what is there; nothing is written when the lesson was there already.
Merged(read, t) ==
    IF t \in read THEN tree ELSE [tree EXCEPT !.rules = read \union {t}]

Learns(t) ==
    /\ learner[t] # None
    /\ learner' = [learner EXCEPT ![t] = None]
    /\ tree' = Merged(learner[t].read, t)
    /\ UNCHANGED <<head, at, agentVars, pub, others, moved>>

-----------------------------------------------------------------------------
Agent(e) == AgentEdits(e) \/ AgentCommits(e) \/ AgentFails(e) \/ Reviews(e)

Operator(e) == OperatorRetries(e) \/ OperatorSkips(e) \/ OperatorAborts(e)

Next ==
    \/ \E e \in Executor : \/ \E t \in Task : ExecutorBranches(e, t)
                           \/ Agent(e) \/ Operator(e)
    \/ \E t \in Task : \/ PublishBegins(t) \/ PublishForks(t) \/ PublishEnds(t)
                       \/ WebAccept(t) \/ WebReject(t) \/ Learns(t)

Spec == Init /\ [][Next]_vars

-----------------------------------------------------------------------------
(* Properties.                                                             *)

\* Agents (repo_branch_agent.py, git_ops.py): an executor's agents work on the
\* branch of its task, unless another process checked out under their hands;
\* a checkout git refused, or a branch deleted or made meanwhile, is no excuse.
OnOwnBranch == \A e \in Executor :
                    pc[e] \in Busy /\ e \notin moved => head = task[e]

\* Review gate (_review_and_repair): what is reported clean is what was
\* reviewed, with nothing written since, and what is flagged is not fine.
ReportIsTrue == \A e \in Executor :
                    pc[e] = "done" => (report[e] = "clean" <=> verdict[e] = "fine")

\* TDD gate (test_author_agent.py, single_task_plan.py): no implementation
\* is begun on tests that the review has not let pass since they were written,
\* "so the implementation phase never builds on untrustworthy tests"
\* (test_author_agent.py:167-168), unless the operator skips TASK-TEST: that
\* unblocks TASK-IMPL like a success (background.py:68, README, section 4).
TestsFirst == [][\A e \in Executor :
                    phase'[e] # phase[e] =>
                        verdict'[e] = "fine" \/ OperatorSkips(e)]_vars
=============================================================================
