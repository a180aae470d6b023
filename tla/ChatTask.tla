----------------------------- MODULE ChatTask -----------------------------
(***************************************************************************)
(* A coding task given to a repo-bound bot in a chat.  One daemon thread   *)
(* answers the chats and sweeps the watchers; it keeps one record per chat *)
(* in a file.  Detached processes (spec worker, plan worker, executor)     *)
(* leave their results in files of their own, <id>.json, <id>-plan.json    *)
(* and <id>-exec.json, which the web UI reads and writes too.  Nothing but *)
(* these files ties them together, and nothing locks them.  The agents     *)
(* inside the executor and the git tree they share are RepoBranch; the     *)
(* engine that runs them is ExecutionEngine.                               *)
(***************************************************************************)
EXTENDS Naturals, FiniteSets

CONSTANTS
    Chat,     \* chats of the bot
    Task,     \* task ids that may be given out
    Job,      \* detached processes at work at the same time
    MaxSay,   \* bound: tool calls of the people in the chats
    MaxWeb,   \* bound: requests to the web UI
    MaxFault  \* bound: crashes of the daemon, dead workers

ASSUME BoundsAssumption ==
    MaxSay \in Nat /\ MaxWeb \in Nat /\ MaxFault \in Nat

RoundCap == 2

Stage    == {"spec", "plan", "approved", "run", "completed", "delivered"}
Requires == [spec |-> {}, plan |-> {"spec"}, approved |-> {"plan"},
             run |-> {"approved"}, completed |-> {"run"},
             delivered |-> {"completed"}]

Phase == {"generating", "awaiting_clarify", "awaiting_spec_approval",
          "plan_generating", "awaiting_plan_approval"}

None == [kind |-> "none"]   \* no file, no process, nothing under way

VARIABLES
    rec,      \* chat_tasks/<chat>.json: the pending task of each chat
    spec,     \* task_specs/<id>.json
    plan,     \* task_specs/<id>-plan.json
    exec,     \* exec_status, or status, of task_specs/<id>-exec.json
    job,      \* what each detached process is doing
    daemon,   \* what the daemon's thread is in the middle of
    said, web, faults,   \* the counters of the bounds
    reached   \* history: the stages each task has been at

taskVars == <<rec, spec, plan, exec, job, daemon, said, web, faults,
              reached>>

\* What a spec worker can leave behind.  "open": blocking findings, with
\* questions to ask; "mute": blocking findings of which no text is left.
Result == {"error", "open", "mute", "ready"}
Specs  == {None} \union [kind : Result, answers : 0..RoundCap] \union
          [kind : {"running"}, answers : {0}]
Plans  == {None} \union [kind : {"plan"}, approved : BOOLEAN, of : Specs]
Recs   == {None} \union
          [kind : {"rec"}, task : Task, phase : Phase, round : 0..RoundCap]
Ended  == {"COMPLETED", "FAILED", "ABORTED"}
Jobs   == {None} \union
          [kind : {"spec"}, task : Task, answers : 0..RoundCap] \union
          [kind : {"plan", "exec"}, task : Task] \union
          [kind : {"publish"}, task : Task, own : Plans] \union
          [kind : {"checked", "running"}, task : Task]
Daemons == {None} \union [kind : {"write"}, chat : Chat, value : Recs] \union
           [kind : {"approve"}, task : Task, value : Plans] \union
           [kind : {"spawn"}, task : Task]

TaskTypeOK ==
    /\ rec \in [Chat -> Recs]    /\ spec \in [Task -> Specs]
    /\ plan \in [Task -> Plans]  /\ job \in [Job -> Jobs]
    /\ exec \in [Task -> {"none", "running", "error"} \union Ended]
    /\ said \in 0..MaxSay /\ web \in 0..MaxWeb /\ faults \in 0..MaxFault
    /\ reached \in [Task -> SUBSET Stage]

TaskInit ==
    /\ rec = [c \in Chat |-> None]
    /\ spec = [t \in Task |-> None]
    /\ plan = [t \in Task |-> None]
    /\ exec = [t \in Task |-> "none"]
    /\ job = [j \in Job |-> None]
    /\ daemon = None
    /\ said = 0 /\ web = 0 /\ faults = 0
    /\ reached = [t \in Task |-> {}]

-----------------------------------------------------------------------------
(* Helpers.                                                                *)

Reach(t, s) == reached' = [reached EXCEPT ![t] = @ \union {s}]

\* Popen, detached: the caller does not learn what becomes of it.
Spawn(what) ==
    /\ \E j \in Job : job[j] = None
    /\ job' = [job EXCEPT ![CHOOSE j \in Job : job[j] = None] = what]

\* The daemon has done what comes before the chat's record is written.
Put(c, value) == daemon' = [kind |-> "write", chat |-> c, value |-> value]

Pending(c, phase) == [rec[c] EXCEPT !.phase = phase]

\* A tool call out of the chat c: the daemon handles one message at a time.
Said(c) == daemon = None /\ said < MaxSay /\ said' = said + 1

NewTasks == {t \in Task : /\ spec[t] = None /\ plan[t] = None
                          /\ \A c \in Chat : rec[c] = None \/ rec[c].task # t
                          /\ \A j \in Job : job[j] = None \/ job[j].task # t
                          /\ reached[t] = {}}

-----------------------------------------------------------------------------
(* The daemon: tools of the chat.                                          *)

DevTaskStart(c) ==
    /\ Said(c)
    /\ rec[c] = None
    /\ \E t \in NewTasks :
        /\ Spawn([kind |-> "spec", task |-> t, answers |-> 0])
        /\ Put(c, [kind |-> "rec", task |-> t,
                   phase |-> "generating", round |-> 0])
    /\ UNCHANGED <<rec, spec, plan, exec, web, faults, reached>>

\* Seeded fault: the pull request is made of what runs, too.
StatusInHaste(c) ==
    /\ Said(c)
    /\ rec[c] # None
    /\ LET t == rec[c].task IN
        /\ exec[t] \in {"running"} \union Ended
        /\ IF exec[t] \in {"running", "COMPLETED"}
             THEN Reach(t, "delivered") ELSE UNCHANGED reached
    /\ Put(c, None)
    /\ UNCHANGED <<rec, spec, plan, exec, job, web, faults>>

\* dev_run_status once the executor has left a file: make the pull request, or
\* report the failure, and the chat is free again; when the pull request cannot
\* be made the task stays pending, for the next call to try it again.
StatusOfExec(c) ==
    /\ Said(c)
    /\ rec[c] # None
    /\ LET t == rec[c].task IN
        \/ /\ exec[t] = "COMPLETED"
           /\ Reach(t, "delivered") /\ Put(c, None)
        \/ /\ exec[t] = "COMPLETED"
           /\ UNCHANGED <<reached, daemon>>
        \/ /\ exec[t] \in Ended \ {"COMPLETED"}
           /\ Put(c, None) /\ UNCHANGED reached
    /\ UNCHANGED <<rec, spec, plan, exec, job, web, faults>>

\* dev_run_status before that: error, then questions, then spec, then plan.
StatusOfSpec(c) ==
    /\ Said(c)
    /\ rec[c] # None
    /\ LET t == rec[c].task
           asks == spec[t].kind \in {"open", "mute"} /\ rec[c].round < RoundCap
       IN
        /\ exec[t] = "none" /\ spec[t] # None
        /\ Put(c, IF spec[t].kind = "error" THEN None
                  ELSE IF asks THEN Pending(c, "awaiting_clarify")
                  ELSE IF plan[t] = None
                       THEN Pending(c, "awaiting_spec_approval")
                       ELSE Pending(c, "awaiting_plan_approval"))
    /\ UNCHANGED <<rec, spec, plan, exec, job, web, faults, reached>>

\* dev_answer_gate, "approve" with a plan on file.
ApprovePlanGate(c) ==
    /\ Said(c)
    /\ rec[c] # None
    /\ LET t == rec[c].task IN
        /\ plan[t] # None /\ exec[t] = "none"
        /\ daemon' = [kind |-> "approve", task |-> t,
                      value |-> [plan[t] EXCEPT !.approved = TRUE]]
    /\ UNCHANGED <<rec, spec, plan, exec, job, web, faults, reached>>

\* dev_answer_gate, "approve" without a plan: the spec is what is approved.
ApproveSpecGate(c) ==
    /\ Said(c)
    /\ rec[c] # None
    /\ LET t == rec[c].task IN
        /\ plan[t] = None
        /\ rec[c].phase # "plan_generating"
        /\ \/ /\ spec[t].kind = "error"
              /\ Put(c, None)
              /\ UNCHANGED job
           \/ /\ spec[t].kind = "ready"
              /\ Spawn([kind |-> "plan", task |-> t])
              /\ Put(c, Pending(c, "plan_generating"))
    /\ UNCHANGED <<rec, spec, plan, exec, web, faults, reached>>

\* dev_answer_gate, "reject": whatever runs goes on running.
RejectGate(c) ==
    /\ Said(c)
    /\ rec[c] # None
    /\ Put(c, None)
    /\ UNCHANGED <<rec, spec, plan, exec, job, web, faults, reached>>

\* dev_answer_clarify: the old spec stays on file until the worker ends.
DevAnswerClarify(c) ==
    /\ Said(c)
    /\ rec[c] # None /\ rec[c].phase = "awaiting_clarify"
    /\ Spawn([kind |-> "spec", task |-> rec[c].task,
              answers |-> rec[c].round + 1])
    /\ Put(c, [rec[c] EXCEPT !.phase = "generating", !.round = @ + 1])
    /\ UNCHANGED <<rec, spec, plan, exec, web, faults, reached>>

-----------------------------------------------------------------------------
(* The daemon: second halves, sweeps, crash.                               *)

\* ChatTaskStore.set_pending, update and clear.
WriteRec ==
    /\ daemon.kind = "write"
    /\ rec' = [rec EXCEPT ![daemon.chat] = daemon.value]
    /\ daemon' = None
    /\ UNCHANGED <<spec, plan, exec, job, said, web, faults, reached>>

\* approve_plan wrote back what it had read.
WriteApproval ==
    /\ daemon.kind = "approve"
    /\ plan' = [plan EXCEPT ![daemon.task] = daemon.value]
    /\ Reach(daemon.task, "approved")
    /\ daemon' = [kind |-> "spawn", task |-> daemon.task]
    /\ UNCHANGED <<rec, spec, exec, job, said, web, faults>>

SpawnExec ==
    /\ daemon.kind = "spawn"
    /\ Spawn([kind |-> "exec", task |-> daemon.task])
    /\ daemon' = None
    /\ UNCHANGED <<rec, spec, plan, exec, said, web, faults, reached>>

\* ClarifyWatcher._check.
ClarifySweep(c) ==
    /\ daemon = None
    /\ rec[c] # None
    /\ rec[c].phase # "awaiting_clarify" /\ rec[c].round < RoundCap
    /\ spec[rec[c].task].kind = "open"
    /\ Put(c, Pending(c, "awaiting_clarify"))
    /\ UNCHANGED <<rec, spec, plan, exec, job, said, web, faults, reached>>

\* SpecStatusWatcher._check.
SpecSweep(c) ==
    /\ daemon = None
    /\ rec[c] # None /\ rec[c].phase = "generating"
    /\ \/ /\ spec[rec[c].task].kind = "error"
          /\ Put(c, None)
       \/ /\ spec[rec[c].task].kind = "ready"
          /\ Put(c, Pending(c, "awaiting_spec_approval"))
    /\ UNCHANGED <<rec, spec, plan, exec, job, said, web, faults, reached>>

\* The daemon dies between two of its writes, or in the middle of one, which
\* leaves a file that reads as no file.  It comes up with nothing in hand.
Crash ==
    /\ daemon # None /\ faults < MaxFault
    /\ faults' = faults + 1
    /\ daemon' = None
    /\ \/ UNCHANGED <<rec, plan>>
       \/ /\ daemon.kind = "write" /\ daemon.value # None
          /\ rec' = [rec EXCEPT ![daemon.chat] = None]
          /\ UNCHANGED plan
       \/ /\ daemon.kind = "approve"
          /\ plan' = [plan EXCEPT ![daemon.task] = None]
          /\ UNCHANGED rec
    /\ UNCHANGED <<spec, exec, job, said, web, reached>>

-----------------------------------------------------------------------------
(* Detached processes.                                                     *)

End(j) == job' = [job EXCEPT ![j] = None]

\* run_worker: whatever goes wrong, a file is written at the end.
SpecWorker(j) ==
    /\ job[j].kind = "spec"
    /\ \E r \in Result :
        spec' = [spec EXCEPT ![job[j].task] =
                    [kind |-> r, answers |-> job[j].answers]]
    /\ Reach(job[j].task, "spec")
    /\ End(j)
    /\ UNCHANGED <<rec, plan, exec, daemon, said, web, faults>>

\* run_plan_worker, up to the end of plan_single_task.
PlanWorkerBuilds(j) ==
    /\ job[j].kind = "plan"
    /\ LET t == job[j].task
           new == [kind |-> "plan", approved |-> FALSE, of |-> spec[t]]
       IN
        /\ plan' = [plan EXCEPT ![t] = new]
        /\ job' = [job EXCEPT ![j] =
                     [kind |-> "publish", task |-> t, own |-> new]]
        /\ Reach(t, "plan")
    /\ UNCHANGED <<rec, spec, exec, daemon, said, web, faults>>

\* run_plan_worker after publish_doc: its own copy goes over the file.
PlanWorkerEnds(j) ==
    /\ job[j].kind = "publish"
    /\ plan' = [plan EXCEPT ![job[j].task] = job[j].own]
    /\ End(j)
    /\ UNCHANGED <<rec, spec, exec, daemon, said, web, faults, reached>>

Executable(t) == plan[t] # None /\ plan[t].approved

\* run_executor up to the gate.
ExecutorChecks(j) ==
    /\ job[j].kind = "exec"
    /\ LET t == job[j].task IN
        IF Executable(t)
          THEN /\ job' = [job EXCEPT ![j] = [kind |-> "checked", task |-> t]]
               /\ UNCHANGED exec
          ELSE /\ exec' = [exec EXCEPT ![t] = "error"]
               /\ End(j)
    /\ UNCHANGED <<rec, spec, plan, daemon, said, web, faults, reached>>

\* The checkout of the branch, then the first thing others see of the run.
ExecutorBegins(j) ==
    /\ job[j].kind = "checked"
    /\ LET t == job[j].task IN
        \/ /\ exec' = [exec EXCEPT ![t] = "error"]
           /\ End(j)
           /\ UNCHANGED reached
        \/ /\ exec' = [exec EXCEPT ![t] = "running"]
           /\ job' = [job EXCEPT ![j] = [kind |-> "running", task |-> t]]
           /\ Reach(t, "run")
    /\ UNCHANGED <<rec, spec, plan, daemon, said, web, faults>>

\* The run row, the graph's artifact, run_execution and the push.
ExecutorEnds(j) ==
    /\ job[j].kind = "running"
    /\ \E r \in {"error"} \union Ended :
        /\ exec' = [exec EXCEPT ![job[j].task] = r]
        /\ IF r = "COMPLETED" THEN Reach(job[j].task, "completed")
                              ELSE UNCHANGED reached
    /\ End(j)
    /\ UNCHANGED <<rec, spec, plan, daemon, said, web, faults>>

\* A process is killed: what it would have written never comes.
JobDies(j) ==
    /\ job[j] # None /\ faults < MaxFault
    /\ faults' = faults + 1
    /\ End(j)
    /\ UNCHANGED <<rec, spec, plan, exec, daemon, said, web, reached>>

-----------------------------------------------------------------------------
(* The web UI on the same files.                                           *)

Asked == web < MaxWeb /\ web' = web + 1

\* /spec-task with a repository: the file is there before the worker is.
WebSpecTask(t) ==
    /\ Asked
    /\ t \in NewTasks
    /\ spec' = [spec EXCEPT ![t] = [kind |-> "running", answers |-> 0]]
    /\ Spawn([kind |-> "spec", task |-> t, answers |-> 0])
    /\ UNCHANGED <<rec, plan, exec, daemon, faults, reached, said>>

\* The form of /task-spec: the facets are saved (the clarify block stays as
\* the worker left it) and the plan is built again, not approved.
WebSaveSpec(t) ==
    /\ Asked
    /\ spec[t].kind \in Result   \* there is a form once a worker has ended
    /\ plan' = [plan EXCEPT ![t] =
                  [kind |-> "plan", approved |-> FALSE, of |-> spec[t]]]
    /\ Reach(t, "plan")
    /\ UNCHANGED <<rec, spec, exec, job, daemon, said, faults>>

\* /task-plan: approve, and spawn unless an executor is known of.
WebApprovePlan(t) ==
    /\ Asked
    /\ plan[t] # None
    /\ plan' = [plan EXCEPT ![t].approved = TRUE]
    /\ Reach(t, "approved")
    /\ IF exec[t] \in {"none", "error"}
         THEN Spawn([kind |-> "exec", task |-> t])
         ELSE UNCHANGED job
    /\ UNCHANGED <<rec, spec, exec, daemon, said, faults>>

\* /task-exec, accept.
WebAccept(t) ==
    /\ Asked
    /\ exec[t] = "COMPLETED"
    /\ Reach(t, "delivered")
    /\ UNCHANGED <<rec, spec, plan, exec, job, daemon, said, faults>>

-----------------------------------------------------------------------------
Tool(c) == \/ DevTaskStart(c) \/ StatusOfExec(c) \/ StatusOfSpec(c)
           \/ ApprovePlanGate(c) \/ ApproveSpecGate(c) \/ RejectGate(c)
           \/ DevAnswerClarify(c)

Work(j) == \/ SpecWorker(j) \/ PlanWorkerBuilds(j) \/ PlanWorkerEnds(j)
           \/ ExecutorChecks(j) \/ ExecutorBegins(j) \/ ExecutorEnds(j)

Sweep(c) == ClarifySweep(c) \/ SpecSweep(c)

TaskNext ==
    \/ \E c \in Chat : Tool(c) \/ Sweep(c)
    \/ WriteRec \/ WriteApproval \/ SpawnExec \/ Crash
    \/ \E j \in Job : Work(j) \/ JobDies(j)
    \/ \E t \in Task : \/ WebSpecTask(t) \/ WebSaveSpec(t)
                       \/ WebApprovePlan(t) \/ WebAccept(t)

TaskSpec == TaskInit /\ [][TaskNext]_taskVars

-----------------------------------------------------------------------------
(* Properties.                                                             *)

\* The single-task flow, with its daemon, its workers and the web UI on the
\* same files, keeps to the stages: nothing runs that nobody approved, and no
\* pull request is made of work that did not complete.
Stages == INSTANCE TaskStages
ImplementsStages == Stages!Spec
=============================================================================
