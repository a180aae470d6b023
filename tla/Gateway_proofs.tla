--------------------------- MODULE Gateway_proofs ---------------------------
(***************************************************************************)
(* The chat gateway, for any number of chats, tasks, processes and runs    *)
(* and without the bounds of the runs.  First the single-task flow of      *)
(* ChatTask: it implements TaskStages, because what the files, the         *)
(* processes and the daemon's next write say of a task has been reached    *)
(* before.  Then the flow and the new-project flow together, on the same   *)
(* daemon: links and their index agree, and a message is not sent twice.   *)
(***************************************************************************)
EXTENDS Gateway, TLAPS

\* A spec that ended, a plan, its approval and a completed execution.
FilesReached ==
    \A t \in Task :
        /\ spec[t].kind \in Result => "spec" \in reached[t]
        /\ plan[t] # None => "plan" \in reached[t]
        /\ plan[t] # None /\ plan[t].approved => "approved" \in reached[t]
        /\ exec[t] = "COMPLETED" => "completed" \in reached[t]

\* The stage each kind of process rests on.
JobsReached ==
    \A j \in Job :
        /\ job[j].kind = "plan" => "spec" \in reached[job[j].task]
        /\ job[j].kind = "publish" => /\ job[j].own # None
                                      /\ job[j].own.approved = FALSE
                                      /\ "plan" \in reached[job[j].task]
        /\ job[j].kind = "checked" => "approved" \in reached[job[j].task]
        /\ job[j].kind = "running" => "run" \in reached[job[j].task]

\* What the daemon read before an approval.
ApprovalReached ==
    daemon.kind = "approve" => "plan" \in reached[daemon.task]

\* Questions are asked as long as a round is left, of the record and of what
\* is about to be written over it.
Askable(r) == r # None /\ r.phase = "awaiting_clarify" => r.round < RoundCap
RoundsLeft ==
    /\ \A c \in Chat : Askable(rec[c])
    /\ daemon.kind = "write" => Askable(daemon.value)

\* The daemon is in the middle of a step of the flow, or of a project's.
HandOK == daemon \in Daemons \/ daemon.kind \in {"link", "mark"}

Inv == /\ TaskTypeOK /\ HandOK
       /\ FilesReached /\ JobsReached /\ ApprovalReached /\ RoundsLeft

-----------------------------------------------------------------------------
(* The invariant: one lemma for each action.                               *)

LEMMA InitInv == TaskInit => Inv
BY BoundsAssumption
DEF TaskInit, Inv, TaskTypeOK, FilesReached, JobsReached, ApprovalReached,
    RoundsLeft, Askable, Recs, Specs, Plans, Jobs, HandOK, Daemons, None,
    Result

\* An approval changes nothing else of a plan.
LEMMA Approved ==
    ASSUME NEW p \in Plans, p # None
    PROVE  /\ [p EXCEPT !.approved = TRUE] \in Plans
           /\ [p EXCEPT !.approved = TRUE] # None
BY DEF Plans, None

\* A process takes a free slot.
LEMMA Spawned ==
    ASSUME job \in [Job -> Jobs], NEW w \in Jobs, Spawn(w)
    PROVE  /\ job' \in [Job -> Jobs]
           /\ \A j \in Job : job'[j] \in {job[j], w}
BY DEF Spawn

LEMMA StartInv == ASSUME Inv, NEW c \in Chat, DevTaskStart(c) PROVE Inv'
BY BoundsAssumption
DEF DevTaskStart, Said, Put, Spawn, NewTasks, Inv, TaskTypeOK, FilesReached,
    JobsReached, ApprovalReached, RoundsLeft, Askable, Recs, Specs, Plans,
    Jobs, HandOK, Daemons, None, Result,
    RoundCap, Phase

LEMMA StatusOfExecInv ==
    ASSUME Inv, NEW c \in Chat, StatusOfExec(c)
    PROVE  Inv'
<1>1. TaskTypeOK'
  BY BoundsAssumption
  DEF StatusOfExec, Said, Put, Reach, Ended, Stage, Inv, TaskTypeOK,
      FilesReached, JobsReached, ApprovalReached, HandOK, Daemons, Jobs, Recs,
      Plans, Specs, None, Result,
    RoundCap, Phase
<1>2. HandOK'
  BY SMT
  DEF StatusOfExec, Said, Put, Reach, Ended, Stage, Inv, TaskTypeOK,
      RoundsLeft, Askable, HandOK, Daemons, Recs, Plans, None, Result,
      RoundCap, Phase
<1>3. FilesReached'
  BY SMT
  DEF StatusOfExec, Said, Put, Reach, Ended, Stage, Inv, TaskTypeOK,
      FilesReached, JobsReached, Plans, Recs, Jobs, None, Result
<1>4. JobsReached'
  BY SMT
  DEF StatusOfExec, Said, Put, Reach, Ended, Stage, Inv, TaskTypeOK,
      FilesReached, JobsReached, Jobs, Plans, Recs, None, Result
<1>5. ApprovalReached'
  BY SMT
  DEF StatusOfExec, Said, Put, Reach, Ended, Stage, Inv, TaskTypeOK,
      FilesReached, ApprovalReached, JobsReached, Recs, HandOK, Daemons, None
<1>6. RoundsLeft'
  BY SMT
  DEF StatusOfExec, Said, Put, Reach, Ended, Stage, Inv, TaskTypeOK,
      RoundsLeft, Askable, Recs, HandOK, Daemons, None, RoundCap, Phase
<1>7. QED
  BY <1>1, <1>2, <1>3, <1>4, <1>5, <1>6 DEF Inv

LEMMA StatusOfSpecInv ==
    ASSUME Inv, NEW c \in Chat, StatusOfSpec(c)
    PROVE  Inv'
BY BoundsAssumption
DEF StatusOfSpec, Said, Put, Pending, Inv, TaskTypeOK, FilesReached,
    JobsReached, ApprovalReached, RoundsLeft, Askable, Recs, Specs, Plans,
    Jobs, HandOK, Daemons, None, Result,
    RoundCap, Phase

LEMMA ApprovePlanInv ==
    ASSUME Inv, NEW c \in Chat, ApprovePlanGate(c)
    PROVE  Inv'
<1>1. TaskTypeOK'
  BY Approved, BoundsAssumption
  DEF ApprovePlanGate, Said, Inv, TaskTypeOK, FilesReached, JobsReached,
      ApprovalReached, HandOK, Daemons, Jobs, Recs, Plans, Specs, None, Result,
      RoundCap, Phase
<1>2. HandOK'
  BY Approved, SMT
  DEF ApprovePlanGate, Said, Inv, TaskTypeOK, RoundsLeft, Askable, HandOK,
      Daemons, Recs, Plans, None, Result, RoundCap, Phase
<1>3. FilesReached'
  BY Approved, SMT
  DEF ApprovePlanGate, Said, Inv, TaskTypeOK, FilesReached, JobsReached,
      Plans, Recs, Jobs, None, Result
<1>4. JobsReached'
  BY Approved, SMT
  DEF ApprovePlanGate, Said, Inv, TaskTypeOK, FilesReached, JobsReached,
      Jobs, Plans, Recs, None, Result
<1>5. ApprovalReached'
  BY Approved, SMT
  DEF ApprovePlanGate, Said, Inv, TaskTypeOK, FilesReached, ApprovalReached,
      JobsReached, Recs, HandOK, Daemons, None
<1>6. RoundsLeft'
  BY Approved, SMT
  DEF ApprovePlanGate, Said, Inv, TaskTypeOK, RoundsLeft, Askable, Recs,
      HandOK, Daemons, None, RoundCap, Phase
<1>7. QED
  BY <1>1, <1>2, <1>3, <1>4, <1>5, <1>6 DEF Inv

LEMMA ApproveSpecInv ==
    ASSUME Inv, NEW c \in Chat, ApproveSpecGate(c)
    PROVE  Inv'
<1> DEFINE t   == rec[c].task
           new == [rec[c] EXCEPT !.phase = "plan_generating"]
           w   == [kind |-> "plan", task |-> t]
<1>1. /\ rec[c] \in Recs /\ rec[c] # None /\ t \in Task
  BY DEF ApproveSpecGate, Said, Inv, TaskTypeOK, Recs, None
<1>2. /\ new \in Recs /\ new # None /\ new.phase = "plan_generating"
      /\ w \in Jobs /\ w.kind = "plan" /\ w.task = t
  BY <1>1 DEF Recs, Jobs, None, Phase
<1>3. CASE spec[t].kind = "error" /\ Put(c, None) /\ UNCHANGED job
  BY <1>1, <1>3, BoundsAssumption
  DEF ApproveSpecGate, Said, Put, Inv, TaskTypeOK, FilesReached, JobsReached,
      ApprovalReached, RoundsLeft, Askable, Recs, HandOK, Daemons, None
<1>4. CASE spec[t].kind = "ready" /\ Spawn(w) /\ Put(c, new)
  <2>1. /\ job' \in [Job -> Jobs] /\ \A j \in Job : job'[j] \in {job[j], w}
    BY <1>2, <1>4, Spawned DEF Inv, TaskTypeOK
  <2>2. daemon' = [kind |-> "write", chat |-> c, value |-> new]
    BY <1>4 DEF Put
  <2>3. "spec" \in reached[t]
    BY <1>1, <1>4 DEF Inv, FilesReached, Result
  <2> HIDE DEF new, w, t
  <2>4. TaskTypeOK'
    BY <2>1, BoundsAssumption DEF ApproveSpecGate, Said, Inv, TaskTypeOK
  <2>5. HandOK'
    BY <1>2, <2>2 DEF HandOK, Daemons
  <2>6. FilesReached'
    BY DEF ApproveSpecGate, Inv, FilesReached
  <2>7. JobsReached'
    BY <1>2, <2>1, <2>3 DEF ApproveSpecGate, Inv, JobsReached
  <2>8. ApprovalReached' /\ RoundsLeft'
    BY <1>2, <2>2
    DEF ApproveSpecGate, Inv, ApprovalReached, RoundsLeft, Askable
  <2>9. QED
    BY <2>4, <2>5, <2>6, <2>7, <2>8 DEF Inv
<1>5. QED
  BY <1>3, <1>4 DEF ApproveSpecGate, Pending

LEMMA RejectInv == ASSUME Inv, NEW c \in Chat, RejectGate(c) PROVE Inv'
BY BoundsAssumption
DEF RejectGate, Said, Put, Inv, TaskTypeOK, FilesReached, JobsReached,
    ApprovalReached, RoundsLeft, Askable, Recs, Specs, Plans, Jobs, HandOK,
    Daemons, None, Result, RoundCap, Phase

LEMMA ClarifyInv == ASSUME Inv, NEW c \in Chat, DevAnswerClarify(c) PROVE Inv'
<1> DEFINE new == [rec[c] EXCEPT !.phase = "generating", !.round = @ + 1]
           w   == [kind |-> "spec", task |-> rec[c].task,
                   answers |-> rec[c].round + 1]
<1>1. /\ rec[c] \in Recs /\ rec[c] # None /\ rec[c].round < RoundCap
  BY DEF DevAnswerClarify, Said, Inv, TaskTypeOK, RoundsLeft, Askable
<1>2. /\ new \in Recs /\ new # None /\ new.phase = "generating"
      /\ w \in Jobs /\ w.kind = "spec"
  <2>1. /\ rec[c] \in [kind : {"rec"}, task : Task, phase : Phase,
                       round : 0..RoundCap]
        /\ rec[c].task \in Task /\ rec[c].round + 1 \in 0..RoundCap
    BY <1>1 DEF Recs, None, RoundCap
  <2>2. /\ new \in [kind : {"rec"}, task : Task, phase : Phase,
                    round : 0..RoundCap]
        /\ new.phase = "generating" /\ new.kind = "rec"
    BY <2>1 DEF Phase
  <2>3. new \in Recs /\ new # None /\ new.phase = "generating"
    BY <2>2 DEF Recs, None
  <2>4. w \in Jobs /\ w.kind = "spec"
    BY <2>1 DEF Jobs
  <2>5. QED
    BY <2>3, <2>4
<1>3. /\ job' \in [Job -> Jobs] /\ \A j \in Job : job'[j] \in {job[j], w}
  BY <1>2, Spawned DEF DevAnswerClarify, Inv, TaskTypeOK
<1>4. daemon' = [kind |-> "write", chat |-> c, value |-> new]
  BY DEF DevAnswerClarify, Put
<1> HIDE DEF new, w
<1>5. TaskTypeOK'
  BY <1>3, BoundsAssumption DEF DevAnswerClarify, Said, Inv, TaskTypeOK
<1>6. HandOK'
  BY <1>2, <1>4 DEF HandOK, Daemons
<1>7. FilesReached'
  BY DEF DevAnswerClarify, Inv, FilesReached
<1>8. JobsReached'
  BY <1>2, <1>3 DEF DevAnswerClarify, Inv, JobsReached
<1>9. ApprovalReached' /\ RoundsLeft'
  BY <1>2, <1>4
  DEF DevAnswerClarify, Inv, ApprovalReached, RoundsLeft, Askable
<1>10. QED
  BY <1>5, <1>6, <1>7, <1>8, <1>9 DEF Inv

LEMMA ClarifySweepInv ==
    ASSUME Inv, NEW c \in Chat, ClarifySweep(c)
    PROVE  Inv'
BY BoundsAssumption
DEF ClarifySweep, Put, Pending, Inv, TaskTypeOK, FilesReached, JobsReached,
    ApprovalReached, RoundsLeft, Askable, Recs, Specs, Plans, Jobs, HandOK,
    Daemons, None, Result, RoundCap, Phase

LEMMA SpecSweepInv == ASSUME Inv, NEW c \in Chat, SpecSweep(c) PROVE Inv'
BY BoundsAssumption
DEF SpecSweep, Put, Pending, Inv, TaskTypeOK, FilesReached, JobsReached,
    ApprovalReached, RoundsLeft, Askable, Recs, Specs, Plans, Jobs, HandOK,
    Daemons, None, Result, RoundCap, Phase

LEMMA WriteRecInv == ASSUME Inv, WriteRec PROVE Inv'
BY BoundsAssumption
DEF WriteRec, Inv, TaskTypeOK, FilesReached, JobsReached, ApprovalReached,
    RoundsLeft, Askable, Recs, Specs, Plans, Jobs, HandOK, Daemons, None,
    Result, RoundCap, Phase

LEMMA WriteApprovalInv == ASSUME Inv, WriteApproval PROVE Inv'
BY BoundsAssumption
DEF WriteApproval, Reach, Stage, Inv, TaskTypeOK, FilesReached, JobsReached,
    ApprovalReached, RoundsLeft, Askable, Recs, Specs, Plans, Jobs, HandOK,
    Daemons, None, Result, RoundCap, Phase

LEMMA SpawnExecInv == ASSUME Inv, SpawnExec PROVE Inv'
BY BoundsAssumption
DEF SpawnExec, Spawn, Inv, TaskTypeOK, FilesReached, JobsReached,
    ApprovalReached, RoundsLeft, Askable, Recs, Specs, Plans, Jobs, HandOK,
    Daemons, None, Result, RoundCap, Phase

LEMMA CrashInv == ASSUME Inv, Crash PROVE Inv'
BY BoundsAssumption
DEF Crash, Inv, TaskTypeOK, FilesReached, JobsReached, ApprovalReached,
    RoundsLeft, Askable, Recs, Specs, Plans, Jobs, HandOK, Daemons, None,
    Result, RoundCap, Phase

LEMMA SpecWorkerInv == ASSUME Inv, NEW j \in Job, SpecWorker(j) PROVE Inv'
BY BoundsAssumption
DEF SpecWorker, Reach, End, Stage, Inv, TaskTypeOK, FilesReached,
    JobsReached, ApprovalReached, RoundsLeft, Askable, Recs, Specs, Plans,
    Jobs, HandOK, Daemons, None, Result,
    RoundCap, Phase

LEMMA PlanBuildsInv ==
    ASSUME Inv, NEW j \in Job, PlanWorkerBuilds(j)
    PROVE  Inv'
BY BoundsAssumption
DEF PlanWorkerBuilds, Reach, Stage, Inv, TaskTypeOK, FilesReached,
    JobsReached, ApprovalReached, RoundsLeft, Askable, Recs, Specs, Plans,
    Jobs, HandOK, Daemons, None, Result,
    RoundCap, Phase

LEMMA PlanEndsInv == ASSUME Inv, NEW j \in Job, PlanWorkerEnds(j) PROVE Inv'
BY BoundsAssumption
DEF PlanWorkerEnds, End, Inv, TaskTypeOK, FilesReached, JobsReached,
    ApprovalReached, RoundsLeft, Askable, Recs, Specs, Plans, Jobs, HandOK,
    Daemons, None, Result, RoundCap, Phase

LEMMA ChecksInv == ASSUME Inv, NEW j \in Job, ExecutorChecks(j) PROVE Inv'
BY BoundsAssumption
DEF ExecutorChecks, Executable, End, Inv, TaskTypeOK, FilesReached,
    JobsReached, ApprovalReached, RoundsLeft, Askable, Recs, Specs, Plans,
    Jobs, HandOK, Daemons, None, Result,
    RoundCap, Phase

LEMMA BeginsInv == ASSUME Inv, NEW j \in Job, ExecutorBegins(j) PROVE Inv'
<1>1. TaskTypeOK'
  BY BoundsAssumption
  DEF ExecutorBegins, Reach, End, Stage, Inv, TaskTypeOK, FilesReached,
      JobsReached, ApprovalReached, HandOK, Daemons, Jobs, Recs, Plans, Specs,
      None, Result, RoundCap, Phase
<1>2. HandOK'
  BY SMT
  DEF ExecutorBegins, Reach, End, Stage, Inv, TaskTypeOK, RoundsLeft,
      Askable, HandOK, Daemons, Recs, Plans, None, Result,
    RoundCap, Phase
<1>3. FilesReached'
  BY SMT
  DEF ExecutorBegins, Reach, End, Stage, Inv, TaskTypeOK, FilesReached,
      JobsReached, Plans, Recs, Jobs, None, Result
<1>4. JobsReached'
  BY SMT
  DEF ExecutorBegins, Reach, End, Stage, Inv, TaskTypeOK, FilesReached,
      JobsReached, Jobs, Plans, Recs, None, Result
<1>5. ApprovalReached'
  BY SMT
  DEF ExecutorBegins, Reach, End, Stage, Inv, TaskTypeOK, FilesReached,
      ApprovalReached, JobsReached, Recs, HandOK, Daemons, None
<1>6. RoundsLeft'
  BY SMT
  DEF ExecutorBegins, Reach, End, Stage, Inv, TaskTypeOK, RoundsLeft,
      Askable, Recs, HandOK, Daemons, None, RoundCap, Phase
<1>7. QED
  BY <1>1, <1>2, <1>3, <1>4, <1>5, <1>6 DEF Inv

LEMMA EndsInv == ASSUME Inv, NEW j \in Job, ExecutorEnds(j) PROVE Inv'
BY BoundsAssumption
DEF ExecutorEnds, Reach, End, Ended, Stage, Inv, TaskTypeOK, FilesReached,
    JobsReached, ApprovalReached, RoundsLeft, Askable, Recs, Specs, Plans,
    Jobs, HandOK, Daemons, None, Result,
    RoundCap, Phase

LEMMA DiesInv == ASSUME Inv, NEW j \in Job, JobDies(j) PROVE Inv'
BY BoundsAssumption
DEF JobDies, End, Inv, TaskTypeOK, FilesReached, JobsReached, ApprovalReached,
    RoundsLeft, Askable, Recs, Specs, Plans, Jobs, HandOK, Daemons, None,
    Result, RoundCap, Phase

LEMMA WebSpecInv == ASSUME Inv, NEW t \in Task, WebSpecTask(t) PROVE Inv'
BY BoundsAssumption
DEF WebSpecTask, Asked, Spawn, NewTasks, Inv, TaskTypeOK, FilesReached,
    JobsReached, ApprovalReached, RoundsLeft, Askable, Recs, Specs, Plans,
    Jobs, HandOK, Daemons, None, Result,
    RoundCap, Phase

LEMMA WebSaveInv == ASSUME Inv, NEW t \in Task, WebSaveSpec(t) PROVE Inv'
BY BoundsAssumption
DEF WebSaveSpec, Asked, Reach, Stage, Inv, TaskTypeOK, FilesReached,
    JobsReached, ApprovalReached, RoundsLeft, Askable, Recs, Specs, Plans,
    Jobs, HandOK, Daemons, None, Result,
    RoundCap, Phase

LEMMA WebApproveInv ==
    ASSUME Inv, NEW t \in Task, WebApprovePlan(t)
    PROVE  Inv'
<1> DEFINE w == [kind |-> "exec", task |-> t]
<1>1. w \in Jobs /\ w.kind = "exec"
  BY DEF Jobs
<1>2. /\ job' \in [Job -> Jobs]
      /\ \A j \in Job : job'[j] \in {job[j], w}
  BY <1>1, Spawned DEF WebApprovePlan, Inv, TaskTypeOK
<1>3. /\ plan' = [plan EXCEPT ![t] = [plan[t] EXCEPT !.approved = TRUE]]
      /\ plan' \in [Task -> Plans] /\ plan[t] # None
  BY Approved DEF WebApprovePlan, Inv, TaskTypeOK
<1>4. /\ reached' = [reached EXCEPT ![t] = @ \union {"approved"}]
      /\ reached' \in [Task -> SUBSET Stage]
  BY DEF WebApprovePlan, Reach, Inv, TaskTypeOK, Stage
<1>5. TaskTypeOK'
  BY <1>2, <1>3, <1>4, BoundsAssumption
  DEF WebApprovePlan, Asked, Inv, TaskTypeOK
<1>6. FilesReached'
  BY <1>3, <1>4 DEF WebApprovePlan, Inv, TaskTypeOK, FilesReached
<1> HIDE DEF w
<1>7. JobsReached'
  BY <1>1, <1>2, <1>4 DEF WebApprovePlan, Inv, TaskTypeOK, JobsReached, Jobs
<1>8. HandOK' /\ ApprovalReached' /\ RoundsLeft'
  BY <1>4
  DEF WebApprovePlan, Inv, TaskTypeOK, ApprovalReached, RoundsLeft, HandOK,
      Daemons
<1>9. QED
  BY <1>5, <1>6, <1>7, <1>8 DEF Inv

LEMMA WebAcceptInv == ASSUME Inv, NEW t \in Task, WebAccept(t) PROVE Inv'
BY BoundsAssumption
DEF WebAccept, Asked, Reach, Stage, Inv, TaskTypeOK, FilesReached,
    JobsReached, ApprovalReached, RoundsLeft, Askable, Recs, Specs, Plans,
    Jobs, HandOK, Daemons, None, Result,
    RoundCap, Phase

LEMMA StutterInv == ASSUME Inv, UNCHANGED taskVars PROVE Inv'
BY BoundsAssumption
DEF taskVars, Inv, TaskTypeOK, FilesReached, JobsReached, ApprovalReached,
    RoundsLeft, Askable, Recs, Specs, Plans, Jobs, HandOK, Daemons, None,
    Result, RoundCap, Phase

LEMMA NextInv == ASSUME Inv, [TaskNext]_taskVars PROVE Inv'
<1>1. CASE UNCHANGED taskVars
  BY <1>1, StutterInv
<1>2. CASE \E c \in Chat : Tool(c) \/ Sweep(c)
  BY <1>2, StartInv, StatusOfExecInv, StatusOfSpecInv, ApprovePlanInv,
     ApproveSpecInv, RejectInv, ClarifyInv, ClarifySweepInv, SpecSweepInv
  DEF Tool, Sweep
<1>3. CASE WriteRec \/ WriteApproval \/ SpawnExec \/ Crash
  BY <1>3, WriteRecInv, WriteApprovalInv, SpawnExecInv, CrashInv
<1>4. CASE \E j \in Job : Work(j) \/ JobDies(j)
  BY <1>4, SpecWorkerInv, PlanBuildsInv, PlanEndsInv, ChecksInv, BeginsInv,
     EndsInv, DiesInv DEF Work
<1>5. CASE \E t \in Task : \/ WebSpecTask(t) \/ WebSaveSpec(t)
                           \/ WebApprovePlan(t) \/ WebAccept(t)
  BY <1>5, WebSpecInv, WebSaveInv, WebApproveInv, WebAcceptInv
<1>6. QED
  BY <1>1, <1>2, <1>3, <1>4, <1>5 DEF TaskNext

\* Files, processes and records are well typed, and nothing is on file of a
\* stage that was not reached.
THEOREM FlowInvariance == TaskSpec => []Inv
<1>1. TaskInit => Inv
  BY InitInv
<1>2. Inv /\ [TaskNext]_taskVars => Inv'
  BY NextInv
<1>3. QED
  BY <1>1, <1>2, PTL DEF TaskSpec

\* The flow's files, records and processes are well typed (TaskTypeOK, which
\* is part of what the run of Gateway checks).
THEOREM FlowTypeCorrect == TaskSpec => []TaskTypeOK
<1>1. Inv => TaskTypeOK
  BY DEF Inv
<1>2. QED
  BY <1>1, FlowInvariance, PTL

-----------------------------------------------------------------------------
(* The refinement: what an action reaches, it reaches in order.            *)

LEMMA InOrder ==
    ASSUME Inv, NEW t \in Task, NEW s \in Stage, Reach(t, s),
           Requires[s] \subseteq reached[t]
    PROVE  [Stages!Next]_reached
<1>1. CASE s \in reached[t]
  BY <1>1 DEF Reach, Inv, TaskTypeOK
<1>2. CASE s \notin reached[t]
  BY <1>2 DEF Reach, Stages!Next, Stages!Advance
<1>3. QED
  BY <1>1, <1>2

LEMMA Refines == ASSUME Inv, [TaskNext]_taskVars PROVE [Stages!Next]_reached
<1> USE DEF Stage, Requires
<1>1. ASSUME NEW c \in Chat, StatusOfExec(c) PROVE [Stages!Next]_reached
  <2>1. rec[c].task \in Task
    BY <1>1 DEF StatusOfExec, Inv, TaskTypeOK, Recs, None
  <2>2. QED
    BY <1>1, <2>1, InOrder DEF StatusOfExec, Inv, FilesReached
<1>2. ASSUME WriteApproval PROVE [Stages!Next]_reached
  <2>1. daemon.task \in Task /\ "plan" \in reached[daemon.task]
    BY <1>2 DEF WriteApproval, Inv, ApprovalReached, HandOK, Daemons, None
  <2>2. QED
    BY <1>2, <2>1, InOrder DEF WriteApproval
<1>3. ASSUME NEW j \in Job, SpecWorker(j) \/ PlanWorkerBuilds(j)
                             \/ ExecutorBegins(j) \/ ExecutorEnds(j)
      PROVE  [Stages!Next]_reached
  <2>1. job[j].task \in Task
    BY <1>3 DEF SpecWorker, PlanWorkerBuilds, ExecutorBegins, ExecutorEnds,
                Inv, TaskTypeOK, Jobs, None
  <2>2. CASE SpecWorker(j)
    BY <2>1, <2>2, InOrder DEF SpecWorker
  <2>3. CASE PlanWorkerBuilds(j)
    BY <2>1, <2>3, InOrder DEF PlanWorkerBuilds, Inv, JobsReached
  <2>4. CASE ExecutorBegins(j)
    BY <2>1, <2>4, InOrder DEF ExecutorBegins, Inv, JobsReached
  <2>5. CASE ExecutorEnds(j)
    BY <2>1, <2>5, InOrder DEF ExecutorEnds, Inv, JobsReached
  <2>6. QED
    BY <1>3, <2>2, <2>3, <2>4, <2>5
<1>4. ASSUME NEW t \in Task,
             WebSaveSpec(t) \/ WebApprovePlan(t) \/ WebAccept(t)
      PROVE  [Stages!Next]_reached
  BY <1>4, InOrder
  DEF WebSaveSpec, WebApprovePlan, WebAccept, Inv, FilesReached
<1>5. CASE \E c \in Chat : Tool(c) \/ Sweep(c)
  BY <1>5, <1>1
  DEF Tool, Sweep, DevTaskStart, StatusOfSpec, ApprovePlanGate,
      ApproveSpecGate, RejectGate, DevAnswerClarify, ClarifySweep, SpecSweep
<1>6. CASE WriteRec \/ WriteApproval \/ SpawnExec \/ Crash
  BY <1>6, <1>2 DEF WriteRec, SpawnExec, Crash
<1>7. CASE \E j \in Job : Work(j) \/ JobDies(j)
  BY <1>7, <1>3 DEF Work, PlanWorkerEnds, ExecutorChecks, JobDies
<1>8. CASE \E t \in Task : \/ WebSpecTask(t) \/ WebSaveSpec(t)
                           \/ WebApprovePlan(t) \/ WebAccept(t)
  BY <1>8, <1>4 DEF WebSpecTask
<1>9. QED
  BY <1>5, <1>6, <1>7, <1>8 DEF TaskNext, taskVars

\* Whatever the chats, the web UI and the processes do to the files in which
\* order, with any crashes: nothing runs that nobody approved, and no pull
\* request is made of work that did not complete.
THEOREM FlowImplementsStages == TaskSpec => ImplementsStages
<1>1. TaskInit => Stages!Init
  BY DEF TaskInit, Stages!Init
<1>2. Inv /\ [TaskNext]_taskVars => [Stages!Next]_reached
  BY Refines
<1>3. QED
  BY <1>1, <1>2, FlowInvariance, PTL DEF TaskSpec, ImplementsStages, Stages!Spec

-----------------------------------------------------------------------------
(***************************************************************************)
(* The gateway: the flow above beside the new-project flow, which uses the *)
(* same daemon.  AnnouncedOnce is not inductive: between the message and   *)
(* the note of it nothing is noted, and what keeps a second message from   *)
(* going out is that the daemon is in the middle of that note.             *)
(***************************************************************************)

RunDaemons == [kind : {"link"}, chat : Chat]
              \union [kind : {"mark"}, run : Run, status : Announced]

\* r's status s is noted, or the daemon is about to note it.
Told(r, s) ==
    <<r, s>> \in notified \/ daemon = [kind |-> "mark", run |-> r, status |-> s]

RunTypeOK ==
    /\ daemon \in Daemons \union RunDaemons
    /\ run \in [Run -> RunStatus] /\ newest \in {None} \union Run
    /\ resumes \subseteq Run \X {"approve", "reject"}
    /\ waiting \in {None} \union Chat
    /\ notified \subseteq Run \X Announced
    /\ moves \in 0..MaxMove

\* A start process was asked for by a tool call.
StartsSaid == starts \in Nat /\ starts <= said

\* The index of the links and the links.
LinksListed ==
    /\ link \in [Run -> {None} \union Chat]
    /\ links \in Seq(Run)
    /\ {links[i] : i \in DOMAIN links} = {r \in Run : link[r] # None}

\* Messages without a note of them were each followed by a crash.
PushesNoted ==
    /\ pushes \in [Run \X Announced -> Nat]
    /\ \A r \in Run, s \in Announced :
          \/ pushes[<<r, s>>] <= faults
          \/ Told(r, s) /\ pushes[<<r, s>>] <= 1 + faults

GatewayInv == Inv /\ RunTypeOK /\ StartsSaid /\ LinksListed /\ PushesNoted

-----------------------------------------------------------------------------
(* What a step of the flow does to what the gateway shares with it.        *)

Foreign(d) == d.kind \in {"link", "mark"}

TaskFrame ==
    /\ said' \in {said, said + 1} /\ faults' \in {faults, faults + 1}
    /\ \/ daemon' = daemon
       \/ /\ ~Foreign(daemon')
          /\ ~Foreign(daemon) \/ faults' = faults + 1

\* A tool or a sweep finds the daemon free and leaves it a step of the flow.
LEMMA PutFrame == ASSUME NEW c, NEW v, Put(c, v) PROVE ~Foreign(daemon')
BY DEF Put, Foreign

LEMMA ToolFrame == ASSUME NEW c \in Chat, Tool(c) \/ Sweep(c) PROVE TaskFrame
<1> USE PutFrame
<1>1. daemon = None => ~Foreign(daemon)
  BY DEF None, Foreign
<1>2. CASE DevTaskStart(c) \/ RejectGate(c) \/ DevAnswerClarify(c)
  BY <1>1, <1>2
  DEF DevTaskStart, RejectGate, DevAnswerClarify, Said, TaskFrame
<1>3. CASE StatusOfExec(c) \/ StatusOfSpec(c)
  BY <1>1, <1>3 DEF StatusOfExec, StatusOfSpec, Said, TaskFrame
<1>4. CASE ApproveSpecGate(c)
  BY <1>1, <1>4 DEF ApproveSpecGate, Said, TaskFrame
<1>5. CASE ApprovePlanGate(c)
  <2>1. daemon'.kind = "approve"
    BY <1>5 DEF ApprovePlanGate
  <2>2. QED
    BY <1>1, <1>5, <2>1 DEF ApprovePlanGate, Said, TaskFrame, Foreign
<1>6. CASE Sweep(c)
  BY <1>1, <1>6 DEF Sweep, ClarifySweep, SpecSweep, TaskFrame
<1>7. QED
  BY <1>2, <1>3, <1>4, <1>5, <1>6 DEF Tool

LEMMA DaemonFrame ==
    ASSUME WriteRec \/ WriteApproval \/ SpawnExec \/ Crash
    PROVE  TaskFrame
BY DEF WriteRec, WriteApproval, SpawnExec, Crash, None, TaskFrame, Foreign

LEMMA JobFrame == ASSUME NEW j \in Job, Work(j) \/ JobDies(j) PROVE TaskFrame
BY DEF Work, SpecWorker, PlanWorkerBuilds, PlanWorkerEnds, ExecutorChecks,
       ExecutorBegins, ExecutorEnds, JobDies, TaskFrame

LEMMA WebFrame ==
    ASSUME NEW t \in Task, \/ WebSpecTask(t) \/ WebSaveSpec(t)
                           \/ WebApprovePlan(t) \/ WebAccept(t)
    PROVE  TaskFrame
BY DEF WebSpecTask, WebSaveSpec, WebApprovePlan, WebAccept, TaskFrame

LEMMA TaskNextFrame == TaskNext => TaskFrame
BY ToolFrame, DaemonFrame, JobFrame, WebFrame DEF TaskNext

LEMMA TaskStepInv ==
    ASSUME GatewayInv, TaskNext, UNCHANGED runVars
    PROVE  GatewayInv'
<1>1. Inv' /\ TaskFrame
  BY NextInv, TaskNextFrame DEF GatewayInv
<1>2. said \in Nat /\ faults \in Nat
  BY BoundsAssumption DEF GatewayInv, Inv, TaskTypeOK
<1>3. daemon' \in Daemons \union RunDaemons
  BY <1>1 DEF GatewayInv, RunTypeOK, TaskFrame, Foreign, Inv, HandOK
<1>4. RunTypeOK'
  BY <1>3 DEF GatewayInv, RunTypeOK, runVars
<1>5. StartsSaid'
  BY <1>1, <1>2 DEF GatewayInv, StartsSaid, TaskFrame, runVars
<1>6. LinksListed'
  BY DEF GatewayInv, LinksListed, runVars
<1>7. PushesNoted'
  <2>1. pushes' = pushes /\ notified' = notified
    BY DEF runVars
  <2>2. \A r \in Run, s \in Announced :
          Told(r, s) => Told(r, s)' \/ faults' = faults + 1
    BY <1>1, <2>1 DEF Told, TaskFrame, Foreign
  <2>3. faults' = faults \/ faults' = faults + 1
    BY <1>1 DEF TaskFrame
  <2>4. ASSUME NEW r \in Run, NEW s \in Announced
        PROVE  \/ pushes[<<r, s>>] <= faults'
               \/ Told(r, s)' /\ pushes[<<r, s>>] <= 1 + faults'
    <3>1. /\ pushes[<<r, s>>] \in Nat
          /\ \/ pushes[<<r, s>>] <= faults
             \/ Told(r, s) /\ pushes[<<r, s>>] <= 1 + faults
      BY DEF GatewayInv, PushesNoted
    <3>2. CASE pushes[<<r, s>>] <= faults
      BY <1>2, <2>3, <3>1, <3>2
    <3>3. CASE Told(r, s) /\ pushes[<<r, s>>] <= 1 + faults
      BY <1>2, <2>2, <2>3, <3>1, <3>3
    <3>4. QED
      BY <3>1, <3>2, <3>3
  <2>5. QED
    BY <2>1, <2>4 DEF GatewayInv, PushesNoted
<1>8. QED
  BY <1>1, <1>4, <1>5, <1>6, <1>7 DEF GatewayInv

-----------------------------------------------------------------------------
(* The gateway's own steps.                                                *)

\* They leave the flow's files alone and take the daemon when it is free.
LEMMA FlowKept ==
    ASSUME Inv, UNCHANGED <<rec, spec, plan, exec, job, web, faults, reached>>,
           said' \in 0..MaxSay,
           daemon' = daemon \/ daemon' = None \/ Foreign(daemon')
    PROVE  Inv'
<1>1. TaskTypeOK'
  BY DEF Inv, TaskTypeOK
<1>2. HandOK'
  BY DEF Inv, HandOK, Daemons, Foreign
<1>3. FilesReached' /\ JobsReached'
  BY DEF Inv, FilesReached, JobsReached
<1>4. ApprovalReached' /\ RoundsLeft'
  BY DEF Inv, ApprovalReached, RoundsLeft, Askable, None, Foreign
<1>5. QED
  BY <1>1, <1>2, <1>3, <1>4 DEF Inv

LEMMA SaidTyped == ASSUME Inv, NEW c \in Chat, Said(c) PROVE said' \in 0..MaxSay
BY BoundsAssumption DEF Said, Inv, TaskTypeOK

\* What is under way for a project.
LEMMA InHand ==
    ASSUME RunTypeOK
    PROVE  /\ daemon.kind = "link" => daemon.chat \in Chat
           /\ daemon.kind = "mark" =>
                 /\ daemon.run \in Run /\ daemon.status \in Announced
                 /\ daemon = [kind |-> "mark", run |-> daemon.run,
                              status |-> daemon.status]
BY DEF RunTypeOK, Daemons, RunDaemons, None

LEMMA LinkRunListed ==
    ASSUME LinksListed, NEW r \in Run, NEW c \in Chat, LinkRun(r, c)
    PROVE  LinksListed'
<1>1. /\ link' = [link EXCEPT ![r] = c] /\ c # None
      /\ link \in [Run -> {None} \union Chat] /\ links \in Seq(Run)
      /\ {links[i] : i \in DOMAIN links} = {q \in Run : link[q] # None}
  BY IdAssumption DEF LinkRun, LinksListed
<1>2. link' \in [Run -> {None} \union Chat]
  BY <1>1
<1>3. {q \in Run : link'[q] # None} = {q \in Run : link[q] # None} \union {r}
  BY <1>1
<1>4. CASE link[r] = None
  <2>1. links' = Append(links, r)
    BY <1>4 DEF LinkRun
  <2>2. links' \in Seq(Run)
    BY <1>1, <2>1
  <2>3. {links'[i] : i \in DOMAIN links'} = {links[i] : i \in DOMAIN links} \union {r}
    BY <1>1, <2>1
  <2>4. QED
    BY <1>1, <1>2, <1>3, <2>2, <2>3 DEF LinksListed
<1>5. CASE link[r] # None
  <2>1. links' = links
    BY <1>5 DEF LinkRun
  <2>2. QED
    BY <1>1, <1>2, <1>3, <1>5, <2>1 DEF LinksListed
<1>6. QED
  BY <1>4, <1>5

\* A step that pushes nothing and takes no note away.
LEMMA PushesKept ==
    ASSUME PushesNoted, UNCHANGED <<pushes, faults>>, notified \subseteq notified',
           \A r \in Run, s \in Announced : Told(r, s) => Told(r, s)'
    PROVE  PushesNoted'
BY DEF PushesNoted

LEMMA StartProjectInv ==
    ASSUME GatewayInv, NEW c \in Chat, DevNewProjectStart(c)
    PROVE  GatewayInv'
<1> USE DEF GatewayInv
<1>1. /\ daemon' = [kind |-> "link", chat |-> c] /\ daemon = None
      /\ said' = said + 1 /\ starts' = starts + 1
      /\ UNCHANGED <<rec, spec, plan, exec, job, web, faults, reached>>
      /\ UNCHANGED <<run, newest, resumes, waiting, link, links, notified,
                     pushes, moves>>
  BY DEF DevNewProjectStart, Said
<1>2. Inv'
  BY <1>1, FlowKept, SaidTyped DEF DevNewProjectStart, Foreign
<1>3. RunTypeOK'
  BY <1>1 DEF RunTypeOK, RunDaemons
<1>4. StartsSaid'
  BY <1>1, BoundsAssumption DEF StartsSaid, Inv, TaskTypeOK
<1>5. LinksListed'
  BY <1>1 DEF LinksListed
<1>6. PushesNoted'
  BY <1>1, PushesKept DEF Told, None
<1>7. QED
  BY <1>2, <1>3, <1>4, <1>5, <1>6

LEMMA LinkOrWaitInv ==
    ASSUME GatewayInv, LinkOrWait
    PROVE  GatewayInv'
<1> USE DEF GatewayInv
<1>1. /\ daemon.kind = "link" /\ daemon' = None /\ daemon.chat \in Chat
      /\ UNCHANGED <<rec, spec, plan, exec, job, said, web, faults, reached>>
      /\ UNCHANGED <<run, newest, starts, resumes, notified, pushes, moves>>
  BY InHand DEF LinkOrWait
<1>2. Inv'
  BY <1>1, FlowKept DEF Inv, TaskTypeOK
<1>3. waiting' \in {None} \union Chat
  BY <1>1 DEF LinkOrWait, RunTypeOK
<1>4. RunTypeOK'
  BY <1>1, <1>3 DEF RunTypeOK, Daemons
<1>5. LinksListed'
  <2>1. CASE newest # None
    <3>1. newest \in Run /\ LinkRun(newest, daemon.chat)
      BY <2>1 DEF LinkOrWait, RunTypeOK
    <3>2. QED
      BY <1>1, <3>1, LinkRunListed
  <2>2. CASE newest = None
    BY <2>2 DEF LinkOrWait, LinksListed
  <2>3. QED
    BY <2>1, <2>2
<1>6. StartsSaid'
  BY <1>1 DEF StartsSaid
<1>7. PushesNoted'
  BY <1>1, PushesKept DEF Told
<1>8. QED
  BY <1>2, <1>4, <1>5, <1>6, <1>7

LEMMA ResolvePendingInv ==
    ASSUME GatewayInv, ResolvePending
    PROVE  GatewayInv'
<1> USE DEF GatewayInv
<1>1. /\ newest \in Run /\ waiting \in Chat /\ waiting' = None
      /\ LinkRun(newest, waiting)
      /\ UNCHANGED taskVars
      /\ UNCHANGED <<run, newest, starts, resumes, notified, pushes, moves>>
  BY DEF ResolvePending, RunTypeOK
<1>2. Inv'
  BY <1>1, StutterInv
<1>3. RunTypeOK'
  BY <1>1 DEF RunTypeOK, taskVars
<1>4. LinksListed'
  BY <1>1, LinkRunListed
<1>5. StartsSaid'
  BY <1>1 DEF StartsSaid, taskVars
<1>6. PushesNoted'
  BY <1>1, PushesKept DEF Told, taskVars
<1>7. QED
  BY <1>2, <1>3, <1>4, <1>5, <1>6

\* The message goes out: the daemon was free, so nobody was about to note it.
LEMMA NotifySweepInv ==
    ASSUME GatewayInv, NEW r \in Run, NotifySweep(r)
    PROVE  GatewayInv'
<1> USE DEF GatewayInv
<1> SUFFICES ASSUME NEW s \in Announced, s = run[r] PROVE GatewayInv'
  BY DEF NotifySweep
<1>1. /\ <<r, s>> \notin notified /\ daemon = None
      /\ daemon' = [kind |-> "mark", run |-> r, status |-> s]
      /\ pushes' = [pushes EXCEPT ![<<r, s>>] = pushes[<<r, s>>] + 1]
      /\ UNCHANGED <<rec, spec, plan, exec, job, said, web, faults, reached>>
      /\ UNCHANGED <<run, newest, starts, resumes, waiting, link, links,
                     notified, moves>>
  BY DEF NotifySweep
<1>2. Inv'
  BY <1>1, FlowKept DEF Foreign, Inv, TaskTypeOK
<1>3. RunTypeOK'
  BY <1>1 DEF RunTypeOK, RunDaemons
<1>4. StartsSaid' /\ LinksListed'
  BY <1>1 DEF StartsSaid, LinksListed
<1>5. \A q \in Run, t \in Announced : Told(q, t) => <<q, t>> \in notified
  <2>1. \A q, t : [kind |-> "mark", run |-> q, status |-> t].kind # None.kind
    BY DEF None
  <2>2. QED
    BY <1>1, <2>1 DEF Told
<1>6. faults \in Nat
  BY BoundsAssumption DEF Inv, TaskTypeOK
<1>7. pushes' \in [Run \X Announced -> Nat]
  <2>1. pushes[<<r, s>>] + 1 \in Nat
    BY <1>1 DEF PushesNoted
  <2>2. QED
    BY <1>1, <2>1 DEF PushesNoted
<1>8. pushes[<<r, s>>] \in Nat /\ pushes[<<r, s>>] <= faults
  BY <1>1, <1>5 DEF PushesNoted
<1>9. Told(r, s)' /\ pushes'[<<r, s>>] <= 1 + faults'
  <2>1. Told(r, s)'
    BY <1>1 DEF Told
  <2>2. QED
    BY <1>1, <1>6, <1>8, <2>1 DEF PushesNoted
<1>10. ASSUME NEW q \in Run, NEW t \in Announced, <<q, t>> # <<r, s>>
       PROVE  \/ pushes'[<<q, t>>] <= faults'
              \/ Told(q, t)' /\ pushes'[<<q, t>>] <= 1 + faults'
  <2>1. Told(q, t) => Told(q, t)'
    BY <1>1, <1>5 DEF Told
  <2>2. pushes'[<<q, t>>] = pushes[<<q, t>>]
    BY <1>1, <1>10 DEF PushesNoted
  <2>3. QED
    BY <1>1, <2>1, <2>2 DEF PushesNoted
<1>11. PushesNoted'
  <2>1. ASSUME NEW q \in Run, NEW t \in Announced
        PROVE  \/ pushes'[<<q, t>>] <= faults'
               \/ Told(q, t)' /\ pushes'[<<q, t>>] <= 1 + faults'
    <3>1. CASE <<q, t>> = <<r, s>>
      <4>1. q = r /\ t = s
        BY <3>1
      <4>2. QED
        BY <1>9, <4>1
    <3>2. CASE <<q, t>> # <<r, s>>
      BY <1>10, <3>2
    <3>3. QED
      BY <3>1, <3>2
  <2>2. QED
    BY <1>7, <2>1 DEF PushesNoted
<1>12. QED
  BY <1>2, <1>3, <1>4, <1>11

LEMMA MarkNotifiedInv ==
    ASSUME GatewayInv, MarkNotified
    PROVE  GatewayInv'
<1> USE DEF GatewayInv
<1> SUFFICES ASSUME NEW q \in Run, NEW t \in Announced,
                    daemon = [kind |-> "mark", run |-> q, status |-> t]
             PROVE  GatewayInv'
  BY InHand DEF MarkNotified
<1>1. /\ notified' = notified \union {<<q, t>>} /\ daemon' = None
      /\ UNCHANGED <<rec, spec, plan, exec, job, said, web, faults, reached>>
      /\ UNCHANGED <<run, newest, starts, resumes, waiting, link, links,
                     pushes, moves>>
  BY DEF MarkNotified
<1>2. Inv'
  BY <1>1, FlowKept DEF Inv, TaskTypeOK
<1>3. RunTypeOK'
  BY <1>1 DEF RunTypeOK, Daemons
<1>4. StartsSaid' /\ LinksListed'
  BY <1>1 DEF StartsSaid, LinksListed
<1>5. ASSUME NEW r \in Run, NEW s \in Announced, Told(r, s)
      PROVE  Told(r, s)'
  <2>1. CASE <<r, s>> \in notified
    BY <1>1, <2>1 DEF Told
  <2>2. CASE daemon = [kind |-> "mark", run |-> r, status |-> s]
    <3>1. r = q /\ s = t
      BY <2>2
    <3>2. QED
      BY <1>1, <3>1 DEF Told
  <2>3. QED
    BY <1>5, <2>1, <2>2 DEF Told
<1>6. PushesNoted'
  BY <1>1, <1>5, PushesKept
<1>7. QED
  BY <1>2, <1>3, <1>4, <1>6

\* The runs move on, and so do the processes that begin or resume them.
LEMMA RunStepInv ==
    ASSUME GatewayInv,
           (\E r \in Run : RunBegins(r) \/ RunMoves(r)) \/ ResumeGate2
    PROVE  GatewayInv'
<1> USE DEF GatewayInv
<1>1. /\ UNCHANGED taskVars
      /\ UNCHANGED <<waiting, link, links, notified, pushes>>
  BY DEF RunBegins, RunMoves, ResumeGate2
<1>2. Inv'
  BY <1>1, StutterInv
<1>3. StartsSaid' /\ RunTypeOK'
  <2>1. CASE \E r \in Run : RunBegins(r)
    <3>1. PICK r \in Run : RunBegins(r)
      BY <2>1
    <3>2. StartsSaid'
      BY <1>1, <3>1, BoundsAssumption
      DEF RunBegins, StartsSaid, taskVars, Inv, TaskTypeOK
    <3>3. RunTypeOK'
      BY <1>1, <3>1 DEF RunBegins, RunTypeOK, RunStatus, taskVars
    <3>4. QED
      BY <3>2, <3>3
  <2>2. CASE \E r \in Run : RunMoves(r)
    <3>1. PICK r \in Run : RunMoves(r)
      BY <2>2
    <3>2. StartsSaid'
      BY <1>1, <3>1 DEF RunMoves, StartsSaid, taskVars
    <3>3. run' \in [Run -> RunStatus]
      BY <3>1 DEF RunMoves, RunTypeOK
    <3>4. moves' \in 0..MaxMove
      BY <3>1, MoveAssumption DEF RunMoves, RunTypeOK
    <3>5. RunTypeOK'
      BY <1>1, <3>1, <3>3, <3>4 DEF RunMoves, RunTypeOK, taskVars
    <3>6. QED
      BY <3>2, <3>5
  <2>3. CASE ResumeGate2
    <3>1. PICK x \in resumes :
             /\ resumes' = resumes \ {x}
             /\ run' = IF run[x[1]] # "PAUSED_AT_GATE_2" THEN run
                       ELSE [run EXCEPT ![x[1]] = IF x[2] = "approve"
                                                  THEN "RUNNING" ELSE "FAILED"]
      BY <2>3 DEF ResumeGate2
    <3>2. run' \in [Run -> RunStatus]
      BY <3>1 DEF RunTypeOK, RunStatus, Announced, Over
    <3>3. resumes' \subseteq Run \X {"approve", "reject"}
      BY <3>1 DEF RunTypeOK
    <3>4. UNCHANGED <<newest, starts, moves>>
      BY <2>3 DEF ResumeGate2
    <3>5. QED
      BY <1>1, <3>2, <3>3, <3>4 DEF RunTypeOK, StartsSaid, taskVars
  <2>4. QED
    BY <2>1, <2>2, <2>3
<1>4. LinksListed'
  BY <1>1 DEF LinksListed
<1>5. PushesNoted'
  BY <1>1, PushesKept DEF Told, taskVars
<1>6. QED
  BY <1>2, <1>3, <1>4, <1>5

LEMMA AnswerGateInv ==
    ASSUME GatewayInv, NEW c \in Chat, AnswerGate1(c) \/ AnswerGate2(c)
    PROVE  GatewayInv'
<1> USE DEF GatewayInv
<1>1. /\ Said(c) /\ said' = said + 1
      /\ UNCHANGED <<rec, spec, plan, exec, job, daemon, web, faults, reached>>
      /\ UNCHANGED <<newest, starts, waiting, link, links, notified, pushes,
                     moves>>
  BY DEF AnswerGate1, AnswerGate2, Said
<1>2. Inv'
  BY <1>1, SaidTyped, FlowKept
<1>3. run' \in [Run -> RunStatus]
  BY DEF AnswerGate1, AnswerGate2, RunTypeOK, RunStatus
<1>4. resumes' \subseteq Run \X {"approve", "reject"}
  <2>1. CASE AnswerGate1(c)
    BY <2>1 DEF AnswerGate1, RunTypeOK
  <2>2. CASE AnswerGate2(c)
    <3>1. Latest(c) \in Run
      BY <2>2 DEF AnswerGate2, Latest, LinksListed
    <3>2. QED
      BY <2>2, <3>1 DEF AnswerGate2, RunTypeOK
  <2>3. QED
    BY <2>1, <2>2
<1>5. RunTypeOK'
  BY <1>1, <1>3, <1>4 DEF RunTypeOK
<1>6. StartsSaid' /\ LinksListed'
  BY <1>1, BoundsAssumption DEF StartsSaid, LinksListed, Inv, TaskTypeOK
<1>7. PushesNoted'
  BY <1>1, PushesKept DEF Told
<1>8. QED
  BY <1>2, <1>5, <1>6, <1>7

LEMMA GatewayInit == Init => GatewayInv
<1> SUFFICES ASSUME Init PROVE GatewayInv
  OBVIOUS
<1>1. Inv
  BY InitInv, BoundsAssumption DEF Init, Inv, HandOK
<1>2. RunTypeOK
  BY MoveAssumption DEF Init, TaskInit, RunTypeOK, RunStatus, Daemons
<1>3. StartsSaid /\ LinksListed
  BY DEF Init, TaskInit, StartsSaid, LinksListed
<1>4. PushesNoted
  BY DEF Init, TaskInit, PushesNoted
<1>5. QED
  BY <1>1, <1>2, <1>3, <1>4 DEF GatewayInv

LEMMA GatewayStep == GatewayInv /\ [Next]_vars => GatewayInv'
<1> SUFFICES ASSUME GatewayInv, [Next]_vars PROVE GatewayInv'
  OBVIOUS
<1>1. CASE TaskNext /\ UNCHANGED runVars
  BY <1>1, TaskStepInv
<1>2. CASE RunNext
  BY <1>2, StartProjectInv, AnswerGateInv, RunStepInv, NotifySweepInv,
     LinkOrWaitInv, ResolvePendingInv, MarkNotifiedInv
  DEF RunNext
<1>3. CASE UNCHANGED vars
  <2>1. UNCHANGED taskVars /\ UNCHANGED runVars
    BY <1>3 DEF vars
  <2>2. Inv'
    BY <2>1, StutterInv DEF GatewayInv
  <2>3. RunTypeOK' /\ StartsSaid' /\ LinksListed'
    BY <2>1
    DEF GatewayInv, RunTypeOK, StartsSaid, LinksListed, runVars, taskVars
  <2>4. PushesNoted'
    BY <2>1, PushesKept DEF GatewayInv, Told, runVars, taskVars
  <2>5. QED
    BY <2>2, <2>3, <2>4 DEF GatewayInv
<1>4. QED
  BY <1>1, <1>2, <1>3 DEF Next

\* What the gateway knows of its runs, links and announcements fits together.
THEOREM Invariance == Spec => []GatewayInv
<1>1. QED
  BY GatewayInit, GatewayStep, PTL DEF Spec

\* The gateway's state is well typed; links lists exactly the linked runs.
THEOREM TypeCorrect == Spec => []TypeOK
<1>1. GatewayInv => TypeOK
  <2> SUFFICES ASSUME GatewayInv PROVE TypeOK
    OBVIOUS
  <2>1. said \in 0..MaxSay /\ faults \in 0..MaxFault
    BY DEF GatewayInv, Inv, TaskTypeOK
  <2>2. starts \in 0..MaxSay
    BY <2>1, BoundsAssumption DEF GatewayInv, StartsSaid
  <2>3. pushes \in [Run \X Announced -> 0..1 + MaxFault]
    <3> SUFFICES ASSUME NEW r \in Run, NEW s \in Announced
                 PROVE  pushes[<<r, s>>] \in 0..1 + MaxFault
      BY DEF GatewayInv, PushesNoted
    <3>1. /\ pushes[<<r, s>>] \in Nat
          /\ \/ pushes[<<r, s>>] <= faults
             \/ pushes[<<r, s>>] <= 1 + faults
      BY DEF GatewayInv, PushesNoted
    <3>2. QED
      BY <2>1, <3>1, BoundsAssumption
  <2>4. QED
    BY <2>2, <2>3
    DEF GatewayInv, Inv, RunTypeOK, LinksListed, RunDaemons, TypeOK
<1>2. QED
  BY <1>1, Invariance, PTL

\* A status of a run is announced a second time only after a crash between
\* the message and the note of it, however the runs move, however the links
\* change hands, and with any number of chats, runs and crashes.
THEOREM NoticesAreOnce == Spec => []AnnouncedOnce
<1>1. GatewayInv => AnnouncedOnce
  <2> SUFFICES ASSUME GatewayInv, NEW r \in Run, NEW s \in Announced
               PROVE  pushes[<<r, s>>] <= 1 + faults
    BY DEF AnnouncedOnce
  <2>1. /\ pushes[<<r, s>>] \in Nat /\ faults \in Nat
        /\ \/ pushes[<<r, s>>] <= faults
           \/ pushes[<<r, s>>] <= 1 + faults
    BY BoundsAssumption DEF GatewayInv, Inv, TaskTypeOK, PushesNoted
  <2>2. QED
    BY <2>1
<1>2. QED
  BY <1>1, Invariance, PTL

\* The single-task flow keeps to its stages also beside the new-project flow,
\* with which it shares the daemon.
THEOREM GatewayImplementsStages == Spec => ImplementsStages
<1>1. Init => Stages!Init
  BY DEF Init, TaskInit, Stages!Init
<1>2. GatewayInv /\ [Next]_vars => [Stages!Next]_reached
  <2> SUFFICES ASSUME GatewayInv, [Next]_vars PROVE [Stages!Next]_reached
    OBVIOUS
  <2>1. CASE TaskNext
    BY <2>1, Refines DEF GatewayInv
  <2>2. CASE RunNext
    BY <2>2
    DEF RunNext, DevNewProjectStart, LinkOrWait, RunBegins, RunMoves,
        ResolvePending, NotifySweep, MarkNotified, AnswerGate1, AnswerGate2,
        ResumeGate2, taskVars
  <2>3. CASE UNCHANGED vars
    BY <2>3 DEF vars, taskVars
  <2>4. QED
    BY <2>1, <2>2, <2>3 DEF Next
<1>3. QED
  BY <1>1, <1>2, Invariance, PTL DEF Spec, ImplementsStages, Stages!Spec
=============================================================================
