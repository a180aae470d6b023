------------------------- MODULE RepoBranch_proofs -------------------------
(***************************************************************************)
(* One working tree for all: proofs for any number of executors, tasks,    *)
(* rounds of repair and attempts, and without the bounds of the run.       *)
(***************************************************************************)
EXTENDS RepoBranch, TLAPS

\* A repair is on its way because of a review that the edit has outdated, or
\* will; and who is at work has a task.
RepairIsDue ==
    \A e \in Executor :
        /\ pc[e] \in {"edit", "commit"} /\ rounds[e] > 0 =>
              verdict[e] # "fine"
        /\ IF pc[e] = "new" THEN rounds[e] = 0 ELSE task[e] \in Task

Inv == TypeOK /\ OnOwnBranch /\ RepairIsDue /\ ReportIsTrue

-----------------------------------------------------------------------------
(* Git.                                                                    *)

\* The working tree after a checkout has files, and only those.
LEMMA CarriedOverType ==
    ASSUME tree \in Files, NEW b, at[b] \in Files
    PROVE  CarriedOver(b) \in Files
BY DEF CarriedOver, Files

\* A branch that can be checked out is there.
LEMMA CheckoutType ==
    ASSUME TypeOK, NEW b \in Branch, CanCheckout(b)
    PROVE  at[b] \in Files /\ CarriedOver(b) \in Files
BY CarriedOverType DEF TypeOK, CanCheckout

\* Whoever switches the branch, checking it out or making it: the tree stays
\* well typed, and all who were at work are written down but the one itself.
Switched(b, self) ==
    /\ head' = b /\ at' \in [Branch -> {None} \union Files]
    /\ at'[head'] \in Files /\ tree' \in Files
    /\ moved' \subseteq Executor /\ moved \subseteq moved'
    /\ \A e \in Executor \ self :
          pc[e] \in Busy => head' = head \/ e \in moved'

LEMMA Switches ==
    ASSUME TypeOK, NEW b \in Branch, NEW self,
           Checkout(b, self) \/ Fork(b, self)
    PROVE  Switched(b, self)
<1>1. CASE Checkout(b, self)
  <2>1. at[b] \in Files /\ CarriedOver(b) \in Files
    BY <1>1, CheckoutType DEF Checkout
  <2>2. QED
    BY <1>1, <2>1 DEF Checkout, MovesOthers, Switched, TypeOK
<1>2. CASE Fork(b, self)
  BY <1>2 DEF Fork, MovesOthers, Switched, TypeOK
<1>3. QED
  BY <1>1, <1>2

-----------------------------------------------------------------------------
(* The invariant.                                                          *)

LEMMA InitInv == Init => Inv
BY RepoAssumption
DEF Init, Inv, TypeOK, OnOwnBranch, RepairIsDue, ReportIsTrue, Branch, Files,
    Busy

\* While no agent takes a step, a switch of the branch keeps what is claimed
\* of the agents.
LEMMA SwitchInv ==
    ASSUME Inv, NEW b \in Branch, Switched(b, {}), UNCHANGED agentVars,
           pub' \in [Task -> {"idle", "fork", "commit"}],
           learner' \in [Task -> {None} \union [read : SUBSET Task]],
           others' \in 0..MaxOther
    PROVE  Inv'
BY DEF Switched, agentVars, Inv, TypeOK, OnOwnBranch, RepairIsDue,
       ReportIsTrue

LEMMA AnotherType ==
    ASSUME TypeOK, Another
    PROVE  others' \in 0..MaxOther
BY RepoAssumption DEF TypeOK, Another

\* A commit, whatever it takes along, leaves files at the tip.
LEMMA CommitType ==
    ASSUME TypeOK, CommitStaged
    PROVE  at' \in [Branch -> {None} \union Files] /\ at'[head] \in Files
<1>1. PICK staged \in SUBSET Changed(tree, at[head]),
           rules \in {tree.rules, at[head].rules} :
        at' = [at EXCEPT ![head] =
                 [work  |-> {t \in Task : IF t \in staged THEN t \in tree.work
                                          ELSE t \in at[head].work},
                  rules |-> rules]]
  BY DEF CommitStaged, TypeOK
<1>2. [work  |-> {t \in Task : IF t \in staged THEN t \in tree.work
                               ELSE t \in at[head].work},
       rules |-> rules] \in Files
  BY DEF TypeOK, Files
<1>3. QED
  BY <1>1, <1>2 DEF TypeOK

LEMMA PublishInv ==
    ASSUME Inv, NEW t \in Task,
           PublishBegins(t) \/ PublishForks(t) \/ PublishEnds(t)
    PROVE  Inv'
<1>1. /\ pub' \in [Task -> {"idle", "fork", "commit"}]
      /\ learner' \in [Task -> {None} \union [read : SUBSET Task]]
      /\ others' \in 0..MaxOther /\ UNCHANGED agentVars
  BY AnotherType
  DEF PublishBegins, PublishForks, PublishEnds, PublishVars, Inv, TypeOK
<1>2. t \in Branch /\ Main \in Branch
  BY DEF Branch
<1>3. CASE \E b \in {t, Main} : Checkout(b, {}) \/ Fork(b, {})
  BY <1>1, <1>2, <1>3, Switches, SwitchInv DEF Inv
<1>4. ASSUME UNCHANGED <<head, tree, moved>>,
             at' \in [Branch -> {None} \union Files], at'[head] \in Files
      PROVE  Inv'
  BY <1>1, <1>4
  DEF agentVars, Inv, TypeOK, OnOwnBranch, RepairIsDue, ReportIsTrue
<1>5. CASE PublishEnds(t)
  BY <1>4, <1>5, CommitType DEF PublishEnds, Inv, TypeOK
<1>6. CASE UNCHANGED <<treeVars, moved>>
  BY <1>4, <1>6 DEF treeVars, Inv, TypeOK
<1>7. QED
  BY <1>3, <1>5, <1>6 DEF PublishBegins, PublishForks

LEMMA BranchesInv ==
    ASSUME Inv, NEW e \in Executor, NEW t \in Task, ExecutorBranches(e, t)
    PROVE  Inv'
<1>1. /\ pc[e] = "new" /\ task' = [task EXCEPT ![e] = t]
      /\ UNCHANGED <<phase, rounds, retries, failed, verdict, report,
                     OtherVars>>
  BY DEF ExecutorBranches
<1>2. CASE /\ Checkout(t, {e}) \/ Fork(t, {e})
           /\ pc' = [pc EXCEPT ![e] = "edit"]
  <2>1. Switched(t, {e})
    BY <1>2, Switches DEF Inv, Branch
  <2>2. TypeOK'
    <3>1. head' \in Branch
      BY <2>1 DEF Switched, Branch
    <3>2. /\ task' \in [Executor -> {None} \union Task]
          /\ pc' \in [Executor ->
                        Busy \union {"new", "starved", "done", "over"}]
      BY <1>1, <1>2 DEF Inv, TypeOK, Busy
    <3>3. QED
      BY <1>1, <2>1, <3>1, <3>2 DEF OtherVars, Switched, Inv, TypeOK
  <2>3. OnOwnBranch'
    BY <1>1, <1>2, <2>1 DEF Switched, Inv, TypeOK, OnOwnBranch, Busy
  <2>4. RepairIsDue' /\ ReportIsTrue'
    BY <1>1, <1>2 DEF Inv, TypeOK, RepairIsDue, ReportIsTrue
  <2>5. QED
    BY <2>2, <2>3, <2>4 DEF Inv
<1>3. CASE pc' = [pc EXCEPT ![e] = "over"] /\ UNCHANGED <<treeVars, moved>>
  <2>1. TypeOK'
    BY <1>1, <1>3 DEF OtherVars, treeVars, Inv, TypeOK, Busy
  <2>2. OnOwnBranch' /\ RepairIsDue' /\ ReportIsTrue'
    BY <1>1, <1>3
    DEF treeVars, Inv, TypeOK, OnOwnBranch, RepairIsDue, ReportIsTrue, Busy
  <2>3. QED
    BY <2>1, <2>2 DEF Inv
<1>4. QED
  BY <1>2, <1>3 DEF ExecutorBranches

LEMMA EditsInv ==
    ASSUME Inv, NEW e \in Executor, AgentEdits(e)
    PROVE  Inv'
<1>1. task[e] \in Task
  BY DEF AgentEdits, Inv, RepairIsDue
<1>2. tree' \in Files
  BY <1>1 DEF AgentEdits, Inv, TypeOK, Files
<1>3. TypeOK'
  BY <1>2 DEF AgentEdits, OtherVars, Inv, TypeOK, Busy
<1>4. OnOwnBranch' /\ RepairIsDue' /\ ReportIsTrue'
  BY DEF AgentEdits, Inv, TypeOK, OnOwnBranch, RepairIsDue, ReportIsTrue, Busy
<1>5. QED
  BY <1>3, <1>4 DEF Inv

LEMMA CommitsInv ==
    ASSUME Inv, NEW e \in Executor, AgentCommits(e)
    PROVE  Inv'
<1>1. at' \in [Branch -> {None} \union Files] /\ at'[head] \in Files
  BY DEF AgentCommits, Inv, TypeOK
<1>2. TypeOK'
  BY <1>1 DEF AgentCommits, OtherVars, Inv, TypeOK, Busy
<1>3. OnOwnBranch' /\ RepairIsDue' /\ ReportIsTrue'
  BY DEF AgentCommits, Inv, TypeOK, OnOwnBranch, RepairIsDue, ReportIsTrue,
         Busy
<1>4. QED
  BY <1>2, <1>3 DEF Inv

\* What is left when an agent's round is over, or the operator has decided:
\* one executor goes somewhere, nobody touches the tree.
Places == {"edit", "waits", "starved", "done", "over"}

GoesOn(e) ==
    /\ UNCHANGED <<treeVars, task, moved, pub, learner>>
    /\ others' \in 0..MaxOther /\ failed' \subseteq Executor
    /\ \E to \in Places : pc' = [pc EXCEPT ![e] = to]
    /\ phase' \in [Executor -> {"test", "impl"}]
    /\ rounds' \in [Executor -> 0..MaxRounds]
    /\ retries' \in [Executor -> 0..MaxRetries]
    /\ report' \in [Executor -> {"none", "clean", "flagged"}]
    /\ \A f \in Executor \ {e} :
          /\ rounds'[f] = rounds[f] /\ report'[f] = report[f]
          /\ verdict'[f] = verdict[f]

LEMMA GoesOnInv ==
    ASSUME Inv, NEW e \in Executor, GoesOn(e), pc[e] \in Busy,
           verdict' \in [Executor -> {"none", "blocking", "fine"}],
           pc'[e] = "edit" /\ rounds'[e] > 0 => verdict'[e] # "fine",
           pc'[e] = "done" => (report'[e] = "clean" <=> verdict'[e] = "fine")
    PROVE  Inv'
<1>1. PICK to \in Places : pc' = [pc EXCEPT ![e] = to]
  BY DEF GoesOn
<1>2. TypeOK'
  BY <1>1 DEF GoesOn, treeVars, Inv, TypeOK, Busy, Places
<1>3. OnOwnBranch'
  BY <1>1 DEF GoesOn, treeVars, Inv, TypeOK, OnOwnBranch, Busy, Places
<1>4. RepairIsDue' /\ ReportIsTrue'
  BY <1>1 DEF GoesOn, Inv, TypeOK, RepairIsDue, ReportIsTrue, Busy,
               Places
<1>5. QED
  BY <1>2, <1>3, <1>4 DEF Inv

LEMMA TaskFailsGoesOn ==
    ASSUME TypeOK, NEW e \in Executor, TaskFails(e), UNCHANGED report,
           \A f \in Executor \ {e} : verdict'[f] = verdict[f],
           UNCHANGED <<treeVars, task, moved, OtherVars>>
    PROVE  GoesOn(e) /\ rounds'[e] = 0 /\ pc'[e] # "done" /\ UNCHANGED phase
BY RepoAssumption
DEF TaskFails, RowRemains, GoesOn, Places, OtherVars, TypeOK

\* Both the review and the operator's skip get there.
LEMMA TestsSucceedGoesOn ==
    ASSUME TypeOK, NEW e \in Executor, TestsSucceed(e), UNCHANGED report,
           \A f \in Executor \ {e} : verdict'[f] = verdict[f],
           UNCHANGED <<treeVars, task, moved, pub, learner>>,
           others' \in 0..MaxOther
    PROVE  /\ GoesOn(e) /\ rounds'[e] = 0 /\ pc'[e] # "done"
           /\ \A f \in Executor \ {e} : phase'[f] = phase[f]
BY RepoAssumption DEF TestsSucceed, GoesOn, Places, TypeOK

\* The end of the loop, for whichever reason.
LEMMA LoopEndsGoesOn ==
    ASSUME TypeOK, NEW e \in Executor, NEW status \in {"clean", "flagged"},
           LoopEnds(e, status),
           \A f \in Executor \ {e} : verdict'[f] = verdict[f],
           UNCHANGED <<treeVars, task, moved, OtherVars>>
    PROVE  /\ GoesOn(e)
           /\ pc'[e] = "edit" => rounds'[e] = 0
           /\ pc'[e] = "done" => report'[e] = status
           /\ phase' # phase => status = "clean"
           /\ \A f \in Executor \ {e} : phase'[f] = phase[f]
<1>1. CASE TaskFails(e) /\ UNCHANGED report
  BY <1>1, TaskFailsGoesOn DEF TypeOK
<1>2. CASE status = "clean" /\ TestsSucceed(e) /\ UNCHANGED report
  BY <1>2, TestsSucceedGoesOn DEF OtherVars, TypeOK
<1>3. CASE /\ report' = [report EXCEPT ![e] = status]
           /\ pc' = [pc EXCEPT ![e] = "done"]
           /\ UNCHANGED <<phase, rounds, retries, failed>>
  BY <1>3 DEF GoesOn, Places, OtherVars, TypeOK
<1>4. QED
  BY <1>1, <1>2, <1>3 DEF LoopEnds

LEMMA FailsInv ==
    ASSUME Inv, NEW e \in Executor, AgentFails(e)
    PROVE  Inv' /\ UNCHANGED phase
<1>1. /\ UNCHANGED <<treeVars, task, verdict, moved, OtherVars>>
      /\ pc[e] \in {"edit", "commit"} /\ TypeOK
      /\ verdict' \in [Executor -> {"none", "blocking", "fine"}]
  BY DEF AgentFails, Inv, TypeOK
<1>2. CASE rounds[e] = 0 /\ TaskFails(e) /\ UNCHANGED report
  <2>1. GoesOn(e) /\ rounds'[e] = 0 /\ pc'[e] # "done" /\ UNCHANGED phase
    BY <1>1, <1>2, TaskFailsGoesOn
  <2>2. QED
    BY <1>1, <2>1, GoesOnInv DEF Busy
<1>3. CASE rounds[e] > 0 /\ LoopEnds(e, "flagged")
  <2>1. /\ GoesOn(e)
        /\ pc'[e] = "edit" => rounds'[e] = 0
        /\ pc'[e] = "done" => report'[e] = "flagged"
        /\ UNCHANGED phase
    BY <1>1, <1>3, LoopEndsGoesOn
  <2>2. verdict'[e] # "fine"
    BY <1>1, <1>3 DEF Inv, RepairIsDue
  <2>3. QED
    BY <1>1, <2>1, <2>2, GoesOnInv DEF Busy
<1>4. QED
  BY <1>2, <1>3 DEF AgentFails

LEMMA ReviewsInv ==
    ASSUME Inv, NEW e \in Executor, Reviews(e)
    PROVE  /\ Inv'
           /\ \A f \in Executor : phase'[f] # phase[f] => verdict'[f] = "fine"
<1>1. PICK v \in Verdict :
        /\ verdict' = [verdict EXCEPT ![e] = IF Blocking(v) THEN "blocking"
                                                            ELSE "fine"]
        /\ \/ Blocking(v) /\ Repairs(e)
           \/ Blocking(v) /\ rounds[e] = MaxRounds /\ LoopEnds(e, "flagged")
           \/ ~Blocking(v) /\ LoopEnds(e, "clean")
  BY DEF Reviews
<1>2. /\ UNCHANGED <<treeVars, task, moved, OtherVars>>
      /\ pc[e] = "review" /\ TypeOK
      /\ verdict' \in [Executor -> {"none", "blocking", "fine"}]
      /\ verdict'[e] = IF Blocking(v) THEN "blocking" ELSE "fine"
      /\ \A f \in Executor \ {e} : verdict'[f] = verdict[f]
  BY <1>1 DEF Reviews, Inv, TypeOK
<1>3. CASE Blocking(v) /\ Repairs(e)
  <2>1. GoesOn(e) /\ pc'[e] = "edit" /\ UNCHANGED phase
    BY <1>2, <1>3, RepoAssumption
    DEF Repairs, GoesOn, Places, OtherVars, TypeOK
  <2>2. QED
    BY <1>2, <1>3, <2>1, GoesOnInv DEF Busy
<1>4. ASSUME NEW status \in {"clean", "flagged"}, LoopEnds(e, status),
             status = "clean" <=> ~Blocking(v)
      PROVE  /\ Inv'
             /\ \A f \in Executor :
                   phase'[f] # phase[f] => verdict'[f] = "fine"
  <2>1. /\ GoesOn(e)
        /\ pc'[e] = "edit" => rounds'[e] = 0
        /\ pc'[e] = "done" => report'[e] = status
        /\ phase' # phase => status = "clean"
        /\ \A f \in Executor \ {e} : phase'[f] = phase[f]
    BY <1>2, <1>4, LoopEndsGoesOn
  <2>2. verdict'[e] = "fine" <=> status = "clean"
    BY <1>2, <1>4
  <2>3. QED
    BY <1>2, <2>1, <2>2, GoesOnInv DEF Busy
<1>5. QED
  BY <1>1, <1>3, <1>4

-----------------------------------------------------------------------------
(* The operator.                                                           *)

LEMMA OperatorInv ==
    ASSUME Inv, NEW e \in Executor, Operator(e)
    PROVE  /\ Inv'
           /\ \A f \in Executor : phase'[f] # phase[f] => OperatorSkips(f)
<1>1. Decides(e) /\ TypeOK
  BY DEF Operator, OperatorRetries, OperatorSkips, OperatorAborts, Inv
<1>2. /\ UNCHANGED <<treeVars, task, moved, pub, learner, verdict, report>>
      /\ pc[e] = "waits" /\ others' \in 0..MaxOther
      /\ verdict' \in [Executor -> {"none", "blocking", "fine"}]
  BY <1>1, AnotherType DEF Decides, TypeOK
<1>3. CASE OperatorRetries(e)
  <2>1. GoesOn(e) /\ pc'[e] = "edit" /\ rounds'[e] = 0 /\ UNCHANGED phase
    BY <1>1, <1>2, <1>3, RepoAssumption
    DEF OperatorRetries, RowRemains, GoesOn, Places, TypeOK
  <2>2. QED
    BY <1>2, <2>1, GoesOnInv DEF Busy
<1>4. CASE OperatorSkips(e) /\ TestsSucceed(e)
  <2>1. /\ GoesOn(e) /\ rounds'[e] = 0 /\ pc'[e] # "done"
        /\ \A f \in Executor \ {e} : phase'[f] = phase[f]
    BY <1>1, <1>2, <1>4, TestsSucceedGoesOn
  <2>2. QED
    BY <1>2, <1>4, <2>1, GoesOnInv DEF Busy
<1>5. CASE /\ pc' = [pc EXCEPT ![e] = "over"]
           /\ UNCHANGED <<phase, rounds, retries, failed>>
  <2>1. GoesOn(e) /\ pc'[e] = "over"
    BY <1>1, <1>2, <1>5 DEF GoesOn, Places, TypeOK
  <2>2. QED
    BY <1>2, <1>5, <2>1, GoesOnInv DEF Busy
<1>6. QED
  BY <1>3, <1>4, <1>5 DEF Operator, OperatorSkips, OperatorAborts

-----------------------------------------------------------------------------
(* The web UI.                                                             *)

LEMMA AcceptInv ==
    ASSUME Inv, NEW t \in Task, WebAccept(t)
    PROVE  Inv'
<1>1. Switched(Main, {})
  BY Switches DEF WebAccept, Inv, Branch
<1>2. Main \in Branch /\ others' \in 0..MaxOther
  BY AnotherType DEF WebAccept, Inv, Branch
<1>3. QED
  BY <1>1, <1>2, SwitchInv DEF WebAccept, Inv, TypeOK

LEMMA RejectInv ==
    ASSUME Inv, NEW t \in Task, WebReject(t)
    PROVE  Inv'
<1>1. /\ others' \in 0..MaxOther /\ UNCHANGED <<agentVars, pub>>
      /\ Main \in Branch /\ t \in Branch /\ t # Main
  BY RepoAssumption, AnotherType DEF WebReject, Inv, Branch
<1>2. at' \in [Branch -> {None} \union Files]
  BY DEF WebReject, Inv, TypeOK
<1>3. ASSUME tree' \in Files
      PROVE  learner' \in [Task -> {None} \union [read : SUBSET Task]]
  BY <1>3 DEF WebReject, LearnFromRejection, Inv, TypeOK, Files
<1>4. CASE CanCheckout(Main) /\ head' = Main /\ tree' = CarriedOver(Main)
           /\ at' = [at EXCEPT ![t] = None]
           /\ IF head = Main THEN UNCHANGED moved ELSE MovesOthers({})
  <2>1. at[Main] \in Files /\ tree' \in Files
    BY <1>1, <1>4, CheckoutType DEF Inv
  <2>2. Switched(Main, {})
    BY <1>1, <1>2, <1>4, <2>1 DEF MovesOthers, Switched, Inv, TypeOK
  <2>3. QED
    BY <1>1, <1>3, <2>1, <2>2, SwitchInv DEF Inv, TypeOK
<1>5. CASE /\ UNCHANGED <<head, tree, moved>>
           /\ at' = IF head = t THEN at ELSE [at EXCEPT ![t] = None]
  <2>1. at'[head] \in Files /\ tree' \in Files
    BY <1>1, <1>5 DEF Inv, TypeOK
  <2>2. TypeOK'
    BY <1>1, <1>2, <1>3, <1>5, <2>1 DEF agentVars, Inv, TypeOK
  <2>3. OnOwnBranch' /\ RepairIsDue' /\ ReportIsTrue'
    BY <1>1, <1>5 DEF agentVars, Inv, OnOwnBranch, RepairIsDue, ReportIsTrue
  <2>4. QED
    BY <2>2, <2>3 DEF Inv
<1>6. QED
  BY <1>4, <1>5 DEF WebReject

LEMMA LearnsInv ==
    ASSUME Inv, NEW t \in Task, Learns(t)
    PROVE  Inv'
<1>1. learner[t] \in [read : SUBSET Task]
  BY DEF Learns, Inv, TypeOK
<1>2. tree' \in Files
  BY <1>1 DEF Learns, Merged, Inv, TypeOK, Files
<1>3. learner' \in [Task -> {None} \union [read : SUBSET Task]]
  BY DEF Learns, Inv, TypeOK
<1>4. TypeOK'
  BY <1>2, <1>3 DEF Learns, agentVars, Inv, TypeOK
<1>5. OnOwnBranch' /\ RepairIsDue' /\ ReportIsTrue'
  BY DEF Learns, agentVars, Inv, OnOwnBranch, RepairIsDue, ReportIsTrue
<1>6. QED
  BY <1>4, <1>5 DEF Inv

LEMMA StutterInv ==
    ASSUME Inv, UNCHANGED vars
    PROVE  Inv'
BY DEF vars, treeVars, agentVars, Inv, TypeOK, OnOwnBranch, RepairIsDue,
       ReportIsTrue

LEMMA NextInv == Inv /\ [Next]_vars => Inv'
BY BranchesInv, EditsInv, CommitsInv, FailsInv, ReviewsInv, OperatorInv,
   PublishInv, AcceptInv, RejectInv, LearnsInv, StutterInv
DEF Next, Agent

THEOREM Invariance == Spec => []Inv
<1>1. QED
  BY InitInv, NextInv, PTL DEF Spec

-----------------------------------------------------------------------------
(* The theorems.                                                           *)

\* Type correctness (git_ops.py, repo_branch_agent.py): in particular, what
\* is checked out has a tip, and the rounds and attempts keep to their limits.
THEOREM TypeCorrect == Spec => []TypeOK
BY Invariance, PTL DEF Inv

\* Agents work on the branch of their task unless another process has checked
\* out under their hands (repo_branch_agent.py, git_ops.py, webui.py).
THEOREM AgentsOnOwnBranch == Spec => []OnOwnBranch
BY Invariance, PTL DEF Inv

\* What is reported clean is what was reviewed, and what is flagged is not
\* fine, in whichever way the loop ends (_review_and_repair).
THEOREM ReportsAreTrue == Spec => []ReportIsTrue
BY Invariance, PTL DEF Inv

\* No implementation is begun on tests that the review has not let pass since
\* they were written, unless the operator skips them (test_author_agent.py,
\* escalation.py).
THEOREM TestsBeforeCode == Spec => TestsFirst
<1>1. ASSUME Inv, [Next]_vars
      PROVE  \A e \in Executor : phase'[e] # phase[e] =>
                                    verdict'[e] = "fine" \/ OperatorSkips(e)
  <2>1. CASE UNCHANGED phase
    BY <2>1
  <2>2. CASE \E e \in Executor : Reviews(e)
    BY <1>1, <2>2, ReviewsInv
  <2>3. CASE \E e \in Executor : AgentFails(e)
    BY <1>1, <2>3, FailsInv
  <2>4. CASE \E e \in Executor : Operator(e)
    BY <1>1, <2>4, OperatorInv
  <2>5. QED
    BY <1>1, <2>1, <2>2, <2>3, <2>4
    DEF Next, Agent, ExecutorBranches, AgentEdits, AgentCommits,
        PublishBegins, PublishForks, PublishEnds, PublishVars, WebAccept,
        WebReject, Learns, vars, agentVars
<1>2. QED
  BY Invariance, <1>1, PTL DEF Spec, TestsFirst
=============================================================================
