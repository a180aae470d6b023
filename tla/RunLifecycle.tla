--------------------------- MODULE RunLifecycle ---------------------------
(***************************************************************************)
(* The way of ONE run through the phases, from the debate to Gate 3.  Each *)
(* phase is a process of its own (start_project, the Gate 1 page,          *)
(* run_phase_b, run_phase_b_gate2, the web UI, a resumed executor) that    *)
(* reads runs.status, works for minutes, and writes it; nothing but SQLite *)
(* and the directories of the artifacts ties them together.  What happens  *)
(* inside the execution phase is ExecutionEngine, inside one promotion     *)
(* Promotion.                                                              *)
(***************************************************************************)
EXTENDS Naturals, FiniteSets

CONSTANTS
    Proc,    \* processes that may be at work on the run at the same time
    NoProc

ASSUME ProcAssumption == NoProc \notin Proc

Terminal == {"COMPLETED", "FAILED", "ABORTED"}
Running  == {"RUNNING_PHASE_1A", "RUNNING_PHASE_1B", "RUNNING_PHASE_1D",
             "RUNNING_PHASE_3", "RUNNING_EXECUTION", "RUNNING_PHASE_V"}
Paused   == {"PAUSED_AT_GATE_1", "PAUSED_AT_GATE_2", "PAUSED_FOR_DECISION",
             "PAUSED_AT_GATE_3", "PAUSED_AT_GATE_3B"}
Status   == {"NONE"} \union Running \union Paused \union Terminal

\* The artifact types of the phases, each with what it is derived from.
Requires == [
    DEBATE_REPORT        |-> {},
    APPROVED_ANSWERS     |-> {"DEBATE_REPORT"},
    DECISION_LOG         |-> {"DEBATE_REPORT"},
    SPEC_BUNDLE          |-> {"APPROVED_ANSWERS"},
    TASK_GRAPH_GENERATED |-> {"SPEC_BUNDLE", "APPROVED_ANSWERS"},
    TASK_GRAPH_APPROVED  |-> {"TASK_GRAPH_GENERATED"},
    VERIFICATION_REPORT  |-> {"SPEC_BUNDLE", "TASK_GRAPH_APPROVED"}]
Type == DOMAIN Requires

\* The task_runs the phases create for their own steps, all as attempt 1.
PhaseRow == {"generate_questions", "run_debate", "gate1_approved_answers",
             "gate1_decision_log", "finalize_spec", "generate_task_graph",
             "task_graph_gate2", "task_graph_gate2_resume",
             "verification_report"}

VARIABLES
    db,      \* what is committed
    draft,   \* what the process in SQLite's write transaction sees
    writer,  \* that process, or NoProc
    dirs,    \* artifact directories on disk, by <<type, version>>
    pc,      \* where each process is
    seen     \* the status a web request has decided to write

vars == <<db, draft, writer, dirs, pc, seen>>

Empty == [status       |-> "NONE",
          row          |-> [r \in PhaseRow |-> "NONE"],
          version      |-> [t \in Type |-> 0],
          materialized |-> FALSE]

Init ==
    /\ db = Empty /\ draft = Empty
    /\ writer = NoProc
    /\ dirs = {}
    /\ pc = [p \in Proc |-> "idle"]
    /\ seen = [p \in Proc |-> "NONE"]

-----------------------------------------------------------------------------
(* One connection with one open transaction at most; the first write of a  *)
(* transaction takes the lock, COMMIT gives it back.                       *)

Goto(p, to) == pc' = [pc EXCEPT ![p] = to] /\ UNCHANGED seen

Write(p, d) ==
    /\ writer \in {NoProc, p}
    /\ draft' = d
    /\ writer' = p
    /\ UNCHANGED db

Commit(p, d) ==
    /\ writer \in {NoProc, p}
    /\ db' = d /\ draft' = d
    /\ writer' = NoProc

\* A transaction of a connection that none of the phases' processes holds.
CommitBeside(d) ==
    /\ writer = NoProc
    /\ db' = d /\ draft' = d
    /\ UNCHANGED writer

\* Seeded fault: no UNIQUE (run_id, task_id, attempt_number).
CreatableTwice(r) == TRUE

\* create_sync raises when the row exists.
Creatable(r) == draft.row[r] = "NONE"

\* promote_output on row r: a new version of t.  It raises when the
\* directory of that version is there already.
Promote(p, r, t) ==
    LET next == <<t, draft.version[t] + 1>> IN
    /\ next \notin dirs
    /\ dirs' = dirs \union {next}
    /\ Write(p, [draft EXCEPT !.row[r] = "SUCCESS", !.version[t] = @ + 1])

SetStatus(to) == [draft EXCEPT !.status = to]
SetStatusIf(from, to) == IF draft.status \in from THEN SetStatus(to) ELSE draft

-----------------------------------------------------------------------------
(* Phase A: run_debate_pipeline, and start_project's commit.               *)

StartRun(p) ==
    /\ pc[p] = "idle"
    /\ db.status = "NONE"
    /\ Commit(p, [draft EXCEPT !.status = "RUNNING_PHASE_1A",
                               !.row["generate_questions"] = "RUNNING"])
    /\ Goto(p, "questions")
    /\ UNCHANGED dirs

\* The row of generate_questions is never touched again.
StartDebate(p) ==
    /\ pc[p] = "questions"
    /\ Commit(p, [draft EXCEPT !.status = "RUNNING_PHASE_1B",
                               !.row["run_debate"] = "RUNNING"])
    /\ Goto(p, "debate")
    /\ UNCHANGED dirs

PromoteReport(p) ==
    /\ pc[p] = "debate"
    /\ draft.row["run_debate"] = "RUNNING"
    /\ Promote(p, "run_debate", "DEBATE_REPORT")
    /\ Goto(p, "reported")

CommitReport(p) ==
    /\ pc[p] = "reported"
    /\ Commit(p, SetStatus("PAUSED_AT_GATE_1"))
    /\ Goto(p, "idle")
    /\ UNCHANGED dirs

-----------------------------------------------------------------------------
(* Gate 1: a review of the report ends in finalize_gate1 and a commit.     *)
(* `ai-dev gate review-debate finalize' ends without: that is a Crash.     *)

OpenGate1(p) ==
    /\ pc[p] = "idle"
    /\ db.version["DEBATE_REPORT"] > 0
    /\ Goto(p, "gate1")
    /\ UNCHANGED <<db, draft, writer, dirs>>

PromoteAnswers(p) ==
    /\ pc[p] = "gate1"
    /\ Creatable("gate1_approved_answers")
    /\ Promote(p, "gate1_approved_answers", "APPROVED_ANSWERS")
    /\ Goto(p, "answered")

PromoteLog(p) ==
    /\ pc[p] = "answered"
    /\ Creatable("gate1_decision_log")
    /\ Promote(p, "gate1_decision_log", "DECISION_LOG")
    /\ Goto(p, "logged")

\* Whatever the status was.
CommitGate1(p) ==
    /\ pc[p] = "logged"
    /\ Commit(p, SetStatus("RUNNING_PHASE_1D"))
    /\ Goto(p, "idle")
    /\ UNCHANGED dirs

-----------------------------------------------------------------------------
(* Phase B up to Gate 2: run_phase_b_pipeline and run_phase_b_to_gate2,    *)
(* which share _phase_b_spec_and_graph.  The status is read once.          *)

ReadPhaseB(p) ==
    /\ pc[p] = "idle"
    /\ db.status = "RUNNING_PHASE_1D"
    /\ Goto(p, "phase_b")
    /\ UNCHANGED <<db, draft, writer, dirs>>

PromoteSpec(p) ==
    /\ pc[p] = "phase_b"
    /\ Creatable("finalize_spec")
    /\ Promote(p, "finalize_spec", "SPEC_BUNDLE")
    /\ Goto(p, "specified")

\* Promote the generated graph, and create the row of Gate 2.
PromoteGraph(p) ==
    LET next == <<"TASK_GRAPH_GENERATED", draft.version["TASK_GRAPH_GENERATED"] + 1>> IN
    /\ pc[p] = "specified"
    /\ Creatable("generate_task_graph") /\ Creatable("task_graph_gate2")
    /\ next \notin dirs
    /\ dirs' = dirs \union {next}
    /\ Write(p, [draft EXCEPT !.row["generate_task_graph"] = "SUCCESS",
                              !.row["task_graph_gate2"] = "RUNNING",
                              !.version["TASK_GRAPH_GENERATED"] = @ + 1])
    /\ Goto(p, "drafted")

\* run_phase_b_to_gate2: the row of Gate 2 stays RUNNING.
PauseAtGate2(p) ==
    /\ pc[p] = "drafted"
    /\ Commit(p, SetStatusIf({"RUNNING_PHASE_1D"}, "PAUSED_AT_GATE_2"))
    /\ Goto(p, "idle")
    /\ UNCHANGED dirs

\* run_phase_b_pipeline: Gate 2 inside the transaction.  A rejection raises
\* and nothing is kept: that is a Crash.
ApproveInline(p) ==
    /\ pc[p] = "drafted"
    /\ Promote(p, "task_graph_gate2", "TASK_GRAPH_APPROVED")
    /\ Goto(p, "approved")

-----------------------------------------------------------------------------
(* Gate 2 of a paused run: resume_phase_b_after_gate2.                     *)

\* Seeded fault: the entry guard is gone.
AtGate2Unchecked == db.version["SPEC_BUNDLE"] > 0

\* The entry guard, asserted once.
AtGate2 == db.status = "PAUSED_AT_GATE_2"

ReadGate2(p) ==
    /\ pc[p] = "idle"
    /\ AtGate2
    /\ Goto(p, "gate2")
    /\ UNCHANGED <<db, draft, writer, dirs>>

RejectGate2(p) ==
    /\ pc[p] = "gate2"
    /\ Commit(p, SetStatusIf({"PAUSED_AT_GATE_2"}, "ABORTED"))
    /\ Goto(p, "idle")
    /\ UNCHANGED dirs

ApproveGate2(p) ==
    /\ pc[p] = "gate2"
    /\ Creatable("task_graph_gate2_resume")
    /\ Promote(p, "task_graph_gate2_resume", "TASK_GRAPH_APPROVED")
    /\ Goto(p, "approved")

-----------------------------------------------------------------------------
(* Both ways on: _phase_b_promote_and_execute.                             *)

CommitApproved(p) ==
    /\ pc[p] = "approved"
    /\ Commit(p, draft)
    /\ Goto(p, "phase_3")
    /\ UNCHANGED dirs

\* Seeded fault: no commit before run_execution.
EnterPhase3Uncommitted(p) ==
    /\ pc[p] = "phase_3"
    /\ Write(p, SetStatusIf({"RUNNING_PHASE_1D", "PAUSED_AT_GATE_2"},
                            "RUNNING_PHASE_3"))
    /\ Goto(p, "starting")
    /\ UNCHANGED dirs

EnterPhase3(p) ==
    /\ pc[p] = "phase_3"
    /\ Commit(p, SetStatusIf({"RUNNING_PHASE_1D", "PAUSED_AT_GATE_2"},
                             "RUNNING_PHASE_3"))
    /\ Goto(p, "starting")
    /\ UNCHANGED dirs

\* run_execution materializes on a connection of its own, once per graph.
Materialize(p) ==
    /\ pc[p] = "starting"
    /\ CommitBeside(IF draft.materialized THEN draft ELSE
          [SetStatusIf({"RUNNING_PHASE_3"}, "RUNNING_EXECUTION")
              EXCEPT !.materialized = TRUE])
    /\ Goto(p, "executing")
    /\ UNCHANGED dirs

\* _wait_for_terminal_state returned; with an LLM, COMPLETED leads on to
\* verification.
ExecutionReturns(p) ==
    /\ pc[p] = "executing"
    /\ db.status \in Terminal
    /\ \/ Goto(p, "idle")
       \/ db.status = "COMPLETED" /\ Goto(p, "verify")
    /\ UNCHANGED <<db, draft, writer, dirs>>

\* Phase V is one transaction, so nobody sees its RUNNING_PHASE_V.
Verify(p) ==
    /\ pc[p] = "verify"
    /\ Creatable("verification_report")
    /\ Promote(p, "verification_report", "VERIFICATION_REPORT")
    /\ Goto(p, "verified")

CommitVerification(p) ==
    /\ pc[p] = "verified"
    /\ Commit(p, SetStatus("PAUSED_AT_GATE_3"))
    /\ Goto(p, "idle")
    /\ UNCHANGED dirs

-----------------------------------------------------------------------------
(* Gate 3: finalize_gate3, and its caller's commit.                        *)

\* Seeded fault: a run without a report is finalized all the same.
ReportOptional == db.version["DEBATE_REPORT"] > 0

HasReport == db.version["VERIFICATION_REPORT"] > 0

\* ABORT; everything passed or skipped; failures are left, attempts too; or
\* no attempt is left.
FinalizeGate3(p) ==
    /\ pc[p] = "idle"
    /\ HasReport
    /\ \E to \in {"ABORTED", "COMPLETED"}
             \union IF draft.version["VERIFICATION_REPORT"] < 3
                    THEN {"RUNNING_PHASE_V"} ELSE {"PAUSED_AT_GATE_3B"} :
           Commit(p, SetStatus(to))
    /\ UNCHANGED <<dirs, pc, seen>>

-----------------------------------------------------------------------------
(* The execution phase, as far as runs.status can tell.                    *)

Executing == \E p \in Proc : pc[p] \in {"executing", "resumed"}

\* check_completion, in a tick of some executor.
CheckCompletion ==
    /\ Executing /\ db.materialized
    /\ db.status = "RUNNING_EXECUTION"
    /\ \E to \in {"COMPLETED", "PAUSED_FOR_DECISION"} : CommitBeside(SetStatus(to))
    /\ UNCHANGED <<dirs, pc, seen>>

\* Every row of the run that is in a status of S gets status `to'.
SetRows(S, to) ==
    [r \in PhaseRow |-> IF draft.row[r] \in S THEN to ELSE draft.row[r]]

\* resolve_escalation of an escalation the engine has opened: retry or skip; or
\* abort, with all unfinished rows of the run and WHATEVER the status is by
\* then, COMPLETED or a later gate included.
ResolveEscalation ==
    /\ db.materialized
    /\ \/ /\ db.status = "PAUSED_FOR_DECISION"
          /\ CommitBeside(SetStatus("RUNNING_EXECUTION"))
       \/ CommitBeside([SetStatus("FAILED") EXCEPT
                !.row = SetRows({"RUNNING", "PENDING"}, "ABORTED")])
    /\ UNCHANGED <<dirs, pc, seen>>

\* Somebody finds the executor of a run dead and asks for a resume.
AskResume(p) ==
    /\ pc[p] = "idle"
    /\ db.status = "RUNNING_EXECUTION"
    /\ Goto(p, "resuming")
    /\ UNCHANGED <<db, draft, writer, dirs>>

\* run_resume: every RUNNING row of the run goes back to PENDING, the rows
\* of the phases included; the graph is materialized already.
ResumeRun(p) ==
    /\ pc[p] = "resuming"
    /\ Commit(p, [draft EXCEPT !.row = SetRows({"RUNNING"}, "PENDING")])
    /\ Goto(p, "resumed")
    /\ UNCHANGED dirs

ResumeReturns(p) ==
    /\ pc[p] = "resumed"
    /\ db.status \in Terminal
    /\ Goto(p, "idle")
    /\ UNCHANGED <<db, draft, writer, dirs>>

\* mark_ready_tasks and the workers take any PENDING row of the run, a phase's
\* too; what becomes of the row then is the engine's affair.
WorkerTakes(r) ==
    /\ Executing
    /\ db.status = "RUNNING_EXECUTION"
    /\ draft.row[r] = "PENDING"
    /\ CommitBeside([draft EXCEPT !.row[r] = "TAKEN"])
    /\ UNCHANGED <<dirs, pc, seen>>

-----------------------------------------------------------------------------
(* The web UI and `ai-dev phase-b abort': read, decide, write.             *)

\* _APPROVABLE_STATUSES.
Approves == [PAUSED_AT_GATE_2    |-> "RUNNING_PHASE_3",
             PAUSED_FOR_DECISION |-> "RUNNING_EXECUTION",
             PAUSED_AT_GATE_3    |-> "RUNNING_PHASE_V",
             PAUSED_AT_GATE_3B   |-> "RUNNING_PHASE_V"]

WebReads(p) ==
    /\ pc[p] = "idle"
    /\ \/ db.status \in Running /\ seen' = [seen EXCEPT ![p] = "ABORTED"]
       \/ db.status \in DOMAIN Approves /\ seen' = [seen EXCEPT ![p] = Approves[db.status]]
    /\ pc' = [pc EXCEPT ![p] = "web"]
    /\ UNCHANGED <<db, draft, writer, dirs>>

WebWrites(p) ==
    /\ pc[p] = "web"
    /\ Commit(p, SetStatus(seen[p]))
    /\ pc' = [pc EXCEPT ![p] = "idle"]
    /\ seen' = [seen EXCEPT ![p] = "NONE"]
    /\ UNCHANGED dirs

-----------------------------------------------------------------------------
\* Seeded fault: the connection goes back to a pool, transaction and all.
RollbackForgotten(p) == IF writer = p THEN draft ELSE draft

\* What a process that ends leaves of its transaction.
Rollback(p) == IF writer = p THEN db ELSE draft

\* The process dies, a step raises (a row or a directory is in the way), the
\* lock is not to be had within busy_timeout, a person rejects the graph
\* inline, or the connection is closed without a commit.  Directories stay.
Crash(p) ==
    /\ pc[p] # "idle"
    /\ draft' = Rollback(p)
    /\ writer' = IF writer = p THEN NoProc ELSE writer
    /\ pc' = [pc EXCEPT ![p] = "idle"]
    /\ seen' = [seen EXCEPT ![p] = "NONE"]
    /\ UNCHANGED <<db, dirs>>

PhaseStep(p) ==
    \/ StartRun(p) \/ StartDebate(p) \/ PromoteReport(p) \/ CommitReport(p)
    \/ OpenGate1(p) \/ PromoteAnswers(p) \/ PromoteLog(p) \/ CommitGate1(p)
    \/ ReadPhaseB(p) \/ PromoteSpec(p) \/ PromoteGraph(p)
    \/ PauseAtGate2(p) \/ ApproveInline(p)
    \/ ReadGate2(p) \/ RejectGate2(p) \/ ApproveGate2(p)
    \/ CommitApproved(p) \/ EnterPhase3(p) \/ Materialize(p)
    \/ ExecutionReturns(p) \/ Verify(p) \/ CommitVerification(p)
    \/ FinalizeGate3(p)
    \/ AskResume(p) \/ ResumeRun(p) \/ ResumeReturns(p)

Next ==
    \/ \E p \in Proc : PhaseStep(p) \/ WebReads(p) \/ WebWrites(p) \/ Crash(p)
    \/ CheckCompletion
    \/ ResolveEscalation
    \/ \E r \in PhaseRow : WorkerTakes(r)

Spec == Init /\ [][Next]_vars

-----------------------------------------------------------------------------
(* Properties.                                                             *)

PhaseRowStatus == {"NONE", "RUNNING", "SUCCESS", "PENDING", "TAKEN", "ABORTED"}
Place == {"idle", "questions", "debate", "reported", "gate1", "answered",
          "logged", "phase_b", "specified", "drafted", "gate2", "approved",
          "phase_3", "starting", "executing", "verify", "verified",
          "resuming", "resumed", "web"}
Rows == [status : Status, row : [PhaseRow -> PhaseRowStatus],
         version : [Type -> Nat], materialized : BOOLEAN]

\* The type of every variable; and whoever starts to write sees what is
\* committed, also after another process died inside its transaction.
TypeOK ==
    /\ db \in Rows /\ draft \in Rows
    /\ writer \in Proc \union {NoProc}
    /\ writer = NoProc => draft = db
    /\ dirs \subseteq Type \X (Nat \ {0})
    /\ pc \in [Proc -> Place]
    /\ seen \in [Proc -> Status]

\* The statuses a run is in only after the outputs of a phase are there.
AfterDebate  == Status \ {"NONE", "RUNNING_PHASE_1A", "RUNNING_PHASE_1B", "ABORTED"}
AfterGate1   == AfterDebate \ {"PAUSED_AT_GATE_1"}
AfterSpec    == AfterGate1 \ {"RUNNING_PHASE_1D"}
AfterGate2   == AfterSpec \ {"PAUSED_AT_GATE_2"}
AfterVerdict == {"PAUSED_AT_GATE_3", "PAUSED_AT_GATE_3B", "RUNNING_PHASE_V"}

Has(d, t) == d.version[t] > 0

\* The outputs in the rows d suffice for a run in status s.
HasInputs(d, s) ==
    /\ s \in AfterDebate => Has(d, "DEBATE_REPORT")
    /\ s \in AfterGate1 => Has(d, "APPROVED_ANSWERS") /\ Has(d, "DECISION_LOG")
    /\ s \in AfterSpec => Has(d, "SPEC_BUNDLE") /\ Has(d, "TASK_GRAPH_GENERATED")
    /\ s \in AfterGate2 => Has(d, "TASK_GRAPH_APPROVED")
    /\ s \in AfterVerdict => Has(d, "VERIFICATION_REPORT")

\* Most writes of runs.status do not look at what they overwrite, yet they show
\* the run in no phase whose inputs have not been delivered: not after a crash,
\* and not when a reviewer, a pipeline, an abort and a web request overlap.  One
\* write breaks this, and no other: the web UI's approval at Gate 2 promotes no
\* graph and writes RUNNING_PHASE_3, whose input that graph is
\* (docs/schema/execution-engine.md:36); all its other inputs are there.
PhaseHasInputs ==
    [][\/ HasInputs(db', db'.status)
       \/ /\ db'.status = "RUNNING_PHASE_3"
          /\ HasInputs(db', "PAUSED_AT_GATE_2")
          /\ db.status = "RUNNING_PHASE_3" \/ \E p \in Proc : WebWrites(p)]_vars

\* Of all the processes that saw the run wait for Gate 2 (or ran into it),
\* one at most goes on to execute its graph.
OneApprover ==
    \A p, q \in Proc :
        {pc[p], pc[q]} \subseteq {"approved", "phase_3", "starting", "executing",
                                  "verify", "verified"} => p = q

\* No process waits for the threads of its own executor, which write on
\* connections of their own, with the write lock in its hand.
ExecutorHoldsNoLock ==
    \A p \in Proc : pc[p] \in {"starting", "executing", "resumed"} => writer # p

\* How far a run in a given status has come.
Progress(s) ==
    CASE s \in {"NONE", "RUNNING_PHASE_1A"} -> 0
      [] s = "RUNNING_PHASE_1B" -> 1
      [] s = "PAUSED_AT_GATE_1" -> 2
      [] s = "RUNNING_PHASE_1D" -> 3
      [] s = "PAUSED_AT_GATE_2" -> 4
      [] s = "RUNNING_PHASE_3" -> 5
      [] s \in {"RUNNING_EXECUTION", "PAUSED_FOR_DECISION"} -> 6
      [] OTHER -> 7

\* The pipelines themselves never take a run back to an earlier phase, late
\* as their unconditional writes may come; only a web request that decided
\* on an old status can, and an aborted run can be revived.
NoWayBack ==
    [][\/ \E p \in Proc : WebWrites(p)
       \/ "ABORTED" \in {db.status, db'.status}
       \/ Progress(db'.status) >= Progress(db.status)]_vars

\* A run delivers as Milestones promises: every output once, in order.
Outputs == INSTANCE Milestones WITH version <- db.version
ImplementsMilestones == Outputs!Spec
=============================================================================
