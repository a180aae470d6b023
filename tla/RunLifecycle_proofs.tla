------------------------ MODULE RunLifecycle_proofs ------------------------
(***************************************************************************)
(* Proofs about RunLifecycle, for any number of processes.                 *)
(***************************************************************************)
EXTENDS RunLifecycle, TLAPS

\* Places inside SQLite's write transaction.
Txn == {"reported", "answered", "logged", "specified", "drafted", "approved",
        "verified"}

\* Places that a process reaches only when certain outputs are there, in its
\* draft if it is in a transaction, and committed otherwise.
WithReport  == Place \ {"idle", "questions", "debate", "resuming", "resumed", "web"}
WithAnswers == WithReport \ {"reported", "gate1"}
WithLog     == WithAnswers \ {"answered"}
WithSpec    == WithLog \ {"logged", "phase_b"}
WithDraft   == WithSpec \ {"specified"}
WithGraph   == WithDraft \ {"drafted", "gate2"}

Ready(d, w) ==
    /\ w \in WithReport => Has(d, "DEBATE_REPORT")
    /\ w \in WithAnswers => Has(d, "APPROVED_ANSWERS")
    /\ w \in WithLog => Has(d, "DECISION_LOG")
    /\ w \in WithSpec => Has(d, "SPEC_BUNDLE")
    /\ w \in WithDraft => Has(d, "TASK_GRAPH_GENERATED")
    /\ w \in WithGraph => Has(d, "TASK_GRAPH_APPROVED")
    /\ w = "verified" => Has(d, "VERIFICATION_REPORT")

\* The outputs there are when a run is shown in status s: its inputs, but for
\* the approved graph in RUNNING_PHASE_3, which the web UI writes without.
Shown(d, s) ==
    \/ HasInputs(d, s)
    \/ s = "RUNNING_PHASE_3" /\ HasInputs(d, "PAUSED_AT_GATE_2")

\* Nothing that was delivered is taken back.
Grown(c, d) == \A t \in Type : c.version[t] <= d.version[t]

\* Rows as a transaction may commit them: what the status claims is there, and
\* so is everything in front of an execution or of a verdict.
Coherent(d) ==
    /\ Shown(d, d.status)
    /\ d.materialized => Ready(d, "executing")
    /\ Has(d, "VERIFICATION_REPORT") => Ready(d, "verified")

\* The rows process p relies on.
View(p) == IF pc[p] \in Txn THEN draft ELSE db

Inv ==
    /\ TypeOK
    /\ Coherent(db) /\ Coherent(draft)
    /\ Grown(db, draft)
    /\ \A p \in Proc : pc[p] \in Txn <=> writer = p
    /\ \A p \in Proc : Ready(View(p), pc[p])
    /\ \A p \in Proc : pc[p] = "web" => Shown(db, seen[p])

-----------------------------------------------------------------------------
(* Rows.                                                                   *)

LEMMA Types ==
    Type = {"DEBATE_REPORT", "APPROVED_ANSWERS", "DECISION_LOG", "SPEC_BUNDLE",
            "TASK_GRAPH_GENERATED", "TASK_GRAPH_APPROVED", "VERIFICATION_REPORT"}
  BY DEF Type, Requires

\* What was there is there in later rows.
LEMMA StillThere ==
    ASSUME NEW c \in Rows, NEW d \in Rows, Grown(c, d), NEW x
    PROVE  /\ Shown(c, x) => Shown(d, x)
           /\ Ready(c, x) => Ready(d, x)
  <1>1. ASSUME NEW t \in Type, Has(c, t) PROVE Has(d, t)
    <2>1. c.version[t] \in Nat /\ d.version[t] \in Nat
      BY DEF Rows
    <2>2. c.version[t] <= d.version[t]
      BY DEF Grown
    <2> QED
      BY <1>1, <2>1, <2>2 DEF Has
  <1>2. Shown(c, x) => Shown(d, x)
    BY <1>1, Types DEF Shown, HasInputs
  <1>3. Ready(c, x) => Ready(d, x)
    BY <1>1, Types DEF Ready
  <1> QED
    BY <1>2, <1>3

LEMMA GrownIsTransitive ==
    ASSUME NEW b \in Rows, NEW c \in Rows, NEW d \in Rows, Grown(b, c), Grown(c, d)
    PROVE  Grown(b, d)
  <1> SUFFICES ASSUME NEW t \in Type PROVE b.version[t] <= d.version[t]
    BY DEF Grown
  <1>1. b.version[t] \in Nat /\ c.version[t] \in Nat /\ d.version[t] \in Nat
    BY DEF Rows
  <1>2. b.version[t] <= c.version[t] /\ c.version[t] <= d.version[t]
    BY DEF Grown
  <1> QED
    BY <1>1, <1>2

LEMMA GrownIsReflexive ==
    ASSUME NEW d \in Rows PROVE Grown(d, d)
  BY DEF Grown, Rows

\* Rows with the versions of coherent ones, but another status, are coherent
\* when the outputs suffice for that status.
LEMMA NewStatus ==
    ASSUME NEW c \in Rows, NEW d \in Rows, Coherent(c), d.version = c.version,
           d.materialized = c.materialized, Shown(c, d.status)
    PROVE  Coherent(d) /\ Grown(c, d)
  <1>1. \A t : Has(c, t) <=> Has(d, t)
    BY DEF Has
  <1>2. Shown(d, d.status)
    BY <1>1 DEF Shown, HasInputs
  <1>3. \A w : Ready(c, w) <=> Ready(d, w)
    BY <1>1 DEF Ready
  <1>4. Grown(c, d)
    BY GrownIsReflexive DEF Grown
  <1> QED
    BY <1>1, <1>2, <1>3, <1>4 DEF Coherent

-----------------------------------------------------------------------------
(* The kinds of steps.                                                     *)

LEMMA Unlocked ==
    ASSUME Inv, NEW p \in Proc, pc[p] \notin Txn, writer \in {NoProc, p}
    PROVE  writer = NoProc /\ draft = db
  BY DEF Inv, TypeOK

\* Process p reads, or moves on without a write.
LEMMA ReadStep ==
    ASSUME Inv, NEW p \in Proc, NEW w \in Place \ Txn, pc[p] \notin Txn,
           UNCHANGED <<db, draft, writer, dirs>>,
           pc' = [pc EXCEPT ![p] = w], Ready(db, w),
           seen' \in [Proc -> Status],
           \A q \in Proc : pc'[q] = "web" => Shown(db, seen'[q])
    PROVE  Inv'
  <1>1. TypeOK'
    BY DEF Inv, TypeOK
  <1>2. Coherent(db)' /\ Coherent(draft)' /\ Grown(db, draft)'
    BY DEF Inv, Coherent, Grown, Shown, HasInputs, Ready, Has
  <1>3. ASSUME NEW q \in Proc
        PROVE  /\ (pc[q] \in Txn <=> writer = q)'
               /\ Ready(View(q), pc[q])'
               /\ (pc[q] = "web" => Shown(db, seen[q]))'
    <2>1. pc'[q] = IF q = p THEN w ELSE pc[q]
      BY DEF Inv, TypeOK
    <2>2. View(q)' = IF q = p THEN db ELSE View(q)
      BY <2>1 DEF View
    <2>3. (pc[q] \in Txn <=> writer = q) /\ (pc[p] \in Txn <=> writer = p)
      BY DEF Inv
    <2>4. Ready(View(q), pc[q])
      BY DEF Inv
    <2>5. Ready(View(q), pc[q])'
      BY <2>1, <2>2, <2>4 DEF Ready, Has
    <2>6. (pc[q] = "web" => Shown(db, seen[q]))'
      BY DEF Shown, HasInputs, Has
    <2> QED
      BY <2>1, <2>3, <2>5, <2>6
  <1> QED
    BY <1>1, <1>2, <1>3 DEF Inv

\* Process p goes on inside its transaction, or begins one.
LEMMA WriteStep ==
    ASSUME Inv, NEW p \in Proc, NEW w \in Txn, NEW d \in Rows,
           Write(p, d), Goto(p, w),
           Coherent(d), Grown(draft, d), Ready(d, w),
           dirs' \subseteq Type \X (Nat \ {0})
    PROVE  Inv'
  <1> USE DEF Write, Goto
  <1>1. w \in Place /\ w # "web"
    BY DEF Txn, Place
  <1>2. TypeOK'
    BY <1>1, ProcAssumption DEF Inv, TypeOK
  <1>3. Coherent(db)' /\ Coherent(draft)'
    BY DEF Inv, Coherent, Shown, HasInputs, Ready, Has
  <1>4. Grown(db, draft)'
    <2>1. Grown(db, d)
      BY GrownIsTransitive DEF Inv, TypeOK
    <2> QED
      BY <2>1 DEF Grown
  <1>5. ASSUME NEW q \in Proc
        PROVE  /\ (pc[q] \in Txn <=> writer = q)'
               /\ Ready(View(q), pc[q])'
               /\ (pc[q] = "web" => Shown(db, seen[q]))'
    <2>1. pc'[q] = IF q = p THEN w ELSE pc[q]
      BY DEF Inv, TypeOK
    <2>2. q # p => pc[q] \notin Txn
      BY ProcAssumption DEF Inv
    <2>3. View(q)' = IF q = p THEN d ELSE View(q)
      BY <2>1, <2>2 DEF View
    <2>4. Ready(View(q), pc[q])
      BY DEF Inv
    <2>5. Ready(View(q), pc[q])'
      BY <2>1, <2>3, <2>4 DEF Ready, Has
    <2>6. (pc[q] = "web" => Shown(db, seen[q]))'
      BY <1>1, <2>1 DEF Inv, Shown, HasInputs, Has
    <2>7. (pc[q] \in Txn <=> writer = q)'
      BY <2>1, <2>2
    <2> QED
      BY <2>5, <2>6, <2>7
  <1> QED
    BY <1>2, <1>3, <1>4, <1>5 DEF Inv

\* The part of the invariant about the other processes survives a commit.
LEMMA OthersSurvive ==
    ASSUME Inv, NEW d \in Rows, Grown(draft, d), NEW q \in Proc, pc[q] \notin Txn
    PROVE  /\ Ready(d, pc[q])
           /\ pc[q] = "web" => Shown(d, seen[q])
  <1>1. Grown(db, d) /\ db \in Rows
    BY GrownIsTransitive DEF Inv, TypeOK
  <1>2. Ready(db, pc[q])
    BY DEF Inv, View
  <1>3. pc[q] = "web" => Shown(db, seen[q])
    BY DEF Inv
  <1> QED
    BY <1>1, <1>2, <1>3, StillThere

\* Process p commits and is in no transaction any more.
LEMMA CommitStep ==
    ASSUME Inv, NEW p \in Proc, NEW w \in Place \ Txn, NEW d \in Rows,
           Commit(p, d), pc' = [pc EXCEPT ![p] = w], w # "web",
           seen' \in [Proc -> Status], \A q \in Proc \ {p} : seen'[q] = seen[q],
           Coherent(d), Grown(draft, d), Ready(d, w), UNCHANGED dirs
    PROVE  Inv'
  <1> USE DEF Commit
  <1>1. TypeOK'
    BY DEF Inv, TypeOK
  <1>2. Coherent(db)' /\ Coherent(draft)' /\ Grown(db, draft)'
    BY GrownIsReflexive DEF Coherent, Shown, HasInputs, Ready, Has, Grown
  <1>3. ASSUME NEW q \in Proc
        PROVE  /\ (pc[q] \in Txn <=> writer = q)'
               /\ Ready(View(q), pc[q])'
               /\ (pc[q] = "web" => Shown(db, seen[q]))'
    <2>1. pc'[q] = IF q = p THEN w ELSE pc[q]
      BY DEF Inv, TypeOK
    <2>2. q # p => pc[q] \notin Txn
      BY ProcAssumption DEF Inv
    <2>3. View(q)' = d
      BY <2>1, <2>2 DEF View
    <2>4. q # p => Ready(d, pc[q]) /\ (pc[q] = "web" => Shown(d, seen[q]))
      BY <2>2, OthersSurvive
    <2>5. Ready(View(q), pc[q])'
      BY <2>1, <2>3, <2>4 DEF Ready, Has
    <2>6. (pc[q] = "web" => Shown(db, seen[q]))'
      BY <2>1, <2>4 DEF Shown, HasInputs, Has
    <2>7. (pc[q] \in Txn <=> writer = q)'
      BY <2>1, <2>2, ProcAssumption
    <2> QED
      BY <2>5, <2>6, <2>7
  <1> QED
    BY <1>1, <1>2, <1>3 DEF Inv

\* Somebody else commits.
LEMMA BesideStep ==
    ASSUME Inv, NEW d \in Rows, CommitBeside(d), UNCHANGED <<dirs, pc, seen>>,
           Coherent(d), Grown(draft, d)
    PROVE  Inv'
  <1> USE DEF CommitBeside
  <1>1. TypeOK'
    BY DEF Inv, TypeOK
  <1>2. Coherent(db)' /\ Coherent(draft)' /\ Grown(db, draft)'
    BY GrownIsReflexive DEF Coherent, Shown, HasInputs, Ready, Has, Grown
  <1>3. ASSUME NEW q \in Proc
        PROVE  /\ (pc[q] \in Txn <=> writer = q)'
               /\ Ready(View(q), pc[q])'
               /\ (pc[q] = "web" => Shown(db, seen[q]))'
    <2>1. pc[q] \notin Txn
      BY ProcAssumption DEF Inv
    <2>2. View(q)' = d
      BY <2>1 DEF View
    <2>3. Ready(d, pc[q]) /\ (pc[q] = "web" => Shown(d, seen[q]))
      BY <2>1, OthersSurvive
    <2> QED
      BY <2>1, <2>2, <2>3, ProcAssumption DEF Ready, Shown, HasInputs, Has
  <1> QED
    BY <1>1, <1>2, <1>3 DEF Inv

LEMMA CrashStep ==
    ASSUME Inv, NEW p \in Proc, Crash(p) PROVE Inv'
  <1> USE DEF Crash, Rollback
  <1>1. draft' = (IF writer = p THEN db ELSE draft) /\ "idle" \in Place /\ "NONE" \in Status
    BY DEF Place, Status
  <1>2. TypeOK'
    BY <1>1, ProcAssumption DEF Inv, TypeOK
  <1>3. Coherent(db)' /\ Coherent(draft)'
    BY <1>1 DEF Inv, Coherent, Shown, HasInputs, Ready, Has
  <1>4. Grown(db, draft)'
    BY <1>1, GrownIsReflexive DEF Inv, TypeOK, Grown
  <1>5. ASSUME NEW q \in Proc
        PROVE  /\ (pc[q] \in Txn <=> writer = q)'
               /\ Ready(View(q), pc[q])'
               /\ (pc[q] = "web" => Shown(db, seen[q]))'
    <2>1. pc'[q] = IF q = p THEN "idle" ELSE pc[q]
      BY DEF Inv, TypeOK
    <2>2. (pc[q] \in Txn <=> writer = q) /\ (pc[p] \in Txn <=> writer = p)
      BY DEF Inv
    <2>3. (pc[q] \in Txn <=> writer = q)'
      BY <2>1, <2>2, ProcAssumption DEF Txn
    <2>4. CASE q = p
      BY <2>1, <2>3, <2>4 DEF Ready, WithReport, WithAnswers, WithLog, WithSpec,
                            WithDraft, WithGraph
    <2>5. CASE q # p
      <3>1. View(q)' = View(q) /\ pc'[q] = pc[q]
        BY <1>1, <2>1, <2>2, <2>5 DEF View
      <3>2. seen'[q] = seen[q]
        BY <2>5 DEF Inv, TypeOK
      <3>3. Ready(View(q), pc[q]) /\ (pc[q] = "web" => Shown(db, seen[q]))
        BY DEF Inv
      <3>4. Ready(View(q), pc[q])'
        BY <3>1, <3>3 DEF Ready, Has
      <3>5. (pc[q] = "web" => Shown(db, seen[q]))'
        BY <3>1, <3>2, <3>3 DEF Shown, HasInputs, Has
      <3> QED
        BY <2>3, <3>4, <3>5
    <2> QED
      BY <2>4, <2>5
  <1> QED
    BY <1>2, <1>3, <1>4, <1>5 DEF Inv

-----------------------------------------------------------------------------
(* What the steps write.                                                   *)

\* Rows c after row r has delivered a version of t.
Delivered(c, r, t) == [c EXCEPT !.row[r] = "SUCCESS", !.version[t] = @ + 1]

LEMMA NewVersion ==
    ASSUME NEW c \in Rows, NEW r \in PhaseRow, NEW t \in Type
    PROVE  LET d == Delivered(c, r, t) IN
           /\ d \in Rows /\ d.status = c.status /\ d.materialized = c.materialized
           /\ Grown(c, d) /\ Has(d, t)
           /\ \A u \in Type \ {t} : d.version[u] = c.version[u]
  <1> DEFINE d == Delivered(c, r, t)
  <1>1. "SUCCESS" \in PhaseRowStatus
    BY DEF PhaseRowStatus
  <1>2. c.version[t] + 1 \in Nat /\ c.version[t] + 1 > 0 /\ \A u \in Type : c.version[u] \in Nat
    BY DEF Rows
  <1>3. d \in Rows
    BY <1>1, <1>2 DEF Rows, Delivered
  <1>4. d.status = c.status /\ d.materialized = c.materialized
    BY DEF Rows, Delivered
  <1>5. \A u \in Type : d.version[u] = IF u = t THEN c.version[t] + 1 ELSE c.version[u]
    BY DEF Rows, Delivered
  <1> HIDE DEF d
  <1>6. Grown(c, d) /\ Has(d, t)
    BY <1>2, <1>5 DEF Grown, Has
  <1> QED
    BY <1>3, <1>4, <1>5, <1>6 DEF d

LEMMA MoreOutputs ==
    ASSUME NEW c \in Rows, NEW d \in Rows, Coherent(c), Grown(c, d),
           d.status = c.status, d.materialized = c.materialized,
           Has(d, "VERIFICATION_REPORT") =>
              Has(c, "VERIFICATION_REPORT") \/ Ready(d, "verified")
    PROVE  Coherent(d)
  BY StillThere DEF Coherent

LEMMA PromoteStep ==
    ASSUME Inv, NEW p \in Proc, NEW w \in Txn, NEW r \in PhaseRow, NEW t \in Type,
           Promote(p, r, t), Goto(p, w), t = "VERIFICATION_REPORT" => w = "verified",
           \A d \in Rows : Grown(draft, d) /\ Has(d, t) => Ready(d, w)
    PROVE  Inv'
  <1> DEFINE d == Delivered(draft, r, t)
  <1>1. draft \in Rows /\ draft.version[t] + 1 \in Nat \ {0} /\ dirs \subseteq Type \X (Nat \ {0})
    BY DEF Inv, TypeOK, Rows
  <1>2. /\ d \in Rows /\ d.status = draft.status /\ d.materialized = draft.materialized
        /\ Grown(draft, d) /\ Has(d, t)
        /\ \A u \in Type \ {t} : d.version[u] = draft.version[u]
    BY <1>1, NewVersion
  <1>3. Write(p, d) /\ dirs' = dirs \union {<<t, draft.version[t] + 1>>}
    BY DEF Promote, Delivered
  <1> HIDE DEF d
  <1>4. dirs' \subseteq Type \X (Nat \ {0})
    BY <1>1, <1>3
  <1>5. Ready(d, w)
    BY <1>2
  <1>6. Has(d, "VERIFICATION_REPORT") =>
           Has(draft, "VERIFICATION_REPORT") \/ Ready(d, "verified")
    BY <1>2, <1>5, Types DEF Has
  <1>7. Coherent(d)
    BY <1>1, <1>2, <1>6, MoreOutputs DEF Inv
  <1> QED
    BY <1>2, <1>3, <1>4, <1>5, <1>7, WriteStep

\* A commit that only sets the status.
LEMMA StatusStep ==
    ASSUME Inv, NEW p \in Proc, NEW w \in Place \ Txn, NEW to \in Status,
           Commit(p, SetStatus(to)), pc' = [pc EXCEPT ![p] = w], w # "web",
           seen' \in [Proc -> Status], \A q \in Proc \ {p} : seen'[q] = seen[q],
           Shown(draft, to), Ready(draft, w), UNCHANGED dirs
    PROVE  Inv'
  <1> DEFINE d == SetStatus(to)
  <1>1. draft \in Rows /\ Coherent(draft)
    BY DEF Inv, TypeOK
  <1>2. /\ d \in Rows /\ d.status = to
        /\ d.version = draft.version /\ d.materialized = draft.materialized
    BY <1>1 DEF SetStatus, Rows
  <1> HIDE DEF d
  <1>3. Coherent(d) /\ Grown(draft, d)
    BY <1>1, <1>2, NewStatus
  <1>4. Ready(d, w)
    BY <1>1, <1>2, <1>3, StillThere
  <1>5. Commit(p, d)
    BY DEF d
  <1> QED
    BY <1>2, <1>3, <1>4, <1>5, CommitStep

LEMMA BesideStatusStep ==
    ASSUME Inv, NEW to \in Status, CommitBeside(SetStatus(to)),
           UNCHANGED <<dirs, pc, seen>>, Shown(draft, to)
    PROVE  Inv'
  <1> DEFINE d == SetStatus(to)
  <1>1. draft \in Rows /\ Coherent(draft)
    BY DEF Inv, TypeOK
  <1>2. /\ d \in Rows /\ d.status = to
        /\ d.version = draft.version /\ d.materialized = draft.materialized
    BY <1>1 DEF SetStatus, Rows
  <1> HIDE DEF d
  <1>3. Coherent(d) /\ Grown(draft, d)
    BY <1>1, <1>2, NewStatus
  <1>4. CommitBeside(d)
    BY DEF d
  <1> QED
    BY <1>2, <1>3, <1>4, BesideStep

-----------------------------------------------------------------------------
(* The actions.                                                            *)

\* Rows c after a phase has opened row r and set the status.
Opened(c, to, r) == [c EXCEPT !.status = to, !.row[r] = "RUNNING"]

LEMMA OpenedRows ==
    ASSUME NEW c \in Rows, NEW to \in Status, NEW r \in PhaseRow
    PROVE  LET d == Opened(c, to, r) IN
           /\ d \in Rows /\ d.status = to
           /\ d.version = c.version /\ d.materialized = c.materialized
  <1>1. "RUNNING" \in PhaseRowStatus
    BY DEF PhaseRowStatus
  <1>2. Opened(c, to, r) \in Rows
    BY <1>1 DEF Rows, Opened
  <1> QED
    BY <1>2 DEF Rows, Opened

LEMMA InvInit == Init => Inv
  <1> SUFFICES ASSUME Init PROVE Inv
    OBVIOUS
  <1> USE DEF Init, Empty
  <1>1. "NONE" \in Status /\ "NONE" \in PhaseRowStatus /\ "idle" \in Place \ Txn
    BY DEF Status, PhaseRowStatus, Place, Txn
  <1>2. TypeOK
    BY <1>1 DEF TypeOK, Rows
  <1>3. \A t \in Type : ~Has(db, t)
    BY DEF Has
  <1>4. Coherent(db)
    BY <1>3, Types DEF Coherent, Shown, HasInputs, AfterDebate, AfterGate1, AfterSpec,
                       AfterGate2, AfterVerdict
  <1>5. Grown(db, draft)
    BY <1>2, GrownIsReflexive DEF TypeOK
  <1>6. ASSUME NEW p \in Proc PROVE (pc[p] \in Txn <=> writer = p) /\ pc[p] # "web"
    BY <1>1, ProcAssumption
  <1>7. ASSUME NEW p \in Proc PROVE Ready(View(p), pc[p])
    BY DEF Ready, WithReport, WithAnswers, WithLog, WithSpec, WithDraft, WithGraph
  <1> QED
    BY <1>2, <1>4, <1>5, <1>6, <1>7 DEF Inv

LEMMA PhaseA ==
    ASSUME Inv, NEW p \in Proc,
           StartRun(p) \/ StartDebate(p) \/ PromoteReport(p) \/ CommitReport(p)
    PROVE  Inv'
  <1> USE DEF Goto
  <1>1. draft \in Rows /\ Coherent(draft) /\ seen \in [Proc -> Status]
    BY DEF Inv, TypeOK
  <1>2. ASSUME NEW to \in {"RUNNING_PHASE_1A", "RUNNING_PHASE_1B"},
               NEW r \in {"generate_questions", "run_debate"},
               NEW w \in {"questions", "debate"},
               Commit(p, Opened(draft, to, r)), Goto(p, w), UNCHANGED dirs
        PROVE  Inv'
    <2> DEFINE d == Opened(draft, to, r)
    <2>1. to \in Status /\ r \in PhaseRow /\ w \in Place \ Txn /\ w # "web"
      BY DEF Status, Running, PhaseRow, Place, Txn
    <2>2. /\ d \in Rows /\ d.status = to
          /\ d.version = draft.version /\ d.materialized = draft.materialized
      BY <1>1, <2>1, OpenedRows
    <2> HIDE DEF d
    <2>3. Shown(draft, to)
      BY DEF Shown, HasInputs, AfterDebate, AfterGate1, AfterSpec, AfterGate2, AfterVerdict
    <2>4. Coherent(d) /\ Grown(draft, d)
      BY <1>1, <2>2, <2>3, NewStatus
    <2>5. Ready(d, w)
      BY DEF Ready, WithReport, WithAnswers, WithLog, WithSpec, WithDraft, WithGraph
    <2>6. Commit(p, d)
      BY <1>2 DEF d
    <2>7. pc' = [pc EXCEPT ![p] = w] /\ UNCHANGED seen /\ UNCHANGED dirs
      BY <1>2
    <2> QED
      BY <1>1, <2>1, <2>2, <2>4, <2>5, <2>6, <2>7, CommitStep
  <1>3. CASE StartRun(p)
    <2>1. Commit(p, Opened(draft, "RUNNING_PHASE_1A", "generate_questions"))
      BY <1>3 DEF StartRun, Opened
    <2>2. Goto(p, "questions") /\ UNCHANGED dirs
      BY <1>3 DEF StartRun
    <2> QED
      BY <1>2, <2>1, <2>2
  <1>4. CASE StartDebate(p)
    <2>1. Commit(p, Opened(draft, "RUNNING_PHASE_1B", "run_debate"))
      BY <1>4 DEF StartDebate, Opened
    <2>2. Goto(p, "debate") /\ UNCHANGED dirs
      BY <1>4 DEF StartDebate
    <2> QED
      BY <1>2, <2>1, <2>2
  <1>5. CASE PromoteReport(p)
    <2>1. "reported" \in Txn /\ "run_debate" \in PhaseRow /\ "DEBATE_REPORT" \in Type
      BY Types DEF Txn, PhaseRow
    <2>2. Promote(p, "run_debate", "DEBATE_REPORT") /\ Goto(p, "reported")
      BY <1>5 DEF PromoteReport
    <2>3. \A d \in Rows : Has(d, "DEBATE_REPORT") => Ready(d, "reported")
      BY DEF Ready, WithReport, WithAnswers, WithLog, WithSpec, WithDraft, WithGraph
    <2> QED
      BY <2>1, <2>2, <2>3, PromoteStep
  <1>6. CASE CommitReport(p)
    <2>1. pc[p] = "reported" /\ Commit(p, SetStatus("PAUSED_AT_GATE_1"))
          /\ Goto(p, "idle") /\ UNCHANGED dirs
      BY <1>6 DEF CommitReport
    <2>2. Ready(draft, "reported")
      BY <2>1 DEF Inv, View, Txn
    <2>3. Shown(draft, "PAUSED_AT_GATE_1")
      BY <2>2 DEF Ready, WithReport, Place, Shown, HasInputs, AfterGate1, AfterSpec, AfterGate2, AfterVerdict
    <2>4. Ready(draft, "idle")
      BY DEF Ready, WithReport, WithAnswers, WithLog, WithSpec, WithDraft, WithGraph
    <2>5. "PAUSED_AT_GATE_1" \in Status /\ "idle" \in Place \ Txn
      BY DEF Status, Paused, Place, Txn
    <2> QED
      BY <1>1, <2>1, <2>3, <2>4, <2>5, StatusStep
  <1> QED
    BY <1>3, <1>4, <1>5, <1>6

\* What the places and the statuses of a run ask for.
LEMMA Claims ==
    ASSUME NEW d
    PROVE  /\ \A w \in {"idle", "resuming", "resumed", "web"} : Ready(d, w)
           /\ Has(d, "DEBATE_REPORT") => Ready(d, "gate1")
           /\ Shown(d, "RUNNING_PHASE_1D") <=> Ready(d, "phase_b")
           /\ Ready(d, "logged") => Shown(d, "RUNNING_PHASE_1D")
           /\ Shown(d, "PAUSED_AT_GATE_2") <=> Ready(d, "gate2")
           /\ Shown(d, "PAUSED_AT_GATE_2") <=> Shown(d, "RUNNING_PHASE_3")
           /\ Ready(d, "drafted") => Shown(d, "PAUSED_AT_GATE_2")
           /\ Shown(d, "ABORTED")
           /\ \A s \in {"RUNNING_EXECUTION", "PAUSED_FOR_DECISION", "COMPLETED", "FAILED"} :
                 Ready(d, "executing") <=> Shown(d, s)
           /\ \A s \in AfterVerdict : Ready(d, "verified") <=> Shown(d, s)
           /\ Ready(d, "verified") => Ready(d, "executing")
           /\ Ready(d, "executing") => Shown(d, "RUNNING_PHASE_3")
           /\ \A w \in {"approved", "phase_3", "starting", "verify"} :
                 Ready(d, "executing") <=> Ready(d, w)
  BY DEF Ready, WithReport, WithAnswers, WithLog, WithSpec, WithDraft, WithGraph, Place,
         Shown, HasInputs, AfterDebate, AfterGate1, AfterSpec, AfterGate2, AfterVerdict,
         Status, Running, Paused, Terminal

LEMMA Gate1 ==
    ASSUME Inv, NEW p \in Proc,
           OpenGate1(p) \/ PromoteAnswers(p) \/ PromoteLog(p) \/ CommitGate1(p)
    PROVE  Inv'
  <1> USE DEF Goto
  <1>1. /\ draft \in Rows /\ seen \in [Proc -> Status] /\ pc \in [Proc -> Place]
        /\ Ready(View(p), pc[p])
        /\ \A q \in Proc : pc[q] = "web" => Shown(db, seen[q])
    BY DEF Inv, TypeOK
  <1>2. CASE OpenGate1(p)
    <2>1. /\ pc[p] = "idle" /\ pc' = [pc EXCEPT ![p] = "gate1"] /\ Has(db, "DEBATE_REPORT")
          /\ UNCHANGED <<db, draft, writer, dirs, seen>>
      BY <1>2 DEF OpenGate1, Has
    <2>2. "gate1" \in Place \ Txn /\ "idle" \notin Txn
      BY DEF Place, Txn
    <2>3. \A q \in Proc : pc'[q] = "web" => Shown(db, seen'[q])
      BY <1>1, <2>1
    <2> QED
      BY <1>1, <2>1, <2>2, <2>3, Claims, ReadStep
  <1>3. CASE PromoteAnswers(p)
    <2>1. "answered" \in Txn /\ "gate1_approved_answers" \in PhaseRow /\ "APPROVED_ANSWERS" \in Type
      BY Types DEF Txn, PhaseRow
    <2>2. pc[p] = "gate1" /\ Promote(p, "gate1_approved_answers", "APPROVED_ANSWERS")
          /\ Goto(p, "answered")
      BY <1>3 DEF PromoteAnswers
    <2>3. draft = db /\ Ready(draft, "gate1")
      BY <1>1, <2>2, Unlocked DEF Promote, Write, View, Txn
    <2>4. ASSUME NEW d \in Rows, Grown(draft, d), Has(d, "APPROVED_ANSWERS")
          PROVE  Ready(d, "answered")
      <3>1. Ready(d, "gate1")
        BY <1>1, <2>3, <2>4, StillThere
      <3> QED
        BY <2>4, <3>1 DEF Ready, Place, WithReport, WithAnswers, WithLog, WithSpec, WithDraft, WithGraph
    <2> QED
      BY <2>1, <2>2, <2>4, PromoteStep
  <1>4. CASE PromoteLog(p)
    <2>1. "logged" \in Txn /\ "gate1_decision_log" \in PhaseRow /\ "DECISION_LOG" \in Type
      BY Types DEF Txn, PhaseRow
    <2>2. pc[p] = "answered" /\ Promote(p, "gate1_decision_log", "DECISION_LOG")
          /\ Goto(p, "logged")
      BY <1>4 DEF PromoteLog
    <2>3. Ready(draft, "answered")
      BY <1>1, <2>2 DEF View, Txn
    <2>4. ASSUME NEW d \in Rows, Grown(draft, d), Has(d, "DECISION_LOG")
          PROVE  Ready(d, "logged")
      <3>1. Ready(d, "answered")
        BY <1>1, <2>3, <2>4, StillThere
      <3> QED
        BY <2>4, <3>1 DEF Ready, Place, WithReport, WithAnswers, WithLog, WithSpec, WithDraft, WithGraph
    <2> QED
      BY <2>1, <2>2, <2>4, PromoteStep
  <1>5. CASE CommitGate1(p)
    <2>1. pc[p] = "logged" /\ Commit(p, SetStatus("RUNNING_PHASE_1D"))
          /\ Goto(p, "idle") /\ UNCHANGED dirs
      BY <1>5 DEF CommitGate1
    <2>2. Shown(draft, "RUNNING_PHASE_1D") /\ Ready(draft, "idle")
      BY <1>1, <2>1, Claims DEF View, Txn
    <2>3. "RUNNING_PHASE_1D" \in Status /\ "idle" \in Place \ Txn
      BY DEF Status, Running, Place, Txn
    <2> QED
      BY <1>1, <2>1, <2>2, <2>3, StatusStep
  <1> QED
    BY <1>2, <1>3, <1>4, <1>5

\* A step that sets the status only if it is one of `from'.
LEMMA StatusIfStep ==
    ASSUME Inv, NEW p \in Proc, NEW w \in Place \ Txn, NEW to \in Status, NEW from,
           Commit(p, SetStatusIf(from, to)), Goto(p, w), w # "web",
           Shown(draft, to), Ready(draft, w), UNCHANGED dirs
    PROVE  Inv'
  <1> USE DEF Goto
  <1>1. draft \in Rows /\ Coherent(draft) /\ seen \in [Proc -> Status]
    BY DEF Inv, TypeOK
  <1>2. CASE draft.status \in from
    BY <1>1, <1>2, StatusStep DEF SetStatusIf
  <1>3. CASE draft.status \notin from
    BY <1>1, <1>3, CommitStep, GrownIsReflexive DEF SetStatusIf
  <1> QED
    BY <1>2, <1>3

\* Rows c after the graph is promoted and Gate 2 is opened.
GraphDrafted(c) ==
    [c EXCEPT !.row["generate_task_graph"] = "SUCCESS",
              !.row["task_graph_gate2"] = "RUNNING",
              !.version["TASK_GRAPH_GENERATED"] = @ + 1]

LEMMA DraftedRows ==
    ASSUME NEW c \in Rows
    PROVE  LET d == GraphDrafted(c) IN
           /\ d \in Rows /\ d.status = c.status /\ d.materialized = c.materialized
           /\ Grown(c, d) /\ Has(d, "TASK_GRAPH_GENERATED")
           /\ d.version["VERIFICATION_REPORT"] = c.version["VERIFICATION_REPORT"]
  <1> DEFINE d == GraphDrafted(c)
             g == "TASK_GRAPH_GENERATED"
  <1>1. {"SUCCESS", "RUNNING"} \subseteq PhaseRowStatus /\ g \in Type
        /\ "VERIFICATION_REPORT" \in Type
    BY Types DEF PhaseRowStatus
  <1>2. c.version[g] + 1 \in Nat /\ c.version[g] + 1 > 0 /\ \A u \in Type : c.version[u] \in Nat
    BY <1>1 DEF Rows
  <1>3. d \in Rows
    BY <1>1, <1>2 DEF Rows, GraphDrafted
  <1>4. d.status = c.status /\ d.materialized = c.materialized
    BY DEF Rows, GraphDrafted
  <1>5. \A u \in Type : d.version[u] = IF u = g THEN c.version[g] + 1 ELSE c.version[u]
    BY DEF Rows, GraphDrafted
  <1> HIDE DEF d
  <1>6. Grown(c, d) /\ Has(d, g)
    BY <1>1, <1>2, <1>5 DEF Grown, Has
  <1> QED
    BY <1>1, <1>3, <1>4, <1>5, <1>6 DEF d

LEMMA PhaseB ==
    ASSUME Inv, NEW p \in Proc,
           ReadPhaseB(p) \/ PromoteSpec(p) \/ PromoteGraph(p) \/ PauseAtGate2(p) \/ ApproveInline(p)
    PROVE  Inv'
  <1> USE DEF Goto
  <1>1. /\ draft \in Rows /\ Coherent(draft) /\ seen \in [Proc -> Status] /\ pc \in [Proc -> Place]
        /\ Ready(View(p), pc[p]) /\ Shown(db, db.status)
        /\ \A q \in Proc : pc[q] = "web" => Shown(db, seen[q])
        /\ dirs \subseteq Type \X (Nat \ {0})
    BY DEF Inv, TypeOK, Coherent
  <1>2. CASE ReadPhaseB(p)
    <2>1. /\ pc[p] = "idle" /\ pc' = [pc EXCEPT ![p] = "phase_b"]
          /\ db.status = "RUNNING_PHASE_1D" /\ UNCHANGED <<db, draft, writer, dirs, seen>>
      BY <1>2 DEF ReadPhaseB
    <2>2. "phase_b" \in Place \ Txn /\ "idle" \notin Txn
      BY DEF Place, Txn
    <2>3. \A q \in Proc : pc'[q] = "web" => Shown(db, seen'[q])
      BY <1>1, <2>1
    <2> QED
      BY <1>1, <2>1, <2>2, <2>3, Claims, ReadStep
  <1>3. CASE PromoteSpec(p)
    <2>1. "specified" \in Txn /\ "finalize_spec" \in PhaseRow /\ "SPEC_BUNDLE" \in Type
      BY Types DEF Txn, PhaseRow
    <2>2. pc[p] = "phase_b" /\ Promote(p, "finalize_spec", "SPEC_BUNDLE") /\ Goto(p, "specified")
      BY <1>3 DEF PromoteSpec
    <2>3. draft = db /\ Ready(draft, "phase_b")
      BY <1>1, <2>2, Unlocked DEF Promote, Write, View, Txn
    <2>4. ASSUME NEW d \in Rows, Grown(draft, d), Has(d, "SPEC_BUNDLE")
          PROVE  Ready(d, "specified")
      <3>1. Ready(d, "phase_b")
        BY <1>1, <2>3, <2>4, StillThere
      <3> QED
        BY <2>4, <3>1 DEF Ready, Place, WithReport, WithAnswers, WithLog, WithSpec, WithDraft, WithGraph
    <2> QED
      BY <2>1, <2>2, <2>4, PromoteStep
  <1>4. CASE PromoteGraph(p)
    <2> DEFINE d == GraphDrafted(draft)
               g == "TASK_GRAPH_GENERATED"
    <2>1. pc[p] = "specified" /\ Write(p, d) /\ Goto(p, "drafted")
          /\ dirs' = dirs \union {<<g, draft.version[g] + 1>>}
      BY <1>4 DEF PromoteGraph, GraphDrafted
    <2>2. /\ d \in Rows /\ d.status = draft.status /\ d.materialized = draft.materialized
          /\ Grown(draft, d) /\ Has(d, g)
          /\ d.version["VERIFICATION_REPORT"] = draft.version["VERIFICATION_REPORT"]
      BY <1>1, DraftedRows
    <2> HIDE DEF d
    <2>3. Ready(draft, "specified")
      BY <1>1, <2>1 DEF View, Txn
    <2>4. Ready(d, "specified")
      BY <1>1, <2>2, <2>3, StillThere
    <2>5. Ready(d, "drafted")
      BY <2>2, <2>4 DEF Ready, Place, WithReport, WithAnswers, WithLog, WithSpec, WithDraft, WithGraph
    <2>6. Coherent(d)
      BY <1>1, <2>2, MoreOutputs DEF Has
    <2>7. dirs' \subseteq Type \X (Nat \ {0})
      BY <1>1, <2>1, Types DEF Rows
    <2>8. "drafted" \in Txn
      BY DEF Txn
    <2> QED
      BY <2>1, <2>2, <2>5, <2>6, <2>7, <2>8, WriteStep
  <1>5. CASE PauseAtGate2(p)
    <2>1. pc[p] = "drafted" /\ Commit(p, SetStatusIf({"RUNNING_PHASE_1D"}, "PAUSED_AT_GATE_2"))
          /\ Goto(p, "idle") /\ UNCHANGED dirs
      BY <1>5 DEF PauseAtGate2
    <2>2. Shown(draft, "PAUSED_AT_GATE_2") /\ Ready(draft, "idle")
      BY <1>1, <2>1, Claims DEF View, Txn
    <2>3. "PAUSED_AT_GATE_2" \in Status /\ "idle" \in Place \ Txn
      BY DEF Status, Paused, Place, Txn
    <2> QED
      BY <2>1, <2>2, <2>3, StatusIfStep
  <1>6. CASE ApproveInline(p)
    <2>1. "approved" \in Txn /\ "task_graph_gate2" \in PhaseRow /\ "TASK_GRAPH_APPROVED" \in Type
      BY Types DEF Txn, PhaseRow
    <2>2. pc[p] = "drafted" /\ Promote(p, "task_graph_gate2", "TASK_GRAPH_APPROVED")
          /\ Goto(p, "approved")
      BY <1>6 DEF ApproveInline
    <2>3. Ready(draft, "drafted")
      BY <1>1, <2>2 DEF View, Txn
    <2>4. ASSUME NEW d \in Rows, Grown(draft, d), Has(d, "TASK_GRAPH_APPROVED")
          PROVE  Ready(d, "approved")
      <3>1. Ready(d, "drafted")
        BY <1>1, <2>3, <2>4, StillThere
      <3> QED
        BY <2>4, <3>1 DEF Ready, Place, WithReport, WithAnswers, WithLog, WithSpec, WithDraft, WithGraph
    <2> QED
      BY <2>1, <2>2, <2>4, PromoteStep
  <1> QED
    BY <1>2, <1>3, <1>4, <1>5, <1>6

LEMMA Gate2 ==
    ASSUME Inv, NEW p \in Proc,
           ReadGate2(p) \/ RejectGate2(p) \/ ApproveGate2(p)
    PROVE  Inv'
  <1> USE DEF Goto
  <1>1. /\ draft \in Rows /\ seen \in [Proc -> Status] /\ pc \in [Proc -> Place]
        /\ Ready(View(p), pc[p]) /\ Shown(db, db.status)
        /\ \A q \in Proc : pc[q] = "web" => Shown(db, seen[q])
    BY DEF Inv, TypeOK, Coherent
  <1>2. CASE ReadGate2(p)
    <2>1. /\ pc[p] = "idle" /\ pc' = [pc EXCEPT ![p] = "gate2"]
          /\ db.status = "PAUSED_AT_GATE_2" /\ UNCHANGED <<db, draft, writer, dirs, seen>>
      BY <1>2 DEF ReadGate2, AtGate2
    <2>2. "gate2" \in Place \ Txn /\ "idle" \notin Txn
      BY DEF Place, Txn
    <2>3. \A q \in Proc : pc'[q] = "web" => Shown(db, seen'[q])
      BY <1>1, <2>1
    <2> QED
      BY <1>1, <2>1, <2>2, <2>3, Claims, ReadStep
  <1>3. CASE RejectGate2(p)
    <2>1. Commit(p, SetStatusIf({"PAUSED_AT_GATE_2"}, "ABORTED")) /\ Goto(p, "idle") /\ UNCHANGED dirs
      BY <1>3 DEF RejectGate2
    <2>2. Shown(draft, "ABORTED") /\ Ready(draft, "idle")
      BY Claims
    <2>3. "ABORTED" \in Status /\ "idle" \in Place \ Txn
      BY DEF Status, Terminal, Place, Txn
    <2> QED
      BY <2>1, <2>2, <2>3, StatusIfStep
  <1>4. CASE ApproveGate2(p)
    <2>1. "approved" \in Txn /\ "task_graph_gate2_resume" \in PhaseRow /\ "TASK_GRAPH_APPROVED" \in Type
      BY Types DEF Txn, PhaseRow
    <2>2. pc[p] = "gate2" /\ Promote(p, "task_graph_gate2_resume", "TASK_GRAPH_APPROVED")
          /\ Goto(p, "approved")
      BY <1>4 DEF ApproveGate2
    <2>3. draft = db /\ Ready(draft, "gate2")
      BY <1>1, <2>2, Unlocked DEF Promote, Write, View, Txn
    <2>4. ASSUME NEW d \in Rows, Grown(draft, d), Has(d, "TASK_GRAPH_APPROVED")
          PROVE  Ready(d, "approved")
      <3>1. Ready(d, "gate2")
        BY <1>1, <2>3, <2>4, StillThere
      <3> QED
        BY <2>4, <3>1 DEF Ready, Place, WithReport, WithAnswers, WithLog, WithSpec, WithDraft, WithGraph
    <2> QED
      BY <2>1, <2>2, <2>4, PromoteStep
  <1> QED
    BY <1>2, <1>3, <1>4

LEMMA MaterializeStep ==
    ASSUME Inv, NEW p \in Proc, Materialize(p) PROVE Inv'
  <1> DEFINE c == SetStatusIf({"RUNNING_PHASE_3"}, "RUNNING_EXECUTION")
             d == IF draft.materialized THEN draft ELSE [c EXCEPT !.materialized = TRUE]
  <1>1. /\ pc[p] = "starting" /\ CommitBeside(d) /\ UNCHANGED dirs
        /\ pc' = [pc EXCEPT ![p] = "executing"] /\ UNCHANGED seen
    BY DEF Materialize, Goto
  <1>2. draft \in Rows /\ Coherent(draft) /\ seen \in [Proc -> Status] /\ Ready(View(p), pc[p])
    BY DEF Inv, TypeOK
  <1>3. Ready(draft, "executing") /\ Commit(p, d)
    BY <1>1, <1>2, Claims DEF CommitBeside, Commit, Inv, TypeOK, View
  <1>4. /\ c \in Rows /\ c.version = draft.version
        /\ c.status \in {draft.status, "RUNNING_EXECUTION"}
    BY <1>2 DEF SetStatusIf, SetStatus, Rows, Status, Running
  <1> HIDE DEF c
  <1>5. /\ d \in Rows /\ d.version = draft.version
        /\ d.status \in {draft.status, "RUNNING_EXECUTION"}
    BY <1>2, <1>4 DEF Rows
  <1> HIDE DEF d
  <1>6. Shown(draft, d.status)
    BY <1>2, <1>3, <1>5, Claims DEF Coherent
  <1>7. Coherent(d) /\ Grown(draft, d) /\ Ready(d, "executing")
    BY <1>2, <1>3, <1>5, <1>6, GrownIsReflexive DEF Coherent, Grown, Shown, HasInputs, Ready, Has
  <1>8. "executing" \in Place \ Txn
    BY DEF Place, Txn
  <1> QED
    BY <1>1, <1>2, <1>3, <1>5, <1>7, <1>8, CommitStep

LEMMA Execution ==
    ASSUME Inv, NEW p \in Proc,
           CommitApproved(p) \/ EnterPhase3(p) \/ Materialize(p) \/ ExecutionReturns(p)
    PROVE  Inv'
  <1> USE DEF Goto
  <1>1. /\ draft \in Rows /\ Coherent(draft) /\ seen \in [Proc -> Status] /\ pc \in [Proc -> Place]
        /\ Ready(View(p), pc[p])
        /\ \A q \in Proc : pc[q] = "web" => Shown(db, seen[q])
    BY DEF Inv, TypeOK
  <1>2. CASE CommitApproved(p)
    <2>1. pc[p] = "approved" /\ Commit(p, draft) /\ Goto(p, "phase_3") /\ UNCHANGED dirs
      BY <1>2 DEF CommitApproved
    <2>2. Ready(draft, "phase_3")
      BY <1>1, <2>1, Claims DEF View, Txn
    <2>3. "phase_3" \in Place \ Txn
      BY DEF Place, Txn
    <2> QED
      BY <1>1, <2>1, <2>2, <2>3, GrownIsReflexive, CommitStep
  <1>3. CASE EnterPhase3(p)
    <2>1. /\ pc[p] = "phase_3" /\ Goto(p, "starting") /\ UNCHANGED dirs
          /\ Commit(p, SetStatusIf({"RUNNING_PHASE_1D", "PAUSED_AT_GATE_2"}, "RUNNING_PHASE_3"))
      BY <1>3 DEF EnterPhase3
    <2>2. draft = db
      BY <2>1, Unlocked DEF Commit, Txn
    <2>3. Ready(draft, "executing")
      BY <1>1, <2>1, <2>2, Claims DEF View, Txn
    <2>4. Shown(draft, "RUNNING_PHASE_3") /\ Ready(draft, "starting")
      BY <2>3, Claims
    <2>5. "RUNNING_PHASE_3" \in Status /\ "starting" \in Place \ Txn
      BY DEF Status, Running, Place, Txn
    <2> QED
      BY <2>1, <2>4, <2>5, StatusIfStep
  <1>4. CASE Materialize(p)
    BY <1>4, MaterializeStep
  <1>5. CASE ExecutionReturns(p)
    <2>1. PICK w \in {"idle", "verify"} : pc' = [pc EXCEPT ![p] = w]
      BY <1>5 DEF ExecutionReturns
    <2>2. pc[p] = "executing" /\ UNCHANGED <<db, draft, writer, dirs, seen>>
      BY <1>5 DEF ExecutionReturns
    <2>3. Ready(db, w)
      BY <1>1, <2>2, Claims DEF View, Txn
    <2>4. w \in Place \ Txn /\ "executing" \notin Txn
      BY DEF Place, Txn
    <2>5. \A q \in Proc : pc'[q] = "web" => Shown(db, seen'[q])
      BY <1>1, <2>1, <2>2
    <2> QED
      BY <1>1, <2>1, <2>2, <2>3, <2>4, <2>5, ReadStep
  <1> QED
    BY <1>2, <1>3, <1>4, <1>5

LEMMA Verification ==
    ASSUME Inv, NEW p \in Proc, Verify(p) \/ CommitVerification(p) \/ FinalizeGate3(p)
    PROVE  Inv'
  <1> USE DEF Goto
  <1>1. /\ draft \in Rows /\ Coherent(db) /\ seen \in [Proc -> Status] /\ pc \in [Proc -> Place]
        /\ Ready(View(p), pc[p])
    BY DEF Inv, TypeOK
  <1>2. CASE Verify(p)
    <2>1. "verified" \in Txn /\ "verification_report" \in PhaseRow /\ "VERIFICATION_REPORT" \in Type
      BY Types DEF Txn, PhaseRow
    <2>2. pc[p] = "verify" /\ Promote(p, "verification_report", "VERIFICATION_REPORT")
          /\ Goto(p, "verified")
      BY <1>2 DEF Verify
    <2>3. draft = db
      BY <2>2, Unlocked DEF Promote, Write, Txn
    <2>4. Ready(draft, "verify")
      BY <1>1, <2>2, <2>3 DEF View, Txn
    <2>5. ASSUME NEW d \in Rows, Grown(draft, d), Has(d, "VERIFICATION_REPORT")
          PROVE  Ready(d, "verified")
      <3>1. Ready(d, "verify")
        BY <1>1, <2>4, <2>5, StillThere
      <3> QED
        BY <2>5, <3>1 DEF Ready, Place, WithReport, WithAnswers, WithLog, WithSpec, WithDraft, WithGraph
    <2> QED
      BY <2>1, <2>2, <2>5, PromoteStep
  <1>3. CASE CommitVerification(p)
    <2>1. pc[p] = "verified" /\ Commit(p, SetStatus("PAUSED_AT_GATE_3"))
          /\ Goto(p, "idle") /\ UNCHANGED dirs
      BY <1>3 DEF CommitVerification
    <2>2. Shown(draft, "PAUSED_AT_GATE_3") /\ Ready(draft, "idle")
      BY <1>1, <2>1, Claims DEF View, Txn, AfterVerdict
    <2>3. "PAUSED_AT_GATE_3" \in Status /\ "idle" \in Place \ Txn
      BY DEF Status, Paused, Place, Txn
    <2> QED
      BY <1>1, <2>1, <2>2, <2>3, StatusStep
  <1>4. CASE FinalizeGate3(p)
    <2>1. /\ pc[p] = "idle" /\ Has(db, "VERIFICATION_REPORT") /\ UNCHANGED <<dirs, pc, seen>>
          /\ \E to \in {"ABORTED", "COMPLETED", "RUNNING_PHASE_V", "PAUSED_AT_GATE_3B"} :
                Commit(p, SetStatus(to))
      BY <1>4 DEF FinalizeGate3, HasReport, Has
    <2>2. PICK to \in {"ABORTED", "COMPLETED", "RUNNING_PHASE_V", "PAUSED_AT_GATE_3B"} :
             Commit(p, SetStatus(to))
      BY <2>1
    <2>3. draft = db
      BY <2>1, <2>2, Unlocked DEF Commit, Txn
    <2>4. Ready(draft, "verified") /\ Ready(draft, "executing")
      BY <1>1, <2>1, <2>3, Claims DEF Coherent
    <2>5. Shown(draft, to) /\ Ready(draft, "idle")
      BY <2>4, Claims DEF AfterVerdict
    <2>6. to \in Status /\ "idle" \in Place \ Txn
      BY DEF Status, Running, Paused, Terminal, Place, Txn
    <2>7. pc' = [pc EXCEPT ![p] = "idle"]
      BY <1>1, <2>1
    <2> QED
      BY <1>1, <2>1, <2>2, <2>5, <2>6, <2>7, StatusStep
  <1> QED
    BY <1>2, <1>3, <1>4

\* Other rows of the phases, and nothing else but perhaps the status.
LEMMA NewRows ==
    ASSUME NEW c \in Rows, NEW f \in [PhaseRow -> PhaseRowStatus]
    PROVE  LET d == [c EXCEPT !.row = f] IN
           /\ d \in Rows /\ d.status = c.status
           /\ d.version = c.version /\ d.materialized = c.materialized
  BY DEF Rows

LEMMA SetRowsType ==
    ASSUME draft \in Rows, NEW S, NEW x \in PhaseRowStatus
    PROVE  SetRows(S, x) \in [PhaseRow -> PhaseRowStatus]
  BY DEF SetRows, Rows

LEMMA Engine ==
    ASSUME Inv,
           CheckCompletion \/ ResolveEscalation \/ \E r \in PhaseRow : WorkerTakes(r)
    PROVE  Inv'
  <1>1. draft \in Rows /\ Coherent(draft) /\ Coherent(db) /\ (writer = NoProc => draft = db)
    BY DEF Inv, TypeOK
  <1>2. ASSUME db.materialized, writer = NoProc,
               NEW to \in {"RUNNING_EXECUTION", "PAUSED_FOR_DECISION", "COMPLETED", "FAILED"}
        PROVE  Shown(draft, to) /\ to \in Status
    BY <1>1, <1>2, Claims DEF Coherent, Status, Running, Paused, Terminal
  <1>3. CASE CheckCompletion
    <2>1. PICK to \in {"COMPLETED", "PAUSED_FOR_DECISION"} : CommitBeside(SetStatus(to))
      BY <1>3 DEF CheckCompletion
    <2>2. db.materialized /\ UNCHANGED <<dirs, pc, seen>> /\ writer = NoProc
      BY <1>3, <2>1 DEF CheckCompletion, CommitBeside
    <2> QED
      BY <1>2, <2>1, <2>2, BesideStatusStep
  <1>4. CASE ResolveEscalation
    <2>1. db.materialized /\ UNCHANGED <<dirs, pc, seen>>
      BY <1>4 DEF ResolveEscalation
    <2>2. CASE CommitBeside(SetStatus("RUNNING_EXECUTION"))
      <3>1. writer = NoProc
        BY <2>2 DEF CommitBeside
      <3> QED
        BY <1>2, <2>1, <2>2, <3>1, BesideStatusStep
    <2>3. CASE CommitBeside([SetStatus("FAILED") EXCEPT
                               !.row = SetRows({"RUNNING", "PENDING"}, "ABORTED")])
      <3> DEFINE c == SetStatus("FAILED")
                 f == SetRows({"RUNNING", "PENDING"}, "ABORTED")
                 d == [c EXCEPT !.row = f]
      <3>1. CommitBeside(d)
        BY <2>3
      <3>2. "FAILED" \in Status /\ "ABORTED" \in PhaseRowStatus
        BY DEF Status, Terminal, PhaseRowStatus
      <3>3. /\ c \in Rows /\ c.status = "FAILED"
            /\ c.version = draft.version /\ c.materialized = draft.materialized
        BY <1>1, <3>2 DEF SetStatus, Rows
      <3>4. f \in [PhaseRow -> PhaseRowStatus]
        BY <1>1, <3>2, SetRowsType
      <3> HIDE DEF c, f
      <3>5. /\ d \in Rows /\ d.status = "FAILED"
            /\ d.version = draft.version /\ d.materialized = draft.materialized
        BY <3>3, <3>4, NewRows
      <3> HIDE DEF d
      <3>6. Shown(draft, "FAILED")
        BY <1>2, <2>1, <3>1 DEF CommitBeside
      <3>7. Coherent(d) /\ Grown(draft, d)
        BY <1>1, <3>5, <3>6, NewStatus
      <3> QED
        BY <2>1, <3>1, <3>5, <3>7, BesideStep
    <2> QED
      BY <1>4, <2>2, <2>3 DEF ResolveEscalation
  <1>5. CASE \E r \in PhaseRow : WorkerTakes(r)
    <2>1. PICK r \in PhaseRow : WorkerTakes(r)
      BY <1>5
    <2> DEFINE f == [draft.row EXCEPT ![r] = "TAKEN"]
               d == [draft EXCEPT !.row = f]
    <2>2. CommitBeside(d) /\ UNCHANGED <<dirs, pc, seen>>
      BY <2>1 DEF WorkerTakes
    <2>3. f \in [PhaseRow -> PhaseRowStatus]
      BY <1>1 DEF Rows, PhaseRowStatus
    <2> HIDE DEF f
    <2>4. /\ d \in Rows /\ d.status = draft.status
          /\ d.version = draft.version /\ d.materialized = draft.materialized
      BY <1>1, <2>3, NewRows
    <2> HIDE DEF d
    <2>5. Coherent(d) /\ Grown(draft, d)
      BY <1>1, <2>4, NewStatus DEF Coherent
    <2> QED
      BY <2>2, <2>4, <2>5, BesideStep
  <1> QED
    BY <1>3, <1>4, <1>5

LEMMA Resumption ==
    ASSUME Inv, NEW p \in Proc, AskResume(p) \/ ResumeRun(p) \/ ResumeReturns(p)
    PROVE  Inv'
  <1> USE DEF Goto
  <1>1. /\ draft \in Rows /\ Coherent(draft) /\ seen \in [Proc -> Status]
        /\ \A q \in Proc : pc[q] = "web" => Shown(db, seen[q])
        /\ pc \in [Proc -> Place]
    BY DEF Inv, TypeOK
  <1>2. {"idle", "resuming", "resumed"} \subseteq Place \ Txn
    BY DEF Place, Txn
  <1>3. CASE AskResume(p) \/ ResumeReturns(p)
    <2>1. PICK w \in {"resuming", "idle"} : pc' = [pc EXCEPT ![p] = w]
      BY <1>3 DEF AskResume, ResumeReturns
    <2>2. pc[p] \notin Txn /\ UNCHANGED <<db, draft, writer, dirs, seen>>
      BY <1>2, <1>3 DEF AskResume, ResumeReturns
    <2>3. \A q \in Proc : pc'[q] = "web" => Shown(db, seen'[q])
      BY <1>1, <2>1, <2>2
    <2> QED
      BY <1>1, <1>2, <2>1, <2>2, <2>3, Claims, ReadStep
  <1>4. CASE ResumeRun(p)
    <2> DEFINE f == SetRows({"RUNNING"}, "PENDING")
               d == [draft EXCEPT !.row = f]
    <2>1. Commit(p, d) /\ pc' = [pc EXCEPT ![p] = "resumed"] /\ UNCHANGED <<dirs, seen>>
      BY <1>4 DEF ResumeRun
    <2>2. f \in [PhaseRow -> PhaseRowStatus]
      BY <1>1, SetRowsType DEF PhaseRowStatus
    <2> HIDE DEF f
    <2>3. /\ d \in Rows /\ d.status = draft.status
          /\ d.version = draft.version /\ d.materialized = draft.materialized
      BY <1>1, <2>2, NewRows
    <2> HIDE DEF d
    <2>4. Coherent(d) /\ Grown(draft, d)
      BY <1>1, <2>3, NewStatus DEF Coherent
    <2> QED
      BY <1>1, <1>2, <2>1, <2>3, <2>4, Claims, CommitStep
  <1> QED
    BY <1>3, <1>4

LEMMA Web ==
    ASSUME Inv, NEW p \in Proc, WebReads(p) \/ WebWrites(p)
    PROVE  Inv'
  <1>1. /\ draft \in Rows /\ seen \in [Proc -> Status] /\ pc \in [Proc -> Place]
        /\ \A q \in Proc : pc[q] = "web" => Shown(db, seen[q])
        /\ Shown(db, db.status)
    BY DEF Inv, TypeOK, Coherent
  <1>2. {"idle", "web"} \subseteq Place \ Txn /\ "NONE" \in Status
    BY DEF Place, Txn, Status
  <1>3. CASE WebReads(p)
    <2>1. PICK to \in Status : seen' = [seen EXCEPT ![p] = to] /\ Shown(db, to)
      <3>1. CASE seen' = [seen EXCEPT ![p] = "ABORTED"]
        BY <3>1, Claims DEF Status, Terminal
      <3>2. CASE db.status \in DOMAIN Approves /\ seen' = [seen EXCEPT ![p] = Approves[db.status]]
        <4>1. CASE db.status = "PAUSED_AT_GATE_2"
          <5>1. Approves[db.status] = "RUNNING_PHASE_3"
            BY <4>1 DEF Approves
          <5>2. Shown(db, "RUNNING_PHASE_3") /\ "RUNNING_PHASE_3" \in Status
            BY <1>1, <4>1, Claims DEF Status, Running
          <5>3. seen' = [seen EXCEPT ![p] = "RUNNING_PHASE_3"]
            BY <3>2, <5>1
          <5> QED
            BY <5>2, <5>3
        <4>2. CASE db.status = "PAUSED_FOR_DECISION"
          <5>1. Approves[db.status] = "RUNNING_EXECUTION"
            BY <4>2 DEF Approves
          <5>2. Shown(db, "RUNNING_EXECUTION") /\ "RUNNING_EXECUTION" \in Status
            BY <1>1, <4>2, Claims DEF Status, Running
          <5>3. seen' = [seen EXCEPT ![p] = "RUNNING_EXECUTION"]
            BY <3>2, <5>1
          <5> QED
            BY <5>2, <5>3
        <4>3. CASE db.status \in {"PAUSED_AT_GATE_3", "PAUSED_AT_GATE_3B"}
          <5>1. Approves[db.status] = "RUNNING_PHASE_V"
            BY <4>3 DEF Approves
          <5>2. Shown(db, "RUNNING_PHASE_V") /\ "RUNNING_PHASE_V" \in Status
            BY <1>1, <4>3, Claims DEF AfterVerdict, Status, Running
          <5>3. seen' = [seen EXCEPT ![p] = "RUNNING_PHASE_V"]
            BY <3>2, <5>1
          <5> QED
            BY <5>2, <5>3
        <4> QED
          BY <3>2, <4>1, <4>2, <4>3 DEF Approves
      <3> QED
        BY <1>3, <3>1, <3>2 DEF WebReads
    <2>2. /\ pc[p] = "idle" /\ pc' = [pc EXCEPT ![p] = "web"]
          /\ UNCHANGED <<db, draft, writer, dirs>>
      BY <1>3 DEF WebReads
    <2>3. \A q \in Proc : pc'[q] = "web" => Shown(db, seen'[q])
      BY <1>1, <2>1, <2>2
    <2>4. seen' \in [Proc -> Status]
      BY <1>1, <2>1
    <2> QED
      BY <1>2, <2>2, <2>3, <2>4, Claims, ReadStep
  <1>4. CASE WebWrites(p)
    <2>1. /\ pc[p] = "web" /\ Commit(p, SetStatus(seen[p]))
          /\ pc' = [pc EXCEPT ![p] = "idle"] /\ seen' = [seen EXCEPT ![p] = "NONE"]
          /\ UNCHANGED dirs
      BY <1>4 DEF WebWrites
    <2>2. draft = db
      BY <2>1, Unlocked DEF Commit, Txn
    <2>3. Shown(draft, seen[p]) /\ seen[p] \in Status /\ Ready(draft, "idle")
      BY <1>1, <2>1, <2>2, Claims
    <2>4. seen' \in [Proc -> Status] /\ \A q \in Proc \ {p} : seen'[q] = seen[q]
      BY <1>1, <1>2, <2>1
    <2> QED
      BY <1>2, <2>1, <2>3, <2>4, StatusStep
  <1> QED
    BY <1>3, <1>4

LEMMA InvNext == Inv /\ [Next]_vars => Inv'
  <1> SUFFICES ASSUME Inv, [Next]_vars PROVE Inv'
    OBVIOUS
  <1>1. CASE UNCHANGED vars
    BY <1>1 DEF vars, Inv, TypeOK, Coherent, Grown, Shown, HasInputs, Ready, View, Has
  <1>2. ASSUME NEW p \in Proc, PhaseStep(p) PROVE Inv'
    BY <1>2, PhaseA, Gate1, PhaseB, Gate2, Execution, Verification, Resumption DEF PhaseStep
  <1>3. ASSUME NEW p \in Proc, WebReads(p) \/ WebWrites(p) PROVE Inv'
    BY <1>3, Web
  <1>4. ASSUME NEW p \in Proc, Crash(p) PROVE Inv'
    BY <1>4, CrashStep
  <1> QED
    BY <1>1, <1>2, <1>3, <1>4, Engine DEF Next

-----------------------------------------------------------------------------
(* The theorems.                                                           *)

\* The invariant holds, however many processes work on the run, and whenever
\* they die.
THEOREM Invariance == Spec => []Inv
  BY InvInit, InvNext, PTL DEF Spec

\* The variables keep their types, and a process that dies leaves nothing of
\* its transaction to the next one (TypeOK).
THEOREM TypeCorrect == Spec => []TypeOK
  <1>1. Inv => TypeOK
    BY DEF Inv
  <1> QED
    BY <1>1, Invariance, PTL

\* No process waits for its executor's threads with the write lock in its
\* hand, which they would wait for.
THEOREM NoSelfDeadlock == Spec => []ExecutorHoldsNoLock
  <1>1. Inv => ExecutorHoldsNoLock
    BY DEF Inv, ExecutorHoldsNoLock, Txn
  <1> QED
    BY <1>1, Invariance, PTL

-----------------------------------------------------------------------------
(* Gate 2 has two rows.  The pipeline that approves its graph in its own   *)
(* transaction (inline) turns the first one from nothing into a success;   *)
(* who resumes a paused run needs the first one committed and undecided,   *)
(* and creates the second one.  So only one way is ever open.              *)

Inline == "task_graph_gate2"
Resume == "task_graph_gate2_resume"

\* As far as NONE and SUCCESS are concerned, the rows are alike.
Alike(c, d) == \A r \in {Inline, Resume} : \A x \in {"NONE", "SUCCESS"} :
                    c.row[r] = x <=> d.row[r] = x

\* The run is, or was, left to whoever resumes it.
LeftOpen(d) == d.row[Inline] \notin {"NONE", "SUCCESS"}

Approver == {"approved", "phase_3", "starting", "executing", "verify", "verified"}

\* What is known of the rows when a process is at w.
Knows(w) ==
    /\ w = "gate2" => LeftOpen(db)
    /\ w \in {"reported", "answered", "logged", "specified", "verified"} =>
          Alike(db, draft)
    /\ w = "drafted" => /\ db.row[Inline] = "NONE" /\ LeftOpen(draft)
                        /\ draft.row[Resume] = db.row[Resume]
    /\ w = "approved" =>
          \/ /\ db.row[Inline] = "NONE" /\ draft.row[Inline] = "SUCCESS"
             /\ draft.row[Resume] = db.row[Resume]
          \/ /\ db.row[Resume] = "NONE" /\ draft.row[Resume] # "NONE"
             /\ LeftOpen(db) /\ LeftOpen(draft)
    /\ w \in Approver \ {"approved"} =>
          db.row[Inline] = "SUCCESS" \/ db.row[Resume] # "NONE"

GateInv ==
    /\ db.status = "PAUSED_AT_GATE_2" => LeftOpen(db)
    /\ db.row[Resume] # "NONE" => LeftOpen(db)
    /\ writer # NoProc => draft.status = db.status
    /\ \A p \in Proc : Knows(pc[p]) /\ seen[p] # "PAUSED_AT_GATE_2"
    /\ OneApprover

LEMMA AlikeRows ==
    ASSUME NEW c, NEW d, Alike(c, d)
    PROVE  /\ LeftOpen(c) <=> LeftOpen(d)
           /\ c.row[Inline] = "NONE" <=> d.row[Inline] = "NONE"
           /\ c.row[Inline] = "SUCCESS" <=> d.row[Inline] = "SUCCESS"
           /\ c.row[Resume] = "NONE" <=> d.row[Resume] = "NONE"
  BY DEF Alike, LeftOpen

LEMMA AlikeIsTransitive ==
    ASSUME NEW b, NEW c, NEW d, Alike(b, c), Alike(c, d)
    PROVE  Alike(b, d)
  BY DEF Alike

LEMMA SameRows ==
    ASSUME NEW c, NEW d, d.row = c.row
    PROVE  Alike(c, d)
  BY DEF Alike

LEMMA OtherRow ==
    ASSUME NEW c \in Rows, NEW r \in PhaseRow \ {Inline, Resume}, NEW x, NEW d,
           d.row = [c.row EXCEPT ![r] = x]
    PROVE  Alike(c, d)
  BY DEF Alike, Rows, PhaseRow, Inline, Resume

\* Whoever may write finds the rows as they are committed, but for those who
\* have written them.
LEMMA Agrees ==
    ASSUME Inv, GateInv, NEW p \in Proc, writer \in {NoProc, p},
           pc[p] \notin {"drafted", "approved"}
    PROVE  Alike(db, draft) /\ draft.status = db.status
  <1>1. CASE pc[p] \in Txn
    BY <1>1, ProcAssumption DEF Inv, GateInv, Knows, Txn
  <1>2. CASE pc[p] \notin Txn
    BY <1>2, Unlocked, SameRows
  <1> QED
    BY <1>1, <1>2

\* A step of process p after which nobody is in a transaction, and that has
\* left the two rows alone.
LEMMA QuietCommit ==
    ASSUME Inv, Inv', GateInv, writer' = NoProc, Alike(db, db'),
           db'.status # "PAUSED_AT_GATE_2" \/ db'.status = db.status,
           \A q \in Proc : seen'[q] # "PAUSED_AT_GATE_2",
           \A q \in Proc : \/ pc'[q] = pc[q]
                           \/ pc'[q] \notin Approver \union {"gate2"}
                           \/ pc[q] \in Approver \ {"approved"}
                              /\ pc'[q] \in Approver
    PROVE  GateInv'
  <1>1. \A q \in Proc : pc'[q] \notin Txn
    BY ProcAssumption DEF Inv
  <1>2. \A q \in Proc : pc'[q] = "gate2" => pc[q] = "gate2"
    BY DEF Approver
  <1>3. \A q \in Proc : pc'[q] \in Approver => pc[q] \in Approver \ {"approved"}
    BY <1>1 DEF Approver, Txn
  <1>4. ASSUME NEW q \in Proc PROVE Knows(pc[q])'
    <2>1. pc'[q] = "gate2" => LeftOpen(db')
      BY <1>2, AlikeRows DEF GateInv, Knows
    <2>2. pc'[q] \in Approver => db'.row[Inline] = "SUCCESS" \/ db'.row[Resume] # "NONE"
      BY <1>3, AlikeRows DEF GateInv, Knows
    <2> QED
      BY <1>1, <2>1, <2>2 DEF Knows, Txn
  <1>5. OneApprover'
    BY <1>3 DEF GateInv, OneApprover, Approver
  <1>6. /\ db'.status = "PAUSED_AT_GATE_2" => LeftOpen(db')
        /\ db'.row[Resume] # "NONE" => LeftOpen(db')
    BY AlikeRows DEF GateInv
  <1> QED
    BY <1>4, <1>5, <1>6 DEF GateInv

\* Process p commits, with the two rows as it found them.
LEMMA GateCommit ==
    ASSUME Inv, Inv', GateInv, NEW p \in Proc, pc[p] \notin {"drafted", "approved"},
           NEW d, Commit(p, d), Alike(draft, d),
           d.status # "PAUSED_AT_GATE_2" \/ d.status = draft.status,
           \A q \in Proc : seen'[q] # "PAUSED_AT_GATE_2",
           NEW w, pc' = [pc EXCEPT ![p] = w],
           \/ w \notin Approver \union {"gate2"}
           \/ pc[p] \in Approver /\ w \in Approver
    PROVE  GateInv'
  <1>1. writer \in {NoProc, p} /\ db' = d /\ writer' = NoProc
    BY DEF Commit
  <1>2. Alike(db, db') /\ draft.status = db.status
    BY <1>1, Agrees, AlikeIsTransitive
  <1>3. \A q \in Proc : pc'[q] = IF q = p THEN w ELSE pc[q]
    BY DEF Inv, TypeOK
  <1> QED
    BY <1>1, <1>2, <1>3, QuietCommit

\* A commit beside the processes.
LEMMA GateBeside ==
    ASSUME Inv, Inv', GateInv, NEW d, CommitBeside(d), Alike(draft, d),
           d.status # "PAUSED_AT_GATE_2" \/ d.status = draft.status,
           UNCHANGED seen,
           \A q \in Proc : \/ pc'[q] = pc[q]
                           \/ pc[q] = "starting" /\ pc'[q] = "executing"
    PROVE  GateInv'
  <1>1. writer = NoProc /\ db' = d /\ writer' = NoProc /\ draft = db
    BY DEF CommitBeside, Inv, TypeOK
  <1>2. \A q \in Proc : seen'[q] # "PAUSED_AT_GATE_2"
    BY DEF GateInv
  <1> QED
    BY <1>1, <1>2, QuietCommit DEF Approver

\* Process p writes other rows.
LEMMA GateWrite ==
    ASSUME Inv, Inv', GateInv, NEW p \in Proc, pc[p] \notin {"drafted", "approved"},
           NEW d, Write(p, d), Alike(draft, d), d.status = draft.status,
           UNCHANGED seen, NEW w, pc' = [pc EXCEPT ![p] = w],
           w \in {"reported", "answered", "logged", "specified", "verified"},
           w = "verified" => pc[p] = "verify"
    PROVE  GateInv'
  <1>1. writer \in {NoProc, p} /\ db' = db /\ draft' = d /\ writer' = p
    BY DEF Write
  <1>2. Alike(db, draft') /\ draft'.status = db.status
    BY <1>1, Agrees, AlikeIsTransitive
  <1>3. \A q \in Proc : pc'[q] = IF q = p THEN w ELSE pc[q]
    BY DEF Inv, TypeOK
  <1>4. \A q \in Proc \ {p} : pc'[q] = pc[q] /\ pc'[q] \notin Txn
    BY <1>1, <1>3 DEF Inv
  <1>5. ASSUME NEW q \in Proc PROVE Knows(pc[q])'
    <2>1. CASE q = p
      <3>1. w = "verified" => db.row[Inline] = "SUCCESS" \/ db.row[Resume] # "NONE"
        BY DEF GateInv, Knows, Approver
      <3> QED
        BY <1>1, <1>2, <1>3, <2>1, <3>1 DEF Knows, Approver
    <2>2. CASE q # p
      BY <1>1, <1>4, <2>2 DEF GateInv, Knows, Txn
    <2> QED
      BY <2>1, <2>2
  <1>6. OneApprover'
    BY <1>3 DEF GateInv, OneApprover
  <1> QED
    BY <1>1, <1>2, <1>5, <1>6 DEF GateInv

\* Process p reads, or moves on without a write.
LEMMA GateRead ==
    ASSUME Inv, GateInv, NEW p \in Proc, UNCHANGED <<db, draft, writer>>,
           \A q \in Proc : seen'[q] # "PAUSED_AT_GATE_2",
           NEW w, pc' = [pc EXCEPT ![p] = w], w \notin Txn,
           w = "gate2" => LeftOpen(db),
           w \in Approver => pc[p] \in Approver \ {"approved"}
    PROVE  GateInv'
  <1>1. \A q \in Proc : pc'[q] = IF q = p THEN w ELSE pc[q]
    BY DEF Inv, TypeOK
  <1>2. ASSUME NEW q \in Proc PROVE Knows(pc[q])'
    <2>1. CASE q = p
      BY <1>1, <2>1 DEF GateInv, Knows, Txn
    <2>2. CASE q # p
      BY <1>1, <2>2 DEF GateInv, Knows
    <2> QED
      BY <2>1, <2>2
  <1>3. OneApprover'
    BY <1>1 DEF GateInv, OneApprover, Approver
  <1> QED
    BY <1>2, <1>3 DEF GateInv

LEMMA GateCrash ==
    ASSUME Inv, Inv', GateInv, NEW p \in Proc, Crash(p)
    PROVE  GateInv'
  <1>1. /\ db' = db /\ \A q \in Proc : pc'[q] = pc[q] \/ pc'[q] = "idle"
        /\ pc' = [pc EXCEPT ![p] = "idle"]
        /\ \A q \in Proc : seen'[q] # "PAUSED_AT_GATE_2"
    BY DEF Crash, Inv, TypeOK, GateInv
  <1>2. CASE writer = p
    <2>1. writer' = NoProc /\ Alike(db, db')
      BY <1>1, <1>2, SameRows DEF Crash
    <2> QED
      BY <1>1, <2>1, QuietCommit DEF Approver
  <1>3. CASE writer # p
    <2>1. UNCHANGED <<db, draft, writer>>
      BY <1>1, <1>3 DEF Crash, Rollback
    <2> QED
      BY <1>1, <2>1, GateRead DEF Txn, Approver
  <1> QED
    BY <1>2, <1>3

\* The steps at the gate itself.
LEMMA GateGraph ==
    ASSUME Inv, Inv', GateInv, NEW p \in Proc, PromoteGraph(p)
    PROVE  GateInv'
  <1>1. /\ pc[p] = "specified" /\ writer \in {NoProc, p} /\ writer' = p
        /\ db' = db /\ pc' = [pc EXCEPT ![p] = "drafted"] /\ UNCHANGED seen
        /\ draft.row[Inline] = "NONE"
    BY DEF PromoteGraph, Write, Goto, Creatable, Inline
  <1>2. Alike(db, draft) /\ draft.status = db.status
    BY <1>1, Agrees
  <1>3. /\ draft'.status = draft.status /\ draft'.row[Inline] = "RUNNING"
        /\ draft'.row[Resume] = draft.row[Resume]
    BY DEF PromoteGraph, Write, Inv, TypeOK, Rows, PhaseRow, Inline, Resume
  <1>4. db.row[Inline] = "NONE" /\ draft.row[Resume] = db.row[Resume]
    BY <1>1, <1>2, AlikeRows DEF GateInv, LeftOpen, Alike
  <1>5. \A q \in Proc : pc'[q] = IF q = p THEN "drafted" ELSE pc[q]
    BY <1>1 DEF Inv, TypeOK
  <1>6. ASSUME NEW q \in Proc PROVE Knows(pc[q])'
    <2>1. CASE q = p
      BY <1>1, <1>3, <1>4, <1>5, <2>1 DEF Knows, LeftOpen, Approver
    <2>2. CASE q # p
      <3>1. pc'[q] = pc[q] /\ pc'[q] \notin Txn
        BY <1>1, <1>5, <2>2 DEF Inv
      <3> QED
        BY <1>1, <3>1 DEF GateInv, Knows, Txn
    <2> QED
      BY <2>1, <2>2
  <1>7. OneApprover'
    BY <1>5 DEF GateInv, OneApprover
  <1> QED
    BY <1>1, <1>2, <1>3, <1>6, <1>7 DEF GateInv

LEMMA GatePause ==
    ASSUME Inv, Inv', GateInv, NEW p \in Proc, PauseAtGate2(p)
    PROVE  GateInv'
  <1>1. /\ pc[p] = "drafted" /\ writer' = NoProc
        /\ pc' = [pc EXCEPT ![p] = "idle"] /\ UNCHANGED seen
        /\ db'.row = draft.row
    BY DEF PauseAtGate2, Commit, Goto, SetStatusIf, SetStatus, Inv, TypeOK, Rows
  <1>2. LeftOpen(draft) /\ draft.row[Resume] = db.row[Resume] /\ db.row[Inline] = "NONE"
    BY <1>1 DEF GateInv, Knows
  <1>3. LeftOpen(db') /\ db'.row[Resume] = db.row[Resume]
    BY <1>1, <1>2 DEF LeftOpen
  <1>4. \A q \in Proc : pc'[q] = IF q = p THEN "idle" ELSE pc[q]
    BY <1>1 DEF Inv, TypeOK
  <1>5. \A q \in Proc : pc'[q] \notin Txn
    BY <1>1, ProcAssumption DEF Inv
  <1>6. ASSUME NEW q \in Proc PROVE Knows(pc[q])'
    <2>1. pc'[q] \in Approver =>
              db'.row[Inline] = "SUCCESS" \/ db'.row[Resume] # "NONE"
      BY <1>2, <1>3, <1>4, <1>5 DEF GateInv, Knows, Approver, Txn
    <2> QED
      BY <1>3, <1>5, <2>1 DEF Knows, Txn
  <1>7. OneApprover'
    BY <1>4 DEF GateInv, OneApprover
  <1> QED
    BY <1>1, <1>3, <1>6, <1>7 DEF GateInv

\* Whoever is the next to approve is the only one.
LEMMA GateApprove ==
    ASSUME Inv, Inv', GateInv, NEW p \in Proc, ApproveInline(p) \/ ApproveGate2(p)
    PROVE  GateInv'
  <1>1. /\ writer \in {NoProc, p} /\ writer' = p
        /\ db' = db /\ pc' = [pc EXCEPT ![p] = "approved"] /\ UNCHANGED seen
        /\ draft'.status = draft.status
    BY DEF ApproveInline, ApproveGate2, Promote, Write, Goto, Inv, TypeOK, Rows
  <1>2. \A q \in Proc : pc'[q] = IF q = p THEN "approved" ELSE pc[q]
    BY <1>1 DEF Inv, TypeOK
  <1>3. \A q \in Proc \ {p} : pc[q] = pc'[q] /\ pc[q] \notin Txn
    BY <1>1, <1>2 DEF Inv
  <1>4. /\ Knows("approved")' /\ draft.status = db.status
        /\ ~(db.row[Inline] = "SUCCESS" \/ db.row[Resume] # "NONE")
    <2>1. CASE ApproveInline(p)
      <3>1. pc[p] = "drafted" /\ draft' = [draft EXCEPT
                !.row[Inline] = "SUCCESS", !.version["TASK_GRAPH_APPROVED"] = @ + 1]
        BY <2>1 DEF ApproveInline, Promote, Write, Inline
      <3>2. draft'.row[Inline] = "SUCCESS" /\ draft'.row[Resume] = draft.row[Resume]
        BY <3>1 DEF Inv, TypeOK, Rows, PhaseRow, Inline, Resume
      <3>3. /\ db.row[Inline] = "NONE" /\ draft.row[Resume] = db.row[Resume]
            /\ db.row[Resume] = "NONE"
        BY <3>1 DEF GateInv, Knows, LeftOpen
      <3>4. writer = p /\ draft.status = db.status
        BY <3>1, ProcAssumption DEF Inv, Txn, GateInv
      <3> QED
        BY <1>1, <3>2, <3>3, <3>4 DEF Knows, Approver
    <2>2. CASE ApproveGate2(p)
      <3>1. pc[p] = "gate2" /\ draft.row[Resume] = "NONE" /\ draft' = [draft EXCEPT
                !.row[Resume] = "SUCCESS", !.version["TASK_GRAPH_APPROVED"] = @ + 1]
        BY <2>2 DEF ApproveGate2, Promote, Write, Creatable, Resume
      <3>2. draft'.row[Resume] = "SUCCESS" /\ draft'.row[Inline] = draft.row[Inline]
        BY <3>1 DEF Inv, TypeOK, Rows, PhaseRow, Inline, Resume
      <3>3. draft = db
        BY <1>1, <3>1, Unlocked DEF Txn
      <3>4. LeftOpen(db)
        BY <3>1 DEF GateInv, Knows
      <3> QED
        BY <1>1, <3>1, <3>2, <3>3, <3>4 DEF Knows, Approver, LeftOpen
    <2> QED
      BY <2>1, <2>2
  <1>5. \A q \in Proc \ {p} : pc[q] \notin Approver
    BY <1>3, <1>4 DEF GateInv, Knows, Txn
  <1>6. ASSUME NEW q \in Proc PROVE Knows(pc[q])'
    <2>1. CASE q = p
      BY <1>2, <1>4, <2>1
    <2>2. CASE q # p
      BY <1>1, <1>3, <2>2 DEF GateInv, Knows, Txn
    <2> QED
      BY <2>1, <2>2
  <1>7. OneApprover'
    BY <1>2, <1>5 DEF OneApprover, Approver
  <1> QED
    BY <1>1, <1>4, <1>6, <1>7 DEF GateInv

LEMMA GateCommitApproved ==
    ASSUME Inv, Inv', GateInv, NEW p \in Proc, CommitApproved(p)
    PROVE  GateInv'
  <1>1. /\ pc[p] = "approved" /\ writer' = NoProc /\ db' = draft
        /\ pc' = [pc EXCEPT ![p] = "phase_3"] /\ UNCHANGED seen
    BY DEF CommitApproved, Commit, Goto
  <1>2. draft.status = db.status
    BY <1>1, ProcAssumption DEF Inv, Txn, GateInv
  <1>3. \A q \in Proc : pc'[q] = IF q = p THEN "phase_3" ELSE pc[q]
    BY <1>1 DEF Inv, TypeOK
  <1>4. \A q \in Proc : pc'[q] \notin Txn
    BY <1>1, ProcAssumption DEF Inv
  <1>5. \A q \in Proc : pc[q] \in Approver <=> q = p
    BY <1>1 DEF GateInv, OneApprover, Approver
  <1>6. /\ db'.row[Inline] = "SUCCESS" \/ db'.row[Resume] # "NONE"
        /\ db'.status = "PAUSED_AT_GATE_2" => LeftOpen(db')
        /\ db'.row[Resume] # "NONE" => LeftOpen(db')
        /\ LeftOpen(db) => LeftOpen(db')
    BY <1>1, <1>2 DEF GateInv, Knows, LeftOpen
  <1>7. ASSUME NEW q \in Proc PROVE Knows(pc[q])'
    BY <1>3, <1>4, <1>5, <1>6 DEF GateInv, Knows, Txn
  <1>8. OneApprover'
    BY <1>3, <1>5 DEF OneApprover, Approver
  <1> QED
    BY <1>1, <1>6, <1>7, <1>8 DEF GateInv

-----------------------------------------------------------------------------
LEMMA GateReads ==
    ASSUME Inv, GateInv, NEW p \in Proc,
           \/ OpenGate1(p) \/ ReadPhaseB(p) \/ ReadGate2(p) \/ ExecutionReturns(p)
           \/ AskResume(p) \/ ResumeReturns(p) \/ WebReads(p)
    PROVE  GateInv'
  <1>1. \A q \in Proc : seen[q] # "PAUSED_AT_GATE_2"
    BY DEF GateInv
  <1>2. CASE OpenGate1(p)
    BY <1>1, <1>2, GateRead DEF OpenGate1, Goto, Txn, Approver
  <1>3. CASE ReadPhaseB(p)
    BY <1>1, <1>3, GateRead DEF ReadPhaseB, Goto, Txn, Approver
  <1>4. CASE ReadGate2(p)
    <2>1. LeftOpen(db)
      BY <1>4 DEF ReadGate2, AtGate2, GateInv
    <2> QED
      BY <1>1, <1>4, <2>1, GateRead DEF ReadGate2, Goto, Txn, Approver
  <1>5. CASE ExecutionReturns(p)
    BY <1>1, <1>5, GateRead DEF ExecutionReturns, Goto, Txn, Approver
  <1>6. CASE AskResume(p)
    BY <1>1, <1>6, GateRead DEF AskResume, Goto, Txn, Approver
  <1>7. CASE ResumeReturns(p)
    BY <1>1, <1>7, GateRead DEF ResumeReturns, Goto, Txn, Approver
  <1>8. CASE WebReads(p)
    <2>1. PICK to \in {"ABORTED", "RUNNING_PHASE_3", "RUNNING_EXECUTION",
                       "RUNNING_PHASE_V"} : seen' = [seen EXCEPT ![p] = to]
      BY <1>8 DEF WebReads, Approves
    <2>2. \A q \in Proc : seen'[q] # "PAUSED_AT_GATE_2"
      BY <1>1, <2>1 DEF Inv, TypeOK
    <2> QED
      BY <1>8, <2>2, GateRead DEF WebReads, Txn, Approver
  <1> QED
    BY <1>2, <1>3, <1>4, <1>5, <1>6, <1>7, <1>8

\* promote_output on another row.
LEMMA GatePromote ==
    ASSUME Inv, Inv', GateInv, NEW p \in Proc, pc[p] \notin {"drafted", "approved"},
           NEW r \in PhaseRow \ {Inline, Resume}, NEW t, Promote(p, r, t),
           NEW w, Goto(p, w),
           w \in {"reported", "answered", "logged", "specified", "verified"},
           w = "verified" => pc[p] = "verify"
    PROVE  GateInv'
  <1> DEFINE d == [draft EXCEPT !.row[r] = "SUCCESS", !.version[t] = @ + 1]
  <1>1. draft \in Rows /\ Write(p, d)
    BY DEF Promote, Inv, TypeOK
  <1>2. d.status = draft.status /\ d.row = [draft.row EXCEPT ![r] = "SUCCESS"]
    BY <1>1 DEF Rows
  <1> HIDE DEF d
  <1>3. Alike(draft, d)
    BY <1>1, <1>2, OtherRow
  <1> QED
    BY <1>1, <1>2, <1>3, GateWrite DEF Goto

LEMMA GateWrites ==
    ASSUME Inv, Inv', GateInv, NEW p \in Proc,
           \/ PromoteReport(p) \/ PromoteAnswers(p) \/ PromoteLog(p)
           \/ PromoteSpec(p) \/ Verify(p)
    PROVE  GateInv'
  <1>1. {"run_debate", "gate1_approved_answers", "gate1_decision_log",
         "finalize_spec", "verification_report"} \subseteq PhaseRow \ {Inline, Resume}
    BY DEF PhaseRow, Inline, Resume
  <1>2. CASE PromoteReport(p)
    BY <1>1, <1>2, GatePromote DEF PromoteReport
  <1>3. CASE PromoteAnswers(p)
    BY <1>1, <1>3, GatePromote DEF PromoteAnswers
  <1>4. CASE PromoteLog(p)
    BY <1>1, <1>4, GatePromote DEF PromoteLog
  <1>5. CASE PromoteSpec(p)
    BY <1>1, <1>5, GatePromote DEF PromoteSpec
  <1>6. CASE Verify(p)
    BY <1>1, <1>6, GatePromote DEF Verify
  <1> QED
    BY <1>2, <1>3, <1>4, <1>5, <1>6

\* Process p commits a status, other than that of Gate 2.
LEMMA GateStatus ==
    ASSUME Inv, Inv', GateInv, NEW p \in Proc, pc[p] \notin {"drafted", "approved"},
           NEW to, Commit(p, SetStatus(to)), to # "PAUSED_AT_GATE_2",
           \A q \in Proc : seen'[q] # "PAUSED_AT_GATE_2",
           NEW w, pc' = [pc EXCEPT ![p] = w],
           \/ w \notin Approver \union {"gate2"}
           \/ pc[p] \in Approver /\ w \in Approver
    PROVE  GateInv'
  <1> DEFINE d == SetStatus(to)
  <1>1. d.status = to /\ d.row = draft.row
    BY DEF SetStatus, Inv, TypeOK, Rows
  <1> HIDE DEF d
  <1>2. Alike(draft, d)
    BY <1>1, SameRows
  <1>3. Commit(p, d)
    BY DEF d
  <1> QED
    BY <1>1, <1>2, <1>3, GateCommit

\* So does one that looks at the status it overwrites.
LEMMA GateStatusIf ==
    ASSUME Inv, Inv', GateInv, NEW p \in Proc, pc[p] \notin {"drafted", "approved"},
           NEW from, NEW to, Commit(p, SetStatusIf(from, to)),
           to # "PAUSED_AT_GATE_2", NEW w, Goto(p, w),
           \/ w \notin Approver \union {"gate2"}
           \/ pc[p] \in Approver /\ w \in Approver
    PROVE  GateInv'
  <1>1. /\ pc' = [pc EXCEPT ![p] = w]
        /\ \A q \in Proc : seen'[q] # "PAUSED_AT_GATE_2"
    BY DEF Goto, GateInv
  <1>2. CASE draft.status \in from
    <2>1. Commit(p, SetStatus(to))
      BY <1>2 DEF SetStatusIf
    <2> QED
      BY <1>1, <2>1, GateStatus
  <1>3. CASE draft.status \notin from
    <2>1. Commit(p, draft) /\ Alike(draft, draft)
      BY <1>3, SameRows DEF SetStatusIf
    <2> QED
      BY <1>1, <2>1, GateCommit
  <1> QED
    BY <1>2, <1>3

\* The rows after a reset of some of them are alike.
LEMMA ResetRows ==
    ASSUME draft \in Rows, NEW S \in SUBSET {"RUNNING", "PENDING"},
           NEW x \in {"PENDING", "ABORTED"}, NEW d, d.row = SetRows(S, x)
    PROVE  Alike(draft, d)
  <1>1. ASSUME NEW r \in {Inline, Resume}, NEW y \in {"NONE", "SUCCESS"}
        PROVE  draft.row[r] = y <=> d.row[r] = y
    <2>1. r \in PhaseRow
      BY DEF PhaseRow, Inline, Resume
    <2>2. d.row[r] = IF draft.row[r] \in S THEN x ELSE draft.row[r]
      BY <2>1 DEF SetRows
    <2> QED
      BY <2>2
  <1> QED
    BY <1>1 DEF Alike

LEMMA GateCommits ==
    ASSUME Inv, Inv', GateInv, NEW p \in Proc,
           \/ StartRun(p) \/ StartDebate(p) \/ CommitReport(p) \/ CommitGate1(p)
           \/ RejectGate2(p) \/ EnterPhase3(p) \/ CommitVerification(p)
           \/ FinalizeGate3(p) \/ ResumeRun(p) \/ WebWrites(p)
    PROVE  GateInv'
  <1>1. /\ draft \in Rows /\ pc \in [Proc -> Place]
        /\ \A q \in Proc : seen[q] # "PAUSED_AT_GATE_2"
    BY DEF Inv, TypeOK, GateInv
  <1>2. ASSUME NEW r \in PhaseRow \ {Inline, Resume}, NEW to, to # "PAUSED_AT_GATE_2",
               Commit(p, Opened(draft, to, r)), pc[p] \in {"idle", "questions"},
               NEW w \in {"questions", "debate"}, Goto(p, w)
        PROVE  GateInv'
    <2> DEFINE d == Opened(draft, to, r)
    <2>1. d.status = to /\ d.row = [draft.row EXCEPT ![r] = "RUNNING"]
      BY <1>1 DEF Opened, Rows
    <2>2. Commit(p, d)
      BY <1>2
    <2> HIDE DEF d
    <2>3. Alike(draft, d)
      BY <1>1, <2>1, OtherRow
    <2> QED
      BY <1>1, <1>2, <2>1, <2>2, <2>3, GateCommit DEF Goto, Approver
  <1>3. {"generate_questions", "run_debate"} \subseteq PhaseRow \ {Inline, Resume}
    BY DEF PhaseRow, Inline, Resume
  <1>4. CASE StartRun(p)
    BY <1>2, <1>3, <1>4 DEF StartRun, Opened
  <1>5. CASE StartDebate(p)
    BY <1>2, <1>3, <1>5 DEF StartDebate, Opened
  <1>6. CASE CommitReport(p)
    BY <1>1, <1>6, GateStatus DEF CommitReport, Goto, Approver
  <1>7. CASE CommitGate1(p)
    BY <1>1, <1>7, GateStatus DEF CommitGate1, Goto, Approver
  <1>8. CASE RejectGate2(p)
    BY <1>8, GateStatusIf DEF RejectGate2, Approver
  <1>9. CASE EnterPhase3(p)
    BY <1>9, GateStatusIf DEF EnterPhase3, Approver
  <1>10. CASE CommitVerification(p)
    BY <1>1, <1>10, GateStatus DEF CommitVerification, Goto, Approver
  <1>11. CASE FinalizeGate3(p)
    <2>1. PICK to \in {"ABORTED", "COMPLETED", "RUNNING_PHASE_V", "PAUSED_AT_GATE_3B"} :
                Commit(p, SetStatus(to))
      BY <1>11 DEF FinalizeGate3
    <2>2. pc[p] = "idle" /\ pc' = [pc EXCEPT ![p] = "idle"] /\ UNCHANGED seen
      BY <1>1, <1>11 DEF FinalizeGate3
    <2> QED
      BY <1>1, <2>1, <2>2, GateStatus DEF Approver
  <1>12. CASE ResumeRun(p)
    <2> DEFINE d == [draft EXCEPT !.row = SetRows({"RUNNING"}, "PENDING")]
    <2>1. d.status = draft.status /\ d.row = SetRows({"RUNNING"}, "PENDING")
      BY <1>1 DEF Rows
    <2>2. Commit(p, d)
      BY <1>12 DEF ResumeRun
    <2> HIDE DEF d
    <2>3. Alike(draft, d)
      BY <1>1, <2>1, ResetRows
    <2> QED
      BY <1>1, <1>12, <2>1, <2>2, <2>3, GateCommit DEF ResumeRun, Goto, Approver
  <1>13. CASE WebWrites(p)
    <2>1. \A q \in Proc : seen'[q] # "PAUSED_AT_GATE_2"
      BY <1>1, <1>13 DEF WebWrites, Inv, TypeOK
    <2> QED
      BY <1>1, <1>13, <2>1, GateStatus DEF WebWrites, Approver
  <1> QED
    BY <1>4, <1>5, <1>6, <1>7, <1>8, <1>9, <1>10, <1>11, <1>12, <1>13

LEMMA GateMaterialize ==
    ASSUME Inv, Inv', GateInv, NEW p \in Proc, Materialize(p)
    PROVE  GateInv'
  <1> DEFINE c == SetStatusIf({"RUNNING_PHASE_3"}, "RUNNING_EXECUTION")
             d == IF draft.materialized THEN draft
                  ELSE [c EXCEPT !.materialized = TRUE]
  <1>1. d.row = draft.row /\ (d.status # "PAUSED_AT_GATE_2" \/ d.status = draft.status)
    BY DEF SetStatusIf, SetStatus, Inv, TypeOK, Rows
  <1>2. CommitBeside(d)
    BY DEF Materialize
  <1> HIDE DEF d
  <1>3. Alike(draft, d)
    BY <1>1, SameRows
  <1>4. UNCHANGED seen /\ \A q \in Proc :
            pc'[q] = pc[q] \/ (pc[q] = "starting" /\ pc'[q] = "executing")
    BY DEF Materialize, Goto, Inv, TypeOK
  <1> QED
    BY <1>1, <1>2, <1>3, <1>4, GateBeside

LEMMA GateEngine ==
    ASSUME Inv, Inv', GateInv,
           \/ CheckCompletion \/ ResolveEscalation
           \/ \E r \in PhaseRow : WorkerTakes(r)
    PROVE  GateInv'
  <1>1. draft \in Rows
    BY DEF Inv, TypeOK
  <1>2. UNCHANGED <<pc, seen>>
    BY DEF CheckCompletion, ResolveEscalation, WorkerTakes
  <1>3. ASSUME NEW to, to # "PAUSED_AT_GATE_2", CommitBeside(SetStatus(to))
        PROVE  GateInv'
    <2> DEFINE d == SetStatus(to)
    <2>1. d.status = to /\ d.row = draft.row /\ CommitBeside(d)
      BY <1>1, <1>3 DEF SetStatus, Rows
    <2> HIDE DEF d
    <2> QED
      BY <1>2, <1>3, <2>1, SameRows, GateBeside
  <1>4. CASE CheckCompletion
    BY <1>3, <1>4 DEF CheckCompletion
  <1>5. CASE ResolveEscalation
    <2>1. CASE CommitBeside(SetStatus("RUNNING_EXECUTION"))
      BY <1>3, <2>1
    <2>2. CASE CommitBeside([SetStatus("FAILED") EXCEPT
                !.row = SetRows({"RUNNING", "PENDING"}, "ABORTED")])
      <3> DEFINE d == [SetStatus("FAILED") EXCEPT
                          !.row = SetRows({"RUNNING", "PENDING"}, "ABORTED")]
      <3>1. d.status = "FAILED" /\ d.row = SetRows({"RUNNING", "PENDING"}, "ABORTED")
        BY <1>1 DEF SetStatus, Rows
      <3>2. CommitBeside(d)
        BY <2>2
      <3> HIDE DEF d
      <3>3. Alike(draft, d)
        BY <1>1, <3>1, ResetRows
      <3> QED
        BY <1>2, <3>1, <3>2, <3>3, GateBeside
    <2> QED
      BY <1>5, <2>1, <2>2 DEF ResolveEscalation
  <1>6. CASE \E r \in PhaseRow : WorkerTakes(r)
    <2>1. PICK r \in PhaseRow : WorkerTakes(r)
      BY <1>6
    <2> DEFINE d == [draft EXCEPT !.row[r] = "TAKEN"]
    <2>2. /\ d.status = draft.status
          /\ \A s \in PhaseRow : d.row[s] = IF s = r THEN "TAKEN" ELSE draft.row[s]
      BY <1>1 DEF Rows
    <2>3. CommitBeside(d) /\ draft.row[r] = "PENDING"
      BY <2>1 DEF WorkerTakes
    <2> HIDE DEF d
    <2>4. Alike(draft, d)
      BY <2>2, <2>3 DEF Alike, PhaseRow, Inline, Resume
    <2> QED
      BY <1>2, <2>2, <2>3, <2>4, GateBeside
  <1> QED
    BY <1>4, <1>5, <1>6

LEMMA GateInit == Init => GateInv
  BY DEF Init, Empty, GateInv, Knows, OneApprover, Approver, Inline, Resume, PhaseRow

LEMMA GateNext == Inv /\ Inv' /\ GateInv /\ [Next]_vars => GateInv'
  <1> SUFFICES ASSUME Inv, Inv', GateInv, [Next]_vars PROVE GateInv'
    OBVIOUS
  <1>1. CASE UNCHANGED vars
    BY <1>1 DEF vars, GateInv, Knows, LeftOpen, Alike, OneApprover
  <1>2. ASSUME NEW p \in Proc, PhaseStep(p) PROVE GateInv'
    BY <1>2, GateReads, GateWrites, GateCommits, GateGraph, GatePause, GateApprove,
       GateCommitApproved, GateMaterialize DEF PhaseStep
  <1>3. ASSUME NEW p \in Proc, WebReads(p) \/ WebWrites(p) \/ Crash(p) PROVE GateInv'
    BY <1>3, GateReads, GateCommits, GateCrash
  <1> QED
    BY <1>1, <1>2, <1>3, GateEngine DEF Next

\* One process at most goes on to execute the graph of a run, however it is
\* approved, and although the row of Gate 2 stays undecided (OneApprover).
THEOREM OnlyOneApproves == Spec => []OneApprover
  <1>1. GateInv => OneApprover
    BY DEF GateInv
  <1> QED
    BY <1>1, Invariance, GateInit, GateNext, PTL DEF Spec


\* The pipeline writes RUNNING_PHASE_3 with the approved graph committed; of
\* all others only the web UI writes it.
LEMMA WritersOfPhase3 ==
    ASSUME Inv, Inv', GateInv, Next,
           db'.status = "RUNNING_PHASE_3", db.status # "RUNNING_PHASE_3"
    PROVE  Has(db', "TASK_GRAPH_APPROVED") \/ \E p \in Proc : WebWrites(p)
  <1>1. /\ draft \in Rows /\ draft.status = db.status
        /\ \A to : SetStatus(to).status = to
        /\ \A from, to : SetStatusIf(from, to).status
                            = IF draft.status \in from THEN to ELSE draft.status
    <2>1. draft \in Rows /\ draft.status = db.status
      BY DEF Inv, TypeOK, GateInv
    <2> QED
      BY <2>1 DEF SetStatusIf, SetStatus, Rows
  <1>2. ASSUME NEW p \in Proc, PhaseStep(p)
        PROVE  EnterPhase3(p)
    <2>1. CASE StartRun(p) \/ StartDebate(p)
      BY <1>1, <2>1 DEF StartRun, StartDebate, Commit, Rows
    <2>2. CASE \/ CommitReport(p) \/ CommitGate1(p) \/ PauseAtGate2(p)
               \/ RejectGate2(p) \/ CommitVerification(p) \/ FinalizeGate3(p)
      BY <1>1, <2>2 DEF CommitReport, CommitGate1, PauseAtGate2, RejectGate2,
                        CommitVerification, FinalizeGate3, Commit
    <2>3. CASE CommitApproved(p) \/ ResumeRun(p)
      BY <1>1, <2>3 DEF CommitApproved, ResumeRun, Commit, Rows
    <2>4. CASE Materialize(p)
      <3> DEFINE c == SetStatusIf({"RUNNING_PHASE_3"}, "RUNNING_EXECUTION")
      <3>1. [c EXCEPT !.materialized = TRUE].status = c.status
        BY <1>1 DEF SetStatusIf, SetStatus, Rows
      <3> QED
        BY <1>1, <2>4, <3>1 DEF Materialize, CommitBeside
    <2>5. CASE UNCHANGED db
      BY <2>5
    <2> QED
      BY <1>2, <2>1, <2>2, <2>3, <2>4, <2>5
      DEF PhaseStep, PromoteReport, PromoteAnswers, PromoteLog, PromoteSpec,
          Verify, PromoteGraph, ApproveInline, ApproveGate2, Promote, Write,
          OpenGate1, ReadPhaseB, ReadGate2, ExecutionReturns, AskResume,
          ResumeReturns
  <1>3. ASSUME NEW p \in Proc, EnterPhase3(p)
        PROVE  Has(db', "TASK_GRAPH_APPROVED")
    <2>1. pc'[p] = "starting"
      BY <1>3 DEF EnterPhase3, Goto, Inv, TypeOK
    <2> QED
      BY <2>1 DEF Inv, View, Txn, Ready, WithGraph, WithDraft, WithSpec, WithLog,
                  WithAnswers, WithReport, Place
  <1>4. ~(CheckCompletion \/ ResolveEscalation \/ \E r \in PhaseRow : WorkerTakes(r))
    <2>1. \A to : [SetStatus(to) EXCEPT
                     !.row = SetRows({"RUNNING", "PENDING"}, "ABORTED")].status = to
      BY <1>1 DEF SetStatus, Rows
    <2> QED
      BY <1>1, <2>1 DEF CheckCompletion, ResolveEscalation, WorkerTakes, CommitBeside, Rows
  <1>5. ~(\E p \in Proc : WebReads(p) \/ Crash(p))
    BY DEF WebReads, Crash
  <1> QED
    BY <1>2, <1>3, <1>4, <1>5 DEF Next

\* A run is shown in no phase whose inputs have not been delivered, but that
\* the web UI's approval at Gate 2 writes RUNNING_PHASE_3 without its graph: no
\* crash, reviewer, abort or pipeline that comes late does anything like it.
THEOREM InputsAreThere == Spec => PhaseHasInputs
  <1>1. ASSUME Inv, Inv', GateInv, [Next]_vars
        PROVE  [\/ HasInputs(db', db'.status)
                \/ /\ db'.status = "RUNNING_PHASE_3"
                   /\ HasInputs(db', "PAUSED_AT_GATE_2")
                   /\ db.status = "RUNNING_PHASE_3" \/ \E p \in Proc : WebWrites(p)]_vars
    <2>1. Shown(db', db'.status)
      BY <1>1 DEF Inv, Coherent
    <2>2. HasInputs(db', "PAUSED_AT_GATE_2") /\ Has(db', "TASK_GRAPH_APPROVED")
            => HasInputs(db', "RUNNING_PHASE_3")
      BY DEF HasInputs, AfterDebate, AfterGate1, AfterSpec, AfterGate2, AfterVerdict,
             Status, Running, Paused, Terminal
    <2>3. CASE db.status # "RUNNING_PHASE_3" /\ Next
      BY <1>1, <2>1, <2>2, <2>3, WritersOfPhase3 DEF Shown
    <2> QED
      BY <1>1, <2>1, <2>3 DEF Shown
  <1> QED
    BY <1>1, Invariance, GateInit, GateNext, PTL DEF Spec, PhaseHasInputs

-----------------------------------------------------------------------------
(* What is delivered, and when.                                            *)

Report == "DEBATE_REPORT"
Graph2 == "TASK_GRAPH_APPROVED"

\* The row whose success goes with an output; that of the approved graph is
\* one of the two above.
RowOf == [DEBATE_REPORT        |-> "run_debate",
          APPROVED_ANSWERS     |-> "gate1_approved_answers",
          DECISION_LOG         |-> "gate1_decision_log",
          SPEC_BUNDLE          |-> "finalize_spec",
          TASK_GRAPH_GENERATED |-> "generate_task_graph",
          VERIFICATION_REPORT  |-> "verification_report"]

\* Every output there is appeared once, with its inputs.
InOrder(d) ==
    /\ \A t \in Type : d.version[t] \in {0, 1}
    /\ \A t \in Type : d.version[t] = 1 => \A u \in Requires[t] : d.version[u] = 1
    /\ \A t \in DOMAIN RowOf : d.version[t] = 1 => d.row[RowOf[t]] = "SUCCESS"
    /\ d.version[Graph2] = 1 => d.row[Inline] = "SUCCESS" \/ d.row[Resume] # "NONE"
    /\ d.status = "NONE" => d.version[Report] = 0

\* The process that starts the run, and debates.
Starter == {"questions", "debate", "reported"}

StartInv ==
    /\ \A p \in Proc : pc[p] \in Starter =>
          db.version[Report] = 0 /\ db.status # "NONE"
    /\ \A p, q \in Proc : {pc[p], pc[q]} \subseteq Starter => p = q
    /\ \A p \in Proc : pc[p] \in Txn \ {"reported"} =>
          draft.version[Report] = db.version[Report]
    /\ \A p \in Proc : pc[p] \in {"answered", "logged"} =>
          db.version["APPROVED_ANSWERS"] = 0
    /\ \A p \in Proc : pc[p] = "web" => seen[p] # "NONE"

DeliveryInv == InOrder(db) /\ InOrder(draft) /\ StartInv

\* The rows of c that go with an output are left alone in d.
Keeps(c, d) ==
    /\ \A t \in DOMAIN RowOf :
          c.version[t] = 1 /\ c.row[RowOf[t]] = "SUCCESS" => d.row[RowOf[t]] = "SUCCESS"
    /\ c.row[Inline] = "SUCCESS" => d.row[Inline] = "SUCCESS"
    /\ c.row[Resume] # "NONE" => d.row[Resume] # "NONE"

\* d has what c has, and nothing new.
Steady(c, d) ==
    /\ d.version = c.version /\ Keeps(c, d)
    /\ d.status = "NONE" => c.status = "NONE"

\* d has a first version of t, and what c has.
Adds(c, d, t) ==
    /\ c.version[t] = 0 /\ \A u \in Requires[t] : c.version[u] = 1
    /\ d.version = [c.version EXCEPT ![t] = 1]
    /\ Keeps(c, d)
    /\ IF t = Graph2 THEN d.row[Inline] = "SUCCESS" \/ d.row[Resume] # "NONE"
                     ELSE d.row[RowOf[t]] = "SUCCESS"
    /\ d.status = c.status /\ (d.status = "NONE" => t # Report)


LEMMA RowTypes ==
    /\ DOMAIN RowOf = Type \ {Graph2}
    /\ Report \in DOMAIN RowOf /\ Graph2 \in Type
    /\ \A t \in DOMAIN RowOf : RowOf[t] \in PhaseRow
    /\ \A t, u \in DOMAIN RowOf : RowOf[t] = RowOf[u] => t = u
    /\ Inline \in PhaseRow /\ Resume \in PhaseRow
    /\ \A t \in Type : Requires[t] \subseteq Type
  BY Types DEF RowOf, Requires, Graph2, Report, PhaseRow, Inline, Resume

LEMMA SteadyInOrder ==
    ASSUME NEW c \in Rows, NEW d, InOrder(c), Steady(c, d)
    PROVE  InOrder(d)
  BY RowTypes DEF InOrder, Steady, Keeps

LEMMA AddsInOrder ==
    ASSUME NEW c \in Rows, NEW d, NEW t \in Type, InOrder(c), Adds(c, d, t)
    PROVE  InOrder(d)
  <1>1. /\ c.version \in [Type -> Nat]
        /\ \A u \in Type : d.version[u] = IF u = t THEN 1 ELSE c.version[u]
    BY DEF Rows, Adds
  <1>2. \A u \in Type : d.version[u] \in {0, 1}
    BY <1>1 DEF InOrder
  <1>3. ASSUME NEW u \in Type, d.version[u] = 1, NEW v \in Requires[u]
        PROVE  d.version[v] = 1
    <2>1. v \in Type
      BY RowTypes
    <2>2. c.version[v] = 1
      BY <1>1, <1>3 DEF InOrder, Adds, Keeps
    <2> QED
      BY <1>1, <2>1, <2>2
  <1>4. ASSUME NEW u \in DOMAIN RowOf, d.version[u] = 1
        PROVE  d.row[RowOf[u]] = "SUCCESS"
    BY <1>1, <1>4, RowTypes DEF InOrder, Adds, Keeps
  <1>5. d.version[Graph2] = 1 => d.row[Inline] = "SUCCESS" \/ d.row[Resume] # "NONE"
    BY <1>1, RowTypes DEF InOrder, Adds, Keeps
  <1>6. d.status = "NONE" => d.version[Report] = 0
    BY <1>1, RowTypes DEF InOrder, Adds, Keeps
  <1> QED
    BY <1>2, <1>3, <1>4, <1>5, <1>6 DEF InOrder

\* Whoever may write sees its inputs, in rows with the committed status.
LEMMA Sees ==
    ASSUME Inv, GateInv, NEW p \in Proc, writer \in {NoProc, p}
    PROVE  Ready(draft, pc[p]) /\ draft.status = db.status
  <1>1. CASE pc[p] \in Txn
    BY <1>1, ProcAssumption DEF Inv, GateInv, View
  <1>2. CASE pc[p] \notin Txn
    BY <1>2, Unlocked DEF Inv, View
  <1> QED
    BY <1>1, <1>2

\* promote_output makes the first version of t, if there is none.
LEMMA PromoteAdds ==
    ASSUME Inv, GateInv, InOrder(draft), NEW p \in Proc, NEW t \in DOMAIN RowOf,
           Promote(p, RowOf[t], t), draft.version[t] = 0,
           \A u \in Requires[t] : Has(draft, u),
           draft.status = "NONE" => t # Report
    PROVE  db' = db /\ Adds(draft, draft', t)
  <1>1. /\ draft \in Rows /\ t \in Type /\ RowOf[t] \in PhaseRow /\ t # Graph2
        /\ Requires[t] \subseteq Type
    BY RowTypes DEF Inv, TypeOK
  <1>2. /\ db' = db
        /\ draft' = [draft EXCEPT !.row[RowOf[t]] = "SUCCESS", !.version[t] = @ + 1]
    BY DEF Promote, Write
  <1>3. /\ draft'.status = draft.status
        /\ draft'.row = [draft.row EXCEPT ![RowOf[t]] = "SUCCESS"]
        /\ draft'.version = [draft.version EXCEPT ![t] = draft.version[t] + 1]
    BY <1>1, <1>2 DEF Rows
  <1>4. draft'.version = [draft.version EXCEPT ![t] = 1]
    BY <1>1, <1>3 DEF Rows
  <1>5. \A u \in Requires[t] : draft.version[u] = 1
    BY <1>1 DEF InOrder, Has
  <1>6. draft.row \in [PhaseRow -> PhaseRowStatus]
    BY <1>1 DEF Rows
  <1>7. /\ draft'.row[RowOf[t]] = "SUCCESS"
        /\ \A r \in PhaseRow : draft.row[r] = "SUCCESS" => draft'.row[r] = "SUCCESS"
        /\ draft.row[Resume] # "NONE" => draft'.row[Resume] # "NONE"
    BY <1>1, <1>3, <1>6, RowTypes
  <1> QED
    BY <1>1, <1>2, <1>3, <1>4, <1>5, <1>7 DEF Adds, Keeps

LEMMA DeliveryWrites ==
    ASSUME Inv, GateInv, DeliveryInv, NEW p \in Proc,
           \/ PromoteReport(p) \/ PromoteAnswers(p) \/ PromoteLog(p)
           \/ PromoteSpec(p) \/ Verify(p)
    PROVE  /\ db' = db
           /\ \E t \in Type : Adds(draft, draft', t) /\ (t = Report => PromoteReport(p))
  <1>1. InOrder(draft) /\ draft \in Rows /\ DOMAIN RowOf \subseteq Type
    BY RowTypes DEF DeliveryInv, Inv, TypeOK
  <1>2. ASSUME NEW t \in DOMAIN RowOf, draft.row[RowOf[t]] # "SUCCESS"
        PROVE  draft.version[t] = 0
    BY <1>1, <1>2 DEF InOrder
  <1>3. CASE PromoteReport(p)
    <2>1. /\ pc[p] = "debate" /\ Promote(p, RowOf[Report], Report)
          /\ draft.row[RowOf[Report]] = "RUNNING" /\ Requires[Report] = {}
          /\ writer \in {NoProc, p}
      BY <1>3 DEF PromoteReport, Promote, Write, RowOf, Report, Requires
    <2>2. draft.status # "NONE"
      BY <2>1, Sees DEF DeliveryInv, StartInv, Starter
    <2> QED
      BY <1>1, <1>2, <1>3, <2>1, <2>2, PromoteAdds, RowTypes
  <1>4. ASSUME NEW t \in DOMAIN RowOf, t # Report, Promote(p, RowOf[t], t),
               Creatable(RowOf[t]), \A u \in Requires[t] : Has(draft, u)
        PROVE  db' = db /\ Adds(draft, draft', t)
    BY <1>1, <1>2, <1>4, PromoteAdds DEF Creatable
  <1>5. writer \in {NoProc, p}
    BY DEF PromoteReport, PromoteAnswers, PromoteLog, PromoteSpec, Verify, Promote, Write
  <1>6. Ready(draft, pc[p])
    BY <1>5, Sees
  <1>7. CASE PromoteAnswers(p)
    <2> DEFINE t == "APPROVED_ANSWERS"
    <2>1. t \in DOMAIN RowOf /\ t # Report /\ Requires[t] = {"DEBATE_REPORT"}
          /\ RowOf[t] = "gate1_approved_answers"
      BY DEF RowOf, Report, Requires
    <2>2. \A u \in Requires[t] : Has(draft, u)
      BY <1>6, <1>7, <2>1 DEF PromoteAnswers, Ready, WithReport, Place
    <2> QED
      BY <1>1, <1>4, <1>7, <2>1, <2>2 DEF PromoteAnswers
  <1>8. CASE PromoteLog(p)
    <2> DEFINE t == "DECISION_LOG"
    <2>1. t \in DOMAIN RowOf /\ t # Report /\ Requires[t] = {"DEBATE_REPORT"}
          /\ RowOf[t] = "gate1_decision_log"
      BY DEF RowOf, Report, Requires
    <2>2. \A u \in Requires[t] : Has(draft, u)
      BY <1>6, <1>8, <2>1 DEF PromoteLog, Ready, WithReport, Place
    <2> QED
      BY <1>1, <1>4, <1>8, <2>1, <2>2 DEF PromoteLog
  <1>9. CASE PromoteSpec(p)
    <2> DEFINE t == "SPEC_BUNDLE"
    <2>1. t \in DOMAIN RowOf /\ t # Report /\ Requires[t] = {"APPROVED_ANSWERS"}
          /\ RowOf[t] = "finalize_spec"
      BY DEF RowOf, Report, Requires
    <2>2. \A u \in Requires[t] : Has(draft, u)
      BY <1>6, <1>9, <2>1 DEF PromoteSpec, Ready, WithReport, WithAnswers, Place
    <2> QED
      BY <1>1, <1>4, <1>9, <2>1, <2>2 DEF PromoteSpec
  <1>10. CASE Verify(p)
    <2> DEFINE t == "VERIFICATION_REPORT"
    <2>1. t \in DOMAIN RowOf /\ t # Report /\ RowOf[t] = "verification_report"
          /\ Requires[t] = {"SPEC_BUNDLE", "TASK_GRAPH_APPROVED"}
      BY DEF RowOf, Report, Requires
    <2>2. \A u \in Requires[t] : Has(draft, u)
      BY <1>6, <1>10, <2>1
      DEF Verify, Ready, WithReport, WithAnswers, WithLog, WithSpec, WithDraft,
          WithGraph, Place
    <2> QED
      BY <1>1, <1>4, <1>10, <2>1, <2>2 DEF Verify
  <1> QED
    BY <1>3, <1>7, <1>8, <1>9, <1>10

LEMMA DeliveryGraph ==
    ASSUME Inv, GateInv, DeliveryInv, NEW p \in Proc, PromoteGraph(p)
    PROVE  db' = db /\ Adds(draft, draft', "TASK_GRAPH_GENERATED")
  <1> DEFINE t == "TASK_GRAPH_GENERATED"
  <1>1. /\ draft \in Rows /\ InOrder(draft) /\ t \in DOMAIN RowOf
        /\ RowOf[t] = "generate_task_graph" /\ t \in Type /\ t # Graph2 /\ t # Report
        /\ Requires[t] = {"SPEC_BUNDLE", "APPROVED_ANSWERS"}
    BY RowTypes DEF RowOf, Requires, Graph2, Report, Inv, TypeOK, DeliveryInv
  <1>2. /\ pc[p] = "specified" /\ writer \in {NoProc, p} /\ db' = db
        /\ draft.row[RowOf[t]] = "NONE" /\ draft.row[Inline] = "NONE"
        /\ draft' = [draft EXCEPT !.row["generate_task_graph"] = "SUCCESS",
                              !.row["task_graph_gate2"] = "RUNNING",
                              !.version["TASK_GRAPH_GENERATED"] = @ + 1]
    BY <1>1 DEF PromoteGraph, Write, Creatable, Inline
  <1>3. draft.version[t] = 0
    BY <1>1, <1>2 DEF InOrder
  <1>4. \A u \in Requires[t] : draft.version[u] = 1
    <2>1. \A u \in Requires[t] : Has(draft, u)
      BY <1>1, <1>2, Sees DEF Ready, WithReport, WithAnswers, WithLog, WithSpec, Place
    <2> QED
      BY <1>1, <2>1, RowTypes DEF Has, InOrder
  <1>5. /\ draft'.status = draft.status
        /\ draft'.version = [draft.version EXCEPT ![t] = draft.version[t] + 1]
        /\ draft'.row = [[draft.row EXCEPT !["generate_task_graph"] = "SUCCESS"]
                            EXCEPT !["task_graph_gate2"] = "RUNNING"]
    BY <1>1, <1>2 DEF Rows
  <1>6. draft'.version = [draft.version EXCEPT ![t] = 1]
    BY <1>3, <1>5
  <1>7. /\ draft'.row[RowOf[t]] = "SUCCESS"
        /\ \A r \in PhaseRow : draft.row[r] = "SUCCESS" => draft'.row[r] = "SUCCESS"
        /\ draft.row[Resume] # "NONE" => draft'.row[Resume] # "NONE"
    <2>1. draft.row \in [PhaseRow -> PhaseRowStatus]
      BY <1>1 DEF Rows
    <2> QED
      BY <1>1, <1>2, <1>5, <2>1, RowTypes DEF Inline, Resume
  <1>8. Keeps(draft, draft')
    BY <1>2, <1>7, RowTypes DEF Keeps
  <1> QED
    BY <1>1, <1>2, <1>3, <1>4, <1>5, <1>6, <1>7, <1>8 DEF Adds

LEMMA DeliveryApprove ==
    ASSUME Inv, GateInv, DeliveryInv, NEW p \in Proc,
           ApproveInline(p) \/ ApproveGate2(p)
    PROVE  db' = db /\ Adds(draft, draft', Graph2)
  <1>1. PICK r \in {Inline, Resume} :
          /\ Promote(p, r, Graph2) /\ writer \in {NoProc, p}
          /\ IF r = Inline THEN pc[p] = "drafted"
                           ELSE pc[p] = "gate2" /\ draft.row[Resume] = "NONE"
    BY DEF ApproveInline, ApproveGate2, Promote, Write, Creatable, Inline, Resume, Graph2
  <1>2. draft \in Rows /\ InOrder(draft) /\ r \in PhaseRow /\ Graph2 \in Type
    BY RowTypes DEF Inv, TypeOK, DeliveryInv
  <1>3. draft.row[Inline] # "SUCCESS" /\ draft.row[Resume] = "NONE"
    <2>1. CASE r = Inline
      BY <1>1, <2>1 DEF GateInv, Knows, LeftOpen
    <2>2. CASE r = Resume
      <3>1. pc[p] = "gate2" /\ draft.row[Resume] = "NONE"
        BY <1>1, <2>2 DEF Inline, Resume
      <3>2. draft = db /\ LeftOpen(db)
        BY <1>1, <3>1, Unlocked DEF Txn, GateInv, Knows
      <3> QED
        BY <3>1, <3>2 DEF LeftOpen
    <2> QED
      BY <2>1, <2>2
  <1>4. draft.version[Graph2] = 0
    BY <1>2, <1>3 DEF InOrder
  <1>5. Requires[Graph2] = {"TASK_GRAPH_GENERATED"} /\ Graph2 # Report
    BY DEF Requires, Graph2, Report
  <1>6. \A u \in Requires[Graph2] : draft.version[u] = 1
    <2>1. Has(draft, "TASK_GRAPH_GENERATED")
      BY <1>1, Sees
      DEF Ready, WithReport, WithAnswers, WithLog, WithSpec, WithDraft, Place, Inline
    <2> QED
      BY <1>2, <1>5, <2>1, Types DEF Has, InOrder
  <1>7. /\ db' = db
        /\ draft' = [draft EXCEPT !.row[r] = "SUCCESS", !.version[Graph2] = @ + 1]
    BY <1>1 DEF Promote, Write
  <1>8. /\ draft'.status = draft.status
        /\ draft'.row = [draft.row EXCEPT ![r] = "SUCCESS"]
        /\ draft'.version = [draft.version EXCEPT ![Graph2] = draft.version[Graph2] + 1]
    BY <1>2, <1>7 DEF Rows
  <1>9. draft'.version = [draft.version EXCEPT ![Graph2] = 1]
    BY <1>4, <1>8
  <1>10. /\ draft'.row[Inline] = "SUCCESS" \/ draft'.row[Resume] # "NONE"
         /\ \A s \in PhaseRow : draft.row[s] = "SUCCESS" => draft'.row[s] = "SUCCESS"
    <2>1. draft.row \in [PhaseRow -> PhaseRowStatus]
      BY <1>2 DEF Rows
    <2> QED
      BY <1>2, <1>8, <2>1, RowTypes
  <1>11. Keeps(draft, draft')
    BY <1>3, <1>10, RowTypes DEF Keeps
  <1> QED
    BY <1>4, <1>5, <1>6, <1>7, <1>8, <1>9, <1>10, <1>11 DEF Adds


LEMMA SteadyRows ==
    ASSUME NEW c \in Rows, NEW d, d.version = c.version, d.row = c.row,
           d.status = "NONE" => c.status = "NONE"
    PROVE  Steady(c, d)
  BY DEF Steady, Keeps

LEMMA SteadyStatus ==
    ASSUME draft \in Rows, NEW to, to # "NONE"
    PROVE  Steady(draft, SetStatus(to)) /\ SetStatus(to).status = to
  BY SteadyRows DEF SetStatus, Rows

LEMMA SteadyStatusIf ==
    ASSUME draft \in Rows, NEW from, NEW to, to # "NONE"
    PROVE  Steady(draft, SetStatusIf(from, to))
  BY SteadyStatus, SteadyRows DEF SetStatusIf

LEMMA SteadyReset ==
    ASSUME draft \in Rows, NEW S \in SUBSET {"RUNNING", "PENDING"},
           NEW x \in {"PENDING", "ABORTED"}, NEW d, d.row = SetRows(S, x),
           d.version = draft.version, d.status = "NONE" => draft.status = "NONE"
    PROVE  Steady(draft, d)
  <1>1. \A r \in PhaseRow :
            d.row[r] = IF draft.row[r] \in S THEN x ELSE draft.row[r]
    BY DEF SetRows
  <1> QED
    BY <1>1, RowTypes DEF Steady, Keeps

\* A row is opened in which nothing was delivered.
LEMMA SteadyOpened ==
    ASSUME draft \in Rows, NEW r \in PhaseRow \ {Inline, Resume},
           \A t \in DOMAIN RowOf : RowOf[t] = r => draft.version[t] = 0,
           NEW to, to # "NONE"
    PROVE  Steady(draft, Opened(draft, to, r)) /\ Opened(draft, to, r).status = to
  <1>1. draft.row \in [PhaseRow -> PhaseRowStatus]
    BY DEF Rows
  <1>2. /\ Opened(draft, to, r).status = to
        /\ Opened(draft, to, r).version = draft.version
        /\ Opened(draft, to, r).row = [draft.row EXCEPT ![r] = "RUNNING"]
    BY DEF Opened, Rows
  <1> QED
    BY <1>1, <1>2, RowTypes DEF Steady, Keeps

\* Nothing is delivered by a commit but what was written before.
LEMMA DeliveryCommits ==
    ASSUME Inv, GateInv, DeliveryInv, NEW p \in Proc,
           \/ CommitReport(p) \/ CommitGate1(p) \/ PauseAtGate2(p)
           \/ RejectGate2(p) \/ CommitApproved(p) \/ EnterPhase3(p)
           \/ CommitVerification(p) \/ FinalizeGate3(p) \/ ResumeRun(p)
           \/ WebWrites(p)
    PROVE  /\ \E d : Commit(p, d) /\ Steady(draft, d)
           /\ \A q \in Proc : pc'[q] # pc[q] => q = p /\ pc'[p] \in Place \ (Starter \union {"web"})
           /\ \A q \in Proc : pc'[q] = "web" => seen'[q] # "NONE"
  <1>1. draft \in Rows /\ pc \in [Proc -> Place] /\ seen \in [Proc -> Status]
    BY DEF Inv, TypeOK
  <1>2. \A q \in Proc : pc[q] = "web" => seen[q] # "NONE"
    BY DEF DeliveryInv, StartInv
  <1>3. ASSUME NEW w \in Place \ (Starter \union {"web"}), Goto(p, w)
        PROVE  /\ \A q \in Proc : pc'[q] # pc[q] =>
                     q = p /\ pc'[p] \in Place \ (Starter \union {"web"})
               /\ \A q \in Proc : pc'[q] = "web" => seen'[q] # "NONE"
    BY <1>1, <1>2, <1>3 DEF Goto
  <1>4. {"idle", "phase_3", "starting", "resumed"}
            \subseteq Place \ (Starter \union {"web"})
    BY DEF Place, Starter
  <1>5. CASE CommitReport(p)
    BY <1>1, <1>3, <1>4, <1>5, SteadyStatus DEF CommitReport
  <1>6. CASE CommitGate1(p)
    BY <1>1, <1>3, <1>4, <1>6, SteadyStatus DEF CommitGate1
  <1>7. CASE PauseAtGate2(p)
    BY <1>1, <1>3, <1>4, <1>7, SteadyStatusIf DEF PauseAtGate2
  <1>8. CASE RejectGate2(p)
    BY <1>1, <1>3, <1>4, <1>8, SteadyStatusIf DEF RejectGate2
  <1>9. CASE CommitApproved(p)
    BY <1>1, <1>3, <1>4, <1>9, SteadyRows DEF CommitApproved
  <1>10. CASE EnterPhase3(p)
    BY <1>1, <1>3, <1>4, <1>10, SteadyStatusIf DEF EnterPhase3
  <1>11. CASE CommitVerification(p)
    BY <1>1, <1>3, <1>4, <1>11, SteadyStatus DEF CommitVerification
  <1>12. CASE FinalizeGate3(p)
    <2>1. PICK to \in {"ABORTED", "COMPLETED", "RUNNING_PHASE_V", "PAUSED_AT_GATE_3B"} :
                Commit(p, SetStatus(to))
      BY <1>12 DEF FinalizeGate3
    <2>2. UNCHANGED <<pc, seen>>
      BY <1>12 DEF FinalizeGate3
    <2> QED
      BY <1>1, <1>2, <2>1, <2>2, SteadyStatus
  <1>13. CASE ResumeRun(p)
    <2> DEFINE d == [draft EXCEPT !.row = SetRows({"RUNNING"}, "PENDING")]
    <2>1. /\ d.status = draft.status /\ d.row = SetRows({"RUNNING"}, "PENDING")
          /\ d.version = draft.version
      BY <1>1 DEF Rows
    <2>2. Commit(p, d)
      BY <1>13 DEF ResumeRun
    <2> HIDE DEF d
    <2>3. Steady(draft, d)
      BY <1>1, <2>1, SteadyReset
    <2> QED
      BY <1>3, <1>4, <1>13, <2>2, <2>3 DEF ResumeRun
  <1>14. CASE WebWrites(p)
    <2>1. seen[p] # "NONE" /\ Commit(p, SetStatus(seen[p]))
      BY <1>2, <1>14 DEF WebWrites
    <2>2. /\ pc' = [pc EXCEPT ![p] = "idle"] /\ seen' = [seen EXCEPT ![p] = "NONE"]
      BY <1>14 DEF WebWrites
    <2> QED
      BY <1>1, <1>2, <1>4, <2>1, <2>2, SteadyStatus
  <1> QED
    BY <1>5, <1>6, <1>7, <1>8, <1>9, <1>10, <1>11, <1>12, <1>13, <1>14

LEMMA DeliveryBeside ==
    ASSUME Inv, GateInv, DeliveryInv,
           \/ CheckCompletion \/ ResolveEscalation
           \/ \E r \in PhaseRow : WorkerTakes(r)
           \/ \E p \in Proc : Materialize(p)
    PROVE  /\ \E d : CommitBeside(d) /\ Steady(draft, d)
           /\ UNCHANGED seen
           /\ \A q \in Proc : pc'[q] # pc[q] => pc'[q] = "executing"
  <1>1. draft \in Rows /\ pc \in [Proc -> Place]
    BY DEF Inv, TypeOK
  <1>2. UNCHANGED seen /\ \A q \in Proc : pc'[q] # pc[q] => pc'[q] = "executing"
    BY <1>1 DEF CheckCompletion, ResolveEscalation, WorkerTakes, Materialize, Goto
  <1>3. CASE CheckCompletion
    BY <1>1, <1>2, <1>3, SteadyStatus DEF CheckCompletion
  <1>4. CASE ResolveEscalation
    <2>1. CASE CommitBeside(SetStatus("RUNNING_EXECUTION"))
      BY <1>1, <1>2, <2>1, SteadyStatus
    <2>2. CASE CommitBeside([SetStatus("FAILED") EXCEPT
                !.row = SetRows({"RUNNING", "PENDING"}, "ABORTED")])
      <3> DEFINE d == [SetStatus("FAILED") EXCEPT
                          !.row = SetRows({"RUNNING", "PENDING"}, "ABORTED")]
      <3>1. /\ d.status = "FAILED" /\ d.row = SetRows({"RUNNING", "PENDING"}, "ABORTED")
            /\ d.version = draft.version
        BY <1>1 DEF SetStatus, Rows
      <3>2. CommitBeside(d)
        BY <2>2
      <3> HIDE DEF d
      <3>3. Steady(draft, d)
        BY <1>1, <3>1, SteadyReset
      <3> QED
        BY <1>2, <3>2, <3>3
    <2> QED
      BY <1>4, <2>1, <2>2 DEF ResolveEscalation
  <1>5. CASE \E r \in PhaseRow : WorkerTakes(r)
    <2>1. PICK r \in PhaseRow : WorkerTakes(r)
      BY <1>5
    <2> DEFINE d == [draft EXCEPT !.row[r] = "TAKEN"]
    <2>2. /\ d.status = draft.status /\ d.version = draft.version
          /\ \A s \in PhaseRow : d.row[s] = IF s = r THEN "TAKEN" ELSE draft.row[s]
      BY <1>1 DEF Rows
    <2>3. CommitBeside(d) /\ draft.row[r] = "PENDING"
      BY <2>1 DEF WorkerTakes
    <2> HIDE DEF d
    <2>4. Steady(draft, d)
      BY <2>2, <2>3, RowTypes DEF Steady, Keeps
    <2> QED
      BY <1>2, <2>3, <2>4
  <1>6. CASE \E p \in Proc : Materialize(p)
    <2> DEFINE c == SetStatusIf({"RUNNING_PHASE_3"}, "RUNNING_EXECUTION")
               d == IF draft.materialized THEN draft
                    ELSE [c EXCEPT !.materialized = TRUE]
    <2>1. /\ d.row = draft.row /\ d.version = draft.version
          /\ d.status = "NONE" => draft.status = "NONE"
      BY <1>1 DEF SetStatusIf, SetStatus, Rows
    <2>2. CommitBeside(d)
      BY <1>6 DEF Materialize
    <2> HIDE DEF d
    <2> QED
      BY <1>1, <1>2, <2>1, <2>2, SteadyRows
  <1> QED
    BY <1>3, <1>4, <1>5, <1>6

-----------------------------------------------------------------------------
(* The invariant of the delivery.                                          *)

\* What a write leaves alone, up to now, is as it is committed.
LEMMA ReportAgrees ==
    ASSUME Inv, DeliveryInv, NEW p \in Proc, writer \in {NoProc, p},
           pc[p] # "reported"
    PROVE  draft.version[Report] = db.version[Report]
  <1>1. CASE pc[p] \in Txn
    BY <1>1 DEF DeliveryInv, StartInv
  <1>2. CASE pc[p] \notin Txn
    BY <1>2, Unlocked
  <1> QED
    BY <1>1, <1>2

\* Process p writes t, and goes to w.
LEMMA WriteDelivers ==
    ASSUME Inv, Inv', GateInv, DeliveryInv, NEW p \in Proc, db' = db,
           writer \in {NoProc, p}, writer' = p, UNCHANGED seen,
           NEW w \in Txn, pc' = [pc EXCEPT ![p] = w], pc[p] # "reported",
           NEW t \in Type, Adds(draft, draft', t), t = Report => w = "reported",
           w = "reported" => pc[p] \in Starter,
           w \in {"answered", "logged"} => db.version["APPROVED_ANSWERS"] = 0
    PROVE  DeliveryInv'
  <1>1. InOrder(db') /\ InOrder(draft')
    BY AddsInOrder DEF DeliveryInv, Inv, TypeOK
  <1>2. \A q \in Proc : pc'[q] = IF q = p THEN w ELSE pc[q]
    BY DEF Inv, TypeOK
  <1>3. \A q \in Proc \ {p} : pc'[q] \notin Txn
    BY <1>2 DEF Inv
  <1>4. w # "reported" => draft'.version[Report] = db'.version[Report]
    <2>1. draft.version[Report] = db.version[Report]
      BY ReportAgrees
    <2>2. draft.version \in [Type -> Nat] /\ Report \in Type
      BY RowTypes DEF Inv, TypeOK, Rows
    <2> QED
      BY <2>1, <2>2 DEF Adds
  <1>5. StartInv'
    BY <1>2, <1>3, <1>4 DEF DeliveryInv, StartInv, Starter, Txn
  <1> QED
    BY <1>1, <1>5 DEF DeliveryInv

\* A commit of what was written, by process p or beside all of them.
LEMMA CommitDelivers ==
    ASSUME Inv, Inv', GateInv, DeliveryInv, NEW p \in Proc,
           writer \in {NoProc, p}, writer' = NoProc, db' = draft',
           Steady(draft, db'),
           \A q \in Proc : pc'[q] # pc[q] =>
                pc'[q] \notin Starter \union {"web"} \/ (q = p /\ pc'[q] # "web"),
           pc[p] = "reported" => pc'[p] \notin Starter,
           pc'[p] \in Starter =>
                \/ pc[p] \in Starter
                \/ /\ db'.status # "NONE" /\ db.version[Report] = 0
                   /\ \A q \in Proc : pc[q] \notin Starter,
           \A q \in Proc : pc'[q] = "web" => seen'[q] # "NONE"
    PROVE  DeliveryInv'
  <1>1. InOrder(db') /\ InOrder(draft')
    BY SteadyInOrder DEF DeliveryInv, Inv, TypeOK
  <1>2. \A q \in Proc : pc'[q] \notin Txn
    BY ProcAssumption DEF Inv
  <1>3. draft.status = db.status /\ (db'.status = "NONE" => db.status = "NONE")
    BY Sees DEF Steady
  <1>4. pc[p] # "reported" => db'.version[Report] = db.version[Report]
    BY ReportAgrees DEF Steady
  <1>5. ASSUME NEW q \in Proc, pc'[q] \in Starter
        PROVE  db'.version[Report] = 0 /\ db'.status # "NONE"
    <2>1. CASE pc[q] \in Starter
      <3>1. db.version[Report] = 0 /\ db.status # "NONE"
        BY <2>1 DEF DeliveryInv, StartInv
      <3>2. pc[p] = "reported" => q = p
        BY <2>1 DEF DeliveryInv, StartInv, Starter
      <3> QED
        BY <1>3, <1>4, <1>5, <3>1, <3>2
    <2>2. CASE pc[q] \notin Starter
      <3>1. q = p
        BY <1>5, <2>2
      <3> QED
        BY <1>3, <1>4, <1>5, <2>2, <3>1 DEF Starter
    <2> QED
      BY <2>1, <2>2
  <1>6. \A q, r \in Proc : {pc'[q], pc'[r]} \subseteq Starter => q = r
    BY DEF DeliveryInv, StartInv
  <1>7. StartInv'
    BY <1>2, <1>5, <1>6 DEF StartInv, Txn
  <1> QED
    BY <1>1, <1>7 DEF DeliveryInv

\* A step that writes nothing.
LEMMA ReadDelivers ==
    ASSUME Inv, Inv', DeliveryInv, UNCHANGED db,
           writer' = NoProc \/ UNCHANGED <<draft, writer>>,
           draft' \in {draft, db},
           \A q \in Proc : pc'[q] # pc[q] => pc'[q] \notin Starter \union Txn,
           \A q \in Proc : pc'[q] = "web" => seen'[q] # "NONE"
    PROVE  DeliveryInv'
  <1>1. InOrder(db') /\ InOrder(draft')
    BY DEF DeliveryInv
  <1>2. writer' = NoProc => \A q \in Proc : pc'[q] \notin Txn
    BY ProcAssumption DEF Inv
  <1>3. StartInv'
    BY <1>2 DEF DeliveryInv, StartInv, Txn
  <1> QED
    BY <1>1, <1>3 DEF DeliveryInv


LEMMA WritesDeliver ==
    ASSUME Inv, Inv', GateInv, DeliveryInv, NEW p \in Proc,
           \/ PromoteReport(p) \/ PromoteAnswers(p) \/ PromoteLog(p)
           \/ PromoteSpec(p) \/ Verify(p) \/ PromoteGraph(p)
           \/ ApproveInline(p) \/ ApproveGate2(p)
    PROVE  DeliveryInv'
  <1>1. /\ writer \in {NoProc, p} /\ writer' = p /\ UNCHANGED seen
        /\ pc[p] # "reported" /\ db' = db
    BY DEF PromoteReport, PromoteAnswers, PromoteLog, PromoteSpec, Verify,
           PromoteGraph, ApproveInline, ApproveGate2, Promote, Write, Goto
  <1>2. PICK w \in Txn :
          /\ pc' = [pc EXCEPT ![p] = w]
          /\ w = "reported" <=> PromoteReport(p)
          /\ w = "reported" => pc[p] \in Starter
          /\ w = "answered" => draft.row["gate1_approved_answers"] = "NONE"
          /\ w = "logged" => pc[p] = "answered"
    BY DEF PromoteReport, PromoteAnswers, PromoteLog, PromoteSpec, Verify,
           PromoteGraph, ApproveInline, ApproveGate2, Goto, Txn, Starter, Creatable
  <1>3. PICK t \in Type : Adds(draft, draft', t) /\ (t = Report => PromoteReport(p))
    <2>1. CASE PromoteGraph(p)
      <3>1. "TASK_GRAPH_GENERATED" \in Type /\ "TASK_GRAPH_GENERATED" # Report
        BY Types DEF Report
      <3> QED
        BY <2>1, <3>1, DeliveryGraph
    <2>2. CASE ApproveInline(p) \/ ApproveGate2(p)
      BY <2>2, DeliveryApprove, RowTypes DEF Graph2, Report
    <2>3. CASE PromoteReport(p) \/ PromoteAnswers(p) \/ PromoteLog(p)
                   \/ PromoteSpec(p) \/ Verify(p)
      BY <2>3, DeliveryWrites
    <2> QED
      BY <2>1, <2>2, <2>3
  <1>4. w \in {"answered", "logged"} => db.version["APPROVED_ANSWERS"] = 0
    <2>1. CASE w = "answered"
      <3>1. pc[p] = "gate1"
        BY <1>1, <1>2, <2>1
        DEF PromoteReport, PromoteAnswers, PromoteLog, PromoteSpec, Verify,
            PromoteGraph, ApproveInline, ApproveGate2, Goto, Inv, TypeOK
      <3>2. draft = db
        BY <1>1, <3>1, Unlocked DEF Txn
      <3>3. "APPROVED_ANSWERS" \in DOMAIN RowOf
            /\ RowOf["APPROVED_ANSWERS"] = "gate1_approved_answers"
            /\ "APPROVED_ANSWERS" \in Type
        BY Types DEF RowOf
      <3> QED
        BY <1>2, <2>1, <3>2, <3>3 DEF DeliveryInv, InOrder
    <2>2. CASE w = "logged"
      BY <1>2, <2>2 DEF DeliveryInv, StartInv
    <2> QED
      BY <2>1, <2>2
  <1> QED
    BY <1>1, <1>2, <1>3, <1>4, WriteDelivers

LEMMA CommitsDeliver ==
    ASSUME Inv, Inv', GateInv, DeliveryInv, NEW p \in Proc,
           \/ StartRun(p) \/ StartDebate(p)
           \/ CommitReport(p) \/ CommitGate1(p) \/ PauseAtGate2(p)
           \/ RejectGate2(p) \/ CommitApproved(p) \/ EnterPhase3(p)
           \/ CommitVerification(p) \/ FinalizeGate3(p) \/ ResumeRun(p)
           \/ WebWrites(p)
    PROVE  DeliveryInv'
  <1>1. draft \in Rows /\ pc \in [Proc -> Place]
    BY DEF Inv, TypeOK
  <1>2. CASE StartRun(p)
    <2> DEFINE d == Opened(draft, "RUNNING_PHASE_1A", "generate_questions")
    <2>1. /\ pc[p] = "idle" /\ db.status = "NONE" /\ Commit(p, d)
          /\ Goto(p, "questions")
      BY <1>2 DEF StartRun, Opened
    <2>2. /\ "generate_questions" \in PhaseRow \ {Inline, Resume}
          /\ \A t \in DOMAIN RowOf : RowOf[t] # "generate_questions"
      BY DEF PhaseRow, Inline, Resume, RowOf
    <2>3. Steady(draft, d) /\ d.status # "NONE"
      BY <1>1, <2>2, SteadyOpened
    <2> HIDE DEF d
    <2>4. db.version[Report] = 0 /\ \A q \in Proc : pc[q] \notin Starter
      BY <2>1 DEF DeliveryInv, InOrder, StartInv
    <2>5. \A q \in Proc : pc'[q] = IF q = p THEN "questions" ELSE pc[q]
      BY <1>1, <2>1 DEF Goto
    <2>6. \A q \in Proc : pc'[q] = "web" => seen'[q] # "NONE"
      BY <2>1, <2>5 DEF Goto, DeliveryInv, StartInv
    <2> QED
      BY <2>1, <2>3, <2>4, <2>5, <2>6, CommitDelivers DEF Commit
  <1>3. CASE StartDebate(p)
    <2> DEFINE d == Opened(draft, "RUNNING_PHASE_1B", "run_debate")
    <2>1. /\ pc[p] = "questions" /\ Commit(p, d) /\ Goto(p, "debate")
      BY <1>3 DEF StartDebate, Opened
    <2>2. draft.version[Report] = 0
      <3>1. db.version[Report] = 0
        BY <2>1 DEF DeliveryInv, StartInv, Starter
      <3>2. draft = db
        BY <2>1, Unlocked DEF Commit, Txn
      <3> QED
        BY <3>1, <3>2
    <2>3. /\ "run_debate" \in PhaseRow \ {Inline, Resume}
          /\ \A t \in DOMAIN RowOf : RowOf[t] = "run_debate" => t = Report
      BY DEF PhaseRow, Inline, Resume, RowOf, Report
    <2>4. Steady(draft, d)
      BY <1>1, <2>2, <2>3, SteadyOpened
    <2> HIDE DEF d
    <2>5. \A q \in Proc : pc'[q] = IF q = p THEN "debate" ELSE pc[q]
      BY <1>1, <2>1 DEF Goto
    <2>6. \A q \in Proc : pc'[q] = "web" => seen'[q] # "NONE"
      BY <2>1, <2>5 DEF Goto, DeliveryInv, StartInv
    <2> QED
      BY <2>1, <2>4, <2>5, <2>6, CommitDelivers DEF Commit, Starter
  <1>4. CASE \/ CommitReport(p) \/ CommitGate1(p) \/ PauseAtGate2(p)
             \/ RejectGate2(p) \/ CommitApproved(p) \/ EnterPhase3(p)
             \/ CommitVerification(p) \/ FinalizeGate3(p) \/ ResumeRun(p)
             \/ WebWrites(p)
    <2>1. /\ \E d : Commit(p, d) /\ Steady(draft, d)
          /\ \A q \in Proc : pc'[q] # pc[q] =>
                q = p /\ pc'[p] \in Place \ (Starter \union {"web"})
          /\ \A q \in Proc : pc'[q] = "web" => seen'[q] # "NONE"
      BY <1>4, DeliveryCommits
    <2>2. pc[p] = "reported" => pc'[p] \notin Starter
      BY <1>1, <1>4
      DEF CommitReport, CommitGate1, PauseAtGate2, RejectGate2, CommitApproved,
          EnterPhase3, CommitVerification, FinalizeGate3, ResumeRun, WebWrites,
          Goto, Starter
    <2> QED
      BY <2>1, <2>2, CommitDelivers DEF Commit
  <1> QED
    BY <1>2, <1>3, <1>4

LEMMA BesideDelivers ==
    ASSUME Inv, Inv', GateInv, DeliveryInv, NEW p \in Proc,
           \/ CheckCompletion \/ ResolveEscalation
           \/ \E r \in PhaseRow : WorkerTakes(r)
           \/ \E q \in Proc : Materialize(q)
    PROVE  DeliveryInv'
  <1>1. /\ \E d : CommitBeside(d) /\ Steady(draft, d)
        /\ UNCHANGED seen
        /\ \A q \in Proc : pc'[q] # pc[q] => pc'[q] = "executing"
    BY DeliveryBeside
  <1>2. \A q \in Proc : pc'[q] = "web" => seen'[q] # "NONE"
    BY <1>1 DEF DeliveryInv, StartInv
  <1>3. writer = NoProc /\ \A q \in Proc : pc[q] \notin Txn
    BY <1>1, ProcAssumption DEF CommitBeside, Inv
  <1> QED
    BY <1>1, <1>2, <1>3, CommitDelivers DEF CommitBeside, Starter, Txn

LEMMA ReadsDeliver ==
    ASSUME Inv, Inv', DeliveryInv, NEW p \in Proc,
           \/ OpenGate1(p) \/ ReadPhaseB(p) \/ ReadGate2(p) \/ ExecutionReturns(p)
           \/ AskResume(p) \/ ResumeReturns(p) \/ WebReads(p) \/ Crash(p)
    PROVE  DeliveryInv'
  <1>1. /\ pc \in [Proc -> Place] /\ seen \in [Proc -> Status]
        /\ \A q \in Proc : pc[q] = "web" => seen[q] # "NONE"
    BY DEF Inv, TypeOK, DeliveryInv, StartInv
  <1>2. CASE Crash(p)
    <2>1. /\ db' = db /\ pc' = [pc EXCEPT ![p] = "idle"]
          /\ seen' = [seen EXCEPT ![p] = "NONE"]
          /\ IF writer = p THEN writer' = NoProc /\ draft' = db
                           ELSE UNCHANGED <<draft, writer>>
      BY <1>2 DEF Crash, Rollback
    <2> QED
      BY <1>1, <2>1, ReadDelivers DEF Starter, Txn
  <1>3. CASE WebReads(p)
    <2>1. /\ pc' = [pc EXCEPT ![p] = "web"] /\ UNCHANGED <<db, draft, writer>>
          /\ \E to \in {"ABORTED", "RUNNING_PHASE_3", "RUNNING_EXECUTION",
                        "RUNNING_PHASE_V"} : seen' = [seen EXCEPT ![p] = to]
      BY <1>3 DEF WebReads, Approves
    <2> QED
      BY <1>1, <2>1, ReadDelivers DEF Starter, Txn
  <1>4. CASE \/ OpenGate1(p) \/ ReadPhaseB(p) \/ ReadGate2(p) \/ ExecutionReturns(p)
             \/ AskResume(p) \/ ResumeReturns(p)
    <2>1. /\ UNCHANGED <<db, draft, writer, seen>>
          /\ \E w \in {"gate1", "phase_b", "gate2", "idle", "verify", "resuming"} :
                pc' = [pc EXCEPT ![p] = w]
      BY <1>4 DEF OpenGate1, ReadPhaseB, ReadGate2, ExecutionReturns, AskResume,
                  ResumeReturns, Goto
    <2> QED
      BY <1>1, <2>1, ReadDelivers DEF Starter, Txn
  <1> QED
    BY <1>2, <1>3, <1>4

LEMMA DeliveryInit == Init => DeliveryInv
  <1> SUFFICES ASSUME Init PROVE DeliveryInv
    OBVIOUS
  <1>1. \A t \in Type : db.version[t] = 0
    BY DEF Init, Empty
  <1>2. draft = db
    BY DEF Init
  <1>3. InOrder(db)
    BY <1>1, RowTypes DEF InOrder
  <1>4. StartInv
    BY DEF Init, StartInv, Starter, Txn
  <1> QED
    BY <1>2, <1>3, <1>4 DEF DeliveryInv

LEMMA DeliveryNext == Inv /\ Inv' /\ GateInv /\ DeliveryInv /\ [Next]_vars => DeliveryInv'
  <1> SUFFICES ASSUME Inv, Inv', GateInv, DeliveryInv, [Next]_vars PROVE DeliveryInv'
    OBVIOUS
  <1>1. CASE UNCHANGED vars
    BY <1>1, ReadDelivers DEF vars, DeliveryInv, StartInv
  <1>2. ASSUME NEW p \in Proc, PhaseStep(p) PROVE DeliveryInv'
    BY <1>2, WritesDeliver, CommitsDeliver, ReadsDeliver, BesideDelivers DEF PhaseStep
  <1>3. ASSUME NEW p \in Proc, WebReads(p) \/ WebWrites(p) \/ Crash(p)
        PROVE  DeliveryInv'
    BY <1>3, CommitsDeliver, ReadsDeliver
  <1>4. CASE CheckCompletion \/ ResolveEscalation \/ \E r \in PhaseRow : WorkerTakes(r)
    <2>1. CASE \E p \in Proc : TRUE
      BY <1>4, <2>1, BesideDelivers
    <2>2. CASE Proc = {}
      <3>1. /\ \E d : CommitBeside(d) /\ Steady(draft, d)
        BY <1>4, DeliveryBeside
      <3>2. InOrder(db') /\ InOrder(draft')
        BY <3>1, SteadyInOrder DEF CommitBeside, DeliveryInv, Inv, TypeOK
      <3> QED
        BY <2>2, <3>2 DEF DeliveryInv, StartInv
    <2> QED
      BY <2>1, <2>2
  <1> QED
    BY <1>1, <1>2, <1>3, <1>4 DEF Next

\* Every output appears once, and after the outputs it is derived from
\* (Milestones): the phases implement what a run promises.
THEOREM LifecycleImplementsMilestones == Spec => ImplementsMilestones
  <1>1. Init => Outputs!Init
    BY DEF Init, Empty, Outputs!Init
  <1>2. ASSUME Inv, GateInv, DeliveryInv, DeliveryInv', [Next]_vars
        PROVE  [Outputs!Next]_(db.version)
    <2>1. db'.version \in {db.version, draft.version}
      <3>1. ASSUME NEW p \in Proc, PhaseStep(p) \/ WebReads(p) \/ WebWrites(p) \/ Crash(p)
            PROVE  db'.version \in {db.version, draft.version}
        <4>1. CASE Materialize(p)
          BY <1>2, <4>1, DeliveryBeside DEF CommitBeside, Steady
        <4>2. CASE StartRun(p) \/ StartDebate(p)
          BY <1>2, <4>2 DEF StartRun, StartDebate, Commit, Inv, TypeOK, Rows
        <4>3. CASE \/ CommitReport(p) \/ CommitGate1(p) \/ PauseAtGate2(p)
                   \/ RejectGate2(p) \/ CommitApproved(p) \/ EnterPhase3(p)
                   \/ CommitVerification(p) \/ FinalizeGate3(p) \/ ResumeRun(p)
                   \/ WebWrites(p)
          BY <1>2, <4>3, DeliveryCommits DEF Commit, Steady
        <4>4. CASE UNCHANGED db
          BY <4>4
        <4> QED
          BY <3>1, <4>1, <4>2, <4>3, <4>4
          DEF PhaseStep, PromoteReport, PromoteAnswers, PromoteLog, PromoteSpec,
              Verify, PromoteGraph, ApproveInline, ApproveGate2, Promote, Write,
              OpenGate1, ReadPhaseB, ReadGate2, ExecutionReturns, AskResume,
              ResumeReturns, WebReads, Crash
      <3>2. CASE CheckCompletion \/ ResolveEscalation \/ \E r \in PhaseRow : WorkerTakes(r)
        BY <1>2, <3>2, DeliveryBeside DEF CommitBeside, Steady
      <3> QED
        BY <1>2, <3>1, <3>2 DEF Next, vars
    <2>2. CASE db'.version = db.version
      BY <2>2
    <2>3. CASE db'.version = draft.version /\ db'.version # db.version
      <3> DEFINE T == {t \in Type : db.version[t] # db'.version[t]}
      <3>1. db.version \in [Type -> Nat] /\ db'.version \in [Type -> Nat]
        BY <1>2, <2>3 DEF Inv, TypeOK, Rows
      <3>2. \A t \in Type : db.version[t] \in {0, 1} /\ db'.version[t] \in {0, 1}
        BY <1>2 DEF DeliveryInv, InOrder
      <3>3. \A t \in Type : db.version[t] <= db'.version[t]
        BY <1>2, <2>3 DEF Inv, Grown
      <3>4. T # {}
        BY <2>3, <3>1
      <3>5. \A t \in T : db.version[t] = 0 /\ db'.version[t] = 1
        BY <3>2, <3>3
      <3>6. \A t \in T : \A u \in Requires[t] : db.version[u] = 1 \/ u \in T
        <4>1. \A t \in T : \A u \in Requires[t] : u \in Type /\ db'.version[u] = 1
          BY <1>2, <3>5, RowTypes DEF DeliveryInv, InOrder
        <4> QED
          BY <4>1
      <3>7. db'.version = [t \in Type |-> IF t \in T THEN 1 ELSE db.version[t]]
        BY <3>1, <3>5
      <3>8. T \in SUBSET Type
        OBVIOUS
      <3> HIDE DEF T
      <3>9. Outputs!Publish(T)
        BY <3>4, <3>5, <3>6, <3>7 DEF Outputs!Publish
      <3> QED
        BY <3>8, <3>9 DEF Outputs!Next
    <2> QED
      BY <2>1, <2>2, <2>3
  <1> QED
    BY <1>1, <1>2, Invariance, GateInit, GateNext, DeliveryInit, DeliveryNext, PTL
    DEF Spec, ImplementsMilestones, Outputs!Spec

-----------------------------------------------------------------------------
(* No way back.                                                            *)

\* A step that leaves the status alone, or does not go back in the order of
\* Progress.
Forward(s, t) == s = "ABORTED" \/ t = "ABORTED" \/ Progress(t) >= Progress(s)

LEMMA SameIsForward ==
    ASSUME NEW s \in Status PROVE Forward(s, s)
  BY DEF Forward, Progress

\* What a status cannot be as long as an output is not there.
LEMMA NotYet ==
    ASSUME Inv
    PROVE  /\ db.version[Report] = 0 => db.status \notin AfterDebate
           /\ db.version["APPROVED_ANSWERS"] = 0 => db.status \notin AfterGate1
  <1>1. {"RUNNING_PHASE_3", "PAUSED_AT_GATE_2"} \subseteq AfterDebate \intersect AfterGate1
    BY DEF AfterDebate, AfterGate1, Status, Running, Paused, Terminal
  <1> QED
    BY <1>1 DEF Inv, Coherent, Shown, HasInputs, Has, Report

\* Every commit of a phase goes forward: the unconditional ones are late only
\* as far as the outputs allow.
LEMMA PhasesGoForward ==
    ASSUME Inv, GateInv, DeliveryInv, NEW p \in Proc, PhaseStep(p)
    PROVE  Forward(db.status, db'.status)
  <1>1. /\ draft \in Rows /\ db.status \in Status /\ pc \in [Proc -> Place]
        /\ \A to : SetStatus(to).status = to
        /\ \A from, to : SetStatusIf(from, to).status
                            = IF draft.status \in from THEN to ELSE draft.status
    <2>1. draft \in Rows /\ db \in Rows /\ pc \in [Proc -> Place]
      BY DEF Inv, TypeOK
    <2>2. \A to : SetStatus(to).status = to
      BY <2>1 DEF SetStatus, Rows
    <2>3. db.status \in Status
      BY <2>1 DEF Rows
    <2> QED
      BY <2>1, <2>2, <2>3 DEF SetStatusIf
  <1>2. draft.status = db.status
    BY DEF Inv, TypeOK, GateInv
  <1>3. CASE db'.status = db.status
    BY <1>1, <1>3, SameIsForward
  <1>4. CASE StartRun(p) \/ StartDebate(p)
    <2>1. CASE StartRun(p)
      BY <1>1, <2>1 DEF StartRun, Commit, Forward, Progress, Rows
    <2>2. CASE StartDebate(p)
      <3>1. db.status \notin AfterDebate
        BY <2>2, NotYet DEF StartDebate, DeliveryInv, StartInv, Starter
      <3>2. db'.status = "RUNNING_PHASE_1B"
        BY <1>1, <2>2 DEF StartDebate, Commit, Rows
      <3> QED
        BY <1>1, <3>1, <3>2 DEF Forward, Progress, AfterDebate
    <2> QED
      BY <1>4, <2>1, <2>2
  <1>5. CASE CommitReport(p) \/ CommitGate1(p)
    <2>1. CASE CommitReport(p)
      <3>1. db.status \notin AfterDebate
        BY <2>1, NotYet DEF CommitReport, DeliveryInv, StartInv, Starter
      <3>2. db'.status = "PAUSED_AT_GATE_1"
        BY <1>1, <2>1 DEF CommitReport, Commit
      <3> QED
        BY <1>1, <3>1, <3>2 DEF Forward, Progress, AfterDebate
    <2>2. CASE CommitGate1(p)
      <3>1. db.status \notin AfterGate1
        BY <2>2, NotYet DEF CommitGate1, DeliveryInv, StartInv
      <3>2. db'.status = "RUNNING_PHASE_1D"
        BY <1>1, <2>2 DEF CommitGate1, Commit
      <3> QED
        BY <1>1, <3>1, <3>2 DEF Forward, Progress, AfterDebate, AfterGate1
    <2> QED
      BY <1>5, <2>1, <2>2
  <1>6. CASE PauseAtGate2(p) \/ RejectGate2(p) \/ EnterPhase3(p)
    <2>1. \/ db'.status = db.status
          \/ db'.status = "ABORTED"
          \/ db.status = "RUNNING_PHASE_1D" /\ db'.status = "PAUSED_AT_GATE_2"
          \/ db.status \in {"RUNNING_PHASE_1D", "PAUSED_AT_GATE_2"}
             /\ db'.status = "RUNNING_PHASE_3"
      BY <1>1, <1>2, <1>6 DEF PauseAtGate2, RejectGate2, EnterPhase3, Commit
    <2> QED
      BY <1>3, <2>1 DEF Forward, Progress
  <1>7. CASE CommitApproved(p) \/ ResumeRun(p)
    BY <1>1, <1>2, <1>3, <1>7 DEF CommitApproved, ResumeRun, Commit, Rows
  <1>8. CASE Materialize(p)
    <2>1. \/ db'.status = db.status
          \/ db.status = "RUNNING_PHASE_3" /\ db'.status = "RUNNING_EXECUTION"
      <3> DEFINE c == SetStatusIf({"RUNNING_PHASE_3"}, "RUNNING_EXECUTION")
      <3>1. [c EXCEPT !.materialized = TRUE].status = c.status
        BY <1>1 DEF SetStatusIf, SetStatus, Rows
      <3> QED
        BY <1>1, <1>2, <1>8, <3>1 DEF Materialize, CommitBeside
    <2> QED
      BY <1>3, <2>1 DEF Forward, Progress
  <1>9. CASE CommitVerification(p) \/ FinalizeGate3(p)
    <2>1. db'.status \in {"PAUSED_AT_GATE_3", "ABORTED", "COMPLETED",
                          "RUNNING_PHASE_V", "PAUSED_AT_GATE_3B"}
      BY <1>1, <1>9 DEF CommitVerification, FinalizeGate3, Commit
    <2> QED
      BY <1>1, <2>1 DEF Forward, Progress
  <1>10. CASE UNCHANGED db
    BY <1>3, <1>10
  <1> QED
    BY <1>4, <1>5, <1>6, <1>7, <1>8, <1>9, <1>10
    DEF PhaseStep, PromoteReport, PromoteAnswers, PromoteLog, PromoteSpec,
        Verify, PromoteGraph, ApproveInline, ApproveGate2, Promote, Write,
        OpenGate1, ReadPhaseB, ReadGate2, ExecutionReturns, AskResume,
        ResumeReturns

\* So does the engine.
LEMMA EngineGoesForward ==
    ASSUME Inv, GateInv, DeliveryInv,
           CheckCompletion \/ ResolveEscalation \/ \E r \in PhaseRow : WorkerTakes(r)
    PROVE  Forward(db.status, db'.status)
  <1>1. draft \in Rows /\ db.status \in Status /\ draft.status = db.status
    BY DEF Inv, TypeOK, GateInv, Rows
  <1>2. \A to : SetStatus(to).status = to /\ [SetStatus(to) EXCEPT
                !.row = SetRows({"RUNNING", "PENDING"}, "ABORTED")].status = to
    BY <1>1 DEF SetStatus, Rows
  <1>3. \/ db'.status = db.status
        \/ db'.status = "FAILED"
        \/ db.status = "RUNNING_EXECUTION"
           /\ db'.status \in {"COMPLETED", "PAUSED_FOR_DECISION"}
        \/ db.status = "PAUSED_FOR_DECISION" /\ db'.status = "RUNNING_EXECUTION"
    <2>1. CASE CheckCompletion
      BY <1>2, <2>1 DEF CheckCompletion, CommitBeside
    <2>2. CASE ResolveEscalation
      BY <1>2, <2>2 DEF ResolveEscalation, CommitBeside
    <2>3. CASE \E r \in PhaseRow : WorkerTakes(r)
      BY <1>1, <2>3 DEF WorkerTakes, CommitBeside, Rows
    <2> QED
      BY <2>1, <2>2, <2>3
  <1> QED
    BY <1>1, <1>3, SameIsForward DEF Forward, Progress

\* The pipelines never take a run back to an earlier phase, late as their
\* unconditional writes may come.
THEOREM PhasesNeverGoBack == Spec => NoWayBack
  <1>1. ASSUME Inv, GateInv, DeliveryInv, [Next]_vars
        PROVE  [\/ \E p \in Proc : WebWrites(p)
                \/ "ABORTED" \in {db.status, db'.status}
                \/ Progress(db'.status) >= Progress(db.status)]_vars
    <2>1. ASSUME NEW p \in Proc, PhaseStep(p) PROVE Forward(db.status, db'.status)
      BY <1>1, <2>1, PhasesGoForward
    <2>2. CASE CheckCompletion \/ ResolveEscalation \/ \E r \in PhaseRow : WorkerTakes(r)
      BY <1>1, <2>2, EngineGoesForward DEF Forward
    <2>3. ASSUME NEW p \in Proc, WebReads(p) \/ Crash(p)
          PROVE  Forward(db.status, db'.status)
      BY <1>1, <2>3, SameIsForward DEF WebReads, Crash, Inv, TypeOK, Rows
    <2> QED
      BY <1>1, <2>1, <2>2, <2>3 DEF Next, Forward
  <1> QED
    BY <1>1, Invariance, GateInit, GateNext, DeliveryInit, DeliveryNext, PTL
    DEF Spec, NoWayBack

=============================================================================
