----------------------------- MODULE Gate1Review -----------------------------
(***************************************************************************)
(* The review of a run's debate at Gate 1.  What people decide question by *)
(* question is kept in one column of the run's row, which the web UI's     *)
(* threads and the chat's daemon read, change and write back; then one of  *)
(* them, the review skill or the command line makes the approved answers   *)
(* of it, in one transaction of the database and two renames outside of    *)
(* it.  Promotion has the steps of a rename; RunLifecycle the phases       *)
(* before and after.                                                       *)
(***************************************************************************)
EXTENDS Naturals

CONSTANTS
    Question,  \* questions of the debate report
    Forced,    \* those the debate left to people (forced, parse_failed)
    Suffixed,  \* those whose id has lower case letters, as "-r1"
    Choice,    \* what one may decide: agent_a, agent_b, moderator, a text
    Tab,       \* browser tabs: requests to the web UI, a thread for each
    Chat, Skill, Cli,  \* the chat's daemon, the two commands that finalize
    MaxAct,    \* bound: requests and messages
    MaxFault   \* bound: crashes, finalizations by Cli

ASSUME GateAssumption ==
    /\ Question # {} /\ "none" \notin Choice /\ "moderator_summary" \notin Choice
    /\ Forced \subseteq Question /\ Suffixed \subseteq Question
    /\ Chat # Skill /\ Chat # Cli /\ Skill # Cli
    /\ {Chat, Skill, Cli} \intersect Tab = {}
    /\ "none" \notin Tab \union {Chat, Skill, Cli}
    /\ MaxAct \in Nat /\ MaxFault \in Nat

Actor   == Tab \union {Chat, Skill, Cli}
Field   == {"scope_in", "compliance"}   \* one that may be edited, one not
None    == "none"
Default == "moderator_summary"

VARIABLES
    session,  \* runs.gate1_session_state
    status,   \* runs.status
    answers,  \* APPROVED_ANSWERS and DECISION_LOG, as committed
    dir,      \* is there a directory v1 of them?
    writer,   \* who is in a transaction that has written
    pc, mem,  \* where each actor is, and the state it has in memory
    page,     \* what the radio buttons of each tab's form were set to
    phaseB,   \* Phase B processes the chat has spawned
    acts, faults,  \* the counters of the bounds
    chosen,   \* history: what people chose
    agreed,   \* history: questions whose default somebody agreed to
    waved     \* history: has anybody approved all of it, looked at or not?

vars == <<session, status, answers, dir, writer, pc, mem, page, phaseB, acts,
          faults, chosen, agreed, waved>>

\* GateSessionState.
Resolved == [Question -> Choice \union {None}]
State == [resolved : Resolved, all : BOOLEAN, edits : SUBSET Field]
Nothing == [q \in Question |-> None]
Empty == [resolved |-> Nothing, all |-> FALSE, edits |-> {}]
Step  == {"idle", "save", "save and approve", "begin", "promote", "commit",
          "spawn"}

Approved == answers # Nothing

TypeOK ==
    /\ session \in State
    /\ status \in {"PAUSED_AT_GATE_1", "RUNNING_PHASE_1D", "ABORTED"}
    /\ answers \in [Question -> Choice \union {Default}] \/ ~Approved
    /\ dir \in BOOLEAN
    /\ writer \in {None} \union Actor
    /\ pc \in [Actor -> Step] /\ mem \in [Actor -> State]
    /\ page \in [Tab -> Resolved]
    /\ \A a \in Actor : pc[a] \in {"promote", "commit"} <=> writer = a
    /\ phaseB \in 0..MaxAct
    /\ acts \in 0..MaxAct /\ faults \in 0..MaxFault
    /\ chosen \subseteq Question \X Choice /\ agreed \subseteq Question
    /\ waved \in BOOLEAN
    /\ session.edits \subseteq {"scope_in"}

Init ==
    /\ session = Empty /\ status = "PAUSED_AT_GATE_1"
    /\ answers = Nothing /\ dir = FALSE /\ writer = None
    /\ pc = [a \in Actor |-> "idle"] /\ mem = [a \in Actor |-> Empty]
    /\ page = [w \in Tab |-> Nothing]
    /\ phaseB = 0 /\ acts = 0 /\ faults = 0
    /\ chosen = {} /\ agreed = {} /\ waved = FALSE

-----------------------------------------------------------------------------
(* Helpers.                                                                *)

\* record_choice for every question of the form that has one.
Record(s, picks) ==
    [s EXCEPT !.resolved = [q \in Question |->
        IF picks[q] = None THEN s.resolved[q] ELSE picks[q]]]

\* apply_edit: some fields are refused.
Edit(s, fields) == [s EXCEPT !.edits = @ \union (fields \ {"compliance"})]

IsResolved(s, q) == s.resolved[q] # None \/ s.all

Unresolved(s) == {q \in Question : ~IsResolved(s, q)}

\* What a decision is made of: the choice, else the moderator's summary.
AnswerOf(s, q) == IF s.resolved[q] = None THEN Default ELSE s.resolved[q]

Goto(a, step) == pc' = [pc EXCEPT ![a] = step]
Continue(a, step) == Goto(a, step) /\ UNCHANGED mem
Leave(a) == Goto(a, "idle") /\ mem' = [mem EXCEPT ![a] = Empty]

Acts(a) == pc[a] = "idle" /\ acts < MaxAct /\ acts' = acts + 1

Chooses(picks) ==
    chosen' = chosen \union
              {<<q, picks[q]>> : q \in {x \in Question : picks[x] # None}}

Shared == <<session, status, answers, dir, writer, phaseB>>

-----------------------------------------------------------------------------
(* The web UI.                                                             *)

\* _gate1_review_page: a form with the buttons set as the session has them.
OpenPage(w) ==
    /\ pc[w] = "idle" /\ status = "PAUSED_AT_GATE_1"
    /\ page' = [page EXCEPT ![w] = session.resolved]
    /\ UNCHANGED <<Shared, pc, mem, acts, faults, chosen, agreed, waved>>

\* The first half of _do_gate1_save and _do_gate1_approve: load the state and
\* put the WHOLE form into it, buttons nobody touched included.  Neither looks
\* at the run's status.
Post(w) ==
    /\ Acts(w)
    /\ \E q \in Question, c \in Choice \union {None}, all \in BOOLEAN,
          fields \in {{}, Field}, goal \in {"save", "save and approve"} :
        LET form == IF c = None THEN page[w] ELSE [page[w] EXCEPT ![q] = c]
            s    == Edit(Record(session, form), fields)
        IN
            /\ c = None \/ ~all   \* bound: one thing at a time is new
            /\ fields = {} \/ (c = None /\ ~all)
            /\ mem' = [mem EXCEPT ![w] = [s EXCEPT !.all = @ \/ all]]
            /\ page' = [page EXCEPT ![w] = form]
            /\ chosen' = IF c = None THEN chosen ELSE chosen \union {<<q, c>>}
            /\ agreed' = IF all THEN Question ELSE agreed
            /\ waved' = (waved \/ all)
            /\ Goto(w, goal)
    /\ UNCHANGED <<Shared, faults>>

-----------------------------------------------------------------------------
(* The chat: dev_answer_gate at Gate 1.                                    *)

AtGate(a) == Acts(a) /\ status = "PAUSED_AT_GATE_1"

\* The parser makes upper case of the id, which finds no question then.
ChatAnswer(q, c) ==
    /\ AtGate(Chat)
    /\ LET picks == [x \in Question |-> IF x = q /\ q \notin Suffixed
                                        THEN c ELSE None]
       IN  mem' = [mem EXCEPT ![Chat] = Record(session, picks)]
    /\ chosen' = chosen \union {<<q, c>>}
    /\ Goto(Chat, "save")
    /\ UNCHANGED <<Shared, page, faults, agreed, waved>>

\* "approve all" is parsed without the counts of what is pending, so that the
\* parser's guard never refuses it.
ChatApproveAll ==
    /\ AtGate(Chat)
    /\ mem' = [mem EXCEPT ![Chat] = [session EXCEPT !.all = TRUE]]
    /\ agreed' = Question /\ waved' = TRUE
    /\ Goto(Chat, "save and approve")
    /\ UNCHANGED <<Shared, page, faults, chosen>>

\* Seeded fault: "confirm" does not look for what is unresolved.
ConfirmBlindly ==
    /\ AtGate(Chat)
    /\ mem' = [mem EXCEPT ![Chat] = session]
    /\ Goto(Chat, "begin")
    /\ UNCHANGED <<Shared, page, faults, chosen, agreed, waved>>

ChatConfirm ==
    /\ AtGate(Chat)
    /\ Unresolved(session) = {}
    /\ mem' = [mem EXCEPT ![Chat] = session]
    /\ Goto(Chat, "begin")
    /\ UNCHANGED <<Shared, page, faults, chosen, agreed, waved>>

-----------------------------------------------------------------------------
(* The skill has its own list of decisions and passes it on.               *)

\* The sections it shows: what the debate left open has to be answered.
Pending(d) == {q \in Forced : d[q] = None}

\* Its instructions: nothing is pending, and the rest was shown.
Confirm(a, d) ==
    /\ Acts(a)
    /\ Pending(d) = {}
    /\ mem' = [mem EXCEPT ![a] = Record(Empty, d)]
    /\ Chooses(d)
    /\ agreed' = agreed \union {q \in Question : d[q] = None}
    /\ Goto(a, "begin")
    /\ UNCHANGED <<Shared, page, waved>>

\* gate1_review/__main__.py, cmd_finalize.
SkillConfirm(d) == Confirm(Skill, d) /\ UNCHANGED faults

\* ai-dev gate review-debate --cmd finalize; counted with the faults.
CliConfirm(d) ==
    /\ faults < MaxFault /\ faults' = faults + 1
    /\ Confirm(Cli, d)

-----------------------------------------------------------------------------
(* The database.                                                           *)

\* save_state.  To approve, the web UI then looks at what IT has in memory.
SaveState(a) ==
    /\ pc[a] \in {"save", "save and approve"} /\ writer = None
    /\ session' = mem[a]
    /\ IF pc[a] = "save and approve" /\ Unresolved(mem[a]) = {}
         THEN Continue(a, "begin") ELSE Leave(a)
    /\ UNCHANGED <<status, answers, dir, writer, page, phaseB, acts,
                   faults, chosen, agreed, waved>>

\* Seeded fault: a second attempt number, which the index admits.
BeginAgain(a) ==
    /\ pc[a] = "begin" /\ writer = None
    /\ Continue(a, "promote") /\ writer' = a
    /\ UNCHANGED <<session, status, answers, dir, page, phaseB, acts,
                   faults, chosen, agreed, waved>>

\* finalize_gate1 opens its transaction with create_sync's INSERT, of which
\* the index on task and attempt admits one.
Begin(a) ==
    /\ pc[a] = "begin" /\ writer = None
    /\ IF ~Approved
         THEN Continue(a, "promote") /\ writer' = a
         ELSE Leave(a) /\ UNCHANGED writer
    /\ UNCHANGED <<session, status, answers, dir, page, phaseB, acts,
                   faults, chosen, agreed, waved>>

\* Seeded fault: a promotion that fails leaves the transaction open.
PromoteAndForget(a) ==
    /\ pc[a] = "promote"
    /\ IF dir /\ ~Approved
         THEN Leave(a) /\ UNCHANGED <<writer, dir>>
         ELSE Continue(a, "commit") /\ dir' = TRUE /\ UNCHANGED writer
    /\ UNCHANGED <<session, status, answers, page, phaseB, acts, faults,
                   chosen, agreed, waved>>

\* Seeded fault: update_status commits, before the outputs are there.
PromoteAndSetStatus(a) ==
    /\ pc[a] = "promote"
    /\ status' = "RUNNING_PHASE_1D"
    /\ IF dir /\ ~Approved
         THEN Leave(a) /\ writer' = None /\ UNCHANGED dir
         ELSE Continue(a, "commit") /\ dir' = TRUE /\ UNCHANGED writer
    /\ UNCHANGED <<session, answers, page, phaseB, acts, faults, chosen, agreed,
                   waved>>

\* promote_output, twice: version 1 again as long as nothing is committed, so
\* that what an earlier transaction has left is in the way.
PromoteOutputs(a) ==
    /\ pc[a] = "promote"
    /\ IF dir /\ ~Approved
         THEN Leave(a) /\ writer' = None /\ UNCHANGED dir
         ELSE Continue(a, "commit") /\ dir' = TRUE /\ UNCHANGED writer
    /\ UNCHANGED <<session, status, answers, page, phaseB, acts, faults,
                   chosen, agreed, waved>>

\* Seeded fault: the web UI does not commit either.
CommitInChat(a) ==
    /\ pc[a] = "commit"
    /\ IF a # Chat
         THEN UNCHANGED <<answers, status, session>>
         ELSE /\ answers' = [q \in Question |-> AnswerOf(mem[a], q)]
              /\ status' = "RUNNING_PHASE_1D"
              /\ session' = Empty
    /\ writer' = None
    /\ IF a = Chat THEN Continue(a, "spawn") ELSE Leave(a)
    /\ UNCHANGED <<dir, page, phaseB, acts, faults, chosen, agreed, waved>>

\* update_status, then clear_state, whose commit is the only one.  Cli does
\* not call it: it says "ok" and closes the connection.
Commit(a) ==
    /\ pc[a] = "commit"
    /\ IF a = Cli
         THEN UNCHANGED <<answers, status, session>>
         ELSE /\ answers' = [q \in Question |-> AnswerOf(mem[a], q)]
              /\ status' = "RUNNING_PHASE_1D"
              /\ session' = Empty
    /\ writer' = None
    /\ IF a = Chat THEN Continue(a, "spawn") ELSE Leave(a)
    /\ UNCHANGED <<dir, page, phaseB, acts, faults, chosen, agreed, waved>>

\* The chat starts Phase B; on the web it is up to a button.
SpawnPhaseB ==
    /\ pc[Chat] = "spawn"
    /\ phaseB' = phaseB + 1
    /\ Leave(Chat)
    /\ UNCHANGED <<session, status, answers, dir, writer, page, acts, faults,
                   chosen, agreed, waved>>

\* _abort_run, while the run is on its way to Gate 2.
AbortRun ==
    /\ status = "RUNNING_PHASE_1D"
    /\ status' = "ABORTED"
    /\ UNCHANGED <<session, answers, dir, writer, pc, mem, page, phaseB, acts,
                   faults, chosen, agreed, waved>>

\* A process dies, the web UI with all its threads; a transaction is rolled
\* back, a rename is not.
Crash(P) ==
    /\ faults < MaxFault /\ faults' = faults + 1
    /\ \E a \in P : pc[a] # "idle"
    /\ pc' = [a \in Actor |-> IF a \in P THEN "idle" ELSE pc[a]]
    /\ mem' = [a \in Actor |-> IF a \in P THEN Empty ELSE mem[a]]
    /\ writer' = IF writer \in P THEN None ELSE writer
    /\ \/ UNCHANGED dir
       \/ writer \in P /\ pc[writer] = "promote" /\ dir' = TRUE
    /\ UNCHANGED <<session, status, answers, page, phaseB, acts, chosen, agreed,
                   waved>>

-----------------------------------------------------------------------------
Works(a) == SaveState(a) \/ Begin(a) \/ PromoteOutputs(a) \/ Commit(a)

Next ==
    \/ \E w \in Tab : OpenPage(w) \/ Post(w)
    \/ \E q \in Question, c \in Choice : ChatAnswer(q, c)
    \/ ChatApproveAll \/ ChatConfirm
    \/ \E d \in Resolved : SkillConfirm(d) \/ CliConfirm(d)
    \/ \E a \in Actor : Works(a)
    \/ SpawnPhaseB \/ AbortRun
    \/ \E P \in {Tab, {Chat}, {Skill}, {Cli}} : Crash(P)

Spec == Init /\ [][Next]_vars

\* A thread, or a process, that is not killed goes on; those that wait for the
\* database have their turn, for a transaction here is short of the timeout.
FairSpec == Spec /\ \A a \in Actor : WF_vars(Works(a))

-----------------------------------------------------------------------------
(* Properties.                                                             *)

\* Gate 1 (webui.py, dev_pipeline.py, gate1_bridge.py): every approved answer
\* is somebody's choice for that question, or the default and somebody agreed
\* to it, whichever of the pages, sessions and commands it came through.  That
\* a question the debate left to people has the default takes an "approve all",
\* which is to be refused then (docs/workflow-v2.md:324, parser.py:13) and is
\* not (dev_pipeline.py:557-561; README, section 4); nothing else does it.
AnswersAreChosen ==
    Approved =>
        \A q \in Question : IF answers[q] = Default
                            THEN q \in agreed /\ (q \in Forced => waved)
                            ELSE <<q, answers[q]>> \in chosen

\* finalize_gate1 does not look at the status: still, answers once approved
\* are never replaced, a run that went on or was aborted meanwhile is not
\* brought back, and one Phase B is started for them at most.
SettledOnce ==
    [][Approved => /\ answers' = answers
                         /\ status' # status => status' = "ABORTED"
                         /\ phaseB' <= 1]_vars

\* Once somebody has asked for the gate to be finalized, with everything
\* resolved, the answers are on record, unless something crashed or
\* `ai-dev gate review-debate` got in the way.
ConfirmedIsApproved ==
    \A a \in Actor : pc[a] = "begin" ~> (Approved \/ faults > 0)

\* All of it, for who reads the run but none of the sessions: people speak,
\* what they said is recorded once, and Phase B starts on the record once.
Gate == INSTANCE ReviewRecord WITH
    said   <- chosen,
    record <- answers,
    stage  <- CASE status = "PAUSED_AT_GATE_1" -> "open"
                [] status = "RUNNING_PHASE_1D" -> "settled"
                [] status = "ABORTED"          -> "ended",
    handed <- phaseB,
    Blank  <- None
ImplementsRecord == Gate!Spec
=============================================================================
