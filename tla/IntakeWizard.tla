---------------------------- MODULE IntakeWizard ----------------------------
(***************************************************************************)
(* The intake wizard (intake/): a person answers the fields of a template, *)
(* may go back, skip, edit, ask for a suggestion, save and resume; gaps    *)
(* found at the end are asked again; the confirmed brief is promoted.      *)
(* engine.step is pure, the runner checkpoints its state to runs after     *)
(* every input, and the process can die at any time.  `ai-dev intake       *)
(* abort` works on the same row from another process.                      *)
(***************************************************************************)
EXTENDS Naturals, Sequences, FiniteSets

CONSTANTS
    N,            \* fields of the template, in its order
    Critical,     \* fields with critical: true
    Suggestable,  \* fields with ai_can_suggest: true
    MaxExtra      \* bound: gaps of the consistency and ambiguity rules

ASSUME TemplateAssumption ==
    /\ N \in Nat \ {0}
    /\ Critical \subseteq 1 .. N /\ Suggestable \subseteq 1 .. N
ASSUME BoundAssumption == MaxExtra \in Nat

Field == 1 .. N
Blank == "none"
Source == {"user", "ai_suggested_confirmed", "skipped", "context_loaded"}
Form == [Field -> Source \union {Blank}]
Empty == [f \in Field |-> Blank]

\* A gap is the field it asks about, or a warning that asks for none.
Warning == 0
GapTarget == Field \union {Warning}

Stage == {"ASKING", "SUGGESTING", "FOLLOWUP", "CONFIRM", "DONE", "PAUSED"}

\* IntakeState.  field_idx and followup_idx count from 1; field_idx N + 1 is
\* past the last field.  pending is the field of pending_suggestion, or
\* Warning; proposed says whether the suggestion has a value.
NewState(prefilled) ==
    [stage |-> "ASKING", field_idx |-> 1,
     answers |-> [f \in Field |-> IF f \in prefilled THEN "context_loaded" ELSE Blank],
     gaps |-> <<>>, followup_idx |-> 1,
     pending |-> Warning, proposed |-> FALSE, return_stage |-> "ASKING"]

\* NULL in the column, or no wizard running.
NoState == [NewState({}) EXCEPT !.stage = "NONE"]

VARIABLES
    status,  \* runs.status; "NONE": no run
    saved,   \* runs.intake_state
    brief,   \* the promoted INTAKE_BRIEF; Empty: none
    pc,      \* the wizard's process
    st,      \* its IntakeState
    txn,     \* it has written rows it has not committed
    abort    \* `intake abort`: "idle", or "read" between SELECT and UPDATE

db == <<status, saved, brief>>
vars == <<db, pc, st, txn, abort>>

Init ==
    /\ status = "NONE" /\ saved = NoState /\ brief = Empty
    /\ pc = "off" /\ st = NoState /\ txn = FALSE
    /\ abort = "idle"

-----------------------------------------------------------------------------
(* The helpers of engine.py, on a state s.                                 *)

EnterConfirm(s) == [s EXCEPT !.stage = "CONFIRM"]

\* Seeded fault: the last field is taken for the end.
LastField(i) == i >= N

Past(i) == i > N

NextOrConfirm(s) == IF Past(s.field_idx) THEN EnterConfirm(s) ELSE s

FollowupStep(s) == IF s.followup_idx > Len(s.gaps) THEN EnterConfirm(s) ELSE s

Answered(s, f, source) == [s EXCEPT !.answers[f] = source]
NextField(s) == NextOrConfirm([s EXCEPT !.field_idx = @ + 1])
NextGap(s) == FollowupStep([s EXCEPT !.followup_idx = @ + 1])

ClearPending(s) == [s EXCEPT !.pending = Warning, !.proposed = FALSE]

\* _resolve_suggesting_return.
ResolveReturn(s) ==
    LET back == [ClearPending(s) EXCEPT !.stage = s.return_stage, !.return_stage = "ASKING"]
    IN  IF s.return_stage = "FOLLOWUP" THEN NextGap(back) ELSE NextField(back)

\* _call_suggest_and_render when the LLM answers.
Suggested(s, f, has_value, return_stage) ==
    [s EXCEPT !.stage = "SUGGESTING", !.pending = f, !.proposed = has_value,
              !.return_stage = return_stage]

\* _record_remaining_as_assumptions.
RecordRemaining(s) ==
    LET rest == {s.gaps[i] : i \in s.followup_idx .. Len(s.gaps)}
    IN  [s EXCEPT !.answers = [f \in Field |->
                      IF f \in rest /\ s.answers[f] = Blank THEN "skipped" ELSE s.answers[f]],
                  !.followup_idx = Len(s.gaps) + 1]

\* There is nothing left to ask, or to ask again.
Exhausted(s) ==
    \/ s.stage = "ASKING" /\ Past(s.field_idx)
    \/ s.stage = "FOLLOWUP" /\ s.followup_idx > Len(s.gaps)

\* The field whose question or suggestion the person has in front of them.
Shown(s) ==
    CASE s.stage = "ASKING" /\ ~Exhausted(s) -> s.field_idx
      [] s.stage = "SUGGESTING" -> s.pending
      [] s.stage = "FOLLOWUP" /\ ~Exhausted(s) -> s.gaps[s.followup_idx]
      [] OTHER -> Warning

\* detect_gaps: critical blanks in the template's order, then the hits of the
\* consistency rules and of the ambiguity score, whatever they are.
InOrder(fields) ==
    {g \in [1 .. Cardinality(fields) -> fields] : \A i, j \in DOMAIN g : i < j => g[i] < g[j]}
RuleHits == UNION {[1 .. n -> GapTarget] : n \in 0 .. MaxExtra}
Gaps(answers) ==
    LET blank == {f \in Critical : answers[f] \in {Blank, "skipped"}}
    IN  {g \o hits : g \in InOrder(blank), hits \in RuleHits}

EnterFollowup(s, gaps) ==
    [s EXCEPT !.stage = "FOLLOWUP", !.gaps = gaps, !.followup_idx = 1]

\* _maybe_intercept_for_followup: gaps are looked for once.
Intercept(s) ==
    IF s.stage # "CONFIRM" \/ s.gaps # <<>> THEN {s}
    ELSE {IF gaps = <<>> THEN s ELSE EnterFollowup(s, gaps) : gaps \in Gaps(s.answers)}

-----------------------------------------------------------------------------
(* One turn of run_intake: an input, step, save_state, Intercept, commit.  *)

\* Seeded fault: the state is saved before step has changed it.
SavedBefore(s) == st

ToSave(s) == s

Save(s) ==
    /\ saved' = ToSave(s)
    /\ txn' = FALSE
    /\ UNCHANGED <<status, brief, abort>>

\* What Intercept changes is saved with the next input only.
Go(s) == Save(s) /\ st' \in Intercept(s) /\ UNCHANGED pc

Exit == pc' = "off" /\ st' = NoState

At(stage) == pc = "prompt" /\ st.stage = stage

\* With nothing left to ask, any input leads to the confirmation.
AnyInput == pc = "prompt" /\ Exhausted(st) /\ Go(EnterConfirm(st))

\* Commands and answers that are refused, show, and an LLM that fails.
Reprompt == pc = "prompt" /\ ~Exhausted(st) /\ Go(st)

\* `save` at a question.  (At a suggestion it is taken for an answer, at the
\* confirmation it is refused.)
Pause ==
    /\ At("ASKING") \/ At("FOLLOWUP")
    /\ ~Exhausted(st)
    /\ Save([st EXCEPT !.stage = "PAUSED"])
    /\ Exit

\* ASKING.
Asking == At("ASKING") /\ ~Exhausted(st)

Answer(source) ==
    /\ Asking /\ source \in {"user", "skipped"}
    /\ Go(NextField(Answered(st, st.field_idx, source)))

AcceptContext ==
    /\ Asking /\ st.answers[st.field_idx] = "context_loaded"
    /\ Go(NextField(st))

\* Seeded fault: one can go back from the first field.
AlwaysBefore(i) == TRUE

HasBefore(i) == i > 1

Back ==
    /\ Asking /\ HasBefore(st.field_idx)
    /\ Go([st EXCEPT !.field_idx = @ - 1])

AskSuggestion(has_value) ==
    /\ Asking /\ st.field_idx \in Suggestable
    /\ Go(Suggested(st, st.field_idx, has_value, "ASKING"))

\* SUGGESTING.
AcceptSuggestion ==
    /\ At("SUGGESTING") /\ st.proposed
    /\ Go(ResolveReturn(Answered(st, st.field_idx, "ai_suggested_confirmed")))

Replace(source) ==
    /\ At("SUGGESTING") /\ source \in {"user", "skipped"}
    /\ Go(ResolveReturn(Answered(st, st.field_idx, source)))

CancelSuggestion ==
    /\ At("SUGGESTING")
    /\ LET back == [ClearPending(st) EXCEPT !.stage = st.return_stage, !.return_stage = "ASKING"]
       IN  Go(IF st.return_stage = "FOLLOWUP" THEN FollowupStep(back) ELSE back)

\* The stage to return to is not passed on.
Regenerate(has_value) ==
    At("SUGGESTING") /\ Go(Suggested(st, st.field_idx, has_value, "ASKING"))

\* FOLLOWUP.
Asked == st.gaps[st.followup_idx]
InFollowup == At("FOLLOWUP") /\ ~Exhausted(st)

AnswerGap(source) ==
    /\ InFollowup /\ Asked # Warning /\ source \in {"user", "skipped"}
    /\ Go(NextGap(Answered(st, Asked, source)))

\* `continue` or `skip`.
PassWarning == InFollowup /\ Asked = Warning /\ Go(NextGap(st))

Enough == InFollowup /\ Go(EnterConfirm(RecordRemaining(st)))

BackGap ==
    /\ InFollowup /\ HasBefore(st.followup_idx)
    /\ Go([st EXCEPT !.followup_idx = @ - 1])

EditFromGap(f) ==
    /\ InFollowup
    /\ Go([st EXCEPT !.stage = "ASKING", !.field_idx = f, !.followup_idx = @ + 1])

\* Seeded fault: the index is off by one.
PivotBefore(s, f) == [s EXCEPT !.field_idx = f - 1]

\* The suggestion's handlers look at field_idx.
Pivot(s, f) == [s EXCEPT !.field_idx = f]

SuggestForGap(has_value) ==
    /\ InFollowup /\ Asked \in Suggestable
    /\ \/ Go(Suggested(Pivot(st, Asked), Asked, has_value, "FOLLOWUP"))
       \/ Go(Pivot(st, Asked))  \* the LLM failed

\* CONFIRM.
EditFromConfirm(f) == At("CONFIRM") /\ Go([st EXCEPT !.stage = "ASKING", !.field_idx = f])

Confirm ==
    /\ At("CONFIRM")
    /\ LET done == [st EXCEPT !.stage = "DONE"]
       IN  Save(done) /\ st' = done
    /\ pc' = "promote"

-----------------------------------------------------------------------------
(* The process: run_intake before and after its loop.                      *)

\* _ensure_run, and its commit.
Start(prefilled) ==
    /\ pc = "off" /\ status = "NONE"
    /\ status' = "COLLECTING_INTAKE"
    /\ pc' = "created"
    /\ st' = NewState(prefilled)
    /\ UNCHANGED <<saved, brief, txn, abort>>

FirstSave ==
    /\ pc = "created"
    /\ Save(st)
    /\ pc' = "prompt"
    /\ UNCHANGED st

\* A saved wizard goes on in ASKING, whatever it was paused in.
Loaded(s) == IF s.stage = "PAUSED" THEN [s EXCEPT !.stage = "ASKING"] ELSE s

\* `ai-dev intake resume`.  The events it writes stay uncommitted while the
\* person reads the first prompt.
Resume ==
    /\ pc = "off" /\ status = "COLLECTING_INTAKE" /\ saved # NoState
    /\ st' \in Intercept(Loaded(saved))
    /\ pc' = IF saved.stage = "DONE" THEN "promote" ELSE "prompt"
    /\ txn' = (saved.stage = "PAUSED" \/ st' # Loaded(saved))
    /\ UNCHANGED <<db, abort>>

\* Seeded fault: only what the person typed gets into the brief.
TypedOnly(answers) ==
    [f \in Field |-> IF answers[f] = "user" THEN "user" ELSE "skipped"]

\* to_brief_v2.
ToBrief(answers) == [f \in Field |-> IF answers[f] = Blank THEN "skipped" ELSE answers[f]]

\* promote_intake_brief and the commit of run_intake: one transaction.
Promote ==
    /\ pc = "promote"
    /\ brief' = ToBrief(st.answers)
    /\ saved' = NoState
    /\ status' = "READY_FOR_DEBATE"
    /\ Exit
    /\ UNCHANGED <<txn, abort>>

\* A kill, or an exception that run_intake lets through.
Crash ==
    /\ pc # "off"
    /\ Exit
    /\ txn' = FALSE
    /\ UNCHANGED <<db, abort>>

\* `ai-dev intake abort`: SELECT status, then an UPDATE that does not ask again.
AbortReads ==
    /\ abort = "idle" /\ status = "COLLECTING_INTAKE"
    /\ abort' = "read"
    /\ UNCHANGED <<db, pc, st, txn>>

AbortWrites ==
    /\ abort = "read" /\ ~txn
    /\ status' = "ABORTED" /\ saved' = NoState
    /\ abort' = "idle"
    /\ UNCHANGED <<brief, pc, st, txn>>

\* The wizard's open transaction outlasts busy_timeout.
AbortFails ==
    /\ abort = "read" /\ txn
    /\ abort' = "idle"
    /\ UNCHANGED <<db, pc, st, txn>>

-----------------------------------------------------------------------------

Turn ==
    \/ AnyInput \/ Reprompt \/ Pause
    \/ \E source \in Source : Answer(source) \/ Replace(source) \/ AnswerGap(source)
    \/ AcceptContext \/ Back \/ AcceptSuggestion \/ CancelSuggestion
    \/ \E has_value \in BOOLEAN :
          AskSuggestion(has_value) \/ Regenerate(has_value) \/ SuggestForGap(has_value)
    \/ PassWarning \/ Enough \/ BackGap
    \/ \E f \in Field : EditFromGap(f) \/ EditFromConfirm(f)
    \/ Confirm

Process ==
    \/ \E prefilled \in SUBSET Field : Start(prefilled)
    \/ FirstSave \/ Resume \/ Promote \/ Crash

Next == Turn \/ Process \/ AbortReads \/ AbortWrites \/ AbortFails

Spec == Init /\ [][Next]_vars

-----------------------------------------------------------------------------
(* Properties.                                                             *)

State ==
    [stage : Stage \union {"NONE"}, field_idx : 1 .. N + 1, answers : Form,
     gaps : Seq(GapTarget), followup_idx : Nat \ {0},
     pending : GapTarget, proposed : BOOLEAN, return_stage : {"ASKING", "FOLLOWUP"}]

StateOK(s) == s \in State /\ s.followup_idx <= Len(s.gaps) + 1

\* Types; indices stay inside the template and the gaps.
TypeOK ==
    /\ status \in {"NONE", "COLLECTING_INTAKE", "READY_FOR_DEBATE", "ABORTED"}
    /\ StateOK(saved) /\ StateOK(st)
    /\ brief \in Form
    /\ pc \in {"off", "created", "prompt", "promote"}
    /\ txn \in BOOLEAN
    /\ abort \in {"idle", "read"}

\* However a person goes back, edits, pauses or asks for suggestions: who is
\* asked to confirm has been through every field, so that nothing in the brief
\* is blank and run_intake finds every critical field it reports on.
NothingIsBlank ==
    /\ st.stage \in {"FOLLOWUP", "CONFIRM", "DONE"} =>
          \A f \in Field : st.answers[f] # Blank
    /\ \A f \in Field : f < st.field_idx => st.answers[f] # Blank
    /\ status = "READY_FOR_DEBATE" => \A f \in Field : brief[f] # Blank

\* An input changes at most the field whose question or suggestion was shown.
AnswersGoWhereShown ==
    [][pc = "prompt" /\ pc' # "off" =>
          \A f \in Field : st'.answers[f] # st.answers[f] => f = Shown(st)]_vars

\* Whenever a prompt is shown, a crash and a resume lead back to it: the
\* checkpoint has all the answers and the same position, but for the list of
\* gaps, which is found again.
CheckpointIsCurrent ==
    pc \in {"prompt", "promote"} /\ status = "COLLECTING_INTAKE" =>
        /\ saved.answers = st.answers
        /\ \/ Loaded(saved) = st
           \/ /\ saved.stage = "CONFIRM" /\ saved.gaps = <<>>
              /\ st.stage = "FOLLOWUP" /\ st.followup_idx = 1

\* The wizard implements the form, with an abort beside it or not: filled in
\* field by field, sealed once and complete.  A wizard that is aborted under way
\* may still seal its form, and an abort under way discard a form just sealed.
FormOf ==
    IF brief # Empty THEN brief
    ELSE IF pc \in {"prompt", "promote"} THEN st.answers
    ELSE IF status = "ABORTED" THEN Empty ELSE saved.answers
FateOf ==
    CASE status = "READY_FOR_DEBATE" -> "sealed"
      [] status = "ABORTED" -> "discarded"
      [] OTHER -> "open"
Paper == INSTANCE BriefForm WITH
    form <- FormOf, fate <- FateOf, held <- pc # "off", doomed <- abort = "read"
ImplementsForm == Paper!Spec
=============================================================================
