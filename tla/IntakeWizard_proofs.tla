------------------------ MODULE IntakeWizard_proofs ------------------------
(***************************************************************************)
(* Proofs about IntakeWizard for any template and any gaps.  An IntakeState*)
(* is Good if it is well typed and whatever a person can do from it leads  *)
(* through every field: fields before the current one are filled in, and   *)
(* all are once gaps were looked for.                                      *)
(***************************************************************************)
EXTENDS IntakeWizard, FiniteSetTheorems, TLAPS

Full(answers) == \A f \in Field : answers[f] # Blank

Filled(s) ==
    /\ \A f \in Field : f < s.field_idx => s.answers[f] # Blank
    /\ \/ s.stage \in {"FOLLOWUP", "CONFIRM", "DONE"}
       \/ s.return_stage = "FOLLOWUP"
       \/ s.gaps # <<>>
       => Full(s.answers)

\* A suggestion is for the current field, and returns to a gap that exists.
Located(s) ==
    /\ s.stage = "SUGGESTING" => s.pending = s.field_idx /\ s.field_idx \in Field
    /\ s.return_stage = "FOLLOWUP" => s.stage = "SUGGESTING"
    /\ s.stage = "FOLLOWUP" \/ s.return_stage = "FOLLOWUP" => s.followup_idx <= Len(s.gaps)

Good(s) == StateOK(s) /\ Filled(s) /\ Located(s)

Prompting == {"ASKING", "SUGGESTING", "FOLLOWUP", "CONFIRM"}

\* The process and the state it holds.
Held ==
    /\ pc = "off" <=> st.stage = "NONE"
    /\ pc = "created" => saved = NoState /\ \E fields \in SUBSET Field : st = NewState(fields)
    /\ pc = "prompt" => st.stage \in Prompting
    /\ pc = "promote" => st.stage = "DONE"
    /\ st.stage = "NONE" => st = NoState
    /\ saved.stage = "NONE" => saved = NoState
    /\ status = "NONE" => saved = NoState /\ pc = "off"

Inv ==
    /\ TypeOK /\ Good(saved) /\ Good(st) /\ Held
    /\ status = "READY_FOR_DEBATE" => Full(brief)
    /\ CheckpointIsCurrent

-----------------------------------------------------------------------------
(* The helpers of engine.py keep a state Good.                             *)

LEMMA Template ==
    /\ N \in Nat /\ N >= 1 /\ N + 1 \in 1 .. N + 1 /\ 1 \in 1 .. N + 1
    /\ \A f : f \in Field <=> f \in Nat /\ 1 <= f /\ f <= N
    /\ \A f \in Field : f \in 1 .. N + 1 /\ f \in GapTarget /\ f # Warning
    /\ Warning \in GapTarget
  BY TemplateAssumption DEF Field, GapTarget, Warning

LEMMA EnterConfirmGood ==
    ASSUME NEW s, Good(s), Full(s.answers), s.return_stage = "ASKING"
    PROVE  /\ Good(EnterConfirm(s)) /\ EnterConfirm(s).answers = s.answers
           /\ EnterConfirm(s).stage = "CONFIRM"
  BY DEF EnterConfirm, Good, StateOK, State, Filled, Located, Stage

LEMMA AnsweredGood ==
    ASSUME NEW s, Good(s), NEW f \in Field, NEW source \in Source
    PROVE  /\ Good(Answered(s, f, source))
           /\ Answered(s, f, source) = [s EXCEPT !.answers = [s.answers EXCEPT ![f] = source]]
           /\ Answered(s, f, source).answers[f] # Blank
           /\ \A g \in Field : g # f => Answered(s, f, source).answers[g] = s.answers[g]
  <1> DEFINE t == Answered(s, f, source)
  <1>1. t = [s EXCEPT !.answers = [s.answers EXCEPT ![f] = source]]
    BY DEF Answered, Good, StateOK, State
  <1>2. /\ s.answers \in Form /\ t.answers = [s.answers EXCEPT ![f] = source]
        /\ t \in State
    BY <1>1 DEF Good, StateOK, State, Form
  <1>3. /\ t.answers[f] # Blank
        /\ \A g \in Field : g # f => t.answers[g] = s.answers[g]
    BY <1>2 DEF Form, Source, Blank
  <1>4. /\ t.stage = s.stage /\ t.field_idx = s.field_idx /\ t.gaps = s.gaps
        /\ t.followup_idx = s.followup_idx /\ t.pending = s.pending
        /\ t.return_stage = s.return_stage
    BY <1>1 DEF Good, StateOK, State
  <1>5. Filled(t)
    BY <1>3, <1>4 DEF Good, Filled, Full
  <1> QED
    BY <1>1, <1>2, <1>3, <1>4, <1>5 DEF Good, StateOK, Located

LEMMA NextFieldGood ==
    ASSUME NEW s, Good(s), s.stage = "ASKING", s.field_idx \in Field,
           s.answers[s.field_idx] # Blank
    PROVE  /\ Good(NextField(s)) /\ NextField(s).answers = s.answers
           /\ NextField(s).stage \in Prompting
  <1> DEFINE t == [s EXCEPT !.field_idx = @ + 1]
  <1>1. /\ t.stage = "ASKING" /\ t.field_idx = s.field_idx + 1 /\ t.answers = s.answers
        /\ t.return_stage = "ASKING" /\ t.gaps = s.gaps /\ t.followup_idx = s.followup_idx
        /\ t \in State
    BY Template DEF Good, StateOK, State, Located
  <1>2. \A f \in Field : f < t.field_idx => t.answers[f] # Blank
    BY <1>1, Template DEF Good, Filled
  <1>3. Good(t)
    BY <1>1, <1>2 DEF Good, StateOK, Filled, Located
  <1>4. CASE Past(t.field_idx)
    <2>1. Full(t.answers)
      BY <1>1, <1>2, <1>4, Template DEF Past, Full
    <2> QED
      BY <1>1, <1>3, <1>4, <2>1, EnterConfirmGood DEF NextField, NextOrConfirm, Prompting
  <1>5. CASE ~Past(t.field_idx)
    BY <1>1, <1>3, <1>5 DEF NextField, NextOrConfirm, Prompting
  <1> QED
    BY <1>4, <1>5

LEMMA FollowupStepGood ==
    ASSUME NEW s, StateOK(s), Filled(s), s.stage = "FOLLOWUP", s.return_stage = "ASKING"
    PROVE  /\ Good(FollowupStep(s)) /\ FollowupStep(s).answers = s.answers
           /\ FollowupStep(s).stage \in Prompting
  <1> USE DEF Prompting
  <1>1. Full(s.answers)
    BY DEF Filled
  <1>2. Len(s.gaps) \in Nat /\ s.followup_idx \in Nat
    BY DEF StateOK, State
  <1>3. CASE s.followup_idx > Len(s.gaps)
    <2> DEFINE t == EnterConfirm(s)
    <2>1. FollowupStep(s) = t
      BY <1>3 DEF FollowupStep
    <2>2. Good(t) /\ t.answers = s.answers /\ t.stage \in Prompting
      BY <1>1 DEF EnterConfirm, Good, StateOK, State, Filled, Located, Stage
    <2> QED
      BY <2>1, <2>2
  <1>4. CASE ~(s.followup_idx > Len(s.gaps))
    BY <1>2, <1>4 DEF FollowupStep, Good, Located
  <1> QED
    BY <1>3, <1>4

LEMMA NextGapGood ==
    ASSUME NEW s, Good(s), s.stage = "FOLLOWUP", s.return_stage = "ASKING"
    PROVE  /\ Good(NextGap(s)) /\ NextGap(s).answers = s.answers
           /\ NextGap(s).stage \in Prompting
  <1> DEFINE t == [s EXCEPT !.followup_idx = @ + 1]
  <1>1. /\ t.stage = "FOLLOWUP" /\ t.return_stage = "ASKING" /\ t.answers = s.answers
        /\ t.field_idx = s.field_idx /\ t.gaps = s.gaps /\ t.followup_idx = s.followup_idx + 1
        /\ t \in State /\ Len(s.gaps) \in Nat /\ s.followup_idx \in Nat
    BY DEF Good, StateOK, State
  <1>2. StateOK(t) /\ Filled(t)
    BY <1>1 DEF Good, StateOK, Filled, Located
  <1> QED
    BY <1>1, <1>2, FollowupStepGood DEF NextGap

\* The state after a suggestion was dealt with, before what comes next.
Returned(s) == [ClearPending(s) EXCEPT !.stage = s.return_stage, !.return_stage = "ASKING"]

LEMMA ReturnedGood ==
    ASSUME NEW s, Good(s), s.stage = "SUGGESTING"
    PROVE  /\ Good(Returned(s)) /\ Returned(s).answers = s.answers
           /\ Returned(s).stage = s.return_stage /\ Returned(s).return_stage = "ASKING"
           /\ Returned(s).field_idx = s.field_idx /\ s.field_idx \in Field
           /\ s.return_stage \in {"ASKING", "FOLLOWUP"}
  <1> DEFINE t == Returned(s)
  <1>1. /\ t.stage = s.return_stage /\ t.return_stage = "ASKING" /\ t.answers = s.answers
        /\ t.field_idx = s.field_idx /\ t.gaps = s.gaps /\ t.followup_idx = s.followup_idx
        /\ t \in State /\ s.return_stage \in {"ASKING", "FOLLOWUP"}
    BY Template DEF Returned, ClearPending, Good, StateOK, State, Stage
  <1> QED
    BY <1>1 DEF Good, StateOK, Filled, Located

LEMMA ResolveReturnGood ==
    ASSUME NEW s, Good(s), s.stage = "SUGGESTING", s.answers[s.field_idx] # Blank
    PROVE  /\ Good(ResolveReturn(s)) /\ ResolveReturn(s).answers = s.answers
           /\ ResolveReturn(s).stage \in Prompting
  <1> HIDE DEF Returned
  <1>1. ResolveReturn(s) =
           IF s.return_stage = "FOLLOWUP" THEN NextGap(Returned(s)) ELSE NextField(Returned(s))
    BY DEF ResolveReturn, Returned
  <1> QED
    BY <1>1, ReturnedGood, NextGapGood, NextFieldGood

LEMMA SuggestedGood ==
    ASSUME NEW s, Good(s), s.field_idx \in Field, NEW has_value \in BOOLEAN,
           NEW back \in {"ASKING", "FOLLOWUP"},
           back = "FOLLOWUP" => s.stage = "FOLLOWUP"
    PROVE  /\ Good(Suggested(s, s.field_idx, has_value, back))
           /\ Suggested(s, s.field_idx, has_value, back).answers = s.answers
           /\ Suggested(s, s.field_idx, has_value, back).stage = "SUGGESTING"
  <1> DEFINE t == Suggested(s, s.field_idx, has_value, back)
  <1>1. /\ t.stage = "SUGGESTING" /\ t.return_stage = back /\ t.answers = s.answers
        /\ t.field_idx = s.field_idx /\ t.gaps = s.gaps /\ t.followup_idx = s.followup_idx
        /\ t.pending = s.field_idx /\ t \in State
    BY Template DEF Suggested, Good, StateOK, State, Stage
  <1> QED
    BY <1>1 DEF Good, StateOK, Filled, Located

LEMMA GapsOK ==
    ASSUME NEW answers, NEW gaps \in Gaps(answers)
    PROVE  gaps \in Seq(GapTarget)
  <1> DEFINE blank == {f \in Critical : answers[f] \in {Blank, "skipped"}}
  <1>1. IsFiniteSet(blank) /\ blank \subseteq GapTarget
    <2>1. blank \subseteq 1 .. N /\ blank \subseteq Field
      BY TemplateAssumption DEF Field
    <2>2. IsFiniteSet(1 .. N)
      BY FS_Interval, TemplateAssumption
    <2> QED
      BY <2>1, <2>2, FS_Subset, Template
  <1>2. Cardinality(blank) \in Nat
    BY <1>1, FS_CardinalityType
  <1>3. PICK g \in InOrder(blank), hits \in RuleHits : gaps = g \o hits
    BY DEF Gaps
  <1>4. g \in Seq(GapTarget)
    <2>1. g \in [1 .. Cardinality(blank) -> GapTarget]
      BY <1>1 DEF InOrder
    <2> HIDE DEF blank
    <2> QED
      BY <1>2, <2>1
  <1>5. hits \in Seq(GapTarget)
    <2>1. PICK n \in 0 .. MaxExtra : hits \in [1 .. n -> GapTarget]
      BY DEF RuleHits
    <2> QED
      BY <2>1, BoundAssumption
  <1> QED
    BY <1>3, <1>4, <1>5

LEMMA InterceptGood ==
    ASSUME NEW s, Good(s), NEW t \in Intercept(s)
    PROVE  /\ Good(t) /\ t.answers = s.answers
           /\ \/ t = s
              \/ /\ s.stage = "CONFIRM" /\ s.gaps = <<>>
                 /\ t.stage = "FOLLOWUP" /\ t.followup_idx = 1
  <1> SUFFICES ASSUME t # s
               PROVE  /\ Good(t) /\ t.answers = s.answers
                      /\ s.stage = "CONFIRM" /\ s.gaps = <<>>
                      /\ t.stage = "FOLLOWUP" /\ t.followup_idx = 1
    OBVIOUS
  <1>1. /\ s.stage = "CONFIRM" /\ s.gaps = <<>>
        /\ \E gaps \in Gaps(s.answers) : gaps # <<>> /\ t = EnterFollowup(s, gaps)
    BY DEF Intercept
  <1>2. PICK gaps \in Gaps(s.answers) : gaps # <<>> /\ t = EnterFollowup(s, gaps)
    BY <1>1
  <1>3. gaps \in Seq(GapTarget) /\ Len(gaps) \in Nat /\ Len(gaps) >= 1
    BY <1>2, GapsOK
  <1>4. /\ t.stage = "FOLLOWUP" /\ t.followup_idx = 1 /\ t.answers = s.answers
        /\ t.gaps = gaps /\ t.field_idx = s.field_idx /\ t.return_stage = s.return_stage
        /\ t \in State
    <2>1. s \in State /\ t = [s EXCEPT !.stage = "FOLLOWUP", !.gaps = gaps, !.followup_idx = 1]
      BY <1>2 DEF EnterFollowup, Good, StateOK
    <2>2. "FOLLOWUP" \in Stage /\ gaps \in Seq(GapTarget) /\ 1 \in Nat \ {0}
      BY <1>3 DEF Stage
    <2>3. t \in State
      BY <2>1, <2>2 DEF State
    <2>4. /\ t.stage = "FOLLOWUP" /\ t.followup_idx = 1 /\ t.answers = s.answers
          /\ t.gaps = gaps /\ t.field_idx = s.field_idx /\ t.return_stage = s.return_stage
      BY <2>1 DEF State
    <2> QED
      BY <2>3, <2>4
  <1>5. Full(s.answers) /\ s.return_stage = "ASKING"
    BY <1>1 DEF Good, StateOK, State, Filled, Located
  <1> QED
    BY <1>1, <1>3, <1>4, <1>5 DEF Good, StateOK, Filled, Located

-----------------------------------------------------------------------------
(* Every input makes a Good state of a Good state, in which at most the    *)
(* answer to the field that was shown is another.                          *)

OnlyShown(s) ==
    \A f \in Field : s.answers[f] # st.answers[f] => f = Shown(st) /\ s.answers[f] # Blank

Outcome(s) ==
    /\ Good(s) /\ OnlyShown(s) /\ pc = "prompt"
    /\ \/ s.stage \in Prompting /\ Go(s)
       \/ s.stage = "PAUSED" /\ s.answers = st.answers /\ Save(s) /\ Exit
       \/ s.stage = "DONE" /\ Save(s) /\ st' = s /\ pc' = "promote"

LEMMA ShownField ==
    ASSUME Good(st)
    PROVE  /\ st.stage = "ASKING" /\ ~Exhausted(st) =>
                 Shown(st) = st.field_idx /\ st.field_idx \in Field
           /\ st.stage = "SUGGESTING" => Shown(st) = st.field_idx /\ st.field_idx \in Field
           /\ st.stage = "FOLLOWUP" /\ ~Exhausted(st) => Shown(st) = Asked /\ Asked \in GapTarget
  <1>1. CASE st.stage = "ASKING" /\ ~Exhausted(st)
    BY <1>1, Template DEF Shown, Exhausted, Past, Good, StateOK, State
  <1>2. CASE st.stage = "SUGGESTING"
    BY <1>2 DEF Shown, Good, Located
  <1>3. CASE st.stage = "FOLLOWUP" /\ ~Exhausted(st)
    <2>1. /\ st.gaps \in Seq(GapTarget) /\ st.followup_idx \in Nat \ {0}
          /\ st.followup_idx <= Len(st.gaps)
      BY <1>3 DEF Good, StateOK, State, Located
    <2>2. Asked \in GapTarget
      BY <2>1 DEF Asked
    <2> QED
      BY <1>3, <2>2 DEF Shown, Asked
  <1> QED
    BY <1>1, <1>2, <1>3

LEMMA SameAnswers ==
    ASSUME NEW s, Good(s), s.answers = st.answers, s.stage \in Prompting,
           pc = "prompt", Go(s)
    PROVE  Outcome(s)
  BY DEF Outcome, OnlyShown

LEMMA ShownAnswer ==
    ASSUME NEW s, NEW f \in Field, NEW source \in Source, Good(st), Good(s),
           s.answers = Answered(st, f, source).answers, f = Shown(st),
           s.stage \in Prompting, pc = "prompt", Go(s)
    PROVE  Outcome(s)
  <1>1. /\ Answered(st, f, source).answers[f] # Blank
        /\ \A g \in Field : g # f => Answered(st, f, source).answers[g] = st.answers[g]
    BY AnsweredGood
  <1>2. OnlyShown(s)
    BY <1>1 DEF OnlyShown
  <1> QED
    BY <1>2 DEF Outcome

\* An answered st is in the stage and at the place st was.
LEMMA AnsweredPlace ==
    ASSUME Good(st), NEW f \in Field, NEW source \in Source
    PROVE  /\ Good(Answered(st, f, source))
           /\ Answered(st, f, source).stage = st.stage
           /\ Answered(st, f, source).field_idx = st.field_idx
           /\ Answered(st, f, source).return_stage = st.return_stage
           /\ Answered(st, f, source).answers[f] # Blank
  <1>1. Good(Answered(st, f, source)) /\ Answered(st, f, source).answers[f] # Blank
    BY AnsweredGood
  <1>2. Answered(st, f, source) = [st EXCEPT !.answers = [st.answers EXCEPT ![f] = source]]
    BY AnsweredGood
  <1> QED
    BY <1>1, <1>2 DEF Good, StateOK, State

LEMMA AskingTurns ==
    ASSUME Good(st), pc = "prompt", Asking,
           \/ \E source \in Source : Answer(source)
           \/ AcceptContext \/ Back
           \/ \E has_value \in BOOLEAN : AskSuggestion(has_value)
    PROVE  \E s : Outcome(s)
  <1>1. /\ st.stage = "ASKING" /\ ~Exhausted(st)
        /\ Shown(st) = st.field_idx /\ st.field_idx \in Field
    BY ShownField DEF Asking, At
  <1>2. ASSUME NEW source \in Source, Answer(source)
        PROVE  \E s : Outcome(s)
    <2> DEFINE a == Answered(st, st.field_idx, source)
    <2>1. Good(a) /\ a.stage = "ASKING" /\ a.field_idx \in Field /\ a.answers[a.field_idx] # Blank
      BY <1>1, AnsweredPlace
    <2>2. Good(NextField(a)) /\ NextField(a).answers = a.answers /\ NextField(a).stage \in Prompting
      BY <2>1, NextFieldGood
    <2>3. Go(NextField(a))
      BY <1>2 DEF Answer
    <2> QED
      BY <1>1, <2>2, <2>3, ShownAnswer
  <1>3. CASE AcceptContext
    <2>1. st.answers[st.field_idx] # Blank /\ Go(NextField(st))
      BY <1>3 DEF AcceptContext, Blank
    <2>2. /\ Good(NextField(st)) /\ NextField(st).answers = st.answers
          /\ NextField(st).stage \in Prompting
      BY <1>1, <2>1, NextFieldGood
    <2> QED
      BY <2>1, <2>2, SameAnswers
  <1>4. CASE Back
    <2> DEFINE t == [st EXCEPT !.field_idx = @ - 1]
    <2>1. Go(t) /\ st.field_idx > 1
      BY <1>4 DEF Back, HasBefore
    <2>2. /\ t.stage = "ASKING" /\ t.field_idx = st.field_idx - 1 /\ t.answers = st.answers
          /\ t.gaps = st.gaps /\ t.followup_idx = st.followup_idx
          /\ t.return_stage = st.return_stage /\ t \in State
      BY <1>1, <2>1, Template DEF Good, StateOK, State
    <2>3. Good(t)
      BY <1>1, <2>1, <2>2, Template DEF Good, StateOK, Filled, Located
    <2> QED
      BY <2>1, <2>2, <2>3, SameAnswers DEF Prompting
  <1>5. ASSUME NEW has_value \in BOOLEAN, AskSuggestion(has_value)
        PROVE  \E s : Outcome(s)
    BY <1>1, <1>5, SuggestedGood, SameAnswers DEF AskSuggestion, Prompting
  <1> QED
    BY <1>2, <1>3, <1>4, <1>5

LEMMA SuggestingTurns ==
    ASSUME Good(st), At("SUGGESTING"),
           \/ AcceptSuggestion \/ CancelSuggestion
           \/ \E source \in Source : Replace(source)
           \/ \E has_value \in BOOLEAN : Regenerate(has_value)
    PROVE  \E s : Outcome(s)
  <1>1. /\ st.stage = "SUGGESTING" /\ pc = "prompt"
        /\ Shown(st) = st.field_idx /\ st.field_idx \in Field
    BY ShownField DEF At
  <1>2. ASSUME NEW source \in Source, Go(ResolveReturn(Answered(st, st.field_idx, source)))
        PROVE  \E s : Outcome(s)
    <2> DEFINE a == Answered(st, st.field_idx, source)
               t == ResolveReturn(a)
    <2>1. Good(a) /\ a.stage = "SUGGESTING" /\ a.answers[a.field_idx] # Blank
      BY <1>1, AnsweredPlace
    <2>2. Good(t) /\ t.answers = a.answers /\ t.stage \in Prompting
      BY <2>1, ResolveReturnGood
    <2> QED
      BY <1>1, <1>2, <2>2, ShownAnswer
  <1>3. CASE CancelSuggestion
    <2>1. Go(IF st.return_stage = "FOLLOWUP" THEN FollowupStep(Returned(st)) ELSE Returned(st))
      BY <1>3 DEF CancelSuggestion, Returned
    <2>2. /\ Good(Returned(st)) /\ Returned(st).answers = st.answers
          /\ Returned(st).stage = st.return_stage /\ Returned(st).return_stage = "ASKING"
          /\ st.return_stage \in {"ASKING", "FOLLOWUP"}
      BY <1>1, ReturnedGood
    <2>3. CASE st.return_stage = "FOLLOWUP"
      BY <1>1, <2>1, <2>2, <2>3, FollowupStepGood, SameAnswers DEF Good
    <2>4. CASE st.return_stage = "ASKING"
      BY <1>1, <2>1, <2>2, <2>4, SameAnswers DEF Prompting
    <2> QED
      BY <2>2, <2>3, <2>4
  <1>4. ASSUME NEW has_value \in BOOLEAN, Regenerate(has_value)
        PROVE  \E s : Outcome(s)
    BY <1>1, <1>4, SuggestedGood, SameAnswers DEF Regenerate, Prompting
  <1> QED
    BY <1>2, <1>3, <1>4 DEF AcceptSuggestion, Replace, Source

LEMMA FollowupTurns ==
    ASSUME Good(st), InFollowup,
           \/ \E source \in Source : AnswerGap(source)
           \/ PassWarning \/ Enough \/ BackGap
           \/ \E f \in Field : EditFromGap(f)
           \/ \E has_value \in BOOLEAN : SuggestForGap(has_value)
    PROVE  \E s : Outcome(s)
  <1>1. /\ st.stage = "FOLLOWUP" /\ pc = "prompt" /\ ~Exhausted(st)
        /\ Shown(st) = Asked /\ Asked \in GapTarget
        /\ st.return_stage = "ASKING" /\ Full(st.answers)
    BY ShownField DEF InFollowup, At, Good, StateOK, State, Filled, Located
  <1>2. ASSUME NEW source \in Source, AnswerGap(source)
        PROVE  \E s : Outcome(s)
    <2> DEFINE a == Answered(st, Asked, source)
               t == NextGap(a)
    <2>1. Asked \in Field /\ Go(t)
      BY <1>1, <1>2 DEF AnswerGap, GapTarget
    <2>2. Good(a) /\ a.stage = "FOLLOWUP" /\ a.return_stage = "ASKING"
      BY <1>1, <2>1, AnsweredPlace
    <2>3. Good(t) /\ t.answers = a.answers /\ t.stage \in Prompting
      BY <2>2, NextGapGood
    <2> QED
      BY <1>1, <2>1, <2>3, ShownAnswer
  <1>3. CASE PassWarning
    BY <1>1, <1>3, NextGapGood, SameAnswers DEF PassWarning
  <1>4. CASE Enough
    <2> DEFINE r == RecordRemaining(st)
               t == EnterConfirm(r)
    <2>1. r = [st EXCEPT !.answers = st.answers, !.followup_idx = Len(st.gaps) + 1]
      <3> DEFINE rest == {st.gaps[i] : i \in st.followup_idx .. Len(st.gaps)}
                 kept == [f \in Field |->
                             IF f \in rest /\ st.answers[f] = Blank THEN "skipped" ELSE st.answers[f]]
      <3>1. st.answers \in Form
        BY DEF Good, StateOK, State
      <3>2. kept = st.answers
        BY <1>1, <3>1 DEF Full, Form
      <3> QED
        BY <3>2 DEF RecordRemaining
    <2>2. /\ t.stage = "CONFIRM" /\ t.return_stage = "ASKING" /\ t.answers = st.answers
          /\ t.field_idx = st.field_idx /\ t.gaps = st.gaps
          /\ t.followup_idx = Len(st.gaps) + 1 /\ t \in State
      <3>1. st \in State /\ st.gaps \in Seq(GapTarget)
        BY DEF Good, StateOK, State
      <3>2. Len(st.gaps) + 1 \in Nat \ {0} /\ "CONFIRM" \in Stage
        BY <3>1 DEF Stage
      <3> QED
        BY <1>1, <2>1, <3>1, <3>2 DEF EnterConfirm, State
    <2>3. Good(t)
      BY <1>1, <2>2 DEF Good, StateOK, State, Filled, Located
    <2>4. Go(t)
      BY <1>4 DEF Enough
    <2> QED
      BY <1>1, <2>2, <2>3, <2>4, SameAnswers DEF Prompting
  <1>5. CASE BackGap
    <2> DEFINE t == [st EXCEPT !.followup_idx = @ - 1]
    <2>1. Go(t) /\ st.followup_idx > 1 /\ st.followup_idx <= Len(st.gaps)
      BY <1>1, <1>5 DEF BackGap, HasBefore, Good, Located
    <2>2. /\ t.stage = "FOLLOWUP" /\ t.field_idx = st.field_idx /\ t.answers = st.answers
          /\ t.gaps = st.gaps /\ t.followup_idx = st.followup_idx - 1
          /\ t.return_stage = st.return_stage /\ t \in State /\ Len(st.gaps) \in Nat
      BY <1>1, <2>1 DEF Good, StateOK, State
    <2>3. Good(t)
      BY <1>1, <2>1, <2>2 DEF Good, StateOK, State, Filled, Located
    <2> QED
      BY <1>1, <2>1, <2>2, <2>3, SameAnswers DEF Prompting
  <1>6. ASSUME NEW f \in Field, EditFromGap(f)
        PROVE  \E s : Outcome(s)
    <2> DEFINE t == [st EXCEPT !.stage = "ASKING", !.field_idx = f, !.followup_idx = @ + 1]
    <2>1. Go(t) /\ st.followup_idx <= Len(st.gaps)
      BY <1>1, <1>6 DEF EditFromGap, Good, Located
    <2>2. /\ t.stage = "ASKING" /\ t.field_idx = f /\ t.answers = st.answers
          /\ t.gaps = st.gaps /\ t.followup_idx = st.followup_idx + 1
          /\ t.return_stage = "ASKING" /\ t \in State /\ Len(st.gaps) \in Nat
      <3>1. /\ st \in State /\ f \in 1 .. N + 1 /\ "ASKING" \in Stage \union {"NONE"}
            /\ Len(st.gaps) \in Nat
        BY Template DEF Good, StateOK, State, Stage
      <3>2. st.followup_idx + 1 \in Nat \ {0}
        BY <3>1 DEF State
      <3>3. t \in State
        BY <3>1, <3>2 DEF State
      <3> QED
        BY <1>1, <3>1, <3>3 DEF State
    <2>3. Good(t)
      BY <1>1, <2>1, <2>2 DEF Good, StateOK, State, Filled, Full, Located
    <2> QED
      BY <1>1, <2>1, <2>2, <2>3, SameAnswers DEF Prompting
  <1>7. ASSUME NEW has_value \in BOOLEAN, SuggestForGap(has_value)
        PROVE  \E s : Outcome(s)
    <2> DEFINE t == Pivot(st, Asked)
    <2>1. Asked \in Field
      BY <1>7, TemplateAssumption DEF SuggestForGap, Field
    <2>2. /\ t.stage = "FOLLOWUP" /\ t.field_idx = Asked /\ t.answers = st.answers
          /\ t.gaps = st.gaps /\ t.followup_idx = st.followup_idx
          /\ t.return_stage = "ASKING" /\ t \in State
      <3>1. st \in State /\ Asked \in 1 .. N + 1
        BY <2>1, Template DEF Good, StateOK
      <3> HIDE DEF Asked
      <3> QED
        BY <1>1, <3>1 DEF Pivot, State
    <2>3. Good(t)
      BY <1>1, <2>2 DEF Good, StateOK, Filled, Full, Located
    <2>4. CASE Go(t)
      BY <1>1, <2>2, <2>3, <2>4, SameAnswers DEF Prompting
    <2>5. CASE Go(Suggested(t, Asked, has_value, "FOLLOWUP"))
      BY <1>1, <2>1, <2>2, <2>3, <2>5, SuggestedGood, SameAnswers DEF Prompting
    <2> QED
      BY <1>7, <2>4, <2>5 DEF SuggestForGap
  <1> QED
    BY <1>2, <1>3, <1>4, <1>5, <1>6, <1>7

LEMMA OtherTurns ==
    ASSUME Good(st), pc = "prompt", st.stage \in Prompting,
           \/ AnyInput \/ Reprompt \/ Pause \/ Confirm
           \/ \E f \in Field : EditFromConfirm(f)
    PROVE  \E s : Outcome(s)
  <1>1. /\ st.stage # "SUGGESTING" => st.return_stage = "ASKING"
        /\ st \in State
        /\ st.stage \in {"CONFIRM", "FOLLOWUP"} => Full(st.answers)
    BY DEF Good, StateOK, State, Filled, Located
  <1>2. CASE AnyInput
    <2>1. Exhausted(st) /\ Go(EnterConfirm(st)) /\ st.stage \in {"ASKING", "FOLLOWUP"}
      BY <1>2 DEF AnyInput, Exhausted
    <2>2. Full(st.answers)
      BY <1>1, <2>1, Template DEF Exhausted, Past, Full, Good, Filled, State
    <2> QED
      BY <1>1, <2>1, <2>2, EnterConfirmGood, SameAnswers DEF Prompting
  <1>3. CASE Reprompt
    BY <1>3, SameAnswers DEF Reprompt
  <1>4. ASSUME NEW x \in {"PAUSED", "DONE"}, st.return_stage = "ASKING",
               x = "DONE" => Full(st.answers)
        PROVE  LET t == [st EXCEPT !.stage = x]
               IN  Good(t) /\ t.answers = st.answers /\ t.stage = x
    <2> DEFINE t == [st EXCEPT !.stage = x]
    <2>1. /\ t.stage = x /\ t.field_idx = st.field_idx /\ t.answers = st.answers
          /\ t.gaps = st.gaps /\ t.followup_idx = st.followup_idx
          /\ t.return_stage = st.return_stage /\ t \in State
      BY <1>1 DEF State, Stage
    <2> QED
      BY <1>4, <2>1 DEF Good, StateOK, Filled, Located
  <1>5. CASE Pause
    <2> DEFINE t == [st EXCEPT !.stage = "PAUSED"]
    <2>1. Save(t) /\ Exit /\ st.return_stage = "ASKING"
      BY <1>1, <1>5 DEF Pause, At
    <2>2. Good(t) /\ t.answers = st.answers /\ t.stage = "PAUSED"
      BY <1>4, <2>1
    <2> QED
      BY <2>1, <2>2 DEF Outcome, OnlyShown
  <1>6. CASE Confirm
    <2> DEFINE t == [st EXCEPT !.stage = "DONE"]
    <2>1. Save(t) /\ st' = t /\ pc' = "promote" /\ st.return_stage = "ASKING" /\ Full(st.answers)
      BY <1>1, <1>6 DEF Confirm, At
    <2>2. Good(t) /\ t.answers = st.answers /\ t.stage = "DONE"
      BY <1>4, <2>1
    <2> QED
      BY <2>1, <2>2 DEF Outcome, OnlyShown
  <1>7. ASSUME NEW f \in Field, EditFromConfirm(f)
        PROVE  \E s : Outcome(s)
    <2> DEFINE t == [st EXCEPT !.stage = "ASKING", !.field_idx = f]
    <2>1. Go(t) /\ st.return_stage = "ASKING" /\ Full(st.answers)
      BY <1>1, <1>7 DEF EditFromConfirm, At
    <2>2. /\ t.stage = "ASKING" /\ t.field_idx = f /\ t.answers = st.answers
          /\ t.gaps = st.gaps /\ t.followup_idx = st.followup_idx
          /\ t.return_stage = "ASKING" /\ t \in State
      BY <1>1, <2>1, Template DEF State, Stage
    <2>3. Good(t)
      BY <2>1, <2>2 DEF Good, StateOK, Filled, Full, Located
    <2> QED
      BY <2>1, <2>2, <2>3, SameAnswers DEF Prompting
  <1> QED
    BY <1>2, <1>3, <1>5, <1>6, <1>7

LEMMA TurnOutcome ==
    ASSUME Inv, Turn
    PROVE  \E s : Outcome(s)
  <1>1. Good(st) /\ (pc = "prompt" => st.stage \in Prompting)
    BY DEF Inv, Held
  <1>2. CASE \/ \E source \in Source : Answer(source)
             \/ AcceptContext \/ Back
             \/ \E has_value \in BOOLEAN : AskSuggestion(has_value)
    <2>1. Asking /\ pc = "prompt"
      BY <1>2 DEF Answer, AcceptContext, Back, AskSuggestion, Asking, At
    <2> QED
      BY <1>1, <1>2, <2>1, AskingTurns
  <1>3. CASE \/ AcceptSuggestion \/ CancelSuggestion
             \/ \E source \in Source : Replace(source)
             \/ \E has_value \in BOOLEAN : Regenerate(has_value)
    <2>1. At("SUGGESTING")
      BY <1>3 DEF AcceptSuggestion, CancelSuggestion, Replace, Regenerate
    <2> QED
      BY <1>1, <1>3, <2>1, SuggestingTurns
  <1>4. CASE \/ \E source \in Source : AnswerGap(source)
             \/ PassWarning \/ Enough \/ BackGap
             \/ \E f \in Field : EditFromGap(f)
             \/ \E has_value \in BOOLEAN : SuggestForGap(has_value)
    <2>1. InFollowup
      BY <1>4 DEF AnswerGap, PassWarning, Enough, BackGap, EditFromGap, SuggestForGap
    <2> QED
      BY <1>1, <1>4, <2>1, FollowupTurns
  <1>5. CASE \/ AnyInput \/ Reprompt \/ Pause \/ Confirm
             \/ \E f \in Field : EditFromConfirm(f)
    <2>1. pc = "prompt"
      BY <1>5 DEF AnyInput, Reprompt, Pause, Confirm, EditFromConfirm, At
    <2> QED
      BY <1>1, <1>5, <2>1, OtherTurns
  <1> QED
    BY <1>2, <1>3, <1>4, <1>5 DEF Turn

-----------------------------------------------------------------------------
(* The invariant.                                                          *)

LEMMA NewStateGood ==
    ASSUME NEW fields \in SUBSET Field
    PROVE  /\ Good(NewState(fields)) /\ NewState(fields).stage = "ASKING"
           /\ NewState(fields).answers =
                 [f \in Field |-> IF f \in fields THEN "context_loaded" ELSE Blank]
  <1> DEFINE t == NewState(fields)
  <1>1. /\ t.stage = "ASKING" /\ t.field_idx = 1 /\ t.gaps = <<>> /\ t.followup_idx = 1
        /\ t.return_stage = "ASKING" /\ t.pending = Warning /\ t.proposed = FALSE
        /\ t.answers = [f \in Field |-> IF f \in fields THEN "context_loaded" ELSE Blank]
    BY DEF NewState
  <1>2. t.answers \in Form
    BY <1>1 DEF Form, Source
  <1>3. t \in State
    BY <1>1, <1>2, Template DEF NewState, State, Stage
  <1> QED
    BY <1>1, <1>3, Template DEF Good, StateOK, Filled, Located

LEMMA NoStateGood ==
    /\ Good(NoState) /\ NoState.stage = "NONE" /\ NoState.answers = Empty
  <1> DEFINE t == NewState({})
  <1>1. Good(t) /\ t.stage = "ASKING" /\ t.answers = Empty
    BY NewStateGood DEF Empty
  <1>2. t.return_stage = "ASKING" /\ t.gaps = <<>>
    BY DEF NewState
  <1> HIDE DEF t
  <1>3. NoState = [t EXCEPT !.stage = "NONE"]
    BY DEF NoState, t
  <1>4. /\ NoState.stage = "NONE" /\ NoState.answers = t.answers /\ NoState.gaps = t.gaps
        /\ NoState.field_idx = t.field_idx /\ NoState.followup_idx = t.followup_idx
        /\ NoState.return_stage = t.return_stage /\ NoState \in State
    BY <1>1, <1>3 DEF Good, StateOK, State
  <1> QED
    BY <1>1, <1>2, <1>4 DEF Good, StateOK, Filled, Located

LEMMA InvInit == Init => Inv
  <1> SUFFICES ASSUME Init PROVE Inv
    OBVIOUS
  <1>1. Empty \in Form
    BY DEF Empty, Form
  <1>2. TypeOK
    BY <1>1, NoStateGood DEF Init, TypeOK, Good
  <1> QED
    BY <1>2, NoStateGood DEF Init, Inv, Held, CheckpointIsCurrent

LEMMA LoadedGood ==
    ASSUME NEW s, Good(s)
    PROVE  /\ Good(Loaded(s)) /\ Loaded(s).answers = s.answers
           /\ s.stage # "PAUSED" => Loaded(s) = s
           /\ s.stage = "PAUSED" => Loaded(s).stage = "ASKING"
  <1>1. CASE s.stage = "PAUSED"
    <2> DEFINE t == [s EXCEPT !.stage = "ASKING"]
    <2>1. /\ t.stage = "ASKING" /\ t.field_idx = s.field_idx /\ t.answers = s.answers
          /\ t.gaps = s.gaps /\ t.followup_idx = s.followup_idx
          /\ t.return_stage = s.return_stage /\ t \in State
      BY DEF Good, StateOK, State, Stage
    <2>2. Good(t)
      BY <1>1, <2>1 DEF Good, StateOK, Filled, Located
    <2> QED
      BY <1>1, <2>1, <2>2 DEF Loaded
  <1>2. CASE s.stage # "PAUSED"
    BY <1>2 DEF Loaded
  <1> QED
    BY <1>1, <1>2

LEMMA OutcomeInv ==
    ASSUME Inv, NEW s, Outcome(s)
    PROVE  Inv'
  <1>1. /\ saved' = s /\ txn' = FALSE /\ Good(s)
        /\ UNCHANGED <<status, brief, abort>>
    BY DEF Outcome, Go, Save, ToSave
  <1>2. saved'.stage = s.stage /\ status' # "NONE"
    BY <1>1 DEF Outcome, Inv, Held
  <1>3. CASE s.stage \in Prompting /\ Go(s)
    <2>1. st' \in Intercept(s) /\ pc' = "prompt"
      BY <1>3 DEF Go, Outcome
    <2>2. /\ Good(st') /\ st'.answers = s.answers
          /\ \/ st' = s
             \/ s.stage = "CONFIRM" /\ s.gaps = <<>> /\ st'.stage = "FOLLOWUP" /\ st'.followup_idx = 1
      BY <1>1, <2>1, InterceptGood
    <2>3. Loaded(s) = s
      BY <1>3 DEF Loaded, Prompting
    <2>4. TypeOK'
      BY <1>1, <2>1, <2>2 DEF Inv, TypeOK, Good
    <2>5. st'.stage \in Prompting
      BY <1>3, <2>2 DEF Prompting
    <2>6. Held'
      BY <1>3, <1>2, <2>1, <2>5 DEF Held, Prompting
    <2>7. CheckpointIsCurrent'
      BY <1>1, <2>2, <2>3 DEF CheckpointIsCurrent
    <2> QED
      BY <1>1, <2>2, <2>4, <2>6, <2>7 DEF Inv
  <1>4. CASE s.stage = "PAUSED" /\ Exit
    <2>1. st' = NoState /\ pc' = "off"
      BY <1>4 DEF Exit
    <2>2. TypeOK'
      BY <1>1, <2>1, NoStateGood DEF Inv, TypeOK, Good
    <2>3. Held'
      BY <1>4, <1>2, <2>1, NoStateGood DEF Held
    <2> QED
      BY <1>1, <2>1, <2>2, <2>3, NoStateGood DEF Inv, CheckpointIsCurrent
  <1>5. CASE s.stage = "DONE" /\ st' = s /\ pc' = "promote"
    <2>1. TypeOK'
      BY <1>1, <1>5 DEF Inv, TypeOK, Good
    <2>2. Held'
      BY <1>5, <1>2 DEF Held
    <2> QED
      BY <1>1, <1>5, <2>1, <2>2 DEF Inv, CheckpointIsCurrent, Loaded
  <1> QED
    BY <1>3, <1>4, <1>5 DEF Outcome

LEMMA ProcessInv ==
    ASSUME Inv, Process
    PROVE  Inv'
  <1>1. ASSUME NEW fields \in SUBSET Field, Start(fields)
        PROVE  Inv'
    <2>1. /\ st' = NewState(fields) /\ pc' = "created" /\ status' = "COLLECTING_INTAKE"
          /\ UNCHANGED <<saved, brief, txn, abort>> /\ status = "NONE" /\ pc = "off"
      BY <1>1 DEF Start
    <2>2. Good(st') /\ st'.stage = "ASKING"
      BY <2>1, NewStateGood
    <2>3. TypeOK'
      BY <2>1, <2>2 DEF Inv, TypeOK, Good
    <2> QED
      <3>1. saved' = NoState /\ pc' = "created" /\ st'.stage # "NONE" /\ status' # "NONE"
        BY <2>1, <2>2 DEF Inv, Held
      <3>2. \E g \in SUBSET Field : st' = NewState(g)
        BY <2>1
      <3>3. Held'
        BY <3>1, <3>2 DEF Held
      <3> QED
        BY <2>1, <2>2, <2>3, <3>3 DEF Inv, CheckpointIsCurrent
  <1>2. CASE FirstSave
    <2>1. /\ saved' = st /\ st' = st /\ pc = "created" /\ pc' = "prompt" /\ txn' = FALSE
          /\ UNCHANGED <<status, brief, abort>>
      BY <1>2 DEF FirstSave, Save, ToSave
    <2>2. st.stage = "ASKING"
      BY <2>1, NewStateGood DEF Inv, Held
    <2>3. TypeOK'
      BY <2>1 DEF Inv, TypeOK
    <2> QED
      BY <2>1, <2>2, <2>3 DEF Inv, Held, Prompting, CheckpointIsCurrent, Loaded
  <1>3. CASE Resume
    <2> DEFINE l == Loaded(saved)
    <2>1. /\ saved # NoState /\ st' \in Intercept(l) /\ UNCHANGED <<status, saved, brief, abort>>
          /\ pc' = IF saved.stage = "DONE" THEN "promote" ELSE "prompt"
          /\ txn' \in BOOLEAN
      BY <1>3 DEF Resume, db
    <2>2. Good(l) /\ l.answers = saved.answers
      BY LoadedGood DEF Inv
    <2>3. /\ Good(st') /\ st'.answers = saved.answers
          /\ \/ st' = l
             \/ l.stage = "CONFIRM" /\ l.gaps = <<>> /\ st'.stage = "FOLLOWUP" /\ st'.followup_idx = 1
      BY <2>1, <2>2, InterceptGood
    <2>4. TypeOK'
      BY <2>1, <2>3 DEF Inv, TypeOK, Good
    <2>5. saved.stage \in Prompting \union {"PAUSED", "DONE"}
      BY <2>1 DEF Inv, Held, Good, StateOK, State, Stage, Prompting
    <2>6. CASE saved.stage = "DONE"
      <3>1. l = saved /\ st' = saved /\ pc' = "promote"
        BY <2>1, <2>3, <2>6, LoadedGood DEF Inv
      <3>2. Held'
        BY <2>1, <2>6, <3>1 DEF Inv, Held
      <3> QED
        BY <2>1, <2>3, <2>4, <2>6, <3>1, <3>2 DEF Inv, CheckpointIsCurrent
    <2>7. CASE saved.stage # "DONE"
      <3>1. l.stage \in Prompting /\ pc' = "prompt"
        BY <2>1, <2>5, <2>7, LoadedGood DEF Inv, Prompting
      <3>2. st'.stage \in Prompting
        BY <2>3, <3>1 DEF Prompting
      <3>3. /\ saved.stage = "NONE" => saved = NoState
            /\ status # "NONE" /\ UNCHANGED <<status, saved>>
        BY <2>1 DEF Inv, Held
      <3>4. st'.stage # "NONE" /\ pc' = "prompt"
        BY <3>1, <3>2 DEF Prompting
      <3>5. Held'
        BY <3>2, <3>3, <3>4 DEF Held
      <3>6. st' = l \/ (saved.stage = "CONFIRM" /\ saved.gaps = <<>>)
        BY <2>3, LoadedGood DEF Inv
      <3> QED
        BY <2>1, <2>3, <2>4, <3>5, <3>6 DEF Inv, CheckpointIsCurrent
    <2> QED
      BY <2>6, <2>7
  <1>4. CASE Promote
    <2>1. /\ brief' = ToBrief(st.answers) /\ saved' = NoState /\ status' = "READY_FOR_DEBATE"
          /\ st' = NoState /\ pc' = "off" /\ UNCHANGED <<txn, abort>>
          /\ st.answers \in Form
      BY <1>4 DEF Promote, Exit, Inv, Good, StateOK, State
    <2>2. brief' \in Form /\ Full(brief')
      BY <2>1 DEF ToBrief, Form, Full, Source, Blank
    <2>3. TypeOK'
      BY <2>1, <2>2, NoStateGood DEF Inv, TypeOK, Good
    <2> QED
      BY <2>1, <2>2, <2>3, NoStateGood DEF Inv, Held, CheckpointIsCurrent
  <1>5. CASE Crash
    <2>1. st' = NoState /\ pc' = "off" /\ txn' = FALSE /\ UNCHANGED <<status, saved, brief, abort>>
      BY <1>5 DEF Crash, Exit, db
    <2>2. TypeOK'
      BY <2>1, NoStateGood DEF Inv, TypeOK, Good
    <2> QED
      BY <2>1, <2>2, NoStateGood DEF Inv, Held, CheckpointIsCurrent
  <1> QED
    BY <1>1, <1>2, <1>3, <1>4, <1>5 DEF Process

LEMMA InvStep == Inv /\ [Next]_vars => Inv'
  <1> SUFFICES ASSUME Inv, [Next]_vars PROVE Inv'
    OBVIOUS
  <1>1. CASE Turn
    BY <1>1, TurnOutcome, OutcomeInv
  <1>2. CASE AbortReads \/ AbortFails
    BY <1>2 DEF AbortReads, AbortFails, db, Inv, TypeOK, Held, CheckpointIsCurrent
  <1>3. CASE AbortWrites
    <2>1. /\ saved' = NoState /\ status' = "ABORTED" /\ abort' = "idle"
          /\ UNCHANGED <<brief, pc, st, txn>>
      BY <1>3 DEF AbortWrites
    <2>2. TypeOK'
      BY <2>1, NoStateGood DEF Inv, TypeOK, Good
    <2> QED
      BY <2>1, <2>2, NoStateGood DEF Inv, Held, CheckpointIsCurrent
  <1>4. CASE UNCHANGED vars
    BY <1>4 DEF vars, db, Inv, TypeOK, Held, CheckpointIsCurrent
  <1> QED
    BY <1>1, <1>2, <1>3, <1>4, ProcessInv DEF Next

LEMMA Invariance == Spec => []Inv
  <1> QED
    BY InvInit, InvStep, PTL DEF Spec

\* Stages, positions and answers have their types: no command leads outside
\* the template or the list of gaps.
THEOREM TypeCorrect == Spec => []TypeOK
  <1>1. Inv => TypeOK
    BY DEF Inv
  <1> QED
    BY <1>1, Invariance, PTL

\* Whatever the template, the gaps and the way back and forth, who is asked to
\* confirm has been through every field, and no promoted brief has a blank.
THEOREM NoBlank == Spec => []NothingIsBlank
  <1>1. Inv => NothingIsBlank
    BY DEF Inv, NothingIsBlank, Good, Filled, Full
  <1> QED
    BY <1>1, Invariance, PTL

\* At every prompt the saved state leads back to the prompt, so that a crash
\* of run_intake loses no answer.
THEOREM CheckpointsAreCurrent == Spec => []CheckpointIsCurrent
  <1>1. Inv => CheckpointIsCurrent
    BY DEF Inv
  <1> QED
    BY <1>1, Invariance, PTL

\* An input of the person changes no answer but the one to the question, the
\* suggestion or the gap in front of them.
THEOREM AnswersStayPut == Spec => AnswersGoWhereShown
  <1> DEFINE Where == pc = "prompt" /\ pc' # "off" =>
                 \A f \in Field : st'.answers[f] # st.answers[f] => f = Shown(st)
  <1>1. Inv /\ [Next]_vars => [Where]_vars
    <2> SUFFICES ASSUME Inv, Next, pc = "prompt", pc' # "off"
                 PROVE  \A f \in Field : st'.answers[f] # st.answers[f] => f = Shown(st)
      OBVIOUS
    <2>1. CASE Turn
      <3>1. PICK s : Outcome(s)
        BY <2>1, TurnOutcome
      <3>2. OnlyShown(s) /\ Good(s)
        BY <3>1 DEF Outcome
      <3>3. st'.answers = s.answers
        <4>1. CASE Go(s)
          BY <3>2, <4>1, InterceptGood DEF Go
        <4>2. CASE st' = s
          BY <4>2
        <4> QED
          BY <3>1, <4>1, <4>2 DEF Outcome, Exit
      <3> QED
        BY <3>2, <3>3 DEF OnlyShown
    <2>2. CASE Process
      BY <2>2 DEF Process, Start, FirstSave, Resume, Promote, Crash, Exit
    <2>3. CASE AbortReads \/ AbortWrites \/ AbortFails
      BY <2>3 DEF AbortReads, AbortWrites, AbortFails
    <2> QED
      BY <2>1, <2>2, <2>3 DEF Next
  <1> QED
    BY <1>1, Invariance, PTL DEF Spec, AnswersGoWhereShown

-----------------------------------------------------------------------------
(* The wizard implements the form, whatever the abort beside it finds.     *)

\* There is a brief only of a run whose wizard is done with, and an abort that
\* has read the status has seen it collecting.
Owned ==
    /\ pc # "off" => status \in {"COLLECTING_INTAKE", "ABORTED"} /\ brief = Empty
    /\ status \in {"NONE", "COLLECTING_INTAKE"} => brief = Empty
    /\ status = "ABORTED" => abort = "idle"

FormInv == Inv /\ Owned

LEMMA OwnedInit == Init => Owned
  BY DEF Init, Owned

LEMMA OwnedStep ==
    ASSUME Inv, Owned, [Next]_vars
    PROVE  Owned'
  <1>1. CASE Turn
    <2>1. PICK s : Outcome(s)
      BY <1>1, TurnOutcome
    <2> QED
      BY <2>1 DEF Outcome, Go, Save, Owned
  <1>2. CASE Process
    <2>1. CASE Promote
      BY <2>1 DEF Promote, Exit, Owned
    <2> QED
      BY <1>2, <2>1 DEF Process, Start, FirstSave, Save, Resume, Crash, Exit, db, Owned
  <1>3. CASE AbortReads \/ AbortWrites \/ AbortFails
    <2>1. abort \in {"idle", "read"}
      BY DEF Inv, TypeOK
    <2> QED
      BY <1>3, <2>1 DEF AbortReads, AbortWrites, AbortFails, db, Inv, Held, Owned
  <1>4. CASE UNCHANGED vars
    BY <1>4 DEF vars, db, Owned
  <1> QED
    BY <1>1, <1>2, <1>3, <1>4 DEF Next

\* What the form is while somebody fills it in.
LEMMA FormHeld ==
    ASSUME Inv, Owned, pc # "off"
    PROVE  /\ FormOf = IF pc = "created" THEN Empty ELSE st.answers
           /\ FateOf \in {"open", "discarded"}
           /\ FateOf = "discarded" <=> status = "ABORTED"
  BY NoStateGood DEF Inv, TypeOK, Held, Owned, FormOf, FateOf

LEMMA FormInit == Init => Paper!Init
  BY NoStateGood DEF Init, Paper!Init, Paper!Empty, FormOf, FateOf, Empty

LEMMA TurnOnForm ==
    ASSUME Inv, Owned, Turn, Owned'
    PROVE  [Paper!Next]_(Paper!vars)
  <1>1. PICK s : Outcome(s)
    BY TurnOutcome
  <1>2. /\ saved' = s /\ UNCHANGED <<status, brief, abort>>
        /\ Good(s) /\ OnlyShown(s) /\ pc = "prompt" /\ brief = Empty
    BY <1>1 DEF Outcome, Go, Save, ToSave, Owned
  <1>3. /\ FateOf \in {"open", "discarded"} /\ FormOf = st.answers
        /\ FateOf = "discarded" <=> status = "ABORTED"
    BY <1>2, FormHeld
  <1>4. FateOf' = FateOf
    BY <1>2 DEF FateOf
  <1>5. CASE s.stage = "PAUSED" /\ s.answers = st.answers /\ Exit
    <2>1. FormOf' = IF status = "ABORTED" THEN Empty ELSE s.answers
      BY <1>2, <1>5 DEF Exit, FormOf
    <2>2. Paper!PutDown
      BY <1>2, <1>3, <1>4, <1>5, <2>1 DEF Exit, Paper!PutDown, Paper!Empty, Empty
    <2> QED
      BY <2>2 DEF Paper!Next
  <1>6. CASE pc' \in {"prompt", "promote"} /\ st'.answers = s.answers
    <2>1. FormOf' = s.answers
      BY <1>2, <1>6 DEF FormOf
    <2>2. st.answers \in Form /\ s.answers \in Form
      BY <1>2 DEF Inv, Good, StateOK, State
    <2>3. CASE s.answers = st.answers
      BY <1>2, <1>3, <1>4, <1>6, <2>1, <2>3 DEF Paper!vars
    <2>4. CASE s.answers # st.answers
      <3>1. PICK f \in Field : s.answers[f] # st.answers[f]
        BY <2>2, <2>4 DEF Form
      <3>2. s.answers[f] \in Source
        BY <1>2, <2>2, <3>1 DEF Form, OnlyShown
      <3>3. s.answers = [st.answers EXCEPT ![f] = s.answers[f]]
        BY <1>2, <2>2, <3>1 DEF Form, OnlyShown
      <3>4. Paper!Fill(f, s.answers[f])
        BY <1>2, <1>3, <1>4, <1>6, <2>1, <3>3 DEF Paper!Fill
      <3> QED
        BY <3>2, <3>4 DEF Paper!Next
    <2> QED
      BY <2>3, <2>4
  <1>7. CASE Go(s)
    BY <1>2, <1>6, <1>7, InterceptGood DEF Go
  <1> QED
    BY <1>1, <1>5, <1>6, <1>7 DEF Outcome

LEMMA ProcessOnForm ==
    ASSUME Inv, Owned, Process
    PROVE  [Paper!Next]_(Paper!vars)
  <1>1. ASSUME NEW fields \in SUBSET Field, Start(fields)
        PROVE  Paper!Take
    <2>1. /\ pc = "off" /\ status = "NONE" /\ status' = "COLLECTING_INTAKE" /\ pc' = "created"
          /\ UNCHANGED <<saved, brief, abort>> /\ brief = Empty
      BY <1>1 DEF Start, Owned
    <2>2. FormOf' = FormOf /\ FateOf = "open" /\ FateOf' = "open"
      BY <2>1 DEF FormOf, FateOf
    <2> QED
      BY <2>1, <2>2 DEF Paper!Take
  <1>2. ASSUME FirstSave
        PROVE  \E fields \in SUBSET Field : Paper!Prefill(fields, "context_loaded")
    <2>1. PICK fields \in SUBSET Field : st = NewState(fields)
      BY <1>2 DEF FirstSave, Inv, Held
    <2>2. /\ pc = "created" /\ pc' = "prompt" /\ st' = st /\ brief = Empty
          /\ UNCHANGED <<status, brief, abort>>
      BY <1>2 DEF FirstSave, Save, Owned
    <2>3. FormOf = Empty /\ FateOf # "sealed" /\ FateOf' = FateOf
      BY <2>2, FormHeld DEF FateOf
    <2>4. FormOf' = [f \in Field |-> IF f \in fields THEN "context_loaded" ELSE Blank]
      BY <2>1, <2>2, NewStateGood DEF FormOf
    <2>5. Paper!Prefill(fields, "context_loaded")
      BY <2>2, <2>3, <2>4 DEF Paper!Prefill, Paper!Empty, Empty
    <2> QED
      BY <2>5
  <1>3. ASSUME Resume
        PROVE  Paper!Take
    <2>1. /\ pc = "off" /\ status = "COLLECTING_INTAKE" /\ brief = Empty
          /\ st' \in Intercept(Loaded(saved)) /\ pc' \in {"prompt", "promote"}
          /\ UNCHANGED <<status, saved, brief, abort>>
      BY <1>3 DEF Resume, db, Owned
    <2>2. st'.answers = saved.answers
      BY <2>1, LoadedGood, InterceptGood DEF Inv
    <2>3. FormOf' = FormOf /\ FateOf = "open" /\ FateOf' = "open"
      BY <2>1, <2>2 DEF FormOf, FateOf
    <2> QED
      BY <2>1, <2>3 DEF Paper!Take
  <1>4. ASSUME Promote
        PROVE  Paper!Seal
    <2>1. /\ pc = "promote" /\ pc' = "off" /\ status' = "READY_FOR_DEBATE"
          /\ brief' = ToBrief(st.answers) /\ UNCHANGED abort
          /\ Full(st.answers) /\ st.answers \in Form
      BY <1>4 DEF Promote, Exit, Inv, Held, Good, Filled, StateOK, State
    <2>2. ToBrief(st.answers) = st.answers /\ st.answers # Empty
      BY <2>1, Template DEF ToBrief, Full, Form, Empty
    <2>3. /\ FateOf # "sealed" /\ FateOf' = "sealed"
          /\ FormOf = st.answers /\ FormOf' = st.answers
      BY <2>1, <2>2, FormHeld DEF FateOf, FormOf
    <2> QED
      BY <2>1, <2>3 DEF Paper!Seal, Full
  <1>5. ASSUME Crash
        PROVE  Paper!PutDown
    <2>1. /\ pc # "off" /\ pc' = "off" /\ brief = Empty
          /\ UNCHANGED <<status, saved, brief, abort>>
      BY <1>5 DEF Crash, Exit, db, Owned
    <2>2. FormOf' = IF status = "ABORTED" THEN Empty ELSE saved.answers
      BY <2>1 DEF FormOf
    <2>3. status # "ABORTED" => saved.answers = FormOf
      BY <2>1, FormHeld, NoStateGood DEF Inv, TypeOK, Held, Owned, CheckpointIsCurrent
    <2>4. FateOf' = FateOf /\ (FateOf = "discarded" <=> status = "ABORTED")
      BY <2>1, FormHeld DEF FateOf
    <2> QED
      BY <2>1, <2>2, <2>3, <2>4 DEF Paper!PutDown, Paper!Empty, Empty
  <1>6. ASSUME NEW fields \in SUBSET Field, Paper!Prefill(fields, "context_loaded")
        PROVE  Paper!Next
    BY <1>6 DEF Paper!Next, Source
  <1> QED
    BY <1>1, <1>2, <1>3, <1>4, <1>5, <1>6 DEF Process, Paper!Next

LEMMA AbortOnForm ==
    ASSUME Inv, Owned, AbortReads \/ AbortWrites \/ AbortFails
    PROVE  [Paper!Next]_(Paper!vars)
  <1>1. CASE AbortReads
    <2>1. Paper!Doom
      BY <1>1 DEF AbortReads, db, FormOf, FateOf, Paper!Doom
    <2> QED
      BY <2>1 DEF Paper!Next
  <1>2. CASE AbortFails
    <2>1. Paper!Spare
      BY <1>2 DEF AbortFails, db, FormOf, FateOf, Paper!Spare
    <2> QED
      BY <2>1 DEF Paper!Next
  <1>3. CASE AbortWrites
    <2>1. /\ abort = "read" /\ abort' = "idle" /\ status' = "ABORTED" /\ saved' = NoState
          /\ UNCHANGED <<brief, pc, st>> /\ status # "ABORTED"
      BY <1>3 DEF AbortWrites, Owned
    <2>2. FateOf' = "discarded"
      BY <2>1 DEF FateOf
    <2>3. CASE pc # "off"
      <3>1. FormOf' = FormOf
        BY <2>1, <2>3, NoStateGood DEF Inv, TypeOK, Held, Owned, FormOf
      <3>2. Paper!Discard
        BY <2>1, <2>2, <2>3, <3>1 DEF Paper!Discard
      <3> QED
        BY <3>2 DEF Paper!Next
    <2>4. CASE pc = "off" /\ status = "READY_FOR_DEBATE"
      <3>1. brief # Empty
        BY <2>4, Template DEF Inv, Full, Empty
      <3>2. FormOf' = FormOf /\ FateOf = "sealed"
        BY <2>1, <2>4, <3>1 DEF FormOf, FateOf
      <3>3. Paper!Discard
        BY <2>1, <2>2, <2>4, <3>2 DEF Paper!Discard
      <3> QED
        BY <3>3 DEF Paper!Next
    <2>5. CASE pc = "off" /\ status # "READY_FOR_DEBATE"
      <3>1. brief = Empty /\ FateOf = "open"
        BY <2>1, <2>5 DEF Inv, TypeOK, Owned, FateOf
      <3>2. FormOf' = Empty
        BY <2>1, <2>5, <3>1 DEF FormOf
      <3>3. Paper!Discard
        BY <2>1, <2>2, <2>5, <3>1, <3>2 DEF Paper!Discard, Paper!Empty, Empty
      <3> QED
        BY <3>3 DEF Paper!Next
    <2> QED
      BY <2>3, <2>4, <2>5
  <1> QED
    BY <1>1, <1>2, <1>3

LEMMA FormStep ==
    ASSUME Inv, Owned, [Next]_vars
    PROVE  [Paper!Next]_(Paper!vars)
  <1>1. Owned'
    BY OwnedStep
  <1>2. CASE UNCHANGED vars
    BY <1>2 DEF vars, db, Paper!vars, FormOf, FateOf
  <1> QED
    BY <1>1, <1>2, TurnOnForm, ProcessOnForm, AbortOnForm DEF Next

\* For every template, whatever gaps are found and whenever `intake abort`
\* reads and writes: what is kept of the run is a form.  Each input fills in at
\* most one field, no field becomes blank again, and it is sealed complete and
\* once, across every pause, crash and resume; only an abort discards it.
THEOREM WizardImplementsForm == Spec => ImplementsForm
  <1>1. Init => FormInv /\ Paper!Init
    BY InvInit, OwnedInit, FormInit DEF FormInv
  <1>2. FormInv /\ [Next]_vars => FormInv' /\ [Paper!Next]_(Paper!vars)
    BY InvStep, OwnedStep, FormStep DEF FormInv
  <1> QED
    BY <1>1, <1>2, PTL DEF Spec, ImplementsForm, Paper!Spec
=============================================================================
