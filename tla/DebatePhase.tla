----------------------------- MODULE DebatePhase -----------------------------
(***************************************************************************)
(* Phase A between the brief and Gate 1: the questions of a run are made   *)
(* of the decisions it needs, criticized and counted, and each of them is  *)
(* debated by two agents under a moderator.  One process runs it; what the *)
(* models answer is up to them, and a call may raise at any time.          *)
(* RunLifecycle has the phases of the run, Gate1Review what follows.       *)
(***************************************************************************)
EXTENDS Naturals, Sequences, FiniteSets, SequencesExt

CONSTANTS
    Decision,      \* decisions the inventory may list
    Needed,        \* those it classifies REQUIRED or STRATEGIC
    Blocking,      \* those that block something of the scope
    Defaulted,     \* those that have a safe default
    Key, Text,     \* ids and texts the models give their questions
    Agent,         \* agents a question may name
    Registered,    \* those the registry has
    Domain, DomainOf, Partners,  \* their domains, and typical_paired_with
    MinSurviving,  \* MIN_SURVIVING_QUESTIONS
    MinCount,      \* the threshold of C4
    MaxIter,       \* MAX_CRITIC_ITER
    MaxRounds, RequiredMin, MaxTries,  \* DebateConfig
    Confidence,    \* bound: what a moderator says of its confidence, in %
    MaxBatch, MaxFlags  \* bounds: questions and flags of an answer

ASSUME DebateAssumption ==
    /\ IsFiniteSet(Decision)
    /\ Needed \subseteq Decision /\ Blocking \subseteq Decision
    /\ Defaulted \subseteq Decision /\ Registered \subseteq Agent
    /\ DomainOf \in [Agent -> Domain] /\ Partners \in [Agent -> SUBSET Agent]
    /\ MinSurviving \in Nat /\ MinCount \in Nat /\ MaxIter \in Nat
    /\ MaxRounds \in Nat \ {0, 1} /\ RequiredMin \in 1..MaxRounds
    /\ MaxTries \in Nat \ {0}
    /\ Confidence \subseteq 0..100 /\ 0 \in Confidence
    /\ MaxBatch \in Nat /\ MaxFlags \in Nat

Threshold == 80   \* DebateConfig.confidence_threshold, in %
Penalty   == 70   \* DebateConfig.diversity_confidence_penalty, in %

Class == {"REQUIRED", "STRATEGIC", "OPTIONAL"}

\* An id is what the model gave, or that with the "-r1" of a retrigger.
Id == Key \X BOOLEAN

None == "none"
Question == [id : Id, text : Text, class : Class, source : Decision \union {None}]

VARIABLES
    stage,     \* where the phase is
    flags,     \* use_question_pipeline_v2 (and a brief), use_debate_v2
    asked,     \* the decisions the materializer is, or was, called for
    again,     \* is that the retrigger?
    attempt,   \* attempts of the inventory
    questions, \* the questions, draft or refined
    iter,      \* iterations of the critic
    flagged,   \* flags of this iteration that are handled
    gone,      \* dropped_ids and merged_ids
    rewrites,  \* rewrites
    seen,      \* seen_hashes
    at,        \* the question that is debated
    pair,      \* its agents
    round,     \* the rounds it had
    tries,     \* unparsable answers of the moderator in this round
    conf,      \* confidence of its last round
    echoed,    \* did round 1 find that its agents say the same?
    shown      \* history: texts the critic was shown

askVars    == <<asked, again, attempt>>
criticVars == <<iter, flagged, gone, rewrites, seen, shown>>
debateVars == <<at, pair, round, tries, conf, echoed>>
vars == <<stage, flags, questions, askVars, criticVars, debateVars>>

Stage == {"inventory", "materialize", "each", "legacy", "review", "flags",
          "coverage", "debate", "rounds", "done", "failed"}

TypeOK ==
    /\ stage \in Stage /\ flags \in [questions : BOOLEAN, debate : BOOLEAN]
    /\ asked \subseteq Decision /\ again \in BOOLEAN /\ attempt \in 0..1
    /\ questions \in Seq(Question)
    /\ iter \in 0..MaxIter /\ flagged \in 0..MaxFlags /\ gone \subseteq Id
    /\ rewrites \in [Id -> Text \union {None}]
    /\ seen \subseteq Text /\ shown \subseteq Text
    /\ at \in 1..(Len(questions) + 1) /\ pair \in Seq(Agent)
    /\ round \in 0..MaxRounds /\ tries \in 0..(MaxTries - 1)
    /\ conf \in 0..100 /\ echoed \in BOOLEAN
    /\ stage = "rounds" => Len(pair) = 2 /\ questions[at].class # "OPTIONAL"
    /\ ~flags.questions => \A q \in Range(questions) : q.source = None

NoRewrites == [i \in Id |-> None]

Init ==
    /\ flags \in [questions : BOOLEAN, debate : BOOLEAN]
    /\ stage = IF flags.questions THEN "inventory" ELSE "legacy"
    /\ asked = {} /\ again = FALSE /\ attempt = 0
    /\ questions = <<>>
    /\ iter = 0 /\ flagged = 0 /\ gone = {} /\ rewrites = NoRewrites
    /\ seen = {} /\ shown = {}
    /\ at = 1 /\ pair = <<>> /\ round = 0 /\ tries = 0 /\ conf = 0
    /\ echoed = FALSE

-----------------------------------------------------------------------------
(* The questions.                                                          *)

\* inventory.run: the answer is not a list of valid decisions; the second
\* time this is an InventoryError.
InventoryInvalid ==
    /\ stage = "inventory"
    /\ IF attempt = 0 THEN attempt' = 1 /\ stage' = stage
                      ELSE stage' = "failed" /\ UNCHANGED attempt
    /\ UNCHANGED <<flags, asked, again, questions, criticVars, debateVars>>

\* inventory.run, and materializer.run(mode="fresh") is called for its list.
Inventory ==
    /\ stage = "inventory"
    /\ stage' = "materialize" /\ asked' = Decision /\ attempt' = 0
    /\ UNCHANGED <<flags, again, questions, criticVars, debateVars>>

\* _derive_classification.
Derived(d) ==
    IF d \notin Blocking THEN "OPTIONAL"
    ELSE IF d \in Defaulted THEN "STRATEGIC" ELSE "REQUIRED"

\* _normalize: the class follows from the decision, the rest is the model's.
QuestionsOn(D) ==
    UNION {[id : Key \X {FALSE}, text : Text, class : {Derived(d)}, source : {d}] :
              d \in D}

Ids(qs) == {q.id : q \in Range(qs)}
Texts(qs) == {q.text : q \in Range(qs)}

\* Seeded fault: a question of the retrigger replaces the one with its id.
MergedById(qs, extra) ==
    LET Kept(q) == q.id \notin Ids(extra) IN SelectSeq(qs, Kept) \o extra

\* _merge_retrigger_questions.
Merged(qs, extra) ==
    qs \o [i \in DOMAIN extra |->
             IF extra[i].id \in Ids(qs)
             THEN [extra[i] EXCEPT !.id = <<@[1], TRUE>>] ELSE extra[i]]

\* Seeded fault: only accepted rewrites are hashed, not the originals.
MaterializedUnhashed(qs) ==
    /\ questions' = Merged(questions, qs)
    /\ stage' = IF again \/ qs = <<>> THEN "coverage" ELSE "review"
    /\ seen' = {}
    /\ shown' = IF stage' = "review" THEN Texts(qs) ELSE {}
    /\ UNCHANGED <<flags, askVars, iter, flagged, gone, rewrites, debateVars>>

\* What materializer.run returns goes to the critic or, of a retrigger,
\* straight to the coverage.  An empty draft is not shown to the critic.
Materialized(qs) ==
    /\ questions' = Merged(questions, qs)
    /\ stage' = IF again \/ qs = <<>> THEN "coverage" ELSE "review"
    /\ seen' = IF stage' = "review" THEN Texts(qs) ELSE {}
    /\ shown' = seen'
    /\ UNCHANGED <<flags, askVars, iter, flagged, gone, rewrites, debateVars>>

\* _materialize_batch: any questions on the decisions it was given; some may
\* have none, or several, and nothing looks at their ids.
MaterializeBatch ==
    /\ stage = "materialize"
    /\ \E qs \in SeqOf(QuestionsOn(asked), MaxBatch) : Materialized(qs)

\* _materialize_batch raises.
BatchInvalid ==
    /\ stage = "materialize" /\ stage' = "each"
    /\ UNCHANGED <<flags, questions, askVars, criticVars, debateVars>>

\* _materialize_per_decision: a question on each decision whose answer can be
\* read; none at all is a MaterializerError.
MaterializeEach ==
    /\ stage = "each"
    /\ \E n \in 1..Cardinality(asked) :
         \E qs \in [1..n -> QuestionsOn(asked)] :
            /\ IsInjective([i \in 1..n |-> qs[i].source])
            /\ Materialized(qs)

EachInvalid ==
    /\ stage = "each" /\ stage' = "failed"
    /\ UNCHANGED <<flags, questions, askVars, criticVars, debateVars>>

\* legacy.generate_questions: the model classifies, and there is no decision.
LegacyQuestions ==
    /\ stage = "legacy"
    /\ \E qs \in SeqOf([id : Key \X {FALSE}, text : Text, class : Class,
                        source : {None}], MaxBatch) :
          questions' = qs
    /\ stage' = "debate"
    /\ UNCHANGED <<flags, askVars, criticVars, debateVars>>

-----------------------------------------------------------------------------
(* The critic.                                                             *)

CriticEnds == stage' = "coverage" /\ iter' = 0 /\ seen' = {} /\ shown' = {}

\* run: the loop ends at an answer without flags, or that is none at all.
NoFlags ==
    /\ stage = "review" /\ CriticEnds
    /\ UNCHANGED <<flags, questions, askVars, flagged, gone, rewrites, debateVars>>

Review ==
    /\ stage = "review" /\ iter < MaxIter /\ MaxFlags > 0
    /\ stage' = "flags" /\ iter' = iter + 1
    /\ UNCHANGED <<flags, questions, askVars, flagged, gone, rewrites, seen, shown,
                   debateVars>>

Flagging ==
    /\ stage = "flags" /\ flagged < MaxFlags /\ flagged' = flagged + 1
    /\ UNCHANGED <<stage, flags, questions, askVars, iter, shown, debateVars>>

\* A flag that keeps its question, or that _apply_flags ignores.
Keep == Flagging /\ UNCHANGED <<gone, rewrites, seen>>

\* A flag that drops its question, or merges it into another one: that only
\* drops it, too.
Drop ==
    /\ Flagging
    /\ \E i \in Ids(questions) : gone' = gone \union {i}
    /\ UNCHANGED <<rewrites, seen>>

\* What _call_rewrite makes of an answer: a text, or None.
NewTexts == Text \union {None}

\* A flag that asks for a rewrite: no text, or one that was seen before, forces
\* a drop instead.
Rewrite ==
    /\ Flagging
    /\ \E i \in Ids(questions), x \in NewTexts :
         IF x = None \/ x \in seen
         THEN gone' = gone \union {i} /\ UNCHANGED <<rewrites, seen>>
         ELSE /\ rewrites' = [rewrites EXCEPT ![i] = x]
              /\ seen' = seen \union {x} /\ UNCHANGED gone

\* The numbers in K, in their order.
InOrder(K) ==
    CHOOSE f \in [1..Cardinality(K) -> K] :
        \A m, n \in DOMAIN f : m < n => f[m] < f[n]

\* What _apply_flags returns: flags go by the id, whoever has it.
Applied ==
    LET New(q) == IF rewrites[q.id] = None THEN q
                  ELSE [q EXCEPT !.text = rewrites[q.id]]
        place == InOrder({i \in DOMAIN questions : questions[i].id \notin gone})
    IN  [n \in DOMAIN place |-> New(questions[place[n]])]

\* run, once the flags are handled.
Apply ==
    /\ stage = "flags" /\ flagged > 0
    /\ questions' = Applied
    /\ IF Len(Applied) < MinSurviving \/ iter = MaxIter
       THEN CriticEnds
       ELSE /\ stage' = "review" /\ shown' = shown \union Texts(Applied)
            /\ UNCHANGED <<iter, seen>>
    /\ flagged' = 0 /\ gone' = {} /\ rewrites' = NoRewrites
    /\ UNCHANGED <<flags, askVars, debateVars>>

-----------------------------------------------------------------------------
(* The coverage.                                                           *)

Sources(qs) == {q.source : q \in Range(qs)}

\* check_c1_decision_coverage, by the inventory's classification.
Missing == Needed \ Sources(questions)

\* C1 fails for the first time.
Retrigger ==
    /\ stage = "coverage" /\ ~again /\ Missing # {}
    /\ stage' = "materialize" /\ again' = TRUE /\ asked' = Missing
    /\ UNCHANGED <<flags, attempt, questions, criticVars, debateVars>>

\* The coverage is not checked again but for C4, check_c4_question_count.
Covered ==
    /\ stage = "coverage" /\ (again \/ Missing = {})
    /\ stage' = IF Len(questions) < MinCount THEN "failed" ELSE "debate"
    /\ UNCHANGED <<flags, questions, askVars, criticVars, debateVars>>

-----------------------------------------------------------------------------
(* The debate.                                                             *)

First(sets) ==
    IF \E i \in DOMAIN sets : sets[i] # {}
    THEN LET i == CHOOSE i \in DOMAIN sets :
                    sets[i] # {} /\ \A j \in 1..(i - 1) : sets[j] = {}
         IN  sets[i]
    ELSE {}

\* AgentRegistry.pair_suggestion: whom one of its four strategies may find;
\* which of them is a matter of the order in the registry.
PairSuggestions(a, hints) ==
    LET Among(S, D) == {b \in (S \intersect Registered) \ {a} : DomainOf[b] \in D}
        other == Domain \ {DomainOf[a]}
        rest  == hints \ {DomainOf[a]}
    IN  First(<<Among(Partners[a], rest), Among(Partners[a], other),
                Among(Agent, rest), Among(Agent, other)>>)

\* ensure_diverse_pair: an agent the registry does not have is an
\* AgentNotFoundError, no suggestion a PairSuggestionError; both keep the pair.
DiversePairs(a, b, hints) ==
    IF {a, b} \subseteq Registered /\ DomainOf[a] = DomainOf[b]
          /\ PairSuggestions(a, hints) # {}
    THEN {<<a, c>> : c \in PairSuggestions(a, hints)} ELSE {<<a, b>>}

NextQuestion ==
    /\ at' = at + 1 /\ stage' = "debate"
    /\ pair' = <<>> /\ round' = 0 /\ conf' = 0 /\ echoed' = FALSE

\* auto_resolve.
AutoResolve ==
    /\ stage = "debate" /\ at <= Len(questions)
    /\ questions[at].class = "OPTIONAL"
    /\ NextQuestion
    /\ UNCHANGED <<flags, questions, askVars, criticVars, tries>>

\* run_debate: any two agents, and a registry if flags.debate.
BeginQuestion ==
    /\ stage = "debate" /\ at <= Len(questions)
    /\ questions[at].class # "OPTIONAL"
    /\ stage' = "rounds"
    /\ \E a, b \in Agent, hints \in SUBSET Domain :
         pair' \in IF flags.debate THEN DiversePairs(a, b, hints) ELSE {<<a, b>>}
    /\ UNCHANGED <<flags, questions, askVars, criticVars, at, round, tries, conf,
                   echoed>>

\* Seeded fault: off by one.
MustContinueLess ==
    questions[at].class = "REQUIRED" /\ round + 1 < RequiredMin

MustContinue == questions[at].class = "REQUIRED" /\ round < RequiredMin

\* _debate_one leaves its loop.
Settled ==
    /\ round > 0
    /\ round = MaxRounds \/ (~MustContinue /\ conf >= Threshold)

\* A round whose moderator says c, and whose agents are found to echo each
\* other or not; _apply_diversity_penalty.
RoundEnds(c, echo) ==
    /\ round' = round + 1 /\ tries' = 0
    /\ echoed' = (echoed \/ echo)
    /\ conf' = IF echo THEN (c * Penalty) \div 100 ELSE c
    /\ UNCHANGED <<stage, flags, questions, askVars, criticVars, at, pair>>

\* Only after round 1 are the positions compared.
MayEcho == IF round = 0 THEN BOOLEAN ELSE {FALSE}

Round ==
    /\ stage = "rounds" /\ ~Settled
    /\ \E c \in Confidence, echo \in MayEcho : RoundEnds(c, echo)

\* run_moderator: an answer that cannot be parsed, and the last one.
Unparsable ==
    /\ stage = "rounds" /\ ~Settled /\ tries + 1 < MaxTries
    /\ tries' = tries + 1
    /\ UNCHANGED <<stage, flags, questions, askVars, criticVars, at, pair, round,
                   conf, echoed>>

ParseFailed ==
    /\ stage = "rounds" /\ ~Settled /\ tries + 1 = MaxTries
    /\ \E echo \in MayEcho : RoundEnds(0, echo)

Settle ==
    /\ stage = "rounds" /\ Settled
    /\ NextQuestion
    /\ UNCHANGED <<flags, questions, askVars, criticVars, tries>>

\* run_debate_pipeline promotes the report of all results.
Report ==
    /\ stage = "debate" /\ at > Len(questions) /\ stage' = "done"
    /\ UNCHANGED <<flags, questions, askVars, criticVars, debateVars>>

\* complete() raises, or answers the legacy generator with what it cannot
\* read; nothing catches that.
CallFails ==
    /\ stage \in {"inventory", "materialize", "each", "legacy", "review", "flags",
                  "rounds"}
    /\ stage' = "failed"
    /\ UNCHANGED <<flags, questions, askVars, criticVars, debateVars>>

Next ==
    \/ InventoryInvalid \/ Inventory
    \/ MaterializeBatch \/ BatchInvalid \/ MaterializeEach \/ EachInvalid
    \/ LegacyQuestions
    \/ NoFlags \/ Review \/ Keep \/ Drop \/ Rewrite \/ Apply
    \/ Retrigger \/ Covered
    \/ AutoResolve \/ BeginQuestion \/ Round \/ Unparsable \/ ParseFailed
    \/ Settle \/ Report \/ CallFails

Spec == Init /\ [][Next]_vars

-----------------------------------------------------------------------------
(* Properties.                                                             *)

\* critic.py's guard against A -> B -> A: what a round of the critic makes of
\* a question is what the question was, or a text that no earlier round saw,
\* not of this question and not of any other one.
RewritesAreFresh ==
    [][stage = "flags" /\ stage' \in {"review", "coverage"} =>
        \A q \in Range(questions') : q \in Range(questions) \/ q.text \notin shown
      ]_vars

\* run_pipeline: a decision that needs a person and about which nobody is
\* asked in the end was asked for twice; the critic alone loses none.
MissingIsRetried ==
    flags.questions /\ stage \in {"debate", "rounds", "done"} =>
        \A d \in Needed : d \in Sources(questions) \/ (again /\ d \in asked)

\* _debate_one (spec D7): neither one round of a required question nor one of
\* two agents that echo each other settles it, whatever the moderator says of
\* its confidence; and without confidence all rounds are used.
DebatedEnough ==
    [][at' > at /\ questions[at].class # "OPTIONAL" =>
        /\ questions[at].class = "REQUIRED" => round >= RequiredMin
        /\ echoed => round >= 2
        /\ conf < Threshold => round = MaxRounds
      ]_vars
=============================================================================
