------------------------- MODULE DebatePhase_proofs -------------------------
(***************************************************************************)
(* Phase A before Gate 1: proofs for any decisions, questions and agents,  *)
(* any limits of the critic and of DebateConfig that allow two rounds, and *)
(* any answers of the models.  The rounds have an invariant of their own;  *)
(* the rest is the inductive invariant PhaseInv, which follows the         *)
(* questions from the inventory to the debate.                             *)
(***************************************************************************)
EXTENDS DebatePhase, TLAPS, FiniteSetTheorems, WellFoundedInduction

-----------------------------------------------------------------------------
(* The pairs.                                                              *)

\* First finds one of its four sets, or none.
LEMMA FirstOfFour ==
    ASSUME NEW A, NEW B, NEW C, NEW D
    PROVE  First(<<A, B, C, D>>) \in {A, B, C, D, {}}
<1> DEFINE sets == <<A, B, C, D>>
           Found(i) == sets[i] # {} /\ \A j \in 1..(i - 1) : sets[j] = {}
<1>1. DOMAIN sets = 1..4 /\ \A i \in 1..4 : sets[i] \in {A, B, C, D}
  OBVIOUS
<1>2. CASE \A i \in 1..4 : sets[i] = {}
  BY <1>1, <1>2 DEF First
<1>3. CASE \E i \in 1..4 : sets[i] # {}
  <2>1. \E i \in DOMAIN sets : Found(i)
    <3>1. CASE sets[1] # {}
      BY <1>1, <3>1
    <3>2. CASE sets[1] = {} /\ sets[2] # {}
      BY <1>1, <3>2
    <3>3. CASE sets[1] = {} /\ sets[2] = {} /\ sets[3] # {}
      BY <1>1, <3>3
    <3>4. CASE sets[1] = {} /\ sets[2] = {} /\ sets[3] = {} /\ sets[4] # {}
      BY <1>1, <3>4
    <3>5. QED
      BY <1>3, <3>1, <3>2, <3>3, <3>4
  <2> DEFINE i == CHOOSE k \in DOMAIN sets : Found(k)
  <2>2. i \in DOMAIN sets /\ Found(i)
    BY <2>1
  <2>3. First(sets) = sets[i]
    BY <1>1, <1>3 DEF First
  <2>4. QED
    BY <1>1, <2>2, <2>3
<1>4. QED
  BY <1>2, <1>3

\* All that pair_suggestion may find is an agent.
LEMMA SuggestionsAreAgents ==
    ASSUME NEW a \in Agent, NEW hints \in SUBSET Domain
    PROVE  PairSuggestions(a, hints) \subseteq Agent
<1> DEFINE Among(S, D) == {b \in (S \intersect Registered) \ {a} : DomainOf[b] \in D}
           other == Domain \ {DomainOf[a]}
           rest  == hints \ {DomainOf[a]}
<1>1. PairSuggestions(a, hints) =
        First(<<Among(Partners[a], rest), Among(Partners[a], other),
                Among(Agent, rest), Among(Agent, other)>>)
  BY DEF PairSuggestions
<1>2. \A S, D : Among(S, D) \subseteq Agent
  BY DebateAssumption
<1> HIDE DEF Among, other, rest
<1>3. QED
  BY <1>1, <1>2, FirstOfFour

-----------------------------------------------------------------------------
(* The rounds.                                                             *)

\* What agents who echo each other leave behind is no confidence before the
\* second round.
RoundsInv ==
    /\ at \in Nat /\ round \in 0..MaxRounds /\ conf \in 0..100
    /\ echoed => round > 0 /\ (round = 1 => conf < Threshold)

\* An echo can only be found in round 1, and costs it its confidence.
LEMMA RoundKeepsInv ==
    ASSUME RoundsInv, ~Settled, NEW c \in 0..100, NEW echo \in MayEcho,
           RoundEnds(c, echo)
    PROVE  RoundsInv'
<1>1. round < MaxRounds /\ MaxRounds \in Nat
  BY DebateAssumption DEF RoundsInv, Settled
<1>2. (c * Penalty) \div 100 \in 0..70
  BY DEF Penalty
<1>3. round # 0 => echo = FALSE
  BY DEF MayEcho
<1>4. echo \in BOOLEAN
  BY DEF MayEcho
<1>5. CASE echo
  <2>1. conf' \in 0..70 /\ round = 0 /\ round' = 1 /\ at' = at
    BY <1>2, <1>3, <1>5 DEF RoundEnds
  <2>2. echoed' = TRUE
    BY <1>5 DEF RoundEnds
  <2>3. QED
    BY <1>1, <2>1, <2>2 DEF RoundsInv, Threshold
<1>6. CASE ~echo
  <2>1. conf' = c /\ round' = round + 1 /\ at' = at
    BY <1>6 DEF RoundEnds
  <2>2. echoed' => echoed
    BY <1>6 DEF RoundEnds
  <2>3. QED
    BY <1>1, <2>1, <2>2 DEF RoundsInv
<1>7. QED
  BY <1>4, <1>5, <1>6

\* A round adds to what the question has, the next question begins anew.
LEMMA RoundsStep == RoundsInv /\ [Next]_vars => RoundsInv'
<1> SUFFICES ASSUME RoundsInv, [Next]_vars
             PROVE  RoundsInv'
  OBVIOUS
<1>1. CASE Round
  <2>1. \A c \in Confidence : c \in 0..100
    BY DebateAssumption
  <2>2. QED
    BY <1>1, <2>1, RoundKeepsInv DEF Round
<1>2. CASE ParseFailed
  BY <1>2, RoundKeepsInv DEF ParseFailed
<1>3. CASE NextQuestion
  <2>1. MaxRounds \in Nat
    BY DebateAssumption
  <2>2. at' = at + 1 /\ round' = 0 /\ conf' = 0 /\ echoed' = FALSE
    BY <1>3 DEF NextQuestion
  <2>3. QED
    BY <2>1, <2>2 DEF RoundsInv
<1>4. CASE UNCHANGED <<at, round, conf, echoed>>
  BY <1>4 DEF RoundsInv
<1>5. QED
  BY <1>1, <1>2, <1>3, <1>4
  DEF Next, vars, debateVars, InventoryInvalid, Inventory,
      MaterializeBatch, BatchInvalid, MaterializeEach, EachInvalid,
      Materialized, LegacyQuestions, NoFlags, Review, Keep, Drop, Rewrite,
      Flagging, Apply, Retrigger, Covered, AutoResolve, BeginQuestion,
      Unparsable, Settle, Report, CallFails

\* Neither one round of a required question nor one of two agents that echo
\* each other settles it, and without confidence all rounds are used, whatever
\* the moderator says (engine.py, _debate_one).
THEOREM QuestionsAreDebated == Spec => DebatedEnough
<1> DEFINE Enough ==
        at' > at /\ questions[at].class # "OPTIONAL" =>
            /\ questions[at].class = "REQUIRED" => round >= RequiredMin
            /\ echoed => round >= 2
            /\ conf < Threshold => round = MaxRounds
<1>1. Init => RoundsInv
  <2>1. MaxRounds \in Nat
    BY DebateAssumption
  <2>2. QED
    BY <2>1 DEF Init, RoundsInv
<1>2. RoundsInv /\ [Next]_vars => Enough
  <2> SUFFICES ASSUME RoundsInv, [Next]_vars
               PROVE  Enough
    OBVIOUS
  <2>1. CASE AutoResolve
    BY <2>1 DEF AutoResolve
  <2>2. CASE Settle
    <3>1. /\ Settled /\ MaxRounds \in Nat /\ MaxRounds >= 2
          /\ RequiredMin \in 1..MaxRounds
      BY <2>2, DebateAssumption DEF Settle
    <3>2. CASE round = MaxRounds
      BY <3>1, <3>2
    <3>3. CASE ~MustContinue /\ conf >= Threshold /\ round > 0
      BY <3>1, <3>3 DEF MustContinue, RoundsInv, Threshold
    <3>4. QED
      BY <3>1, <3>2, <3>3 DEF Settled
  <2>3. CASE UNCHANGED at
    BY <2>3 DEF RoundsInv
  <2>4. QED
    BY <2>1, <2>2, <2>3
    DEF Next, vars, debateVars, InventoryInvalid, Inventory,
        MaterializeBatch, BatchInvalid, MaterializeEach, EachInvalid,
        Materialized, LegacyQuestions, NoFlags, Review, Keep, Drop, Rewrite,
        Flagging, Apply, Retrigger, Covered, BeginQuestion, Round, RoundEnds,
        Unparsable, ParseFailed, Report, CallFails
<1>3. QED
  BY <1>1, <1>2, RoundsStep, PTL DEF Spec, DebatedEnough

-----------------------------------------------------------------------------
(* The order of the questions that are left.                               *)

\* The functions InOrder chooses from; there is one for any set of numbers.
Ordered(f) == \A m, n \in DOMAIN f : m < n => f[m] < f[n]
Orderable(K) == \E f \in [1..Cardinality(K) -> K] : Ordered(f)

\* A set of numbers up to m can be counted.
LEMMA NumbersAreFinite ==
    ASSUME NEW m \in Nat, NEW K \in SUBSET (1..m)
    PROVE  IsFiniteSet(K) /\ Cardinality(K) \in Nat
<1>1. IsFiniteSet(1..m)
  <2>1. 1 \in Int /\ m \in Int
    OBVIOUS
  <2>2. QED
    BY <2>1, FS_Interval, Zenon
<1>2. IsFiniteSet(K)
  BY <1>1, FS_Subset
<1>3. QED
  BY <1>2, FS_CardinalityType

\* One number that is above the others comes last.
LEMMA OrderAdds ==
    ASSUME NEW m \in Nat, NEW K \in SUBSET (1..m), m \in K,
           Orderable(K \ {m})
    PROVE  Orderable(K)
<1> DEFINE L == K \ {m}
           c == Cardinality(L)
<1>1. IsFiniteSet(K) /\ Cardinality(K) \in Nat
  BY NumbersAreFinite
<1>2. c \in Nat /\ Cardinality(K) = c + 1
  <2>1. L \in SUBSET (1..m)
    OBVIOUS
  <2>2. c \in Nat
    BY <2>1, NumbersAreFinite
  <2>3. c = Cardinality(K) - 1
    BY <1>1, FS_RemoveElement, Zenon
  <2>4. QED
    BY <1>1, <2>2, <2>3
<1>3. PICK f \in [1..c -> L] : Ordered(f)
  BY DEF Orderable
<1> HIDE DEF c
<1> DEFINE g == [n \in 1..(c + 1) |-> IF n = c + 1 THEN m ELSE f[n]]
<1>4. \A n \in 1..c : f[n] \in K /\ f[n] < m
  <2>1. \A k \in L : k \in K /\ k < m
    OBVIOUS
  <2>2. \A n \in 1..c : f[n] \in L
    OBVIOUS
  <2>3. QED
    BY <2>1, <2>2
<1>5. g \in [1..(c + 1) -> K]
  BY <1>2, <1>4
<1>6. Ordered(g)
  <2> SUFFICES ASSUME NEW i \in 1..(c + 1), NEW j \in 1..(c + 1), i < j
               PROVE  g[i] < g[j]
    BY DEF Ordered
  <2>1. i \in 1..c /\ g[i] = f[i]
    BY <1>2
  <2>2. CASE j = c + 1
    BY <1>4, <2>1, <2>2
  <2>3. CASE j # c + 1
    <3>1. j \in 1..c /\ g[j] = f[j]
      BY <1>2, <2>3
    <3>2. f[i] < f[j]
      BY <1>3, <2>1, <3>1 DEF Ordered
    <3>3. QED
      BY <2>1, <3>1, <3>2
  <2>4. QED
    BY <2>2, <2>3
<1>7. QED
  BY <1>2, <1>5, <1>6 DEF Orderable

\* There is no least bound m under which some set has no order.
LEMMA OrderExists ==
    ASSUME NEW m \in Nat, NEW K \in SUBSET (1..m)
    PROVE  Orderable(K)
<1> DEFINE T == {n \in Nat : \E L \in SUBSET (1..n) : ~Orderable(L)}
<1> SUFFICES ASSUME ~Orderable(K) PROVE FALSE
  OBVIOUS
<1>1. T \subseteq Nat /\ T # {}
  OBVIOUS
<1>2. PICK n \in T : \A k \in T : ~(<<k, n>> \in OpToRel(<, Nat))
  BY <1>1, WFMin, NatLessThanWellFounded
<1>3. n \in Nat /\ \A k \in Nat : k < n => k \notin T
  BY <1>2 DEF OpToRel
<1>4. PICK L \in SUBSET (1..n) : ~Orderable(L)
  BY <1>2
<1>5. CASE n = 0
  <2>1. L = {}
    BY <1>4, <1>5
  <2>2. Cardinality(L) = 0
    BY <2>1, FS_EmptySet, Zenon
  <2> DEFINE f == [i \in 1..0 |-> i]
  <2>3. f \in [1..0 -> L] /\ Ordered(f)
    BY DEF Ordered
  <2>4. QED
    BY <1>4, <2>2, <2>3 DEF Orderable
<1>6. CASE n # 0
  <2>1. n - 1 \in Nat /\ n - 1 < n
    BY <1>3, <1>6
  <2>2. n - 1 \notin T
    BY <1>3, <2>1
  <2>3. L \ {n} \in SUBSET (1..(n - 1))
    BY <1>3, <1>4, <2>1
  <2>4. Orderable(L \ {n})
    BY <2>1, <2>2, <2>3
  <2>5. n \in L
    <3>1. n \notin L => L \ {n} = L
      OBVIOUS
    <3>2. QED
      BY <1>4, <2>4, <3>1
  <2>6. QED
    BY <1>3, <1>4, <2>4, <2>5, OrderAdds
<1>7. QED
  BY <1>5, <1>6

\* So InOrder chooses one of them.
LEMMA InOrderOrders ==
    ASSUME NEW m \in Nat, NEW K \in SUBSET (1..m)
    PROVE  InOrder(K) \in [1..Cardinality(K) -> K] /\ Cardinality(K) \in Nat
<1>1. Cardinality(K) \in Nat
  BY NumbersAreFinite
<1>2. Orderable(K)
  BY OrderExists
<1>3. QED
  BY <1>1, <1>2 DEF InOrder, Orderable, Ordered

-----------------------------------------------------------------------------
(* The questions.                                                          *)

\* An id is a key, with or without the suffix.
LEMMA IdsArePairs ==
    /\ \A k \in Key, b \in BOOLEAN : <<k, b>> \in Id
    /\ \A i \in Id : i[1] \in Key
    /\ Key \X {FALSE} \subseteq Id
BY DEF Id

\* The questions the materializer may return are questions.
LEMMA QuestionsOnTyped ==
    ASSUME NEW D \in SUBSET Decision
    PROVE  QuestionsOn(D) \subseteq Question
<1>1. \A d \in D : d \in Decision /\ Derived(d) \in Class
  BY DEF Derived, Class
<1>2. \A d \in D : [id : Key \X {FALSE}, text : Text, class : {Derived(d)},
                    source : {d}] \subseteq Question
  <2>1. Key \X {FALSE} \subseteq Id
    BY IdsArePairs
  <2> DEFINE plain == Key \X {FALSE}
  <2> HIDE DEF plain
  <2>2. \A d \in D : [id : plain, text : Text, class : {Derived(d)},
                      source : {d}] \subseteq Question
    BY <1>1, <2>1 DEF Question, plain
  <2>3. QED
    BY <2>2 DEF plain
<1>3. QED
  BY <1>2 DEF QuestionsOn

\* The answers of at most n elements are sequences.
LEMMA BatchTyped ==
    ASSUME NEW S, NEW n \in Nat, NEW qs \in SeqOf(S, n)
    PROVE  qs \in Seq(S)
BY DEF SeqOf

\* The merge keeps what was there, and of the others all but the id.
LEMMA MergedKeeps ==
    ASSUME NEW qs \in Seq(Question), NEW extra \in Seq(Question)
    PROVE  /\ Merged(qs, extra) \in Seq(Question)
           /\ Range(qs) \subseteq Range(Merged(qs, extra))
           /\ \A q \in Range(Merged(qs, extra)) :
                \/ q \in Range(qs)
                \/ \E r \in Range(extra) : q.text = r.text /\ q.source = r.source
<1> DEFINE New(q) == IF q.id \in Ids(qs) THEN [q EXCEPT !.id = <<@[1], TRUE>>] ELSE q
           more == [i \in DOMAIN extra |-> New(extra[i])]
<1>1. \A q \in Question : New(q) \in Question /\ New(q).text = q.text
                          /\ New(q).source = q.source
  <2> SUFFICES ASSUME NEW q \in Question
               PROVE  New(q) \in Question /\ New(q).text = q.text
                      /\ New(q).source = q.source
    OBVIOUS
  <2>1. q.id \in Id
    BY DEF Question
  <2>2. <<q.id[1], TRUE>> \in Id
    BY <2>1, IdsArePairs
  <2>3. QED
    BY <2>2 DEF Question
<1> HIDE DEF New
<1>2. more \in Seq(Question) /\ Len(more) = Len(extra)
      /\ \A i \in 1..Len(extra) : more[i] = New(extra[i])
  BY <1>1
<1>3. Merged(qs, extra) = qs \o more
  BY DEF Merged, New
<1> HIDE DEF more
<1> DEFINE all == qs \o more
<1>4. /\ all \in Seq(Question)
      /\ Len(all) = Len(qs) + Len(more)
      /\ \A i \in 1..Len(qs) : all[i] = qs[i]
      /\ \A i \in 1..Len(all) : i \notin 1..Len(qs) =>
            i - Len(qs) \in 1..Len(more) /\ all[i] = more[i - Len(qs)]
  BY <1>2
<1> HIDE DEF all
<1>5. Range(qs) \subseteq Range(all)
  BY <1>4 DEF Range
<1>6. \A q \in Range(all) :
         \/ q \in Range(qs)
         \/ \E r \in Range(extra) : q.text = r.text /\ q.source = r.source
  <2> SUFFICES ASSUME NEW q \in Range(all), q \notin Range(qs)
               PROVE  \E r \in Range(extra) : q.text = r.text /\ q.source = r.source
    OBVIOUS
  <2>1. PICK i \in 1..Len(all) : q = all[i]
    BY <1>4 DEF Range
  <2>2. i \notin 1..Len(qs)
    BY <1>4, <2>1 DEF Range
  <2> DEFINE j == i - Len(qs)
  <2>3. j \in 1..Len(extra) /\ q = New(extra[j])
    BY <1>2, <1>4, <2>1, <2>2
  <2>4. extra[j] \in Question /\ extra[j] \in Range(extra)
    BY <2>3 DEF Range
  <2>5. QED
    BY <1>1, <2>3, <2>4
<1>7. QED
  BY <1>3, <1>4, <1>5, <1>6 DEF all

\* What _apply_flags leaves are questions it was given, with their decisions,
\* and with the texts they had or the rewrites that were accepted.
LEMMA AppliedKeeps ==
    ASSUME questions \in Seq(Question), rewrites \in [Id -> Text \union {None}]
    PROVE  /\ Applied \in Seq(Question)
           /\ \A q \in Range(Applied) : \E r \in Range(questions) :
                 /\ q.source = r.source /\ r.id \in Id
                 /\ \/ q = r
                    \/ q.text = rewrites[r.id] /\ rewrites[r.id] # None
<1> DEFINE New(q) == IF rewrites[q.id] = None THEN q
                     ELSE [q EXCEPT !.text = rewrites[q.id]]
           K == {i \in DOMAIN questions : questions[i].id \notin gone}
           place == InOrder(K)
<1>1. Len(questions) \in Nat /\ K \in SUBSET (1..Len(questions))
  OBVIOUS
<1>2. place \in [1..Cardinality(K) -> K] /\ Cardinality(K) \in Nat
  BY <1>1, InOrderOrders
<1>3. Applied = [n \in 1..Cardinality(K) |-> New(questions[place[n]])]
  BY <1>2 DEF Applied
<1>4. \A q \in Question :
         /\ New(q) \in Question /\ New(q).source = q.source /\ q.id \in Id
         /\ New(q) = q \/ (New(q).text = rewrites[q.id] /\ rewrites[q.id] # None)
  BY DEF Question
<1> HIDE DEF New, place
<1>5. \A n \in 1..Cardinality(K) :
         questions[place[n]] \in Question /\ questions[place[n]] \in Range(questions)
  BY <1>1, <1>2 DEF Range
<1> HIDE DEF K
<1>6. Applied \in Seq(Question)
  BY <1>2, <1>3, <1>4, <1>5
<1>7. ASSUME NEW q \in Range(Applied)
      PROVE  \E r \in Range(questions) :
                 /\ q.source = r.source /\ r.id \in Id
                 /\ \/ q = r
                    \/ q.text = rewrites[r.id] /\ rewrites[r.id] # None
  <2>1. PICK n \in 1..Cardinality(K) : q = New(questions[place[n]])
    BY <1>3, <1>7 DEF Range
  <2>2. QED
    BY <1>4, <1>5, <2>1
<1>8. QED
  BY <1>6, <1>7

\* What the process asks for, and in which of its stages.
AskInv ==
    /\ stage \in Stage /\ flags \in [questions : BOOLEAN, debate : BOOLEAN]
    /\ asked \subseteq Decision /\ again \in BOOLEAN /\ attempt \in 0..1
    /\ again => stage \notin {"inventory", "review", "flags", "legacy"}
    /\ flags.questions => stage # "legacy"
    /\ ~flags.questions => stage \in {"legacy", "debate", "rounds", "done", "failed"}

\* Until the first answer there are no questions, and without the inventory
\* they are on no decision.
QuestionsInv ==
    /\ questions \in Seq(Question)
    /\ ~again /\ stage \in {"inventory", "materialize", "each", "legacy"} =>
          questions = <<>>
    /\ ~flags.questions => \A q \in Range(questions) : q.source = None

\* The stages follow each other; the critic is never asked about a retrigger.
LEMMA AskStep ==
    ASSUME AskInv, [Next]_vars
    PROVE  AskInv'
<1>1. Missing \subseteq Decision
  BY DebateAssumption DEF Missing
<1>2. CASE Retrigger
  BY <1>1, <1>2 DEF Retrigger, AskInv, Stage
<1>3. CASE Inventory
  BY <1>3 DEF Inventory, AskInv, Stage
<1>4. CASE InventoryInvalid
  BY <1>4 DEF InventoryInvalid, AskInv, Stage
<1>5. CASE MaterializeBatch
  BY <1>5 DEF MaterializeBatch, Materialized, AskInv, Stage, askVars
<1>6. CASE MaterializeEach
  BY <1>6 DEF MaterializeEach, Materialized, AskInv, Stage, askVars
<1>7. CASE LegacyQuestions \/ BatchInvalid \/ EachInvalid
  BY <1>7 DEF LegacyQuestions, BatchInvalid, EachInvalid, AskInv, Stage, askVars
<1>8. CASE NoFlags \/ Review \/ Apply
  BY <1>8 DEF NoFlags, CriticEnds, Review, Apply, AskInv, Stage, askVars
<1>9. CASE Covered \/ AutoResolve \/ BeginQuestion \/ Settle \/ Report \/ CallFails
  BY <1>9 DEF Covered, AutoResolve, BeginQuestion, Settle, NextQuestion, Report,
     CallFails, AskInv, Stage, askVars
<1>10. CASE UNCHANGED <<stage, flags, askVars>>
  BY <1>10 DEF AskInv, askVars
<1>11. QED
  BY <1>2, <1>3, <1>4, <1>5, <1>6, <1>7, <1>8, <1>9, <1>10
  DEF Next, vars, Keep, Drop, Rewrite, Flagging, Round, RoundEnds, Unparsable,
      ParseFailed

\* What a call of the materializer makes of the questions.
LEMMA MaterializedQuestions ==
    ASSUME AskInv, QuestionsInv, NEW qs \in Seq(Question), Materialized(qs),
           flags.questions
    PROVE  QuestionsInv'
BY MergedKeeps DEF Materialized, QuestionsInv, askVars, AskInv

\* Both of its answers are questions on decisions.
LEMMA MaterializedAnswers ==
    ASSUME AskInv, MaterializeBatch \/ MaterializeEach
    PROVE  \E qs \in Seq(Question) : Materialized(qs) /\ flags.questions
<1>1. flags.questions
  BY DEF AskInv, MaterializeBatch, MaterializeEach
<1>2. QuestionsOn(asked) \subseteq Question
  BY QuestionsOnTyped DEF AskInv
<1>3. CASE MaterializeBatch
  <2>1. PICK qs \in SeqOf(QuestionsOn(asked), MaxBatch) : Materialized(qs)
    BY <1>3 DEF MaterializeBatch
  <2>2. MaxBatch \in Nat
    BY DebateAssumption
  <2>3. qs \in Seq(QuestionsOn(asked))
    BY <2>1, <2>2, BatchTyped
  <2>4. QED
    BY <1>1, <1>2, <2>1, <2>3
<1>4. CASE MaterializeEach
  <2>1. PICK n \in 1..Cardinality(asked) :
          \E qs \in [1..n -> QuestionsOn(asked)] : Materialized(qs)
    BY <1>4 DEF MaterializeEach
  <2>2. n \in Nat
    <3>1. IsFiniteSet(asked) /\ Cardinality(asked) \in Nat
      <4>1. IsFiniteSet(Decision) /\ asked \in SUBSET Decision
        BY DebateAssumption DEF AskInv
      <4>2. IsFiniteSet(asked)
        BY <4>1, FS_Subset
      <4>3. QED
        BY <4>2, FS_CardinalityType
    <3>2. QED
      BY <3>1
  <2>3. PICK qs \in [1..n -> QuestionsOn(asked)] : Materialized(qs)
    BY <2>1
  <2>4. qs \in Seq(QuestionsOn(asked))
    BY <2>2
  <2>5. QED
    BY <1>1, <1>2, <2>3, <2>4
<1>5. QED
  BY <1>3, <1>4

\* What the critic was shown and has seen: its rewrites are none of it.
CriticInv ==
    /\ iter \in 0..MaxIter /\ flagged \in 0..MaxFlags /\ gone \subseteq Id
    /\ rewrites \in [Id -> Text \union {None}]
    /\ seen \subseteq Text /\ shown \subseteq seen
    /\ stage \in {"review", "flags"} => Texts(questions) \subseteq shown
    /\ \A i \in Id : rewrites[i] # None => rewrites[i] \in seen \ shown
    /\ stage \notin {"flags", "failed"} => rewrites = NoRewrites

\* No step of the phase makes of the questions what is none.
LEMMA QuestionsStep ==
    ASSUME AskInv, QuestionsInv, CriticInv, [Next]_vars
    PROVE  QuestionsInv'
<1>1. CASE MaterializeBatch \/ MaterializeEach
  BY <1>1, MaterializedAnswers, MaterializedQuestions
<1>2. CASE LegacyQuestions
  <2> DEFINE S == [id : Key \X {FALSE}, text : Text, class : Class,
                   source : {None}]
  <2>1. PICK qs \in SeqOf(S, MaxBatch) : questions' = qs
    BY <1>2 DEF LegacyQuestions
  <2>2. MaxBatch \in Nat
    BY DebateAssumption
  <2>3. questions' \in Seq(S)
    BY <2>1, <2>2, BatchTyped
  <2>4. S \subseteq Question
    <3> DEFINE plain == Key \X {FALSE}
    <3>1. plain \subseteq Id
      BY IdsArePairs
    <3> HIDE DEF plain
    <3>2. [id : plain, text : Text, class : Class, source : {None}]
            \subseteq Question
      BY <3>1 DEF Question
    <3>3. QED
      BY <3>2 DEF plain
  <2>5. \A s \in S : s.source = None
    OBVIOUS
  <2> HIDE DEF S
  <2>6. questions' \in Seq(Question) /\ \A q \in Range(questions') : q.source = None
    BY <2>3, <2>4, <2>5 DEF Range
  <2>7. stage' = "debate"
    BY <1>2 DEF LegacyQuestions
  <2>8. QED
    BY <2>6, <2>7 DEF QuestionsInv
<1>3. CASE Apply
  <2>1. questions' = Applied /\ questions' \in Seq(Question)
    BY <1>3, AppliedKeeps DEF Apply, QuestionsInv, CriticInv
  <2>2. flags' = flags /\ flags.questions
    BY <1>3 DEF Apply, AskInv
  <2>3. stage' \in {"review", "coverage"}
    BY <1>3 DEF Apply, CriticEnds
  <2>4. QED
    BY <2>1, <2>2, <2>3 DEF QuestionsInv
<1>4. CASE UNCHANGED <<questions, flags>> /\
           (stage' \in {"inventory", "materialize", "each", "legacy"} /\ ~again' =>
              stage \in {"inventory", "materialize", "each", "legacy"} /\ ~again)
  BY <1>4 DEF QuestionsInv
<1>5. QED
  BY <1>1, <1>2, <1>3, <1>4
  DEF Next, vars, askVars, InventoryInvalid, Inventory, BatchInvalid, EachInvalid,
      NoFlags, CriticEnds, Review, Keep, Drop, Rewrite, Flagging, Retrigger,
      Covered, AutoResolve, BeginQuestion, NextQuestion, Round, RoundEnds,
      Unparsable, ParseFailed, Settle, Report, CallFails, AskInv

-----------------------------------------------------------------------------
(* The critic.                                                             *)

\* The texts and the ids of questions.
LEMMA QuestionParts ==
    ASSUME NEW qs \in Seq(Question)
    PROVE  Texts(qs) \subseteq Text /\ Ids(qs) \subseteq Id
<1>1. \A i \in DOMAIN qs : qs[i] \in Question
  OBVIOUS
<1>2. Range(qs) \subseteq Question
  BY <1>1 DEF Range
<1>3. \A q \in Question : q.text \in Text /\ q.id \in Id
  BY DEF Question
<1>4. QED
  BY <1>2, <1>3 DEF Texts, Ids

\* The critic begins with what it is shown, and all of that is seen.
LEMMA CriticBegins ==
    ASSUME CriticInv, QuestionsInv, AskInv, MaterializeBatch \/ MaterializeEach
    PROVE  CriticInv'
<1>1. PICK qs \in Seq(Question) : Materialized(qs) /\ flags.questions
  BY MaterializedAnswers
<1>2. stage \in {"materialize", "each"}
  BY DEF MaterializeBatch, MaterializeEach
<1>3. seen' = (IF stage' = "review" THEN Texts(qs) ELSE {}) /\ shown' = seen'
      /\ UNCHANGED <<iter, flagged, gone, rewrites>>
      /\ questions' = Merged(questions, qs)
      /\ stage' = IF again \/ qs = <<>> THEN "coverage" ELSE "review"
  BY <1>1 DEF Materialized
<1>4. seen' \subseteq Text
  BY <1>3, QuestionParts
<1>5. rewrites = NoRewrites
  BY <1>2 DEF CriticInv
<1>6. stage' = "review" => Texts(questions') \subseteq shown'
  <2>1. SUFFICES ASSUME stage' = "review" PROVE Texts(questions') \subseteq shown'
    OBVIOUS
  <2>2. questions = <<>>
    BY <1>2, <1>3, <2>1 DEF QuestionsInv, AskInv
  <2>3. Range(questions) = {}
    BY <2>2 DEF Range
  <2>4. \A q \in Range(questions') : \E r \in Range(qs) : q.text = r.text
    <3>1. questions \in Seq(Question)
      BY DEF QuestionsInv
    <3>2. \A q \in Range(Merged(questions, qs)) :
             \/ q \in Range(questions)
             \/ \E r \in Range(qs) : q.text = r.text
      BY <3>1, MergedKeeps
    <3>3. QED
      BY <1>3, <2>3, <3>2
  <2>5. QED
    BY <1>3, <2>1, <2>4 DEF Texts
<1>7. stage' \notin {"flags", "failed"} /\ stage' \in {"coverage", "review"}
  BY <1>3
<1>8. \A i \in Id : rewrites'[i] = None
  BY <1>3, <1>5 DEF NoRewrites
<1>9. QED
  BY <1>3, <1>4, <1>5, <1>6, <1>7, <1>8 DEF CriticInv

\* A text that is written is new, and seen from then on.
LEMMA CriticRewrites ==
    ASSUME CriticInv, QuestionsInv, Rewrite
    PROVE  CriticInv'
<1>1. flagged' \in 0..MaxFlags
  <2>1. MaxFlags \in Nat
    BY DebateAssumption
  <2>2. QED
    BY <2>1 DEF Rewrite, Flagging, CriticInv
<1>2. stage = "flags" /\ UNCHANGED <<stage, questions, iter, shown>>
  BY DEF Rewrite, Flagging
<1>3. PICK i \in Ids(questions), x \in NewTexts :
         IF x = None \/ x \in seen
         THEN gone' = gone \union {i} /\ UNCHANGED <<rewrites, seen>>
         ELSE /\ rewrites' = [rewrites EXCEPT ![i] = x]
              /\ seen' = seen \union {x} /\ UNCHANGED gone
  BY DEF Rewrite
<1>4. i \in Id
  BY QuestionParts DEF QuestionsInv
<1>5. CASE x = None \/ x \in seen
  BY <1>1, <1>2, <1>3, <1>4, <1>5 DEF CriticInv
<1>6. CASE ~(x = None \/ x \in seen)
  <2>1. x \in Text
    BY <1>6 DEF NewTexts
  <2>2. rewrites' = [rewrites EXCEPT ![i] = x] /\ seen' = seen \union {x}
        /\ gone' = gone
    BY <1>3, <1>6
  <2>3. rewrites' \in [Id -> Text \union {None}]
    BY <2>1, <2>2 DEF CriticInv
  <2>4. \A j \in Id : rewrites'[j] # None => rewrites'[j] \in seen' \ shown'
    BY <1>2, <1>4, <1>6, <2>2 DEF CriticInv
  <2>5. QED
    BY <1>1, <1>2, <2>1, <2>2, <2>3, <2>4 DEF CriticInv
<1>7. QED
  BY <1>5, <1>6

\* What the critic returns is what it was shown, or a new text.
LEMMA AppliedTexts ==
    ASSUME CriticInv, QuestionsInv, NEW q \in Range(Applied)
    PROVE  (q \in Range(questions) \/ q.text \in seen \ shown)
<1>1. PICK r \in Range(questions) :
         /\ q.source = r.source /\ r.id \in Id
         /\ \/ q = r
            \/ q.text = rewrites[r.id] /\ rewrites[r.id] # None
  BY AppliedKeeps DEF CriticInv, QuestionsInv
<1>2. QED
  BY <1>1 DEF CriticInv

\* What is left after a round is shown in the next one.
LEMMA CriticApplies ==
    ASSUME CriticInv, QuestionsInv, Apply
    PROVE  CriticInv'
<1>1. questions' = Applied /\ flagged' = 0 /\ gone' = {} /\ rewrites' = NoRewrites
      /\ stage = "flags"
  BY DEF Apply
<1>2. NoRewrites \in [Id -> Text \union {None}] /\ \A i \in Id : NoRewrites[i] = None
  BY DEF NoRewrites
<1>3. 0 \in 0..MaxFlags /\ 0 \in 0..MaxIter
  BY DebateAssumption
<1>4. CASE CriticEnds
  BY <1>1, <1>2, <1>3, <1>4 DEF CriticEnds, CriticInv
<1>5. CASE stage' = "review" /\ shown' = shown \union Texts(Applied)
           /\ UNCHANGED <<iter, seen>>
  <2>1. \A q \in Range(Applied) : q.text \in seen
    BY <1>1, AppliedTexts DEF CriticInv, Texts
  <2>2. Texts(Applied) \subseteq seen
    BY <2>1 DEF Texts
  <2>3. Texts(questions') = Texts(Applied)
    BY <1>1
  <2>4. QED
    BY <1>1, <1>2, <1>3, <1>5, <2>2, <2>3 DEF CriticInv
<1>6. QED
  BY <1>4, <1>5 DEF Apply

\* The steps of the critic, and of all others, which leave it alone.
LEMMA CriticStep ==
    ASSUME AskInv, QuestionsInv, CriticInv, [Next]_vars
    PROVE  CriticInv'
<1>1. CASE MaterializeBatch \/ MaterializeEach
  BY <1>1, CriticBegins
<1>2. CASE Rewrite
  BY <1>2, CriticRewrites
<1>3. CASE Apply
  BY <1>3, CriticApplies
<1>4. MaxIter \in Nat /\ MaxFlags \in Nat
  BY DebateAssumption
<1>5. CASE NoFlags
  <2>1. rewrites = NoRewrites /\ \A i \in Id : NoRewrites[i] = None
    BY <1>5 DEF NoFlags, CriticInv, NoRewrites
  <2>2. stage' = "coverage" /\ iter' = 0 /\ seen' = {} /\ shown' = {}
        /\ UNCHANGED <<flagged, gone, rewrites>>
    BY <1>5 DEF NoFlags, CriticEnds
  <2>3. QED
    BY <1>4, <2>1, <2>2 DEF CriticInv
<1>6. CASE Review
  <2>1. iter' \in 0..MaxIter
    BY <1>4, <1>6 DEF Review, CriticInv
  <2>2. Texts(questions') = Texts(questions)
    BY <1>6 DEF Review
  <2>3. QED
    BY <1>6, <2>1, <2>2 DEF Review, CriticInv
<1>7. CASE Keep \/ Drop
  <2>1. flagged' \in 0..MaxFlags /\ UNCHANGED <<stage, questions, iter, shown, rewrites, seen>>
    BY <1>4, <1>7 DEF Keep, Drop, Flagging, CriticInv
  <2>2. gone' \subseteq Id
    <3>1. Ids(questions) \subseteq Id
      BY QuestionParts DEF QuestionsInv
    <3>2. QED
      BY <1>7, <3>1 DEF Keep, Drop, CriticInv
  <2>3. QED
    BY <2>1, <2>2 DEF CriticInv
<1>8. CASE UNCHANGED criticVars /\ stage' \notin {"review", "flags"}
           /\ (stage' # "failed" => stage \notin {"flags", "failed"})
  BY <1>8 DEF CriticInv, criticVars
<1>9. CASE UNCHANGED <<criticVars, questions, stage>>
  BY <1>9 DEF CriticInv, criticVars
<1>10. QED
  BY <1>1, <1>2, <1>3, <1>5, <1>6, <1>7, <1>8, <1>9
  DEF Next, vars, InventoryInvalid, Inventory, BatchInvalid, EachInvalid,
      LegacyQuestions, Retrigger,
      Covered, AutoResolve, BeginQuestion, NextQuestion, Round, RoundEnds,
      Unparsable, ParseFailed, Settle, Report, CallFails

-----------------------------------------------------------------------------
(* The coverage.                                                           *)

\* A decision that nobody is asked about was asked for, or the coverage has
\* still to look at it.
AskedInv ==
    /\ again => \A d \in Needed : d \in Sources(questions) \/ d \in asked
    /\ flags.questions /\ stage \in {"debate", "rounds", "done"} /\ ~again =>
          Needed \subseteq Sources(questions)

\* The retrigger asks for all that is missing, the merge loses none of it.
LEMMA AskedStep ==
    ASSUME AskInv, QuestionsInv, AskedInv, [Next]_vars
    PROVE  AskedInv'
<1>1. CASE MaterializeBatch \/ MaterializeEach
  <2>1. PICK qs \in Seq(Question) : Materialized(qs) /\ flags.questions
    BY <1>1, MaterializedAnswers
  <2>2. questions' = Merged(questions, qs) /\ again' = again /\ asked' = asked
        /\ stage' \in {"coverage", "review"}
    BY <2>1 DEF Materialized, askVars
  <2>3. Range(questions) \subseteq Range(Merged(questions, qs))
    BY MergedKeeps DEF QuestionsInv
  <2>4. Sources(questions) \subseteq Sources(questions')
    BY <2>2, <2>3 DEF Sources
  <2>5. QED
    BY <2>2, <2>4 DEF AskedInv
<1>2. CASE Retrigger
  <2>1. \A d \in Needed : d \in Sources(questions') \/ d \in asked'
    BY <1>2 DEF Retrigger, Missing
  <2>2. stage' = "materialize"
    BY <1>2 DEF Retrigger
  <2>3. QED
    BY <2>1, <2>2 DEF AskedInv
<1>3. CASE Covered
  <2>1. ~again => Needed \subseteq Sources(questions)
    BY <1>3 DEF Covered, Missing
  <2>2. UNCHANGED <<flags, questions, again, asked>>
    BY <1>3 DEF Covered, askVars
  <2>3. QED
    BY <2>1, <2>2 DEF AskedInv
<1>4. CASE LegacyQuestions
  BY <1>4 DEF LegacyQuestions, AskedInv, AskInv, askVars
<1>5. CASE Apply
  BY <1>5 DEF Apply, CriticEnds, AskedInv, AskInv, askVars
<1>6. CASE UNCHANGED <<flags, again, asked, questions>>
           /\ (stage' \in {"debate", "rounds", "done"} =>
                 stage \in {"debate", "rounds", "done"})
  BY <1>6 DEF AskedInv
<1>7. CASE Inventory
  BY <1>7 DEF Inventory, AskedInv, AskInv
<1>8. QED
  BY <1>1, <1>2, <1>3, <1>4, <1>5, <1>6, <1>7
  DEF Next, vars, askVars, InventoryInvalid, BatchInvalid, EachInvalid,
      NoFlags, CriticEnds, Review, Keep, Drop, Rewrite, Flagging,
      AutoResolve, BeginQuestion, NextQuestion, Round, RoundEnds,
      Unparsable, ParseFailed, Settle, Report, CallFails

-----------------------------------------------------------------------------
(* The debate.                                                             *)

\* The question that is debated, and the two who debate it.
DebateInv ==
    /\ at \in 1..(Len(questions) + 1) /\ pair \in Seq(Agent)
    /\ tries \in 0..(MaxTries - 1) /\ echoed \in BOOLEAN
    /\ stage \in {"inventory", "materialize", "each", "legacy", "review", "flags",
                  "coverage"} => at = 1
    /\ stage = "rounds" =>
          at <= Len(questions) /\ Len(pair) = 2 /\ questions[at].class # "OPTIONAL"

\* A pair is two agents.
LEMMA DiversePairsAreTwo ==
    ASSUME NEW a \in Agent, NEW b \in Agent, NEW hints \in SUBSET Domain,
           NEW p \in DiversePairs(a, b, hints) \union {<<a, b>>}
    PROVE  p \in Seq(Agent) /\ Len(p) = 2
<1>1. p = <<a, b>> \/ \E c \in PairSuggestions(a, hints) : p = <<a, c>>
  BY DEF DiversePairs
<1>2. \A c \in PairSuggestions(a, hints) : c \in Agent
  BY SuggestionsAreAgents
<1>3. \A c \in Agent : <<a, c>> \in Seq(Agent) /\ Len(<<a, c>>) = 2
  OBVIOUS
<1>4. QED
  BY <1>1, <1>2, <1>3

\* Before the debate the questions may change; a step to the next question
\* is one past the question that was debated.
LEMMA DebateMoves ==
    ASSUME QuestionsInv, DebateInv, at <= Len(questions), NextQuestion,
           UNCHANGED <<questions, tries>>
    PROVE  DebateInv'
<1>1. Len(questions) \in Nat
  BY DEF QuestionsInv
<1>2. at' \in 1..(Len(questions') + 1)
  BY <1>1 DEF DebateInv, NextQuestion
<1>3. <<>> \in Seq(Agent)
  OBVIOUS
<1>4. pair' = <<>> /\ echoed' \in BOOLEAN /\ stage' = "debate" /\ tries' = tries
  BY DEF NextQuestion
<1>5. QED
  BY <1>2, <1>3, <1>4 DEF DebateInv

\* There is at least one attempt.
LEMMA TriesTyped == MaxTries \in Nat /\ MaxTries >= 1
BY DebateAssumption

\* The debate stays within the questions, which do not change any more.
LEMMA DebateStep ==
    ASSUME QuestionsInv, QuestionsInv', DebateInv, [Next]_vars
    PROVE  DebateInv'
<1>1. Len(questions) \in Nat /\ Len(questions') \in Nat
  BY DEF QuestionsInv
<1>2. CASE AutoResolve
  BY <1>2, DebateMoves DEF AutoResolve
<1>3. CASE Settle
  BY <1>3, DebateMoves DEF Settle, DebateInv
<1>4. CASE BeginQuestion
  <2>1. PICK a \in Agent, b \in Agent, hints \in SUBSET Domain :
           pair' \in IF flags.debate THEN DiversePairs(a, b, hints) ELSE {<<a, b>>}
    BY <1>4 DEF BeginQuestion
  <2>2. pair' \in Seq(Agent) /\ Len(pair') = 2
    BY <2>1, DiversePairsAreTwo
  <2>3. QED
    BY <1>4, <2>2 DEF BeginQuestion, DebateInv
<1>5. CASE Unparsable
  <2>1. tries' \in 0..(MaxTries - 1)
    BY <1>5, TriesTyped DEF Unparsable, DebateInv
  <2>2. QED
    BY <1>5, <2>1 DEF Unparsable, DebateInv
<1>6. ASSUME NEW c, NEW echo \in MayEcho, RoundEnds(c, echo)
      PROVE  DebateInv'
  <2>1. tries' \in 0..(MaxTries - 1)
    BY <1>6, TriesTyped DEF RoundEnds
  <2>2. echoed' \in BOOLEAN
    <3>1. echo \in BOOLEAN
      BY DEF MayEcho
    <3>2. QED
      BY <1>6, <3>1 DEF RoundEnds
  <2>3. UNCHANGED <<stage, questions, at, pair>>
    BY <1>6 DEF RoundEnds
  <2>4. QED
    BY <2>1, <2>2, <2>3 DEF DebateInv
<1>7. CASE UNCHANGED debateVars /\
           stage \in {"inventory", "materialize", "each", "legacy", "review",
                      "flags", "coverage"} /\ stage' # "rounds"
  <2>1. at' = 1
    BY <1>7 DEF DebateInv, debateVars
  <2>2. at' \in 1..(Len(questions') + 1)
    BY <1>1, <2>1
  <2>3. UNCHANGED <<pair, tries, echoed>>
    BY <1>7 DEF debateVars
  <2>4. QED
    BY <1>7, <2>1, <2>2, <2>3 DEF DebateInv
<1>8. CASE UNCHANGED <<debateVars, questions>> /\
           (stage' = stage \/ stage' \in {"done", "failed"})
  BY <1>8 DEF DebateInv, debateVars
<1>9. CASE Round
  BY <1>6, <1>9 DEF Round
<1>10. CASE ParseFailed
  BY <1>6, <1>10 DEF ParseFailed
<1>11. QED
  BY <1>2, <1>3, <1>4, <1>5, <1>7, <1>8, <1>9, <1>10
  DEF Next, vars, InventoryInvalid, Inventory, MaterializeBatch, BatchInvalid,
      MaterializeEach, Materialized, EachInvalid, LegacyQuestions, NoFlags,
      CriticEnds, Review, Keep, Drop, Rewrite, Flagging, Apply, Retrigger,
      Covered, Report, CallFails

-----------------------------------------------------------------------------
(* The phase.                                                              *)

PhaseInv ==
    AskInv /\ QuestionsInv /\ CriticInv /\ AskedInv /\ DebateInv /\ RoundsInv

\* The phase begins without questions.
LEMMA PhaseInit == Init => PhaseInv
<1> SUFFICES ASSUME Init PROVE PhaseInv
  OBVIOUS
<1>1. AskInv
  <2>1. flags \in [questions : BOOLEAN, debate : BOOLEAN]
        /\ asked = {} /\ again = FALSE /\ attempt \in 0..1
    BY DEF Init
  <2>2. CASE flags.questions
    <3>1. stage = "inventory"
      BY <2>2 DEF Init
    <3>2. QED
      BY <2>1, <2>2, <3>1 DEF AskInv, Stage
  <2>3. CASE ~flags.questions
    <3>1. stage = "legacy"
      BY <2>3 DEF Init
    <3>2. QED
      BY <2>1, <2>3, <3>1 DEF AskInv, Stage
  <2>4. QED
    BY <2>2, <2>3
<1>2. questions = <<>> /\ Range(questions) = {} /\ questions \in Seq(Question)
  BY DEF Init, Range
<1>3. QuestionsInv
  BY <1>2 DEF QuestionsInv
<1>4. CriticInv
  <2>1. 0 \in 0..MaxIter /\ 0 \in 0..MaxFlags
    BY DebateAssumption
  <2>2. NoRewrites \in [Id -> Text \union {None}] /\ \A i \in Id : NoRewrites[i] = None
    BY DEF NoRewrites
  <2>3. stage \notin {"review", "flags"}
    BY DEF Init
  <2>4. QED
    BY <2>1, <2>2, <2>3 DEF Init, CriticInv
<1>5. AskedInv
  BY DEF Init, AskedInv
<1>6. DebateInv
  <2>1. 0 \in 0..(MaxTries - 1)
    BY TriesTyped
  <2>2. 1 \in 1..(Len(questions) + 1)
    BY <1>2
  <2>3. stage # "rounds" /\ at = 1 /\ pair = <<>> /\ tries = 0 /\ echoed = FALSE
    BY DEF Init
  <2>4. <<>> \in Seq(Agent)
    OBVIOUS
  <2>5. QED
    BY <2>1, <2>2, <2>3, <2>4 DEF DebateInv
<1>7. RoundsInv
  <2>1. MaxRounds \in Nat
    BY DebateAssumption
  <2>2. QED
    BY <2>1 DEF Init, RoundsInv
<1>8. QED
  BY <1>1, <1>3, <1>4, <1>5, <1>6, <1>7 DEF PhaseInv

\* What the phase keeps in all its steps.
THEOREM Invariance == Spec => []PhaseInv
<1>1. PhaseInv /\ [Next]_vars => PhaseInv'
  <2> SUFFICES ASSUME PhaseInv, [Next]_vars PROVE PhaseInv'
    OBVIOUS
  <2>1. AskInv' /\ CriticInv'
    BY AskStep, CriticStep DEF PhaseInv
  <2>2. QuestionsInv'
    BY QuestionsStep DEF PhaseInv
  <2>3. AskedInv' /\ RoundsInv'
    BY AskedStep, RoundsStep DEF PhaseInv
  <2>4. DebateInv'
    BY <2>2, DebateStep DEF PhaseInv
  <2>5. QED
    BY <2>1, <2>2, <2>3, <2>4 DEF PhaseInv
<1>2. QED
  BY <1>1, PhaseInit, PTL DEF Spec

\* The types of the phase's variables, with the two agents and the class of
\* the question that is debated.
THEOREM TypeCorrect == Spec => []TypeOK
<1>1. PhaseInv => TypeOK
  BY DEF PhaseInv, AskInv, QuestionsInv, CriticInv, DebateInv, RoundsInv, TypeOK
<1>2. QED
  BY <1>1, Invariance, PTL

\* A decision that needs a person and about which nobody is asked in the end
\* was asked for twice (pipeline.py, run_pipeline).
THEOREM MissingRetried == Spec => []MissingIsRetried
<1>1. PhaseInv => MissingIsRetried
  BY DEF PhaseInv, AskedInv, MissingIsRetried
<1>2. QED
  BY <1>1, Invariance, PTL

\* What a round of the critic makes of a question is what the question was,
\* or a text that no earlier round saw (critic.py, run).
THEOREM FreshRewrites == Spec => RewritesAreFresh
<1> DEFINE Fresh == stage = "flags" /\ stage' \in {"review", "coverage"} =>
        \A q \in Range(questions') : q \in Range(questions) \/ q.text \notin shown
<1>1. PhaseInv /\ [Next]_vars => Fresh
  <2> SUFFICES ASSUME PhaseInv, [Next]_vars, stage = "flags", 
                      stage' \in {"review", "coverage"},
                      NEW q \in Range(questions')
               PROVE  q \in Range(questions) \/ q.text \notin shown
    OBVIOUS
  <2>1. Apply
    BY DEF Next, vars, askVars, InventoryInvalid, Inventory, MaterializeBatch,
       BatchInvalid, MaterializeEach, EachInvalid, LegacyQuestions, NoFlags,
       Review, Keep, Drop, Rewrite, Flagging, Retrigger, Covered, AutoResolve,
       BeginQuestion, Round, Unparsable, ParseFailed, Settle, Report, CallFails
  <2>2. q \in Range(Applied)
    BY <2>1 DEF Apply
  <2>3. QED
    BY <2>2, AppliedTexts DEF PhaseInv
<1>2. QED
  BY <1>1, Invariance, PTL DEF Spec, RewritesAreFresh
=============================================================================
