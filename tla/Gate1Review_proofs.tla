------------------------- MODULE Gate1Review_proofs -------------------------
(***************************************************************************)
(* Gate 1 for any number of questions, tabs, requests and crashes: what is *)
(* recorded was chosen or agreed to, although sessions overwrite each      *)
(* other, and is recorded once, although nobody looks at the status.  With *)
(* this, what the record's readers see of it is a ReviewRecord.            *)
(***************************************************************************)
EXTENDS Gate1Review, TLAPS

Finalizing == {"begin", "promote", "commit"}
Writing    == {"promote", "commit"}

\* Every choice in s was somebody's, and what is approved as a whole was
\* agreed to: of what is loaded, kept in memory, or saved over another's.
Sound(s, ch, ag) ==
    /\ \A q \in Question : s.resolved[q] # None => <<q, s.resolved[q]>> \in ch
    /\ s.all => ag = Question

\* The same, with nothing left open.
Settled(s, ch, ag) ==
    \A q \in Question : IF s.resolved[q] = None
                        THEN q \in ag ELSE <<q, s.resolved[q]>> \in ch

MindsAreSound ==
    /\ Sound(session, chosen, agreed)
    /\ \A a \in Actor : Sound(mem[a], chosen, agreed)
    /\ \A w \in Tab, q \in Question :
          page[w][q] # None => <<q, page[w][q]>> \in chosen
    /\ \A a \in Actor :
          pc[a] \in Finalizing => Settled(mem[a], chosen, agreed)

\* Only allowed fields are edited, in memory too.
EditsAllowed ==
    \A a \in Actor : mem[a].edits \subseteq {"scope_in"}

\* Of AnswersAreChosen, what does not tell the forced questions apart.
AnswersAreBacked ==
    Approved =>
        \A q \in Question : IF answers[q] = Default
                            THEN q \in agreed ELSE <<q, answers[q]>> \in chosen

\* The skill and the command line agree to no default of a forced question, and
\* sessions know no other agreement than to all.
ForcedAreWaved == agreed \intersect Forced # {} => waved

\* Who is in the transaction found nothing approved, and the chat that
\* approved it is the only one to spawn.
OnceOnly ==
    /\ \A a \in Actor : pc[a] \in Writing => ~Approved
    /\ Approved <=> status # "PAUSED_AT_GATE_1"
    /\ phaseB \in {0, 1}
    /\ phaseB = 1 => Approved
    /\ pc[Chat] = "spawn" => Approved /\ phaseB = 0
    /\ acts = 0 => /\ ~Approved
                   /\ \A a \in Actor : pc[a] = "idle"

Inv == /\ TypeOK /\ EditsAllowed
       /\ MindsAreSound /\ AnswersAreBacked /\ OnceOnly

-----------------------------------------------------------------------------
(* The helpers.                                                            *)

LEMMA ActorsDiffer ==
    /\ Chat \in Actor /\ Skill \in Actor /\ Cli \in Actor
    /\ Tab \subseteq Actor /\ None \notin Actor
    /\ Chat # Skill /\ Chat # Cli /\ Skill # Cli
    /\ Chat \notin Tab /\ Skill \notin Tab /\ Cli \notin Tab
BY GateAssumption DEF Actor, None

LEMMA EmptyIsSound ==
    ASSUME NEW ch, NEW ag
    PROVE  /\ Empty \in State /\ Empty.edits \subseteq {"scope_in"}
           /\ Sound(Empty, ch, ag)
           /\ Nothing \in Resolved
BY DEF Empty, Nothing, State, Resolved, Sound

LEMMA RecordIsState ==
    ASSUME NEW s \in State, NEW picks \in Resolved
    PROVE  /\ Record(s, picks) \in State
           /\ Record(s, picks).all = s.all
           /\ Record(s, picks).edits = s.edits
           /\ \A q \in Question :
                 Record(s, picks).resolved[q] =
                    IF picks[q] = None THEN s.resolved[q] ELSE picks[q]
BY DEF Record, State, Resolved

LEMMA EditIsState ==
    ASSUME NEW s \in State, NEW fields \in SUBSET Field,
           s.edits \subseteq {"scope_in"}
    PROVE  /\ Edit(s, fields) \in State
           /\ Edit(s, fields).edits \subseteq {"scope_in"}
           /\ Edit(s, fields).all = s.all
           /\ Edit(s, fields).resolved = s.resolved
BY DEF Edit, State, Field

LEMMA ApproveAllIsState ==
    ASSUME NEW s \in State, NEW all \in BOOLEAN
    PROVE  LET t == [s EXCEPT !.all = all]
           IN  /\ t \in State /\ t.all = all
               /\ t.resolved = s.resolved /\ t.edits = s.edits
BY DEF State

\* More choices and agreements take nothing back.
LEMMA SoundGrows ==
    ASSUME NEW s, NEW ch, NEW ag, NEW ch2, NEW ag2,
           ch \subseteq ch2, ag \subseteq ag2, ag2 \subseteq Question
    PROVE  /\ Sound(s, ch, ag) => Sound(s, ch2, ag2)
           /\ Settled(s, ch, ag) => Settled(s, ch2, ag2)
BY DEF Sound, Settled

\* One more act, and one more choice.
LEMMA OneMore ==
    ASSUME NEW max \in Nat, NEW n \in 0..max, n < max
    PROVE  n + 1 \in 0..max /\ n + 1 # 0
OBVIOUS

LEMMA OneMoreChoice ==
    ASSUME NEW ch \in SUBSET (Question \X Choice),
           NEW q \in Question, NEW c \in Choice
    PROVE  /\ ch \subseteq ch \union {<<q, c>>}
           /\ ch \union {<<q, c>>} \subseteq Question \X Choice
OBVIOUS

\* A state with nothing unresolved is settled.
LEMMA ResolvedIsSettled ==
    ASSUME NEW s, NEW ch, NEW ag, Sound(s, ch, ag), Unresolved(s) = {}
    PROVE  Settled(s, ch, ag)
BY DEF Sound, Settled, Unresolved, IsResolved

LEMMA AnswersOfSettled ==
    ASSUME NEW s \in State, NEW ch, NEW ag, Settled(s, ch, ag)
    PROVE  LET ans == [q \in Question |-> AnswerOf(s, q)]
           IN  /\ ans \in [Question -> Choice \union {Default}]
               /\ ans # Nothing
               /\ \A q \in Question : IF ans[q] = Default
                                      THEN q \in ag ELSE <<q, ans[q]>> \in ch
<1> DEFINE ans == [q \in Question |-> AnswerOf(s, q)]
<1>1. ans \in [Question -> Choice \union {Default}]
  BY DEF AnswerOf, State, Resolved
<1>2. \A q \in Question : ans[q] # None
  BY GateAssumption, <1>1 DEF None, Default
<1>3. ans # Nothing
  BY <1>2, GateAssumption DEF Nothing
<1>4. \A q \in Question : IF ans[q] = Default
                          THEN q \in ag ELSE <<q, ans[q]>> \in ch
  BY GateAssumption DEF AnswerOf, Settled, State, Resolved, None, Default
<1>5. QED
  BY <1>1, <1>3, <1>4

-----------------------------------------------------------------------------
(* Somebody loads a session, or passes on decisions: one lemma for all.    *)

LEMMA LoadInv ==
    ASSUME Inv, UNCHANGED Shared,
           NEW a \in Actor, NEW s \in State,
           NEW step \in {"save", "save and approve", "begin"},
           Acts(a), Goto(a, step), mem' = [mem EXCEPT ![a] = s],
           chosen \subseteq chosen', chosen' \subseteq Question \X Choice,
           agreed \subseteq agreed', agreed' \subseteq Question,
           page' \in [Tab -> Resolved],
           \A w \in Tab, q \in Question :
              page'[w][q] # None => <<q, page'[w][q]>> \in chosen',
           faults' \in 0..MaxFault, waved' \in BOOLEAN,
           s.edits \subseteq {"scope_in"},
           Sound(s, chosen', agreed'),
           step = "begin" => Settled(s, chosen', agreed')
    PROVE  Inv'
<1> USE DEF Inv
<1>1. pc' \in [Actor -> Step] /\ mem' \in [Actor -> State]
  BY DEF TypeOK, Goto, Step
<1>2. \A b \in Actor : /\ pc'[b] = IF b = a THEN step ELSE pc[b]
                       /\ mem'[b] = IF b = a THEN s ELSE mem[b]
  BY DEF TypeOK, Goto
<1>3. acts \in 0..MaxAct /\ acts' \in 0..MaxAct /\ acts' # 0
  <2>1. acts \in 0..MaxAct /\ acts < MaxAct /\ acts' = acts + 1
    BY DEF TypeOK, Acts
  <2>2. MaxAct \in Nat
    BY GateAssumption
  <2>3. acts + 1 \in 0..MaxAct /\ acts + 1 # 0
    BY <2>1, <2>2, OneMore
  <2>4. QED
    BY <2>1, <2>3
<1>4. TypeOK'
  BY <1>1, <1>2, <1>3 DEF TypeOK, Shared, Acts, Approved
<1>5. EditsAllowed'
  BY <1>2 DEF EditsAllowed
<1>6. MindsAreSound'
  <2>1. Sound(session, chosen', agreed')
    BY SoundGrows DEF MindsAreSound
  <2>2. \A b \in Actor : Sound(mem'[b], chosen', agreed')
    BY <1>2, SoundGrows DEF MindsAreSound
  <2>3. \A b \in Actor :
           pc'[b] \in Finalizing => Settled(mem'[b], chosen', agreed')
    BY <1>2, SoundGrows DEF MindsAreSound, Finalizing
  <2>4. QED
    BY <2>1, <2>2, <2>3 DEF MindsAreSound, Shared
<1>7. AnswersAreBacked'
  BY DEF AnswersAreBacked, Approved, Shared
<1>8. OnceOnly'
  BY <1>2, <1>3, ActorsDiffer DEF OnceOnly, Approved, Shared, Writing, Acts
<1>9. QED
  BY <1>4, <1>5, <1>6, <1>7, <1>8

LEMMA OpenPageInv ==
    ASSUME Inv, NEW w \in Tab, OpenPage(w)
    PROVE  Inv'
<1> USE DEF Inv
<1>1. page' \in [Tab -> Resolved]
  BY DEF OpenPage, TypeOK, State
<1>2. TypeOK'
  BY <1>1 DEF OpenPage, TypeOK, Shared, Approved
<1>3. MindsAreSound'
  <2>1. \A v \in Tab : page'[v] = IF v = w THEN session.resolved ELSE page[v]
    BY DEF OpenPage, TypeOK
  <2>2. \A v \in Tab, q \in Question :
           page'[v][q] # None => <<q, page'[v][q]>> \in chosen
    BY <2>1 DEF MindsAreSound, Sound
  <2>3. QED
    BY <2>2 DEF MindsAreSound, OpenPage, Shared
<1>4. EditsAllowed' /\ AnswersAreBacked' /\ OnceOnly'
  BY DEF OpenPage, Shared, EditsAllowed, AnswersAreBacked, OnceOnly, Approved
<1>5. QED
  BY <1>2, <1>3, <1>4

LEMMA PostInv ==
    ASSUME Inv, NEW w \in Tab, Post(w)
    PROVE  Inv' /\ (waved' \/ UNCHANGED <<agreed, waved>>)
<1> USE DEF Inv
<1>1. PICK q \in Question, c \in Choice \union {None}, all \in BOOLEAN,
           fields \in {{}, Field}, goal \in {"save", "save and approve"} :
        LET form == IF c = None THEN page[w] ELSE [page[w] EXCEPT ![q] = c]
            s    == Edit(Record(session, form), fields)
        IN
            /\ c = None \/ ~all
            /\ fields = {} \/ (c = None /\ ~all)
            /\ mem' = [mem EXCEPT ![w] = [s EXCEPT !.all = @ \/ all]]
            /\ page' = [page EXCEPT ![w] = form]
            /\ chosen' = IF c = None THEN chosen ELSE chosen \union {<<q, c>>}
            /\ agreed' = IF all THEN Question ELSE agreed
            /\ waved' = (waved \/ all)
            /\ Goto(w, goal)
  BY DEF Post
<1> DEFINE form == IF c = None THEN page[w] ELSE [page[w] EXCEPT ![q] = c]
           rec  == Record(session, form)
           s    == Edit(rec, fields)
           t    == [s EXCEPT !.all = s.all \/ all]
<1>2. form \in Resolved
  BY DEF TypeOK, Resolved
<1>3. \A x \in Question : form[x] # None => <<x, form[x]>> \in chosen'
  BY <1>1 DEF TypeOK, Resolved, MindsAreSound
<1>4. /\ chosen \subseteq chosen' /\ agreed \subseteq agreed'
      /\ chosen' \subseteq Question \X Choice /\ agreed' \subseteq Question
  <2>1. chosen \subseteq Question \X Choice /\ agreed \subseteq Question
    BY DEF TypeOK
  <2>2. \/ chosen' = chosen
        \/ c \in Choice /\ chosen' = chosen \union {<<q, c>>}
    BY <1>1
  <2>3. agreed' \in {agreed, Question}
    BY <1>1
  <2>4. chosen \subseteq chosen' /\ chosen' \subseteq Question \X Choice
    BY <2>1, <2>2, OneMoreChoice
  <2>5. agreed \subseteq agreed' /\ agreed' \subseteq Question
    BY <2>1, <2>3
  <2>6. QED
    BY <2>4, <2>5
<1>5. /\ rec \in State /\ rec.all = session.all
      /\ rec.edits = session.edits
      /\ \A x \in Question : rec.resolved[x] =
            IF form[x] = None THEN session.resolved[x] ELSE form[x]
  BY <1>2, RecordIsState DEF TypeOK
<1>6. /\ s \in State /\ s.edits \subseteq {"scope_in"}
      /\ s.all = session.all /\ s.resolved = rec.resolved
  BY <1>5, EditIsState DEF TypeOK
<1>7. /\ t \in State /\ t.all = (s.all \/ all)
      /\ t.resolved = s.resolved /\ t.edits = s.edits
  BY <1>6, ApproveAllIsState DEF State
<1>8. /\ page' \in [Tab -> Resolved]
      /\ \A v \in Tab, x \in Question :
            page'[v][x] # None => <<x, page'[v][x]>> \in chosen'
  BY <1>1, <1>2, <1>3, <1>4 DEF TypeOK, MindsAreSound
<1>9. mem' = [mem EXCEPT ![w] = t] /\ Goto(w, goal)
  BY <1>1
<1> HIDE DEF form, rec, s, t
<1>10. Sound(t, chosen', agreed')
  <2>1. \A x \in Question : t.resolved[x] # None =>
           <<x, t.resolved[x]>> \in chosen'
    <3>1. \A x \in Question : session.resolved[x] # None =>
             <<x, session.resolved[x]>> \in chosen'
      BY <1>4 DEF MindsAreSound, Sound
    <3>2. \A x \in Question : t.resolved[x] =
             IF form[x] = None THEN session.resolved[x] ELSE form[x]
      BY <1>5, <1>6, <1>7
    <3>3. QED
      BY <1>3, <3>1, <3>2
  <2>2. all => agreed' = Question
    BY <1>1
  <2>3. session.all => agreed' = Question
    BY <1>4 DEF MindsAreSound, Sound
  <2>4. t.all => agreed' = Question
    BY <1>6, <1>7, <2>2, <2>3
  <2>5. QED
    BY <2>1, <2>4 DEF Sound
<1>11. /\ Acts(w) /\ UNCHANGED Shared /\ faults' \in 0..MaxFault
       /\ waved' \in BOOLEAN /\ w \in Actor
  BY <1>1, ActorsDiffer DEF Post, TypeOK
<1>12. goal \in {"save", "save and approve", "begin"} /\ goal # "begin"
  OBVIOUS
<1>13. Inv'
  BY <1>4, <1>6, <1>7, <1>8, <1>9, <1>10, <1>11, <1>12, LoadInv
<1>14. waved' \/ UNCHANGED <<agreed, waved>>
  BY <1>1 DEF TypeOK
<1>15. QED
  BY <1>13, <1>14

LEMMA ChatAnswerInv ==
    ASSUME Inv, NEW q \in Question, NEW c \in Choice, ChatAnswer(q, c)
    PROVE  Inv'
<1> USE DEF Inv
<1> DEFINE picks == [x \in Question |-> IF x = q /\ q \notin Suffixed
                                        THEN c ELSE None]
           s     == Record(session, picks)
<1>1. picks \in Resolved
  BY DEF Resolved
<1>2. /\ s \in State /\ s.all = session.all /\ s.edits = session.edits
      /\ \A x \in Question : s.resolved[x] =
            IF picks[x] = None THEN session.resolved[x] ELSE picks[x]
  BY <1>1, RecordIsState DEF TypeOK
<1>3. /\ mem' = [mem EXCEPT ![Chat] = s] /\ Goto(Chat, "save") /\ Acts(Chat)
      /\ chosen' = chosen \union {<<q, c>>} /\ agreed' = agreed
      /\ UNCHANGED Shared /\ page' = page /\ faults' = faults
      /\ waved' \in BOOLEAN
  BY DEF ChatAnswer, AtGate, TypeOK
<1>4. Sound(s, chosen', agreed')
  BY <1>2, <1>3 DEF MindsAreSound, Sound
<1>5. /\ chosen' \subseteq Question \X Choice /\ agreed \subseteq Question
      /\ faults' \in 0..MaxFault /\ page' \in [Tab -> Resolved]
      /\ \A w \in Tab, x \in Question :
            page'[w][x] # None => <<x, page'[w][x]>> \in chosen'
      /\ s.edits \subseteq {"scope_in"}
  BY <1>2, <1>3 DEF TypeOK, MindsAreSound
<1> HIDE DEF s
<1>6. QED
  BY <1>2, <1>3, <1>4, <1>5, ActorsDiffer, LoadInv

LEMMA ChatApproveAllInv ==
    ASSUME Inv, ChatApproveAll
    PROVE  Inv'
<1> USE DEF Inv
<1> DEFINE s == [session EXCEPT !.all = TRUE]
<1>1. /\ s \in State /\ s.all = TRUE
      /\ s.resolved = session.resolved /\ s.edits = session.edits
  BY ApproveAllIsState DEF TypeOK
<1>2. /\ mem' = [mem EXCEPT ![Chat] = s] /\ Goto(Chat, "save and approve")
      /\ Acts(Chat) /\ chosen' = chosen /\ agreed' = Question
      /\ UNCHANGED Shared /\ page' = page /\ faults' = faults
      /\ waved' \in BOOLEAN
  BY DEF ChatApproveAll, AtGate, TypeOK
<1> HIDE DEF s
<1>3. Sound(s, chosen', agreed')
  BY <1>1, <1>2 DEF MindsAreSound, Sound
<1>4. QED
  BY <1>1, <1>2, <1>3, ActorsDiffer, LoadInv DEF TypeOK, MindsAreSound

LEMMA ChatConfirmInv ==
    ASSUME Inv, ChatConfirm
    PROVE  Inv'
<1> USE DEF Inv
<1>1. /\ mem' = [mem EXCEPT ![Chat] = session] /\ Goto(Chat, "begin")
      /\ Acts(Chat) /\ chosen' = chosen /\ agreed' = agreed
      /\ UNCHANGED Shared /\ page' = page /\ faults' = faults
      /\ waved' \in BOOLEAN
  BY DEF ChatConfirm, AtGate, TypeOK
<1>2. Sound(session, chosen', agreed') /\ Settled(session, chosen', agreed')
  BY <1>1, ResolvedIsSettled DEF ChatConfirm, MindsAreSound
<1>3. QED
  BY <1>1, <1>2, ActorsDiffer, LoadInv DEF TypeOK, MindsAreSound

LEMMA ConfirmInv ==
    ASSUME Inv, NEW a \in {Skill, Cli}, NEW d \in Resolved, Confirm(a, d),
           faults' \in 0..MaxFault
    PROVE  Inv'
<1> USE DEF Inv
<1> DEFINE s == Record(Empty, d)
<1>1. /\ s \in State /\ s.all = FALSE /\ s.edits \subseteq {"scope_in"}
      /\ \A x \in Question : s.resolved[x] = d[x]
  <2>1. /\ Empty \in State /\ Empty.all = FALSE /\ Empty.edits = {}
        /\ \A x \in Question : Empty.resolved[x] = None
    BY DEF Empty, Nothing, State, Resolved
  <2>2. QED
    BY <2>1, RecordIsState
<1>2. /\ mem' = [mem EXCEPT ![a] = s] /\ Goto(a, "begin") /\ Acts(a)
      /\ agreed' = agreed \union {q \in Question : d[q] = None}
      /\ UNCHANGED Shared /\ page' = page /\ waved' \in BOOLEAN
  BY DEF Confirm, TypeOK
<1>3. /\ chosen \subseteq chosen' /\ chosen' \subseteq Question \X Choice
      /\ \A x \in Question : d[x] # None => <<x, d[x]>> \in chosen'
  BY DEF Confirm, Chooses, TypeOK, Resolved
<1>4. Sound(s, chosen', agreed') /\ Settled(s, chosen', agreed')
  BY <1>1, <1>2, <1>3 DEF Sound, Settled
<1> HIDE DEF s
<1>5. QED
  BY <1>1, <1>2, <1>3, <1>4, ActorsDiffer, LoadInv DEF TypeOK, MindsAreSound

-----------------------------------------------------------------------------
(* The database.                                                           *)

\* Where an actor goes, and what it keeps in memory.
LEMMA Moves ==
    ASSUME TypeOK, NEW a \in Actor, NEW step \in Step
    PROVE  /\ Continue(a, step) =>
                 /\ pc' \in [Actor -> Step] /\ mem' = mem
                 /\ \A b \in Actor : pc'[b] = IF b = a THEN step ELSE pc[b]
           /\ Leave(a) =>
                 /\ pc' \in [Actor -> Step] /\ mem' \in [Actor -> State]
                 /\ \A b \in Actor :
                       /\ pc'[b] = IF b = a THEN "idle" ELSE pc[b]
                       /\ mem'[b] = IF b = a THEN Empty ELSE mem[b]
BY EmptyIsSound DEF TypeOK, Continue, Leave, Goto, Step

\* What is loaded stays sound and the edits allowed, whoever goes on or leaves.
LEMMA MindsKept ==
    ASSUME Inv, UNCHANGED <<page, chosen, agreed>>,
           Sound(session', chosen, agreed),
           \A b \in Actor : mem'[b] \in {mem[b], Empty},
           \A b \in Actor : pc'[b] \in Finalizing =>
              mem'[b] = mem[b] /\ Settled(mem[b], chosen, agreed)
    PROVE  MindsAreSound' /\ EditsAllowed'
<1>1. \A b \in Actor : /\ Sound(mem'[b], chosen, agreed)
                       /\ mem'[b].edits \subseteq {"scope_in"}
  BY EmptyIsSound DEF Inv, MindsAreSound, EditsAllowed
<1>2. QED
  BY <1>1 DEF Inv, MindsAreSound, EditsAllowed

LEMMA SaveStateInv ==
    ASSUME Inv, NEW a \in Actor, SaveState(a)
    PROVE  Inv'
<1> USE DEF Inv
<1>1. /\ session' = mem[a] /\ session' \in State
      /\ session'.edits \subseteq {"scope_in"}
      /\ Sound(session', chosen, agreed)
  BY DEF SaveState, TypeOK, MindsAreSound, EditsAllowed
<1>2. /\ pc' \in [Actor -> Step] /\ mem' \in [Actor -> State]
      /\ \A b \in Actor : b # a => pc'[b] = pc[b] /\ mem'[b] = mem[b]
      /\ \/ pc'[a] = "begin" /\ mem'[a] = mem[a] /\ Unresolved(mem[a]) = {}
         \/ pc'[a] = "idle" /\ mem'[a] = Empty
      /\ pc[a] \in {"save", "save and approve"}
  <2>1. (Continue(a, "begin") /\ Unresolved(mem[a]) = {}) \/ Leave(a)
    BY DEF SaveState
  <2>2. QED
    BY <2>1, Moves DEF SaveState, Step, TypeOK
<1>3. UNCHANGED <<status, answers, dir, writer, page, phaseB, acts, faults,
                  chosen, agreed, waved>>
  BY DEF SaveState
<1>4. TypeOK'
  BY <1>1, <1>2, <1>3 DEF TypeOK, Approved
<1>5. MindsAreSound' /\ EditsAllowed'
  <2>1. Unresolved(mem[a]) = {} => Settled(mem[a], chosen, agreed)
    BY ResolvedIsSettled DEF MindsAreSound
  <2>2. QED
    BY <1>1, <1>2, <1>3, <2>1, MindsKept DEF MindsAreSound, Finalizing
<1>6. AnswersAreBacked' /\ OnceOnly'
  BY <1>2, <1>3, ActorsDiffer DEF AnswersAreBacked, OnceOnly, Approved, Writing
<1>7. QED
  BY <1>4, <1>5, <1>6

LEMMA BeginInv ==
    ASSUME Inv, NEW a \in Actor, Begin(a)
    PROVE  Inv'
<1> USE DEF Inv
<1>1. /\ pc' \in [Actor -> Step] /\ mem' \in [Actor -> State]
      /\ \A b \in Actor : b # a => pc'[b] = pc[b] /\ mem'[b] = mem[b]
      /\ \/ /\ pc'[a] = "promote" /\ mem'[a] = mem[a] /\ writer' = a
            /\ ~Approved
         \/ pc'[a] = "idle" /\ mem'[a] = Empty /\ writer' = None
      /\ pc[a] = "begin" /\ writer = None
  <2>1. \/ Continue(a, "promote") /\ writer' = a /\ ~Approved
        \/ Leave(a) /\ writer' = writer
    BY DEF Begin
  <2>2. QED
    BY <2>1, Moves DEF Begin, Step, TypeOK
<1>2. UNCHANGED <<session, status, answers, dir, page, phaseB, acts, faults,
                  chosen, agreed, waved>>
  BY DEF Begin
<1>3. TypeOK'
  BY <1>1, <1>2, ActorsDiffer DEF TypeOK, Approved
<1>4. MindsAreSound' /\ EditsAllowed'
  BY <1>1, <1>2, MindsKept DEF MindsAreSound, Finalizing
<1>5. AnswersAreBacked' /\ OnceOnly'
  BY <1>1, <1>2, ActorsDiffer DEF AnswersAreBacked, OnceOnly, Approved, Writing
<1>6. QED
  BY <1>3, <1>4, <1>5

LEMMA PromoteInv ==
    ASSUME Inv, NEW a \in Actor, PromoteOutputs(a)
    PROVE  Inv'
<1> USE DEF Inv
<1>1. /\ pc' \in [Actor -> Step] /\ mem' \in [Actor -> State]
      /\ \A b \in Actor : b # a => pc'[b] = pc[b] /\ mem'[b] = mem[b]
      /\ \/ pc'[a] = "commit" /\ mem'[a] = mem[a] /\ writer' = writer
         \/ pc'[a] = "idle" /\ mem'[a] = Empty /\ writer' = None
      /\ pc[a] = "promote" /\ writer = a
      /\ dir' \in BOOLEAN
  <2>1. \/ Continue(a, "commit") /\ writer' = writer /\ dir' = TRUE
        \/ Leave(a) /\ writer' = None /\ dir' = dir
    BY DEF PromoteOutputs
  <2>2. QED
    BY <2>1, Moves DEF PromoteOutputs, Step, TypeOK
<1>2. UNCHANGED <<session, status, answers, page, phaseB, acts, faults,
                  chosen, agreed, waved>>
  BY DEF PromoteOutputs
<1>3. TypeOK'
  BY <1>1, <1>2, ActorsDiffer DEF TypeOK, Approved
<1>4. MindsAreSound' /\ EditsAllowed'
  BY <1>1, <1>2, MindsKept DEF MindsAreSound, Finalizing
<1>5. AnswersAreBacked' /\ OnceOnly'
  BY <1>1, <1>2, ActorsDiffer DEF AnswersAreBacked, OnceOnly, Approved, Writing
<1>6. QED
  BY <1>3, <1>4, <1>5

LEMMA CommitInv ==
    ASSUME Inv, NEW a \in Actor, Commit(a)
    PROVE  Inv'
<1> USE DEF Inv
<1>1. /\ pc' \in [Actor -> Step] /\ mem' \in [Actor -> State]
      /\ \A b \in Actor : b # a => pc'[b] = pc[b] /\ mem'[b] = mem[b]
      /\ \/ a = Chat /\ pc'[a] = "spawn" /\ mem'[a] = mem[a]
         \/ a # Chat /\ pc'[a] = "idle" /\ mem'[a] = Empty
      /\ pc[a] = "commit" /\ writer = a /\ writer' = None
  <2>1. \/ a = Chat /\ Continue(a, "spawn")
        \/ a # Chat /\ Leave(a)
    BY DEF Commit
  <2>2. QED
    BY <2>1, Moves DEF Commit, Step, TypeOK
<1>2. UNCHANGED <<dir, page, phaseB, acts, faults, chosen, agreed, waved>>
  BY DEF Commit
<1>3. ~Approved /\ status = "PAUSED_AT_GATE_1" /\ phaseB = 0 /\ acts # 0
  BY <1>1 DEF OnceOnly, Writing
<1>4. \/ a = Cli /\ UNCHANGED <<answers, status, session>>
      \/ /\ answers' \in [Question -> Choice \union {Default}]
         /\ answers' # Nothing
         /\ AnswersAreBacked'
         /\ status' = "RUNNING_PHASE_1D" /\ session' = Empty
  <2>1. /\ mem[a] \in State /\ Settled(mem[a], chosen, agreed)
    BY <1>1 DEF TypeOK, MindsAreSound, Finalizing
  <2>2. QED
    BY <2>1, <1>2, AnswersOfSettled DEF Commit, AnswersAreBacked
<1>5. TypeOK'
  BY <1>1, <1>2, <1>3, <1>4, ActorsDiffer, EmptyIsSound DEF TypeOK, Approved
<1>6. MindsAreSound' /\ EditsAllowed'
  <2>1. Sound(session', chosen, agreed)
    BY <1>4, EmptyIsSound DEF MindsAreSound
  <2>2. QED
    BY <1>1, <1>2, <2>1, MindsKept DEF MindsAreSound, Finalizing
<1>7. AnswersAreBacked'
  BY <1>2, <1>3, <1>4 DEF AnswersAreBacked, Approved
<1>8. \A b \in Actor : b # a => pc[b] \notin Writing
  BY <1>1 DEF TypeOK, Writing
<1>9. OnceOnly'
  BY <1>1, <1>2, <1>3, <1>4, <1>8, ActorsDiffer DEF OnceOnly, Approved, Writing
<1>10. QED
  BY <1>5, <1>6, <1>7, <1>9

LEMMA SpawnInv ==
    ASSUME Inv, SpawnPhaseB
    PROVE  Inv'
<1> USE DEF Inv
<1>1. /\ pc' \in [Actor -> Step] /\ mem' \in [Actor -> State]
      /\ \A b \in Actor : b # Chat => pc'[b] = pc[b] /\ mem'[b] = mem[b]
      /\ pc'[Chat] = "idle" /\ mem'[Chat] = Empty /\ pc[Chat] = "spawn"
  BY Moves, ActorsDiffer DEF SpawnPhaseB, Step
<1>2. UNCHANGED <<session, status, answers, dir, writer, page, acts, faults,
                  chosen, agreed, waved>>
  BY DEF SpawnPhaseB
<1>3. phaseB' = 1 /\ phaseB' \in 0..MaxAct /\ Approved
  <2>1. phaseB = 0 /\ Approved /\ acts # 0
    BY <1>1 DEF OnceOnly
  <2>2. QED
    BY <2>1, GateAssumption DEF SpawnPhaseB, TypeOK
<1>4. TypeOK'
  BY <1>1, <1>2, <1>3, ActorsDiffer DEF TypeOK, Approved
<1>5. MindsAreSound' /\ EditsAllowed'
  BY <1>1, <1>2, ActorsDiffer, MindsKept DEF MindsAreSound, Finalizing
<1>6. AnswersAreBacked' /\ OnceOnly'
  BY <1>1, <1>2, <1>3, ActorsDiffer
  DEF AnswersAreBacked, OnceOnly, Approved, Writing
<1>7. QED
  BY <1>4, <1>5, <1>6

LEMMA AbortInv ==
    ASSUME Inv, AbortRun
    PROVE  Inv'
BY DEF Inv, AbortRun, TypeOK, EditsAllowed, MindsAreSound, AnswersAreBacked,
       OnceOnly, Approved

LEMMA CrashInv ==
    ASSUME Inv, NEW P \in {Tab, {Chat}, {Skill}, {Cli}}, Crash(P)
    PROVE  Inv'
<1> USE DEF Inv
<1>1. /\ pc' \in [Actor -> Step] /\ mem' \in [Actor -> State]
      /\ \A b \in Actor :
            /\ pc'[b] = IF b \in P THEN "idle" ELSE pc[b]
            /\ mem'[b] = IF b \in P THEN Empty ELSE mem[b]
      /\ writer' = IF writer \in P THEN None ELSE writer
  BY EmptyIsSound DEF Crash, TypeOK, Step
<1>2. UNCHANGED <<session, status, answers, page, phaseB, acts, chosen,
                  agreed, waved>>
  BY DEF Crash
<1>3. dir' \in BOOLEAN /\ faults' \in 0..MaxFault
  <2>1. dir' = dir \/ dir' = TRUE
    BY DEF Crash
  <2>2. dir \in BOOLEAN
    BY DEF TypeOK
  <2>3. faults \in 0..MaxFault /\ faults < MaxFault /\ faults' = faults + 1
    BY DEF Crash, TypeOK
  <2>4. faults' \in 0..MaxFault
    BY <2>3, GateAssumption
  <2>5. dir' \in BOOLEAN
    BY <2>1, <2>2
  <2>6. QED
    BY <2>4, <2>5
<1>4. TypeOK'
  BY <1>1, <1>2, <1>3, ActorsDiffer DEF TypeOK, Approved
<1>5. MindsAreSound' /\ EditsAllowed'
  BY <1>1, <1>2, MindsKept DEF MindsAreSound, Finalizing
<1>6. AnswersAreBacked' /\ OnceOnly'
  BY <1>1, <1>2, ActorsDiffer DEF AnswersAreBacked, OnceOnly, Approved, Writing
<1>7. QED
  BY <1>4, <1>5, <1>6

-----------------------------------------------------------------------------
(* The theorems.                                                           *)

LEMMA InvInit == Init => Inv
<1> SUFFICES ASSUME Init
             PROVE  Inv
  OBVIOUS
<1>1. TypeOK
  <2>1. Empty \in State /\ Empty.edits \subseteq {"scope_in"}
    BY EmptyIsSound
  <2>2. Nothing \in Resolved
    BY EmptyIsSound
  <2>3. /\ pc \in [Actor -> Step] /\ \A a \in Actor : pc[a] = "idle"
        /\ mem \in [Actor -> State] /\ page \in [Tab -> Resolved]
    BY <2>1, <2>2 DEF Init, Step
  <2>4. phaseB \in 0..MaxAct /\ acts \in 0..MaxAct /\ faults \in 0..MaxFault
    BY GateAssumption DEF Init
  <2>5. \A a \in Actor : writer # a
    BY ActorsDiffer DEF Init
  <2>6. QED
    BY <2>1, <2>3, <2>4, <2>5 DEF Init, TypeOK, Approved
<1>2. MindsAreSound /\ EditsAllowed
  BY EmptyIsSound
  DEF Init, MindsAreSound, EditsAllowed, Finalizing, Nothing
<1>3. AnswersAreBacked /\ OnceOnly
  BY ActorsDiffer DEF Init, AnswersAreBacked, OnceOnly, Approved, Writing
<1>4. QED
  BY <1>1, <1>2, <1>3 DEF Inv

LEMMA InvNext == Inv /\ [Next]_vars => Inv'
<1> SUFFICES ASSUME Inv, [Next]_vars
             PROVE  Inv'
  OBVIOUS
<1>1. ASSUME NEW w \in Tab, OpenPage(w) \/ Post(w)
      PROVE  Inv'
  BY <1>1, OpenPageInv, PostInv
<1>2. ASSUME NEW q \in Question, NEW c \in Choice, ChatAnswer(q, c)
      PROVE  Inv'
  BY <1>2, ChatAnswerInv
<1>3. CASE ChatApproveAll \/ ChatConfirm
  BY <1>3, ChatApproveAllInv, ChatConfirmInv
<1>4. ASSUME NEW d \in Resolved, SkillConfirm(d) \/ CliConfirm(d)
      PROVE  Inv'
  <2>1. CASE SkillConfirm(d)
    BY <2>1, ConfirmInv DEF SkillConfirm, Inv, TypeOK
  <2>2. CASE CliConfirm(d)
    <3>1. faults' \in 0..MaxFault
      BY <2>2, GateAssumption DEF CliConfirm, Inv, TypeOK
    <3>2. QED
      BY <2>2, <3>1, ConfirmInv DEF CliConfirm
  <2>3. QED
    BY <1>4, <2>1, <2>2
<1>5. ASSUME NEW a \in Actor, Works(a)
      PROVE  Inv'
  BY <1>5, SaveStateInv, BeginInv, PromoteInv, CommitInv DEF Works
<1>6. CASE SpawnPhaseB \/ AbortRun
  BY <1>6, SpawnInv, AbortInv
<1>7. ASSUME NEW P \in {Tab, {Chat}, {Skill}, {Cli}}, Crash(P)
      PROVE  Inv'
  BY <1>7, CrashInv
<1>8. CASE UNCHANGED vars
  BY <1>8
  DEF vars, Inv, TypeOK, EditsAllowed, MindsAreSound, AnswersAreBacked,
      OnceOnly, Approved
<1>9. QED
  BY <1>1, <1>2, <1>3, <1>4, <1>5, <1>6, <1>7, <1>8 DEF Next

\* The inductive invariant of the review.
THEOREM Invariance == Spec => []Inv
<1>1. QED
  BY InvInit, InvNext, PTL DEF Spec

\* Sessions, pages and memories keep their types, one actor is in a
\* transaction, and no field that may not be edited is.
THEOREM TypeCorrect == Spec => []TypeOK
<1>1. Inv => TypeOK
  BY DEF Inv
<1>2. QED
  BY <1>1, Invariance, PTL

\* state.py, editor.py, gate1_bridge.py: what is approved was chosen for that
\* question or agreed to, however many pages, chats and commands overwrite
\* each other's sessions.
\* A default stands for a question left to people after "approve all" only.
THEOREM ApprovedIsChosen == Spec => []AnswersAreChosen
<1>1. Init => ForcedAreWaved
  BY DEF Init, ForcedAreWaved
<1>2. Inv /\ ForcedAreWaved /\ [Next]_vars => ForcedAreWaved'
  <2> SUFFICES ASSUME Inv, ForcedAreWaved, [Next]_vars
               PROVE  ForcedAreWaved'
    OBVIOUS
  <2>1. CASE \E w \in Tab : Post(w)
    BY <2>1, PostInv DEF ForcedAreWaved
  <2>2. CASE \E d \in Resolved : SkillConfirm(d) \/ CliConfirm(d)
    BY <2>2 DEF SkillConfirm, CliConfirm, Confirm, Pending, ForcedAreWaved
  <2>3. CASE ChatApproveAll
    BY <2>3 DEF ChatApproveAll, ForcedAreWaved
  <2>4. CASE UNCHANGED <<agreed, waved>>
    BY <2>4 DEF ForcedAreWaved
  <2>5. QED
    BY <2>1, <2>2, <2>3, <2>4
    DEF Next, vars, OpenPage, ChatAnswer, ChatConfirm, Works, SaveState,
        Begin, PromoteOutputs, Commit, SpawnPhaseB, AbortRun, Crash
<1>3. Inv /\ ForcedAreWaved => AnswersAreChosen
  BY DEF Inv, AnswersAreBacked, ForcedAreWaved, AnswersAreChosen
<1>4. QED
  BY <1>1, <1>2, <1>3, Invariance, PTL DEF Spec

\* gate1_bridge.py: answers are approved once and for all, the run is not
\* taken back to their status, and one Phase B is started at most.
THEOREM SettledForGood == Spec => SettledOnce
<1>1. ASSUME Inv, Inv', [Next]_vars, Approved
      PROVE  /\ answers' = answers
             /\ status' # status => status' = "ABORTED"
             /\ phaseB' <= 1
  <2>1. phaseB' <= 1
    BY <1>1 DEF Inv, OnceOnly
  <2>2. ASSUME NEW a \in Actor, Commit(a)
        PROVE  FALSE
    BY <1>1, <2>2 DEF Inv, OnceOnly, Writing, Commit
  <2>3. \/ UNCHANGED <<answers, status>>
        \/ answers' = answers /\ status' = "ABORTED"
    BY <1>1, <2>2
    DEF Next, vars, OpenPage, Post, ChatAnswer, ChatApproveAll, ChatConfirm,
        SkillConfirm, CliConfirm, Confirm, Works, SaveState, Begin,
        PromoteOutputs, SpawnPhaseB, AbortRun, Crash, Shared
  <2>4. QED
    BY <2>1, <2>3
<1>2. QED
  BY <1>1, Invariance, PTL DEF SettledOnce, Spec

-----------------------------------------------------------------------------
(* The refinement of ReviewRecord.                                         *)

StageOf(st) == CASE st = "PAUSED_AT_GATE_1" -> "open"
                 [] st = "RUNNING_PHASE_1D" -> "settled"
                 [] st = "ABORTED"          -> "ended"

LEMMA GateInit == Init => Gate!Init
BY GateAssumption DEF Init, Gate!Init, Nothing

\* Steps that do no more than let people speak.
LEMMA SpeakStep ==
    ASSUME Inv, Inv', UNCHANGED <<answers, status, phaseB>>,
           chosen \subseteq chosen', agreed \subseteq agreed'
    PROVE  Gate!Next
<1>1. chosen' \in SUBSET (Question \X Choice) /\ agreed' \in SUBSET Question
  BY DEF Inv, TypeOK
<1>2. chosen' = chosen \union chosen' /\ agreed' = agreed \union agreed'
  OBVIOUS
<1>3. StageOf(status)' = StageOf(status)
  BY DEF StageOf
<1>4. Gate!Say
  BY <1>1, <1>2, <1>3 DEF Gate!Say, StageOf
<1>5. QED
  BY <1>4 DEF Gate!Next

LEMMA CommitSettles ==
    ASSUME Inv, Inv', NEW a \in Actor, Commit(a)
    PROVE  Gate!Next
<1>1. UNCHANGED <<chosen, agreed, phaseB>>
  BY DEF Commit
<1>2. CASE a = Cli
  <2>1. UNCHANGED <<answers, status>>
    BY <1>2 DEF Commit
  <2>2. QED
    BY <1>1, <2>1, SpeakStep
<1>3. CASE a # Cli
  <2>1. ~Approved /\ status = "PAUSED_AT_GATE_1"
    BY DEF Inv, OnceOnly, Writing, Commit
  <2>2. status' = "RUNNING_PHASE_1D" /\ Approved'
    BY <1>3 DEF Commit, Inv, OnceOnly
  <2>3. answers' \in [Question -> Choice \union {Default}]
    BY <2>2 DEF Inv, TypeOK
  <2>4. \A q \in Question : IF answers'[q] = Default
                            THEN q \in agreed ELSE <<q, answers'[q]>> \in chosen
    BY <1>1, <2>2 DEF Inv, AnswersAreBacked
  <2>5. Gate!Backed(answers')
    BY <2>4 DEF Gate!Backed
  <2>6. StageOf(status) = "open" /\ StageOf(status)' = "settled"
    BY <2>1, <2>2 DEF StageOf
  <2>7. Gate!Settle
    BY <1>1, <2>3, <2>5, <2>6 DEF Gate!Settle, StageOf
  <2>8. QED
    BY <2>7 DEF Gate!Next
<1>4. QED
  BY <1>2, <1>3

LEMMA SpawnHandsOn ==
    ASSUME Inv, SpawnPhaseB
    PROVE  Gate!Next
<1>1. status # "PAUSED_AT_GATE_1" /\ phaseB = 0 /\ phaseB' = 1
  BY DEF Inv, OnceOnly, SpawnPhaseB
<1>2. StageOf(status) # "open" /\ StageOf(status)' = StageOf(status)
  BY <1>1 DEF StageOf, Inv, TypeOK, SpawnPhaseB
<1>3. Gate!HandOn
  BY <1>1, <1>2 DEF Gate!HandOn, StageOf, SpawnPhaseB
<1>4. QED
  BY <1>3 DEF Gate!Next

LEMMA AbortEnds ==
    ASSUME AbortRun
    PROVE  Gate!Next
<1>1. StageOf(status) = "settled" /\ StageOf(status)' = "ended"
  BY DEF AbortRun, StageOf
<1>2. Gate!End
  BY <1>1 DEF Gate!End, StageOf, AbortRun
<1>3. QED
  BY <1>2 DEF Gate!Next

LEMMA GateStep == Inv /\ Inv' /\ [Next]_vars => [Gate!Next]_(Gate!vars)
<1> SUFFICES ASSUME Inv, Inv', [Next]_vars
             PROVE  Gate!Next \/ UNCHANGED Gate!vars
  OBVIOUS
<1>1. ASSUME NEW w \in Tab, OpenPage(w) \/ Post(w)
      PROVE  Gate!Next
  <2>1. UNCHANGED <<answers, status, phaseB>>
    BY <1>1 DEF OpenPage, Post, Shared
  <2>2. chosen \subseteq chosen'
    BY <1>1 DEF OpenPage, Post
  <2>3. agreed \subseteq agreed'
    BY <1>1 DEF OpenPage, Post, Inv, TypeOK
  <2>4. QED
    BY <2>1, <2>2, <2>3, SpeakStep
<1>2. CASE \/ \E q \in Question, c \in Choice : ChatAnswer(q, c)
           \/ ChatApproveAll \/ ChatConfirm
  BY <1>2, SpeakStep
  DEF ChatAnswer, ChatApproveAll, ChatConfirm, Shared, Inv, TypeOK
<1>3. ASSUME NEW d \in Resolved, SkillConfirm(d) \/ CliConfirm(d)
      PROVE  Gate!Next
  BY <1>3, SpeakStep DEF SkillConfirm, CliConfirm, Confirm, Chooses, Shared
<1>4. ASSUME NEW a \in Actor, SaveState(a) \/ Begin(a) \/ PromoteOutputs(a)
      PROVE  Gate!Next
  BY <1>4, SpeakStep DEF SaveState, Begin, PromoteOutputs
<1>5. ASSUME NEW a \in Actor, Commit(a)
      PROVE  Gate!Next
  BY <1>5, CommitSettles
<1>6. CASE SpawnPhaseB \/ AbortRun
  BY <1>6, SpawnHandsOn, AbortEnds
<1>7. ASSUME NEW P \in {Tab, {Chat}, {Skill}, {Cli}}, Crash(P)
      PROVE  Gate!Next
  BY <1>7, SpeakStep DEF Crash
<1>8. CASE UNCHANGED vars
  BY <1>8, SpeakStep DEF vars
<1>9. QED
  BY <1>1, <1>2, <1>3, <1>4, <1>5, <1>6, <1>7, <1>8 DEF Next, Works

\* Whoever reads the run sees people speak, one record of what they said, and
\* one Phase B on it, for any number of pages, chats, commands and crashes.
THEOREM ReviewImplementsRecord == Spec => ImplementsRecord
<1>1. QED
  BY GateInit, GateStep, Invariance, PTL DEF Spec, ImplementsRecord, Gate!Spec
=============================================================================
