---------------------------- MODULE ReviewRecord ----------------------------
(***************************************************************************)
(* What Gate 1 promises to whoever builds on its answers.  People say what *)
(* they choose, or that a default is fine with them, for as long as they   *)
(* like.  Once, the record is drawn up: it answers every question, and     *)
(* every answer in it was said by then.  It is handed on at most once, and *)
(* nothing said afterwards, and no end of the run, changes it.             *)
(***************************************************************************)
EXTENDS Naturals

CONSTANTS Question, Choice, Default, Blank

VARIABLES
    said,     \* what was chosen: pairs of a question and a choice
    agreed,   \* questions whose default somebody agreed to
    record,   \* the answers
    stage,    \* "open", "settled" or "ended"
    handed    \* how often the record was handed on

vars == <<said, agreed, record, stage, handed>>

Init ==
    /\ said = {} /\ agreed = {}
    /\ record = [q \in Question |-> Blank]
    /\ stage = "open" /\ handed = 0

Say ==
    /\ \E picks \in SUBSET (Question \X Choice), defaults \in SUBSET Question :
         /\ said' = said \union picks
         /\ agreed' = agreed \union defaults
    /\ UNCHANGED <<record, stage, handed>>

Backed(r) ==
    \A q \in Question : IF r[q] = Default THEN q \in agreed
                                          ELSE <<q, r[q]>> \in said

Settle ==
    /\ stage = "open" /\ stage' = "settled"
    /\ record' \in [Question -> Choice \union {Default}] /\ Backed(record')
    /\ UNCHANGED <<said, agreed, handed>>

HandOn ==
    /\ stage # "open" /\ handed = 0
    /\ handed' = 1
    /\ UNCHANGED <<said, agreed, record, stage>>

End ==
    /\ stage = "settled" /\ stage' = "ended"
    /\ UNCHANGED <<said, agreed, record, handed>>

Next == Say \/ Settle \/ HandOn \/ End

Spec == Init /\ [][Next]_vars
=============================================================================
