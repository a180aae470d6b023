----------------------------- MODULE BriefForm -----------------------------
(***************************************************************************)
(* What the intake wizard promises to whoever reads the brief: a form that *)
(* somebody fills in one field at a time, in which a field that was filled *)
(* in never becomes blank again, and which is sealed once, with no field   *)
(* blank.  Who fills it in and who wants it discarded has seen it open;    *)
(* neither looks again, so that of two at the same time the later wins.    *)
(***************************************************************************)
CONSTANTS Field, Source, Blank

VARIABLES
    form,     \* where the content of each field comes from
    fate,     \* "open", "sealed" or "discarded"
    held,     \* somebody is filling it in
    doomed    \* somebody is about to discard it

vars == <<form, fate, held, doomed>>

Empty == [f \in Field |-> Blank]

Init == form = Empty /\ fate = "open" /\ held = FALSE /\ doomed = FALSE

Take ==
    /\ fate = "open" /\ ~held /\ held' = TRUE
    /\ UNCHANGED <<form, fate, doomed>>

\* The fields found in an existing project are filled in before the first
\* question.
Prefill(fields, s) ==
    /\ held /\ fate # "sealed" /\ form = Empty
    /\ form' = [f \in Field |-> IF f \in fields THEN s ELSE Blank]
    /\ UNCHANGED <<fate, held, doomed>>

Fill(f, s) ==
    /\ held /\ fate # "sealed"
    /\ form' = [form EXCEPT ![f] = s]
    /\ UNCHANGED <<fate, held, doomed>>

\* Of a form that is discarded and in nobody's hands, nothing is left.
PutDown ==
    /\ held /\ held' = FALSE
    /\ form' = IF fate = "discarded" THEN Empty ELSE form
    /\ UNCHANGED <<fate, doomed>>

Seal ==
    /\ held /\ held' = FALSE
    /\ fate # "sealed" /\ fate' = "sealed"
    /\ \A f \in Field : form[f] # Blank
    /\ UNCHANGED <<form, doomed>>

Doom ==
    /\ fate = "open" /\ ~doomed /\ doomed' = TRUE
    /\ UNCHANGED <<form, fate, held>>

Spare ==
    /\ doomed /\ doomed' = FALSE
    /\ UNCHANGED <<form, fate, held>>

\* The content of a sealed form stays on record.
Discard ==
    /\ doomed /\ doomed' = FALSE
    /\ fate' = "discarded"
    /\ form' = IF held \/ fate = "sealed" THEN form ELSE Empty
    /\ UNCHANGED held

Next ==
    \/ Take \/ PutDown \/ Seal \/ Doom \/ Spare \/ Discard
    \/ \E fields \in SUBSET Field, s \in Source : Prefill(fields, s)
    \/ \E f \in Field, s \in Source : Fill(f, s)

Spec == Init /\ [][Next]_vars
=============================================================================
