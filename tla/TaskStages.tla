---------------------------- MODULE TaskStages ----------------------------
(***************************************************************************)
(* What the single-task flow promises to the person who gave the task: a   *)
(* task goes through its stages one by one, none without those before it.  *)
(***************************************************************************)
CONSTANTS
    Task,
    Stage,
    Requires  \* Requires[s]: the stages s comes after

VARIABLE reached  \* reached[t]: the stages t has been at

Init == reached = [t \in Task |-> {}]

Advance(t, s) ==
    /\ s \notin reached[t]
    /\ Requires[s] \subseteq reached[t]
    /\ reached' = [reached EXCEPT ![t] = @ \union {s}]

Next == \E t \in Task, s \in Stage : Advance(t, s)

Spec == Init /\ [][Next]_reached
=============================================================================
