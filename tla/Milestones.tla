---------------------------- MODULE Milestones ----------------------------
(***************************************************************************)
(* What a run delivers, as the people who follow it see it: each of the    *)
(* pipeline's outputs appears once, never a second time and never before   *)
(* the outputs it is derived from.                                         *)
(***************************************************************************)
EXTENDS Naturals

CONSTANTS
    Type,      \* artifact types of the pipeline
    Requires   \* Requires[t]: the types t is derived from

VARIABLE version  \* the version of each artifact type; 0: none yet

Init == version = [t \in Type |-> 0]

\* Outputs that appear together, in one commit.
Publish(T) ==
    /\ T # {}
    /\ \A t \in T : /\ version[t] = 0
                    /\ \A u \in Requires[t] : version[u] = 1 \/ u \in T
    /\ version' = [t \in Type |-> IF t \in T THEN 1 ELSE version[t]]

Next == \E T \in SUBSET Type : Publish(T)

Spec == Init /\ [][Next]_version
=============================================================================
