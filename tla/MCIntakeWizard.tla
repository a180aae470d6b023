-------------------------- MODULE MCIntakeWizard --------------------------
(* Small templates for TLC. *)
EXTENDS IntakeWizard

\* The second field is critical and can be suggested, as deployment_target.
MCCritical == {1, 2}
MCSuggestable == {2}
===========================================================================
