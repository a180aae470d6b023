----------------------------- MODULE TaskOrder -----------------------------
(***************************************************************************)
(* What the execution engine promises about the task graph, whatever its   *)
(* threads, retries and crashes do: a task is begun only when every task   *)
(* it depends on is done, and a task that is done stays done.  How a task  *)
(* is retried, by whom, and how it fails is invisible here.                *)
(***************************************************************************)
CONSTANTS
    Task,   \* the atomic tasks of the approved graph
    Dep     \* Dep[t]: the tasks t depends on, a subset of Task

VARIABLES
    begun,  \* tasks some agent has been started on
    done    \* tasks that succeeded or that a human decided to skip

vars == <<begun, done>>

TypeOK == begun \subseteq Task /\ done \subseteq begun

Init == begun = {} /\ done = {}

Begin(t) ==
    /\ Dep[t] \subseteq done
    /\ begun' = begun \union {t}
    /\ UNCHANGED done

Finish(t) ==
    /\ t \in begun
    /\ done' = done \union {t}
    /\ UNCHANGED begun

Next == \E t \in Task : Begin(t) \/ Finish(t)

Spec == Init /\ [][Next]_vars
=============================================================================
