--------------------------- MODULE ArtifactStore ---------------------------
(***************************************************************************)
(* What the artifacts of one run and one type look like to their readers:  *)
(* an append-only list of versions 1, 2, .. without gaps, each the output  *)
(* of one task_run, of which the newest and only the newest is ACTIVE and, *)
(* if the type has a key, is the one runs.current_artifacts names.         *)
(***************************************************************************)
EXTENDS Naturals, Sequences

CONSTANTS TaskRun, Keyed

VARIABLES
    log,     \* the task_run each version came from
    active,  \* the versions with status ACTIVE
    current  \* the version in runs.current_artifacts; 0: none yet

vars == <<log, active, current>>

Init == log = <<>> /\ active = {} /\ current = 0

Publish(r) ==
    /\ \A v \in 1 .. Len(log) : log[v] # r
    /\ log' = Append(log, r)
    /\ active' = {Len(log')}
    /\ current' = IF Keyed THEN Len(log') ELSE current

Next == \E r \in TaskRun : Publish(r)

Spec == Init /\ [][Next]_vars
=============================================================================
