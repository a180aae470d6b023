----------------------------- MODULE Promotion -----------------------------
(***************************************************************************)
(* promote_output (storage/promote.py): the output a task_run left in its  *)
(* temp directory becomes a new ACTIVE version of an artifact.  The rows   *)
(* change in one SQLite transaction, the directories change one system     *)
(* call at a time and are not rolled back with it, and an exception or a   *)
(* kill can come between any two of them.  The module follows ONE run and  *)
(* ONE artifact type: version locks, paths and the ACTIVE flag are per     *)
(* (run, type).                                                            *)
(***************************************************************************)
EXTENDS Naturals, Sequences, FiniteSets

CONSTANTS
    TaskRun,     \* task_runs whose output is promoted
    Thread,      \* threads that promote: workers, or the phases' processes
    NoThread,
    Keyed,       \* has the type a key in ARTIFACT_TYPE_TO_KEY?
    MaxVersion   \* bound: versions that are explored

ASSUME VersionAssumption == MaxVersion \in Nat \ {0}
ASSUME ThreadAssumption == NoThread \notin Thread
ASSUME KeyAssumption == Keyed \in BOOLEAN

Version == 1 .. MaxVersion
Marker == "_complete.marker"
NoTaskRun == "none"
Content == TaskRun \union {Marker}

VARIABLES
    \* Committed rows.
    lock,      \* artifact_version_locks.current_version
    artifact,  \* artifacts: the task_run each inserted version came from
    active,    \* versions with status ACTIVE
    current,   \* the version runs.current_artifacts names; 0: none
    row,       \* task_runs.status of each task_run
    writer,    \* the thread in SQLite's one write transaction
    \* Directories: a function from those that exist to what they hold.
    \* The output of task_run r, however many files, is the element r.
    temp, staging, final,
    \* Each thread's place in promote_output, its task_run and next_version.
    pc, mine, version

rows == <<lock, artifact, active, current>>
disk == <<temp, staging, final>>
local == <<pc, mine, version>>
vars == <<rows, row, writer, disk, local>>

\* An agent may have written nothing.
Init ==
    /\ lock = 0 /\ artifact = <<>> /\ active = {} /\ current = 0
    /\ row = [r \in TaskRun |-> "RUNNING"]
    /\ writer = NoThread
    /\ temp \in {t \in [TaskRun -> SUBSET TaskRun] : \A r \in TaskRun : t[r] \subseteq {r}}
    /\ staging = <<>> /\ final = <<>>
    /\ pc = [p \in Thread |-> "idle"]
    /\ mine = [p \in Thread |-> NoTaskRun]
    /\ version = [p \in Thread |-> 0]

Goto(p, to) == pc' = [pc EXCEPT ![p] = to] /\ UNCHANGED <<mine, version>>

Return(p) ==
    /\ pc' = [pc EXCEPT ![p] = "idle"]
    /\ mine' = [mine EXCEPT ![p] = NoTaskRun]
    /\ version' = [version EXCEPT ![p] = 0]

With(dirs, v, items) ==
    [u \in DOMAIN dirs \union {v} |-> IF u = v THEN items ELSE dirs[u]]
Without(dirs, v) == [u \in DOMAIN dirs \ {v} |-> dirs[u]]

-----------------------------------------------------------------------------
(* promote_output, in the order of its lines.                              *)

NextVersion == lock + 1

\* Step 7a: lock_and_increment writes first, so the thread owns the write
\* transaction from here on.  It may do so for a task_run it no longer owns.
LockVersion(p, r) ==
    /\ pc[p] = "idle"
    /\ writer = NoThread
    /\ lock < MaxVersion
    /\ writer' = p
    /\ pc' = [pc EXCEPT ![p] = "locked"]
    /\ mine' = [mine EXCEPT ![p] = r]
    /\ version' = [version EXCEPT ![p] = NextVersion]
    /\ UNCHANGED <<rows, row, disk>>

\* Seeded fault: makedirs(staging_path, exist_ok=True).
StagingReusable(v) == TRUE

\* makedirs(staging_path, exist_ok=False) raises on a leftover.
StagingVacant(v) == v \notin DOMAIN staging

\* Make the staging directory and move every item of temp into it.
Stage(p) ==
    LET v == version[p]
        r == mine[p]
        kept == IF v \in DOMAIN staging THEN staging[v] ELSE {}
    IN
    /\ pc[p] = "locked"
    /\ StagingVacant(v)
    /\ staging' = With(staging, v, kept \union temp[r])
    /\ temp' = [temp EXCEPT ![r] = {}]
    /\ Goto(p, "staged")
    /\ UNCHANGED <<rows, row, writer, final>>

\* os.rename onto a directory works only if that is empty.
Rename(p) ==
    LET v == version[p] IN
    /\ pc[p] = "staged"
    /\ v \in DOMAIN final => final[v] = {}
    /\ final' = With(final, v, staging[v])
    /\ staging' = Without(staging, v)
    /\ Goto(p, "renamed")
    /\ UNCHANGED <<rows, row, writer, temp>>

WriteMarker(p) ==
    /\ pc[p] = "renamed"
    /\ final' = [final EXCEPT ![version[p]] = @ \union {Marker}]
    /\ Goto(p, "marked")
    /\ UNCHANGED <<rows, row, writer, temp, staging>>

\* Seeded fault: no promotion guard on the task_run.
EligibleUnchecked(r) == TRUE

\* Steps 7b and 7e: the promotion guard.
Eligible(r) == row[r] = "RUNNING"

\* Seeded fault: the previous ACTIVE version is not superseded.
AlsoActive(v) == active \union {v}

\* Steps 7c and 7d: supersede_active, then insert.
NowActive(v) == {v}

\* Steps 7b to 7g and the caller's COMMIT.
Commit(p) ==
    LET v == version[p] IN
    /\ pc[p] = "marked"
    /\ Eligible(mine[p])
    /\ v \notin DOMAIN artifact
    /\ lock' = v
    /\ artifact' = Append(artifact, mine[p])
    /\ active' = NowActive(v)
    /\ current' = IF Keyed THEN v ELSE current
    /\ row' = [row EXCEPT ![mine[p]] = "SUCCESS"]
    /\ writer' = NoThread
    /\ Return(p)
    /\ UNCHANGED disk

\* A step raised, or the process died: the transaction, with the version it
\* took, is rolled back, the directories stay as they are.
Abandon(p) ==
    /\ pc[p] # "idle"
    /\ writer' = NoThread
    /\ Return(p)
    /\ UNCHANGED <<rows, row, disk>>

-----------------------------------------------------------------------------
(* The rest of the engine, as far as promote_output can tell.              *)

\* Another transaction fails or aborts the task_run; its thread may still
\* come to promote.
TakeAway(r) ==
    /\ writer = NoThread
    /\ row[r] = "RUNNING"
    /\ row' = [row EXCEPT ![r] = "FAILED_RETRYABLE"]
    /\ UNCHANGED <<rows, writer, disk, local>>

\* The attempt is reset by a resume and its agent writes the output again.
Rework(r) ==
    /\ row[r] = "RUNNING"
    /\ temp[r] = {}
    /\ temp' = [temp EXCEPT ![r] = {r}]
    /\ UNCHANGED <<rows, row, writer, staging, final, local>>

PromotionStep(p) ==
    \/ \E r \in TaskRun : LockVersion(p, r)
    \/ Stage(p)
    \/ Rename(p)
    \/ WriteMarker(p)
    \/ Commit(p)
    \/ Abandon(p)

Next ==
    \/ \E p \in Thread : PromotionStep(p)
    \/ \E r \in TaskRun : TakeAway(r) \/ Rework(r)

Spec == Init /\ [][Next]_vars

-----------------------------------------------------------------------------
(* Properties.                                                             *)

\* The type of every column, directory and local variable.
TypeOK ==
    /\ lock \in 0 .. MaxVersion /\ current \in 0 .. MaxVersion
    /\ artifact \in Seq(TaskRun) /\ active \subseteq Version
    /\ row \in [TaskRun -> {"RUNNING", "SUCCESS", "FAILED_RETRYABLE"}]
    /\ writer \in Thread \union {NoThread}
    /\ temp \in [TaskRun -> SUBSET TaskRun]
    /\ \A dirs \in {staging, final} : \A v \in DOMAIN dirs :
           v \in Version /\ dirs[v] \subseteq Content
    /\ pc \in [Thread -> {"idle", "locked", "staged", "renamed", "marked"}]
    /\ mine \in [Thread -> TaskRun \union {NoTaskRun}]
    /\ version \in [Thread -> 0 .. MaxVersion]

\* Every artifact in the database is on disk, complete, and holds the output
\* of its own task_run and nothing else, whatever earlier promotions left
\* behind when they were interrupted.
ArtifactIsOnDisk ==
    \A v \in DOMAIN artifact :
        /\ v \in DOMAIN final
        /\ Marker \in final[v]
        /\ final[v] \subseteq {artifact[v], Marker}

\* A task_run is SUCCESS exactly if one version came from it: no output is
\* promoted twice, none is promoted for an attempt that was taken away.
SuccessIsPromotedOnce ==
    \A r \in TaskRun :
        Cardinality({v \in DOMAIN artifact : artifact[v] = r})
            = IF row[r] = "SUCCESS" THEN 1 ELSE 0

\* The transaction leaves artifacts, ACTIVE flag and current_artifacts as
\* ArtifactStore promises: versions without gaps, the newest is the current.
Store == INSTANCE ArtifactStore WITH log <- artifact
ImplementsStore == Store!Spec
=============================================================================
