-------------------------- MODULE Promotion_proofs --------------------------
(***************************************************************************)
(* Proofs about Promotion for any number of threads, task_runs and         *)
(* versions.  A directory may be left behind by an interrupted promotion   *)
(* and found by the next one of the same version, so what is on disk is    *)
(* tied to the artifacts in two ways: versions up to the lock are those of *)
(* the artifacts, and above them only the directory the one writer is      *)
(* working on is known to hold just its own output.                        *)
(***************************************************************************)
EXTENDS Promotion, FiniteSetTheorems, TLAPS

\* The committed rows agree on the newest version.
Aligned ==
    /\ Len(artifact) = lock /\ current = IF Keyed THEN lock ELSE 0
    /\ active = IF lock = 0 THEN {} ELSE {lock}

\* One thread is inside promote_output, on the version after the lock.
OneWriter ==
    \A p \in Thread : pc[p] # "idle" =>
        writer = p /\ version[p] = lock + 1 /\ mine[p] \in TaskRun

\* What the writer has moved so far is the output of its task_run.
OwnOutput ==
    /\ \A r \in TaskRun : temp[r] \subseteq {r}
    /\ \A p \in Thread :
          /\ pc[p] = "staged" =>
                version[p] \in DOMAIN staging /\ staging[version[p]] \subseteq {mine[p]}
          /\ pc[p] \in {"renamed", "marked"} =>
                version[p] \in DOMAIN final /\ final[version[p]] \subseteq {mine[p], Marker}
          /\ pc[p] = "marked" => Marker \in final[version[p]]

\* No two artifacts come from one task_run, and what they come from is SUCCESS.
Distinct ==
    /\ \A u, v \in DOMAIN artifact : artifact[u] = artifact[v] => u = v
    /\ \A r \in TaskRun :
          row[r] = "SUCCESS" <=> \E v \in DOMAIN artifact : artifact[v] = r

Inv == TypeOK /\ Aligned /\ OneWriter /\ OwnOutput /\ ArtifactIsOnDisk /\ Distinct

-----------------------------------------------------------------------------
(* The invariant.                                                          *)

LEMMA VersionRange ==
    /\ MaxVersion \in Nat /\ MaxVersion >= 1
    /\ \A v : v \in Version <=> v \in Nat /\ 1 <= v /\ v <= MaxVersion
  BY VersionAssumption DEF Version

\* The domain of the artifacts is the versions up to the lock.
LEMMA ArtifactVersions ==
    ASSUME Inv
    PROVE  /\ DOMAIN artifact = 1 .. lock /\ lock \in Nat
           /\ lock + 1 \notin DOMAIN artifact
  BY DEF Inv, TypeOK, Aligned

LEMMA InvInit == Init => Inv
  <1> SUFFICES ASSUME Init PROVE Inv
    OBVIOUS
  <1>1. /\ artifact = <<>> /\ DOMAIN artifact = {} /\ Len(artifact) = 0
        /\ DOMAIN staging = {} /\ DOMAIN final = {}
    BY DEF Init
  <1>2. TypeOK
    BY <1>1, VersionRange DEF Init, TypeOK
  <1>3. \A r \in TaskRun : temp[r] \subseteq {r}
    BY DEF Init
  <1> QED
    BY <1>1, <1>2, <1>3
       DEF Init, Inv, Aligned, OneWriter, OwnOutput, ArtifactIsOnDisk, Distinct

\* A thread inside promote_output keeps all others out.
LEMMA Alone ==
    ASSUME Inv, NEW p \in Thread, pc[p] # "idle"
    PROVE  /\ \A q \in Thread : q # p => pc[q] = "idle"
           /\ version[p] = lock + 1 /\ mine[p] \in TaskRun
           /\ writer = p
  BY DEF Inv, OneWriter

LEMMA LockVersionInv ==
    ASSUME Inv, NEW p \in Thread, NEW r \in TaskRun, LockVersion(p, r)
    PROVE  Inv'
  <1> USE DEF LockVersion, NextVersion, rows, disk
  <1>1. TypeOK'
    BY VersionRange DEF Inv, TypeOK, Version
  <1>2. \A q \in Thread : pc[q] = "idle"
    BY ThreadAssumption DEF Inv, OneWriter
  <1>3. OneWriter'
    BY <1>2 DEF Inv, TypeOK, OneWriter
  <1>4. OwnOutput'
    BY <1>2 DEF Inv, TypeOK, OwnOutput
  <1> QED
    BY <1>1, <1>3, <1>4 DEF Inv, Aligned, ArtifactIsOnDisk, Distinct

LEMMA StageInv ==
    ASSUME Inv, NEW p \in Thread, Stage(p)
    PROVE  Inv'
  <1> DEFINE v == version[p]
             r == mine[p]
  <1>1. /\ \A q \in Thread : q # p => pc[q] = "idle"
        /\ v = lock + 1 /\ r \in TaskRun
    BY Alone DEF Stage
  <1>2. v \in Version /\ temp[r] \subseteq {r}
    BY <1>1, VersionRange DEF Inv, TypeOK, OwnOutput
  <1>3. /\ DOMAIN staging' = DOMAIN staging \union {v}
        /\ staging'[v] = temp[r]
        /\ \A u \in DOMAIN staging : staging'[u] = staging[u]
        /\ temp' = [temp EXCEPT ![r] = {}]
    BY DEF Stage, StagingVacant, With
  <1>4. /\ pc' = [pc EXCEPT ![p] = "staged"]
        /\ UNCHANGED <<lock, artifact, active, current, row, writer, final, mine, version>>
    BY DEF Stage, Goto, rows
  <1>5. TypeOK'
    BY <1>1, <1>2, <1>3, <1>4 DEF Inv, TypeOK, Content
  <1>6. OneWriter'
    BY <1>1, <1>4 DEF Inv, TypeOK, OneWriter, Stage
  <1>7. OwnOutput'
    BY <1>1, <1>2, <1>3, <1>4 DEF Inv, TypeOK, OwnOutput
  <1> QED
    BY <1>4, <1>5, <1>6, <1>7 DEF Inv, Aligned, ArtifactIsOnDisk, Distinct

LEMMA RenameInv ==
    ASSUME Inv, NEW p \in Thread, Rename(p)
    PROVE  Inv'
  <1> DEFINE v == version[p]
  <1>1. /\ \A q \in Thread : q # p => pc[q] = "idle"
        /\ v = lock + 1 /\ mine[p] \in TaskRun
    BY Alone DEF Rename
  <1>2. v \in Version /\ v \in DOMAIN staging /\ staging[v] \subseteq {mine[p]}
    BY <1>1, VersionRange DEF Inv, TypeOK, OwnOutput, Rename
  <1>3. /\ DOMAIN final' = DOMAIN final \union {v}
        /\ final'[v] = staging[v]
        /\ \A u \in DOMAIN final : u # v => final'[u] = final[u]
        /\ DOMAIN staging' = DOMAIN staging \ {v}
        /\ \A u \in DOMAIN staging' : staging'[u] = staging[u]
    BY DEF Rename, With, Without
  <1>4. /\ pc' = [pc EXCEPT ![p] = "renamed"]
        /\ UNCHANGED <<lock, artifact, active, current, row, writer, temp, mine, version>>
    BY DEF Rename, Goto, rows
  <1>5. TypeOK'
    BY <1>1, <1>2, <1>3, <1>4 DEF Inv, TypeOK
  <1>6. OneWriter'
    BY <1>1, <1>4 DEF Inv, TypeOK, OneWriter, Rename
  <1>7. OwnOutput'
    BY <1>1, <1>2, <1>3, <1>4 DEF Inv, TypeOK, OwnOutput
  <1>8. ArtifactIsOnDisk'
    BY <1>1, <1>3, <1>4, ArtifactVersions DEF Inv, ArtifactIsOnDisk
  <1> QED
    BY <1>4, <1>5, <1>6, <1>7, <1>8 DEF Inv, Aligned, Distinct

LEMMA WriteMarkerInv ==
    ASSUME Inv, NEW p \in Thread, WriteMarker(p)
    PROVE  Inv'
  <1> DEFINE v == version[p]
  <1>1. /\ \A q \in Thread : q # p => pc[q] = "idle"
        /\ v = lock + 1 /\ mine[p] \in TaskRun
    BY Alone DEF WriteMarker
  <1>2. v \in DOMAIN final /\ final[v] \subseteq {mine[p], Marker}
    BY DEF Inv, OwnOutput, WriteMarker
  <1>3. /\ DOMAIN final' = DOMAIN final
        /\ final'[v] = final[v] \union {Marker}
        /\ \A u \in DOMAIN final : u # v => final'[u] = final[u]
    BY <1>2 DEF WriteMarker
  <1>4. /\ pc' = [pc EXCEPT ![p] = "marked"]
        /\ UNCHANGED <<lock, artifact, active, current, row, writer, temp, staging, mine, version>>
    BY DEF WriteMarker, Goto, rows
  <1>5. TypeOK'
    BY <1>2, <1>3, <1>4 DEF Inv, TypeOK, Content
  <1>6. OneWriter'
    BY <1>1, <1>4 DEF Inv, TypeOK, OneWriter, WriteMarker
  <1>7. OwnOutput'
    BY <1>1, <1>2, <1>3, <1>4 DEF Inv, TypeOK, OwnOutput
  <1>8. ArtifactIsOnDisk'
    BY <1>1, <1>3, <1>4, ArtifactVersions DEF Inv, ArtifactIsOnDisk
  <1> QED
    BY <1>4, <1>5, <1>6, <1>7, <1>8 DEF Inv, Aligned, Distinct

LEMMA CommitRows ==
    ASSUME Inv, NEW p \in Thread, Commit(p)
    PROVE  /\ \A q \in Thread : pc'[q] = "idle"
           /\ mine[p] \in TaskRun /\ row[mine[p]] = "RUNNING"
           /\ artifact' = Append(artifact, mine[p])
           /\ DOMAIN artifact' = 1 .. lock + 1 /\ Len(artifact') = lock + 1
           /\ artifact'[lock + 1] = mine[p]
           /\ \A v \in DOMAIN artifact : artifact'[v] = artifact[v]
           /\ lock' = lock + 1 /\ active' = {lock + 1}
           /\ current' = IF Keyed THEN lock + 1 ELSE current
           /\ row' = [row EXCEPT ![mine[p]] = "SUCCESS"]
           /\ UNCHANGED <<temp, staging, final>>
  <1>1. /\ \A q \in Thread : q # p => pc[q] = "idle"
        /\ version[p] = lock + 1 /\ mine[p] \in TaskRun
    BY Alone DEF Commit
  <1>2. pc' = [pc EXCEPT ![p] = "idle"]
    BY DEF Commit, Return
  <1>3. \A q \in Thread : pc'[q] = "idle"
    BY <1>1, <1>2 DEF Inv, TypeOK
  <1>4. artifact \in Seq(TaskRun) /\ Len(artifact) = lock
    BY DEF Inv, TypeOK, Aligned
  <1>5. artifact' = Append(artifact, mine[p])
    BY DEF Commit
  <1>6. /\ DOMAIN artifact' = 1 .. lock + 1 /\ Len(artifact') = lock + 1
        /\ artifact'[lock + 1] = mine[p]
        /\ \A v \in DOMAIN artifact : artifact'[v] = artifact[v]
    BY <1>1, <1>4, <1>5
  <1> QED
    BY <1>1, <1>3, <1>5, <1>6 DEF Commit, Eligible, NowActive, disk

LEMMA CommitInv ==
    ASSUME Inv, NEW p \in Thread, Commit(p)
    PROVE  Inv'
  <1> DEFINE v == lock + 1
             r == mine[p]
  <1>1. /\ \A q \in Thread : pc'[q] = "idle"
        /\ UNCHANGED <<temp, staging, final>>
    BY CommitRows
  <1>2. /\ artifact' = Append(artifact, r) /\ r \in TaskRun
        /\ row' = [row EXCEPT ![r] = "SUCCESS"] /\ row[r] = "RUNNING"
    BY CommitRows
  <1>3. /\ lock' = v /\ active' = {v} /\ Len(artifact') = v
        /\ current' = IF Keyed THEN v ELSE current
    BY CommitRows
  <1>4. /\ v \in DOMAIN artifact' /\ artifact'[v] = r
        /\ \A u \in DOMAIN artifact : u \in DOMAIN artifact' /\ artifact'[u] = artifact[u]
        /\ \A u \in DOMAIN artifact' : u = v \/ u \in DOMAIN artifact
    BY CommitRows, ArtifactVersions
  <1>5. v \in Version /\ v \in Nat /\ v # 0
    BY Alone, VersionRange, ArtifactVersions DEF Commit, Inv, TypeOK
  <1>6. TypeOK'
    <2>1. artifact' \in Seq(TaskRun)
      <3>1. artifact \in Seq(TaskRun)
        BY DEF Inv, TypeOK
      <3> QED
        BY <1>2, <3>1
    <2>2. row' \in [TaskRun -> {"RUNNING", "SUCCESS", "FAILED_RETRYABLE"}]
      BY <1>2 DEF Inv, TypeOK
    <2>3. /\ pc' \in [Thread -> {"idle", "locked", "staged", "renamed", "marked"}]
          /\ mine' \in [Thread -> TaskRun \union {NoTaskRun}]
          /\ version' \in [Thread -> 0 .. MaxVersion]
          /\ writer' = NoThread
      BY VersionRange DEF Commit, Return, Inv, TypeOK
    <2>4. lock' \in 0 .. MaxVersion /\ current' \in 0 .. MaxVersion /\ active' \subseteq Version
      <3>1. v \in 0 .. MaxVersion /\ current \in 0 .. MaxVersion
        BY <1>5, VersionRange DEF Inv, TypeOK
      <3> QED
        BY <1>3, <1>5, <3>1
    <2> QED
      BY <1>1, <2>1, <2>2, <2>3, <2>4 DEF Inv, TypeOK
  <1>7. Aligned' /\ OneWriter' /\ OwnOutput'
    BY <1>1, <1>3, <1>5 DEF Aligned, OneWriter, OwnOutput, Inv
  <1>8. ArtifactIsOnDisk'
    <2>1. v \in DOMAIN final /\ Marker \in final[v] /\ final[v] \subseteq {r, Marker}
      BY Alone DEF Commit, Inv, OwnOutput
    <2> QED
      BY <1>1, <1>4, <2>1 DEF ArtifactIsOnDisk, Inv
  <1>9. Distinct'
    <2>1. \A u \in DOMAIN artifact : artifact[u] # r
      BY <1>2 DEF Inv, Distinct
    <2>2. \A u, w \in DOMAIN artifact' : artifact'[u] = artifact'[w] => u = w
      BY <1>4, <2>1 DEF Inv, Distinct
    <2>3. ASSUME NEW q \in TaskRun
          PROVE  row'[q] = "SUCCESS" <=> \E u \in DOMAIN artifact' : artifact'[u] = q
      <3>1. row'[q] = IF q = r THEN "SUCCESS" ELSE row[q]
        BY <1>2 DEF Inv, TypeOK
      <3>2. row[q] = "SUCCESS" <=> \E u \in DOMAIN artifact : artifact[u] = q
        BY DEF Inv, Distinct
      <3>3. (\E u \in DOMAIN artifact' : artifact'[u] = q)
            <=> (q = r \/ \E u \in DOMAIN artifact : artifact[u] = q)
        BY <1>4
      <3> QED
        BY <3>1, <3>2, <3>3
    <2> QED
      BY <2>2, <2>3 DEF Distinct
  <1> QED
    BY <1>6, <1>7, <1>8, <1>9 DEF Inv

LEMMA AbandonInv ==
    ASSUME Inv, NEW p \in Thread, Abandon(p)
    PROVE  Inv'
  <1> USE DEF Abandon, Return, rows, disk
  <1>1. TypeOK'
    BY VersionRange DEF Inv, TypeOK
  <1>2. \A q \in Thread : pc'[q] = "idle"
    BY Alone DEF Inv, TypeOK
  <1>3. OneWriter' /\ OwnOutput'
    BY <1>2 DEF Inv, OneWriter, OwnOutput
  <1> QED
    BY <1>1, <1>3 DEF Inv, Aligned, ArtifactIsOnDisk, Distinct

LEMMA TakeAwayInv ==
    ASSUME Inv, NEW r \in TaskRun, TakeAway(r)
    PROVE  Inv'
  <1> USE DEF TakeAway, rows, disk, local
  <1>1. TypeOK'
    BY DEF Inv, TypeOK
  <1>2. \A q \in TaskRun : row'[q] = "SUCCESS" <=> row[q] = "SUCCESS"
    BY DEF Inv, TypeOK
  <1>3. Distinct'
    BY <1>2 DEF Inv, Distinct
  <1> QED
    BY <1>1, <1>3 DEF Inv, Aligned, OneWriter, OwnOutput, ArtifactIsOnDisk

LEMMA ReworkInv ==
    ASSUME Inv, NEW r \in TaskRun, Rework(r)
    PROVE  Inv'
  <1> USE DEF Rework, rows, local
  <1>1. TypeOK'
    BY DEF Inv, TypeOK
  <1>2. OwnOutput'
    BY DEF Inv, TypeOK, OwnOutput
  <1> QED
    BY <1>1, <1>2 DEF Inv, Aligned, OneWriter, ArtifactIsOnDisk, Distinct

LEMMA InvStep == Inv /\ [Next]_vars => Inv'
  <1> SUFFICES ASSUME Inv, [Next]_vars PROVE Inv'
    OBVIOUS
  <1>1. ASSUME NEW p \in Thread, PromotionStep(p)
        PROVE  Inv'
    BY <1>1, LockVersionInv, StageInv, RenameInv, WriteMarkerInv, CommitInv, AbandonInv
       DEF PromotionStep
  <1>2. CASE UNCHANGED vars
    BY <1>2
       DEF vars, rows, disk, local, Inv, TypeOK, Aligned, OneWriter, OwnOutput,
           ArtifactIsOnDisk, Distinct
  <1> QED
    BY <1>1, <1>2, TakeAwayInv, ReworkInv DEF Next

-----------------------------------------------------------------------------
(* The theorems.                                                           *)

\* Rows, directories and threads of promote_output are consistent in every
\* reachable state.
THEOREM Invariance == Spec => []Inv
  BY InvInit, InvStep, PTL DEF Spec

\* Every column, directory and local variable keeps its type, for any number
\* of threads, task_runs and versions.
THEOREM TypeCorrect == Spec => []TypeOK
  <1>1. Inv => TypeOK
    BY DEF Inv
  <1> QED
    BY <1>1, Invariance, PTL

\* Every artifact row has its complete directory, with the output of its own
\* task_run only, wherever promotions were interrupted.
THEOREM ArtifactsAreOnDisk == Spec => []ArtifactIsOnDisk
  <1>1. Inv => ArtifactIsOnDisk
    BY DEF Inv
  <1> QED
    BY <1>1, Invariance, PTL

\* A task_run is SUCCESS exactly if one artifact came from it.
THEOREM OutputsArePromotedOnce == Spec => []SuccessIsPromotedOnce
  <1>1. Inv => SuccessIsPromotedOnce
    <2> SUFFICES ASSUME Inv, NEW r \in TaskRun
                 PROVE  Cardinality({v \in DOMAIN artifact : artifact[v] = r})
                          = IF row[r] = "SUCCESS" THEN 1 ELSE 0
      BY DEF SuccessIsPromotedOnce
    <2> DEFINE V == {v \in DOMAIN artifact : artifact[v] = r}
    <2>1. CASE row[r] = "SUCCESS"
      <3>1. PICK v \in DOMAIN artifact : artifact[v] = r
        BY <2>1 DEF Inv, Distinct
      <3>2. V = {v}
        BY <3>1 DEF Inv, Distinct
      <3> QED
        BY <2>1, <3>2, FS_Singleton
    <2>2. CASE row[r] # "SUCCESS"
      <3>1. V = {}
        BY <2>2 DEF Inv, Distinct
      <3> QED
        BY <2>2, <3>1, FS_EmptySet
    <2> QED
      BY <2>1, <2>2
  <1> QED
    BY <1>1, Invariance, PTL

-----------------------------------------------------------------------------
(* The refinement.                                                         *)

LEMMA CommitPublishes ==
    ASSUME Inv, NEW p \in Thread, Commit(p)
    PROVE  Store!Next
  <1> USE CommitRows, ArtifactVersions
  <1>1. \A v \in 1 .. Len(artifact) : artifact[v] # mine[p]
    <2>1. Len(artifact) = lock
      BY DEF Inv, Aligned
    <2>2. \A v \in DOMAIN artifact : artifact[v] # mine[p]
      BY DEF Inv, Distinct
    <2> QED
      BY <2>1, <2>2
  <1>2. artifact' = Append(artifact, mine[p]) /\ active' = {Len(artifact')}
    OBVIOUS
  <1>3. current' = IF Keyed THEN Len(artifact') ELSE current
    <2>1. CASE Keyed
      BY <2>1
    <2>2. CASE ~Keyed
      BY <2>2
    <2> QED
      BY <2>1, <2>2
  <1>4. Store!Publish(mine[p])
    BY <1>1, <1>2, <1>3 DEF Store!Publish
  <1> QED
    BY <1>4 DEF Store!Next

LEMMA StoreStep == Inv /\ [Next]_vars => [Store!Next]_(Store!vars)
  <1> SUFFICES ASSUME Inv, [Next]_vars
               PROVE  Store!Next \/ UNCHANGED Store!vars
    OBVIOUS
  <1>1. ASSUME NEW p \in Thread, PromotionStep(p)
        PROVE  Store!Next \/ UNCHANGED Store!vars
    <2>1. CASE Commit(p)
      BY <2>1, CommitPublishes
    <2> QED
      BY <1>1, <2>1
         DEF PromotionStep, LockVersion, Stage, Rename, WriteMarker, Abandon, rows, Store!vars
  <1> QED
    BY <1>1 DEF Next, TakeAway, Rework, vars, rows, Store!vars

\* Readers of the artifact tables see ArtifactStore: whole promotions, versions
\* without gaps, the newest and only the newest ACTIVE and current.
THEOREM PromotionImplementsStore == Spec => ImplementsStore
  <1>1. Init => Store!Init
    BY DEF Init, Store!Init
  <1> QED
    BY <1>1, StoreStep, Invariance, PTL DEF Spec, ImplementsStore, Store!Spec
=============================================================================
