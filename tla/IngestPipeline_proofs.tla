------------------------ MODULE IngestPipeline_proofs ------------------------
(***************************************************************************)
(* Proofs about the stage task by itself (StageIngest), about stage pods,     *)
(* dbt builds and publish passes in any order (IngestPipeline), and about one *)
(* ingestion DAG over them (IngestDag), for any runs, pods, passes, faults    *)
(* and rollbacks, with and without dying heartbeat threads.                   *)
(***************************************************************************)
EXTENDS IngestDag, Ordering_proofs

-----------------------------------------------------------------------------
(* The stage task.  A heartbeat only ever runs in an attempt that is inside   *)
(* (or just leaving) the claimed section; while it runs the row keeps naming  *)
(* that attempt and is not claimable (HeartbeatHolds), so nobody else gets in; *)
(* and whoever is past CommitBronze, or has been told to skip, has its rows   *)
(* in bronze (PastCommit, SkipVerified).                                     *)

\* A heartbeat keeps its attempt's claim: named on the row, and not claimable.
HeartbeatHolds ==
    \A p \in Pod : beat[p] =>
        /\ pc[p] \in Holding \cup {"staged"}
        /\ owner[job[p]] = p
        /\ ~Claimable(job[p])

\* Whoever is past the staging transaction's commit has committed rows.
PastCommit ==
    \A p \in Pod : pc[p] \in {"mark", "staged", "done", "skipped"} => bronze[job[p]] > 0

\* Whoever decided to skip saw a status that no attempt can take back.
SkipVerified ==
    \A p \in Pod : /\ pc[p] = "skip" =>
                        status[job[p]] \in {"STAGED"} \cup Terminal
                   /\ pc[p] # "concurrent"

StageInv ==
    /\ StageTypeOK
    /\ HeartbeatHolds
    /\ PastCommit
    /\ SkipVerified
    /\ StagedHasBronze

LEMMA NoJobIsRun == NoJob \in Run
  BY RunAssumption DEF NoJob

LEMMA StageInitType == StageInit => StageTypeOK
  BY NoJobIsRun, FaultsAssumption
  DEF StageInit, DbInit, StageTypeOK, DbTypeOK, PodPC, Ended, RunStatus, StageStatus

\* Every variable keeps its type along every step.
LEMMA StageTypeStep ==
  ASSUME StageTypeOK, [StageNext]_stageIngestVars
  PROVE  StageTypeOK'
<1> USE NoJobIsRun, FaultsAssumption DEF StageTypeOK, DbTypeOK, PodPC, Ended, Waiting, Holding, RunStatus, StageStatus, dbVars, runVars, stageVars, podVars, Goto, Vacate, Fault, NoFault
<1>1. ASSUME NEW p \in Pod, \E r \in Run : Launch(p, r) PROVE StageTypeOK'
  BY <1>1 DEF Launch
<1>2. ASSUME NEW p \in Pod, Claim(p) PROVE StageTypeOK'
  BY <1>2 DEF Claim, TakeClaim, ClaimIngestionRun, WaitersOf, Waiting
<1>3. ASSUME NEW p \in Pod, AwaitClaim(p) PROVE StageTypeOK'
  BY <1>3 DEF AwaitClaim, TakeClaim, ClaimIngestionRun, WaitersOf, Waiting
<1>4. ASSUME NEW p \in Pod, ClaimRefused(p) PROVE StageTypeOK'
  BY <1>4 DEF ClaimRefused
<1>5. ASSUME NEW p \in Pod, AwaitRead(p) PROVE StageTypeOK'
  BY <1>5 DEF AwaitRead
<1>6. ASSUME NEW p \in Pod, AwaitRefused(p) PROVE StageTypeOK'
  BY <1>6 DEF AwaitRefused
<1>7. ASSUME NEW p \in Pod, GiveUp(p) PROVE StageTypeOK'
  BY <1>7 DEF GiveUp
<1>8. ASSUME NEW p \in Pod, Skip(p) PROVE StageTypeOK'
  BY <1>8 DEF Skip
<1>9. ASSUME NEW p \in Pod, CommitBronze(p) PROVE StageTypeOK'
  BY <1>9 DEF CommitBronze
<1>10. ASSUME NEW p \in Pod, MarkStaged(p) PROVE StageTypeOK'
  BY <1>10 DEF MarkStaged, UpdateIngestionRunStatus
<1>11. ASSUME NEW p \in Pod, Finish(p) PROVE StageTypeOK'
  BY <1>11 DEF Finish
<1>12. ASSUME NEW p \in Pod, Release(p) PROVE StageTypeOK'
  <2>1. pc' \in [Pod -> PodPC] /\ job' \in [Pod -> Run] /\ faults' \in 0..MaxFaults
    BY <1>12 DEF Release
  <2>2. status' \in [Run -> RunStatus] /\ owner' \in [Run -> Pod \cup {NoPod}]
          /\ live' \in [Run -> BOOLEAN]
    BY <1>12 DEF Release, FailIngestionRunClaim
  <2> QED
    BY <1>12, <2>1, <2>2 DEF Release
<1>13. ASSUME NEW p \in Pod, Heartbeat(p) PROVE StageTypeOK'
  BY <1>13 DEF Heartbeat, HeartbeatIngestionRun, WaitersOf
<1>14. ASSUME NEW p \in Pod, StagingFails(p) PROVE StageTypeOK'
  BY <1>14 DEF StagingFails
<1>15. ASSUME NEW p \in Pod, MarkFails(p) PROVE StageTypeOK'
  BY <1>15 DEF MarkFails, UpdateIngestionRunStatus
<1>16. ASSUME NEW p \in Pod, HeartbeatDies(p) PROVE StageTypeOK'
  BY <1>16 DEF HeartbeatDies
<1>17. ASSUME NEW p \in Pod, Crash(p) PROVE StageTypeOK'
  BY <1>17 DEF Crash
<1>18. ASSUME NEW r \in Run, LeaseExpires(r) PROVE StageTypeOK'
  BY <1>18 DEF LeaseExpires
<1>19. CASE UNCHANGED stageIngestVars
  BY <1>19 DEF stageIngestVars
<1> QED
  BY <1>1, <1>2, <1>3, <1>4, <1>5, <1>6, <1>7, <1>8, <1>9, <1>10, <1>11, <1>12, <1>13, <1>14, <1>15, <1>16, <1>17, <1>18, <1>19 DEF StageNext, Advance, Disturb

\* Type correctness of the stage task.
THEOREM StageTypeCorrect == StageSpec => []StageTypeOK
  BY StageInitType, StageTypeStep, PTL DEF StageSpec

-----------------------------------------------------------------------------
LEMMA StageInitInv == StageInit => StageInv
  BY StageInitType
  DEF StageInit, DbInit, StageInv, HeartbeatHolds, PastCommit, SkipVerified, StagedHasBronze

\* The inductive step: every action of StageIngest preserves every part of
\* StageInv.  It is stated of StageNext alone so that the modules that compose
\* StageIngest with its neighbours can cite it.
LEMMA StageInvStep ==
  ASSUME StageInv, StageTypeOK', StageNext
  PROVE  StageInv'
<1> USE DEF StageInv, StageTypeOK, DbTypeOK, Holding, Ended, Waiting, Terminal, Claimable,
            dbVars, runVars, stageVars, podVars, Goto, Vacate
<1>1. ASSUME NEW p \in Pod, \E r \in Run : Launch(p, r) PROVE StageInv'
  BY <1>1 DEF Launch, HeartbeatHolds, PastCommit, SkipVerified, StagedHasBronze
<1>2. ASSUME NEW p \in Pod, Claim(p) PROVE StageInv'
  BY <1>2 DEF Claim, TakeClaim, ClaimIngestionRun, HeartbeatHolds, PastCommit, SkipVerified, StagedHasBronze
<1>3. ASSUME NEW p \in Pod, AwaitClaim(p) PROVE StageInv'
  BY <1>3 DEF AwaitClaim, TakeClaim, ClaimIngestionRun, HeartbeatHolds, PastCommit, SkipVerified, StagedHasBronze
<1>4. ASSUME NEW p \in Pod, ClaimRefused(p) PROVE StageInv'
  BY <1>4 DEF ClaimRefused, HeartbeatHolds, PastCommit, SkipVerified, StagedHasBronze
<1>5. ASSUME NEW p \in Pod, AwaitRead(p) PROVE StageInv'
  BY <1>5 DEF AwaitRead, HeartbeatHolds, PastCommit, SkipVerified, StagedHasBronze
<1>6. ASSUME NEW p \in Pod, AwaitRefused(p) PROVE StageInv'
  BY <1>6 DEF AwaitRefused, HeartbeatHolds, PastCommit, SkipVerified, StagedHasBronze
<1>7. ASSUME NEW p \in Pod, GiveUp(p) PROVE StageInv'
  BY <1>7 DEF GiveUp, HeartbeatHolds, PastCommit, SkipVerified, StagedHasBronze
<1>8. ASSUME NEW p \in Pod, Skip(p) PROVE StageInv'
  BY <1>8 DEF Skip, HeartbeatHolds, PastCommit, SkipVerified, StagedHasBronze
<1>9. ASSUME NEW p \in Pod, CommitBronze(p) PROVE StageInv'
  BY <1>9 DEF CommitBronze, HeartbeatHolds, PastCommit, SkipVerified, StagedHasBronze
<1>10. ASSUME NEW p \in Pod, MarkStaged(p) PROVE StageInv'
  BY <1>10 DEF MarkStaged, UpdateIngestionRunStatus, HeartbeatHolds, PastCommit, SkipVerified, StagedHasBronze
<1>11. ASSUME NEW p \in Pod, Finish(p) PROVE StageInv'
  BY <1>11 DEF Finish, HeartbeatHolds, PastCommit, SkipVerified, StagedHasBronze
<1>12. ASSUME NEW p \in Pod, Release(p) PROVE StageInv'
  BY <1>12 DEF Release, FailIngestionRunClaim, HeartbeatHolds, PastCommit, SkipVerified, StagedHasBronze
<1>13. ASSUME NEW p \in Pod, Heartbeat(p) PROVE StageInv'
  BY <1>13 DEF Heartbeat, HeartbeatIngestionRun, HeartbeatHolds, PastCommit, SkipVerified, StagedHasBronze
<1>14. ASSUME NEW p \in Pod, StagingFails(p) PROVE StageInv'
  BY <1>14 DEF StagingFails, HeartbeatHolds, PastCommit, SkipVerified, StagedHasBronze
<1>15. ASSUME NEW p \in Pod, MarkFails(p) PROVE StageInv'
  BY <1>15 DEF MarkFails, UpdateIngestionRunStatus, HeartbeatHolds, PastCommit, SkipVerified, StagedHasBronze
<1>16. ASSUME NEW p \in Pod, HeartbeatDies(p) PROVE StageInv'
  BY <1>16 DEF HeartbeatDies, HeartbeatHolds, PastCommit, SkipVerified, StagedHasBronze
<1>17. ASSUME NEW p \in Pod, Crash(p) PROVE StageInv'
  BY <1>17 DEF Crash, HeartbeatHolds, PastCommit, SkipVerified, StagedHasBronze
<1>18. ASSUME NEW r \in Run, LeaseExpires(r) PROVE StageInv'
  BY <1>18 DEF LeaseExpires, HeartbeatHolds, PastCommit, SkipVerified, StagedHasBronze
<1> QED
  BY <1>1, <1>2, <1>3, <1>4, <1>5, <1>6, <1>7, <1>8, <1>9, <1>10, <1>11, <1>12, <1>13, <1>14, <1>15, <1>16, <1>17, <1>18 DEF StageNext, Advance, Disturb

\* Only a release writes FAILED, and only over its own pod's claim.
LEMMA ReleaseStep ==
  ASSUME StageInv, StageNext,
         NEW r \in Run, status'[r] = "FAILED", status[r] # "FAILED"
  PROVE  /\ status[r] = "RUNNING"
         /\ \A p \in Pod : ~(beat[p] /\ pc[p] \in Holding /\ job[p] = r)
<1> USE DEF StageInv, StageTypeOK, DbTypeOK, dbVars, runVars, podVars
<1>1. PICK p \in Pod : Release(p) /\ FailIngestionRunClaim(job[p], p)
  BY DEF StageNext, Advance, Disturb, Launch, Claim, TakeClaim, ClaimIngestionRun,
         ClaimRefused, AwaitRead, AwaitClaim, AwaitRefused, GiveUp, Skip, CommitBronze,
         MarkStaged, UpdateIngestionRunStatus, Finish, Release, Heartbeat,
         HeartbeatIngestionRun, StagingFails, MarkFails, HeartbeatDies, Crash, LeaseExpires
<1>2. r = job[p] /\ status[r] = "RUNNING" /\ owner[r] = p
  BY <1>1 DEF FailIngestionRunClaim
<1>3. ASSUME NEW q \in Pod, beat[q], pc[q] \in Holding, job[q] = r PROVE FALSE
  <2>1. q = p
    BY <1>2, <1>3 DEF HeartbeatHolds
  <2> QED
    BY <1>1, <1>3, <2>1 DEF Release, Holding
<1> QED
  BY <1>2, <1>3

-----------------------------------------------------------------------------
\* The inductive invariant holds of every behaviour of the stage task.
THEOREM StageInvariance == StageSpec => []StageInv
<1>1. StageInit => StageInv
  BY StageInitInv
<1>2. StageInv /\ StageTypeOK' /\ [StageNext]_stageIngestVars => StageInv'
  <2>1. CASE StageNext
    BY <2>1, StageInvStep
  <2>2. CASE UNCHANGED stageIngestVars
    BY <2>2 DEF stageIngestVars, dbVars, runVars, stageVars, podVars, StageInv, StageTypeOK,
       DbTypeOK, HeartbeatHolds, PastCommit, SkipVerified, StagedHasBronze, Claimable
  <2> QED
    BY <2>1, <2>2
<1> QED
  BY <1>1, <1>2, StageTypeCorrect, PTL DEF StageSpec

\* Bronze before STAGED: whatever the interleaving of attempts, crashes and
\* lost leases, a run marked STAGED has its rows committed to bronze.
THEOREM StageBronzeFirst == StageSpec => []StagedHasBronze
<1>1. StageInv => StagedHasBronze
  BY DEF StageInv
<1> QED
  BY <1>1, StageInvariance, PTL

\* Lease exclusion: at most one heartbeating attempt is inside the claimed
\* section of a run, and it is the one meta.ingestion_runs names.
THEOREM StageLeaseExclusion == StageSpec => []LeaseExclusion
<1>1. StageInv => LeaseExclusion
  BY DEF StageInv, HeartbeatHolds, LeaseExclusion
<1> QED
  BY <1>1, StageInvariance, PTL

\* Task success means staged data, and SKIPPED_CONCURRENT is never returned.
THEOREM StageSuccessMeansStaged == StageSpec => []SuccessMeansStaged
<1>1. StageInv => SuccessMeansStaged
  BY DEF StageInv, PastCommit, SkipVerified, SuccessMeansStaged
<1> QED
  BY <1>1, StageInvariance, PTL

\* A failed attempt's release never takes a run from a pod that holds it.
THEOREM StageReleaseNeverStomps == StageSpec => ReleaseNeverStomps
<1> DEFINE A == \A r \in Run :
                  status'[r] = "FAILED" /\ status[r] # "FAILED" =>
                     /\ status[r] = "RUNNING"
                     /\ \A p \in Pod : ~(beat[p] /\ pc[p] \in Holding /\ job[p] = r)
<1>1. StageInv /\ [StageNext]_stageIngestVars => [A]_stageIngestVars
  BY ReleaseStep
<1>2. StageSpec => [][A]_stageIngestVars
  BY <1>1, StageInvariance, PTL DEF StageSpec
<1> QED
  BY <1>2 DEF ReleaseNeverStomps

-----------------------------------------------------------------------------
(* Publish passes and dbt builds beside the stage task.                       *)

\* The loop's current run is one of those it has still to handle.
LEMMA CurrentTodo ==
  ASSUME NEW q \in Pass, todo[q] \subseteq Run, todo[q] # {}
  PROVE  Current(q) \in todo[q]
<1>1. \E r \in todo[q] : \A s \in todo[q] : r <= s
  BY SmallestExists, RunAssumption
<1> QED BY <1>1 DEF Current

-----------------------------------------------------------------------------
(* What a step of the stage task does to the tables.                         *)

\* Bronze grows by one append, or a pod changes the status of its own run: it
\* claims it, marks it STAGED past its commit, or releases it from RUNNING.
StageEffect ==
    /\ UNCHANGED <<stage, stageLive, locked, silver, gold>>
    /\ \/ UNCHANGED <<status, bronze>>
       \/ /\ UNCHANGED status
          /\ \E p \in Pod : pc[p] = "load" /\ bronze' = [bronze EXCEPT ![job[p]] = @ + 1]
       \/ /\ UNCHANGED bronze
          /\ \E r \in Run, p \in Pod :
                /\ pc[p] # "idle" /\ job[p] = r
                /\ \/ Claimable(r) /\ status' = [status EXCEPT ![r] = "RUNNING"]
                   \/ pc[p] = "mark" /\ status' = [status EXCEPT ![r] = "STAGED"]
                   \/ status[r] = "RUNNING" /\ status' = [status EXCEPT ![r] = "FAILED"]

LEMMA StageStepEffect == StageTypeOK /\ StageNext => StageEffect
<1> SUFFICES ASSUME StageTypeOK, StageNext PROVE StageEffect OBVIOUS
<1> USE DEF StageTypeOK, StageEffect, dbVars, runVars, stageVars, podVars
<1>1. ASSUME NEW p \in Pod, \E r \in Run : Launch(p, r) PROVE StageEffect
  BY <1>1 DEF Launch
<1>2. ASSUME NEW p \in Pod, Claim(p) \/ AwaitClaim(p) PROVE StageEffect
  BY <1>2 DEF Claim, AwaitClaim, TakeClaim, ClaimIngestionRun
<1>3. ASSUME NEW p \in Pod,
             ClaimRefused(p) \/ AwaitRead(p) \/ AwaitRefused(p) \/ GiveUp(p) \/ Skip(p)
      PROVE  StageEffect
  BY <1>3 DEF ClaimRefused, AwaitRead, AwaitRefused, GiveUp, Skip
<1>4. ASSUME NEW p \in Pod, CommitBronze(p) PROVE StageEffect
  BY <1>4 DEF CommitBronze
<1>5. ASSUME NEW p \in Pod, MarkStaged(p) \/ MarkFails(p) PROVE StageEffect
  BY <1>5 DEF MarkStaged, MarkFails, UpdateIngestionRunStatus
<1>6. ASSUME NEW p \in Pod, Release(p) PROVE StageEffect
  BY <1>6 DEF Release, FailIngestionRunClaim
<1>7. ASSUME NEW p \in Pod, Heartbeat(p) PROVE StageEffect
  BY <1>7 DEF Heartbeat, HeartbeatIngestionRun
<1>8. ASSUME NEW p \in Pod,
             Finish(p) \/ StagingFails(p) \/ HeartbeatDies(p) \/ Crash(p)
      PROVE  StageEffect
  BY <1>8 DEF Finish, StagingFails, HeartbeatDies, Crash
<1>9. ASSUME NEW r \in Run, LeaseExpires(r) PROVE StageEffect
  BY <1>9 DEF LeaseExpires
<1> QED
  BY <1>1, <1>2, <1>3, <1>4, <1>5, <1>6, <1>7, <1>8, <1>9 DEF StageNext, Advance, Disturb

\* To one run, such a step does the following, whatever the run.
LEMMA StageEffectOnRun ==
  ASSUME StageTypeOK, StageEffect, NEW r \in Run
  PROVE  /\ bronze[r] > 0 => bronze'[r] > 0
         /\ status[r] = "STAGED" => status'[r] = "STAGED"
         /\ status'[r] \in Terminal => status'[r] = status[r]
  BY DEF StageTypeOK, DbTypeOK, StageEffect, Claimable, RunStatus, Terminal

-----------------------------------------------------------------------------
(* The pipeline's invariant, for every strategy and any number of passes.     *)

\* A pass that is finalizing a run has a run to finalize.
LoopHasRun == \A q \in Pass : ppc[q] \in {"finalize", "complete"} => todo[q] # {}

\* What a pass holds is what it listed, and that is durable in bronze.
ListedDurable ==
    \A q \in Pass : /\ todo[q] \subseteq staged[q] /\ finalized[q] \subseteq staged[q]
                    /\ \A r \in staged[q] : bronze[r] > 0

\* The advisory lock is held exactly by the pass inside its transaction.
LockHeld == \A q \in Pass : lock = q <=> ppc[q] \in InTransaction

\* A transaction that has not begun, is over, or has not reached its upsert has
\* written nothing.
NothingPending ==
    \A q \in Pass : ppc[q] \notin {"claim", "finalize", "complete"} =>
        finalized[q] = {} /\ upserted[q] = {}

\* Rows are locked by the transaction that finalized them.
LockedRows == locked = {r \in Run : \E q \in Pass : r \in finalized[q]}

PassInv ==
    /\ PassTypeOK /\ silver \subseteq {r \in Run : bronze[r] > 0}
    /\ LoopHasRun /\ ListedDurable /\ LockHeld /\ NothingPending /\ LockedRows

PipeInv == StageInv /\ PassInv

LEMMA PipeInitInv == Init => PipeInv
<1> SUFFICES ASSUME Init PROVE PipeInv OBVIOUS
<1>1. StageInv BY StageInitInv DEF Init
<1>2. PassInv
  BY PassAssumption DEF Init, StageInit, DbInit, PassInit, PassInv, PassTypeOK, PassPC,
     InTransaction, LoopHasRun, ListedDurable, LockHeld, NothingPending, LockedRows
<1> QED BY <1>1, <1>2 DEF PipeInv

LEMMA StagePreservesPass ==
  ASSUME PipeInv, StageNext, UNCHANGED passVars
  PROVE  PipeInv'
<1> USE DEF PipeInv, PassInv
<1>1. StageTypeOK BY DEF StageInv
<1>2. StageEffect BY <1>1, StageStepEffect
<1>3. StageTypeOK' BY <1>1, StageTypeStep
<1>4. StageInv' BY <1>3, StageInvStep
<1>5. UNCHANGED <<locked, silver>> BY <1>2 DEF StageEffect
<1>6. \A r \in Run : bronze[r] > 0 => bronze'[r] > 0 BY <1>1, <1>2, StageEffectOnRun
<1>7. PassTypeOK' /\ LoopHasRun' /\ LockHeld' /\ NothingPending' /\ LockedRows'
  BY <1>5 DEF passVars, PassTypeOK, LoopHasRun, LockHeld, NothingPending, LockedRows
<1>8. ListedDurable' /\ silver' \subseteq {r \in Run : bronze'[r] > 0}
  BY <1>5, <1>6 DEF passVars, ListedDurable, PassTypeOK
<1> QED BY <1>4, <1>7, <1>8

\* What a pass does to the run rows: nothing, a commit of what it finalized, or
\* one quarantine; and it leaves bronze, silver and the claims alone.
LEMMA PassKeepsStage ==
  ASSUME PipeInv, NEW q \in Pass, UNCHANGED <<podVars, owner, live, bronze, silver>>,
         stage' \in [Run -> StageStatus], stageLive' \in [Run -> BOOLEAN],
         locked' \subseteq Run, gold' \subseteq Run,
         \/ UNCHANGED status
         \/ status' = [r \in Run |-> IF r \in finalized[q] THEN "SUCCEEDED" ELSE status[r]]
         \/ ppc[q] = "quarantine" /\ todo[q] # {} /\ status' = [status EXCEPT ![Current(q)] = "QUARANTINED"]
  PROVE  StageInv'
<1> USE DEF PipeInv, PassInv, StageInv, PassTypeOK, StageTypeOK, DbTypeOK, podVars
<1>1. CASE UNCHANGED status
  BY <1>1 DEF HeartbeatHolds, PastCommit, SkipVerified, StagedHasBronze, Claimable
<1>2. CASE status' = [r \in Run |-> IF r \in finalized[q] THEN "SUCCEEDED" ELSE status[r]]
  <2>1. \A r \in finalized[q] : bronze[r] > 0
    BY DEF ListedDurable
  <2> QED
    BY <1>2, <2>1 DEF RunStatus, HeartbeatHolds, PastCommit, SkipVerified, StagedHasBronze,
       Claimable, Terminal
<1>3. CASE status' = [status EXCEPT ![Current(q)] = "QUARANTINED"]
  <2>1. \A r \in Run : status'[r] \in {status[r], "QUARANTINED"}
    BY <1>3
  <2>2. status' \in [Run -> RunStatus]
    BY <1>3 DEF RunStatus
  <2> QED
    BY <2>1, <2>2 DEF HeartbeatHolds, PastCommit, SkipVerified, StagedHasBronze,
       Claimable, Terminal
<1> QED BY <1>1, <1>2, <1>3

\* Every step of a pass preserves the pipeline's invariant.
LEMMA PassPreservesPipe ==
  ASSUME PipeInv, PassNext, UNCHANGED podVars
  PROVE  PipeInv'
<1> USE DEF PassAt
<1>0. PICK q \in Pass : ListStaged(q) \/ AdvancePass(q) \/ TripBreaker(q) \/ AbortPass(q)
  BY DEF PassNext
<1>1. StageInv'
  <2>1. todo[q] # {} => Current(q) \in Run
    BY CurrentTodo DEF PipeInv, PassInv, PassTypeOK
  <2>2. /\ UNCHANGED <<owner, live, bronze, silver>>
        /\ stage' \in [Run -> StageStatus] /\ stageLive' \in [Run -> BOOLEAN]
    BY <1>0 DEF PipeInv, StageInv, StageTypeOK, DbTypeOK, StageStatus, dbVars, runVars, stageVars,
       ListStaged, AdvancePass, TripBreaker, AbortPass, AcquireLock, Publish, ClaimPublishStage,
       ClaimRunStage, SkipRun, FinalizePublication, CompletePublishStage, CompleteRunStage, Commit,
       QuarantineRun, UpdateIngestionRunStatus, EndQuarantine, Abort, AbortQuarantine
  <2>3. locked' \subseteq Run /\ gold' \subseteq Run
    BY <1>0, <2>1 DEF PipeInv, PassInv, PassTypeOK, LoopHasRun, StageInv, StageTypeOK, DbTypeOK,
       dbVars, runVars, ListStaged, AdvancePass, TripBreaker, AbortPass, AcquireLock, Publish,
       ClaimPublishStage, SkipRun, FinalizePublication, CompletePublishStage, Commit,
       EndTransaction, QuarantineRun, EndQuarantine, Abort, AbortQuarantine
  <2>4. \/ UNCHANGED status
        \/ status' = [r \in Run |-> IF r \in finalized[q] THEN "SUCCEEDED" ELSE status[r]]
        \/ /\ ppc[q] = "quarantine" /\ todo[q] # {}
           /\ status' = [status EXCEPT ![Current(q)] = "QUARANTINED"]
    BY <1>0 DEF dbVars, runVars, ListStaged, AdvancePass, TripBreaker, AbortPass, AcquireLock,
       Publish, ClaimPublishStage, SkipRun, FinalizePublication, CompletePublishStage, Commit,
       QuarantineRun, UpdateIngestionRunStatus, EndQuarantine, Abort, AbortQuarantine
  <2> QED BY <2>2, <2>3, <2>4, PassKeepsStage
<1>2. PassInv'
  <2> USE DEF PipeInv, PassInv, PassTypeOK, PassPC, InTransaction, LoopHasRun, ListedDurable,
              LockHeld, NothingPending, LockedRows, dbVars, passVars
  <2>0. todo[q] # {} => Current(q) \in todo[q] /\ Current(q) \in Run
    BY CurrentTodo
  <2>1. CASE AcquireLock(q)
    BY <2>0, <2>1, PassAssumption DEF AcquireLock
  <2>2. CASE Publish(q)
    BY <2>0, <2>2, PassAssumption DEF Publish, Contribution
  <2>3. CASE ClaimPublishStage(q)
    BY <2>0, <2>3, PassAssumption DEF ClaimPublishStage, ClaimRunStage, StageClaimable
  <2>4. CASE SkipRun(q)
    BY <2>0, <2>4, PassAssumption DEF SkipRun, Handled
  <2>5. CASE FinalizePublication(q)
    BY <2>0, <2>5, PassAssumption DEF FinalizePublication, Unlocked
  <2>6. CASE CompletePublishStage(q)
    BY <2>0, <2>6, PassAssumption DEF CompletePublishStage, CompleteRunStage, Handled
  <2>7. CASE Commit(q)
    BY <2>0, <2>7, PassAssumption DEF Commit, EndTransaction, EndPass
  <2>8. CASE QuarantineRun(q)
    BY <2>0, <2>8, PassAssumption DEF QuarantineRun, UpdateIngestionRunStatus, Handled
  <2>9. CASE EndQuarantine(q)
    BY <2>0, <2>9, PassAssumption DEF EndQuarantine, EndPass
  <2>10. CASE ListStaged(q)
    BY <2>0, <2>10, PassAssumption DEF ListStaged, StagedRuns, StageInv, StagedHasBronze
  <2>11. CASE TripBreaker(q)
    BY <2>0, <2>11, PassAssumption DEF TripBreaker
  <2>12. CASE Abort(q)
    BY <2>0, <2>12, PassAssumption DEF Abort, EndTransaction, EndPass
  <2>13. CASE AbortQuarantine(q)
    BY <2>0, <2>13, PassAssumption DEF AbortQuarantine, EndPass
  <2> QED
    BY <1>0, <2>1, <2>2, <2>3, <2>4, <2>5, <2>6, <2>7, <2>8, <2>9, <2>10, <2>11, <2>12, <2>13 DEF AdvancePass, AbortPass
<1> QED BY <1>1, <1>2 DEF PipeInv

\* A build folds what is in bronze; the lapse of a publish lease changes no run.
LEMMA PipeStepInv == PipeInv /\ [Next]_vars => PipeInv'
<1> SUFFICES ASSUME PipeInv, [Next]_vars PROVE PipeInv' OBVIOUS
<1>1. CASE StageNext /\ UNCHANGED passVars
  BY <1>1, StagePreservesPass
<1>2. CASE PassNext /\ UNCHANGED podVars
  BY <1>2, PassPreservesPipe
<1>3. CASE UNCHANGED <<status, owner, live, locked, bronze, gold, podVars, passVars>>
           /\ silver' \in {silver, {r \in Run : bronze[r] > 0}}
           /\ stage' \in [Run -> StageStatus] /\ stageLive' \in [Run -> BOOLEAN]
  <2>1. StageInv'
    BY <1>3 DEF PipeInv, StageInv, StageTypeOK, DbTypeOK, podVars, HeartbeatHolds, PastCommit,
       SkipVerified, StagedHasBronze, Claimable
  <2>2. PassInv'
    BY <1>3 DEF PipeInv, PassInv, PassTypeOK, passVars, LoopHasRun, ListedDurable, LockHeld,
       NothingPending, LockedRows
  <2> QED BY <2>1, <2>2 DEF PipeInv
<1>4. CASE DbtBuild \/ PublishStageLeaseExpires \/ UNCHANGED vars
  <2>1. stage \in [Run -> StageStatus] /\ stageLive \in [Run -> BOOLEAN]
    BY DEF PipeInv, StageInv, StageTypeOK, DbTypeOK
  <2> QED
    BY <1>3, <1>4, <2>1 DEF DbtBuild, PublishStageLeaseExpires, StageLeaseExpires, vars, dbVars,
       runVars, stageVars
<1> QED BY <1>1, <1>2, <1>4 DEF Next

\* The inductive invariant of the pipeline.
THEOREM PipeInvariance == Spec => []PipeInv
  BY PipeInitInv, PipeStepInv, PTL DEF Spec

\* Type correctness of stage tasks, builds and passes together.
THEOREM PipeTypeCorrect == Spec => []TypeOK
<1>1. PipeInv => TypeOK BY DEF PipeInv, StageInv, PassInv, TypeOK
<1> QED BY <1>1, PipeInvariance, PTL

\* Bronze before STAGED, with builds and passes beside the stage task.
THEOREM PipeBronzeFirst == Spec => []StagedHasBronze
<1>1. PipeInv => StagedHasBronze BY DEF PipeInv, StageInv
<1> QED BY <1>1, PipeInvariance, PTL

\* Lease exclusion, with builds and passes beside the stage task.
THEOREM PipeLeaseExclusion == Spec => []LeaseExclusion
<1>1. PipeInv => LeaseExclusion BY DEF PipeInv, StageInv, HeartbeatHolds, LeaseExclusion
<1> QED BY <1>1, PipeInvariance, PTL

\* Task success means staged data, with builds and passes beside the stage task.
THEOREM PipeSuccessMeansStaged == Spec => []SuccessMeansStaged
<1>1. PipeInv => SuccessMeansStaged
  BY DEF PipeInv, StageInv, PastCommit, SkipVerified, SuccessMeansStaged
<1> QED BY <1>1, PipeInvariance, PTL

-----------------------------------------------------------------------------
(* What a pass holds as finalized is STAGED, where no rival's tripped breaker *)
(* can quarantine it meanwhile.                                              *)

\* The quarantine loop runs outside the advisory lock: with the scd publisher a
\* second pass must not be alive beside it.  merge_orders has no breaker.
NoRivalBreaker == Strategy = "merge_orders" \/ \A p, q \in Pass : p = q

\* A run is STAGED from the check of claim_run_stage to the commit.
HeldStaged ==
    \A q \in Pass : /\ \A r \in finalized[q] : status[r] = "STAGED"
                    /\ ppc[q] = "finalize" => status[Current(q)] = "STAGED"

\* What a pass without rivals has still to handle is as it listed it.
TodoStaged ==
    (\A p, q \in Pass : p = q) => \A q \in Pass : \A r \in todo[q] : status[r] = "STAGED"

\* merge_orders quarantines nobody.
NobodyQuarantined ==
    Strategy = "merge_orders" => /\ \A q \in Pass : ppc[q] # "quarantine"
                                 /\ \A r \in Run : status[r] # "QUARANTINED"

\* Until its breaker trips, nothing a pass has listed is quarantined.
ListedAdmitted ==
    \A q \in Pass : ppc[q] # "quarantine" =>
        \A r \in staged[q] : status[r] # "QUARANTINED"

HeldInv == HeldStaged /\ TodoStaged /\ NobodyQuarantined /\ ListedAdmitted

LEMMA HeldInitInv == Init => HeldInv
  BY DEF Init, StageInit, DbInit, PassInit, HeldInv, HeldStaged, TodoStaged, NobodyQuarantined,
     ListedAdmitted

LEMMA StagePreservesHeld ==
  ASSUME PipeInv, HeldInv, StageNext, UNCHANGED passVars
  PROVE  HeldInv'
<1>1. StageTypeOK /\ PassTypeOK BY DEF PipeInv, PassInv, StageInv
<1>2. StageEffect BY <1>1, StageStepEffect
<1>3. \A r \in Run : /\ status[r] = "STAGED" => status'[r] = "STAGED"
                     /\ status'[r] = "QUARANTINED" => status[r] = "QUARANTINED"
  BY <1>1, <1>2, StageEffectOnRun DEF Terminal
<1>4. \A q \in Pass : ppc[q] = "finalize" => Current(q) \in Run /\ Current(q)' = Current(q)
  BY <1>1, CurrentTodo DEF PipeInv, PassInv, LoopHasRun, PassTypeOK, passVars, Current
<1>5. HeldStaged'
  BY <1>1, <1>3, <1>4 DEF HeldInv, HeldStaged, passVars, PassTypeOK
<1> QED
  BY <1>1, <1>3, <1>5 DEF HeldInv, TodoStaged, NobodyQuarantined, ListedAdmitted, passVars, PassTypeOK

LEMMA PassPreservesHeld ==
  ASSUME PipeInv, HeldInv, NoRivalBreaker, PassNext
  PROVE  HeldInv'
<1> USE DEF PassAt, PipeInv, PassInv, PassTypeOK, PassPC, InTransaction, LoopHasRun, ListedDurable,
            LockHeld, NothingPending, StageInv, StageTypeOK, DbTypeOK, RunStatus, dbVars, runVars,
            HeldInv
<1>0. PICK q \in Pass : ListStaged(q) \/ AdvancePass(q) \/ TripBreaker(q) \/ AbortPass(q)
  BY DEF PassNext
<1>1. \A p \in Pass : todo[p] # {} => Current(p) \in todo[p] /\ Current(p) \in Run
  BY CurrentTodo
<1>2. \A p \in Pass : todo'[p] = todo[p] => Current(p)' = Current(p)
  BY DEF Current
<1> USE <1>1, PassAssumption
<1>3. CASE AcquireLock(q)
  <2>1. HeldStaged'
    BY <1>2, <1>3 DEF AcquireLock, HeldStaged, NobodyQuarantined, NoRivalBreaker
  <2>2. TodoStaged'
    BY <1>3 DEF AcquireLock, TodoStaged
  <2>3. NobodyQuarantined' /\ ListedAdmitted'
    BY <1>3 DEF AcquireLock, NobodyQuarantined, ListedAdmitted, NoRivalBreaker
  <2> QED BY <2>1, <2>2, <2>3
<1>4. CASE Publish(q)
  <2>1. HeldStaged'
    BY <1>2, <1>4 DEF Publish, HeldStaged, NobodyQuarantined, NoRivalBreaker
  <2>2. TodoStaged'
    BY <1>4 DEF Publish, TodoStaged
  <2>3. NobodyQuarantined' /\ ListedAdmitted'
    BY <1>4 DEF Publish, NobodyQuarantined, ListedAdmitted, NoRivalBreaker
  <2> QED BY <2>1, <2>2, <2>3
<1>5. CASE ClaimPublishStage(q)
  <2>1. HeldStaged'
    BY <1>2, <1>5 DEF ClaimPublishStage, ClaimRunStage, StageClaimable, HeldStaged, NobodyQuarantined, NoRivalBreaker
  <2>2. TodoStaged'
    BY <1>5 DEF ClaimPublishStage, ClaimRunStage, StageClaimable, TodoStaged
  <2>3. NobodyQuarantined' /\ ListedAdmitted'
    BY <1>5 DEF ClaimPublishStage, ClaimRunStage, StageClaimable, NobodyQuarantined, ListedAdmitted, NoRivalBreaker
  <2> QED BY <2>1, <2>2, <2>3
<1>6. CASE SkipRun(q)
  <2>1. HeldStaged'
    BY <1>2, <1>6 DEF SkipRun, Handled, HeldStaged, NobodyQuarantined, NoRivalBreaker
  <2>2. TodoStaged'
    BY <1>6 DEF SkipRun, Handled, TodoStaged
  <2>3. NobodyQuarantined' /\ ListedAdmitted'
    BY <1>6 DEF SkipRun, Handled, NobodyQuarantined, ListedAdmitted, NoRivalBreaker
  <2> QED BY <2>1, <2>2, <2>3
<1>7. CASE FinalizePublication(q)
  <2>1. HeldStaged'
    BY <1>2, <1>7 DEF FinalizePublication, Unlocked, HeldStaged, NobodyQuarantined, NoRivalBreaker
  <2>2. TodoStaged'
    BY <1>7 DEF FinalizePublication, Unlocked, TodoStaged
  <2>3. NobodyQuarantined' /\ ListedAdmitted'
    BY <1>7 DEF FinalizePublication, Unlocked, NobodyQuarantined, ListedAdmitted, NoRivalBreaker
  <2> QED BY <2>1, <2>2, <2>3
<1>8. CASE CompletePublishStage(q)
  <2>1. HeldStaged'
    BY <1>2, <1>8 DEF CompletePublishStage, CompleteRunStage, Handled, HeldStaged, NobodyQuarantined, NoRivalBreaker
  <2>2. TodoStaged'
    BY <1>8 DEF CompletePublishStage, CompleteRunStage, Handled, TodoStaged
  <2>3. NobodyQuarantined' /\ ListedAdmitted'
    BY <1>8 DEF CompletePublishStage, CompleteRunStage, Handled, NobodyQuarantined, ListedAdmitted, NoRivalBreaker
  <2> QED BY <2>1, <2>2, <2>3
<1>9. CASE Commit(q)
  <2>1. HeldStaged'
    BY <1>2, <1>9 DEF Commit, EndTransaction, EndPass, HeldStaged, NobodyQuarantined, NoRivalBreaker
  <2>2. TodoStaged'
    BY <1>9 DEF Commit, EndTransaction, EndPass, TodoStaged
  <2>3. NobodyQuarantined' /\ ListedAdmitted'
    BY <1>9 DEF Commit, EndTransaction, EndPass, NobodyQuarantined, ListedAdmitted, NoRivalBreaker
  <2> QED BY <2>1, <2>2, <2>3
<1>10. CASE QuarantineRun(q)
  <2>1. HeldStaged'
    BY <1>2, <1>10 DEF QuarantineRun, UpdateIngestionRunStatus, Handled, HeldStaged, NobodyQuarantined, NoRivalBreaker
  <2>2. TodoStaged'
    BY <1>10 DEF QuarantineRun, UpdateIngestionRunStatus, Handled, TodoStaged
  <2>3. NobodyQuarantined' /\ ListedAdmitted'
    BY <1>10 DEF QuarantineRun, UpdateIngestionRunStatus, Handled, NobodyQuarantined, ListedAdmitted, NoRivalBreaker
  <2> QED BY <2>1, <2>2, <2>3
<1>11. CASE EndQuarantine(q)
  <2>1. HeldStaged'
    BY <1>2, <1>11 DEF EndQuarantine, EndPass, HeldStaged, NobodyQuarantined, NoRivalBreaker
  <2>2. TodoStaged'
    BY <1>11 DEF EndQuarantine, EndPass, TodoStaged
  <2>3. NobodyQuarantined' /\ ListedAdmitted'
    BY <1>11 DEF EndQuarantine, EndPass, NobodyQuarantined, ListedAdmitted, NoRivalBreaker
  <2> QED BY <2>1, <2>2, <2>3
<1>12. CASE ListStaged(q)
  <2>1. HeldStaged'
    BY <1>2, <1>12 DEF ListStaged, StagedRuns, HeldStaged, NobodyQuarantined, NoRivalBreaker
  <2>2. TodoStaged'
    BY <1>12 DEF ListStaged, StagedRuns, TodoStaged
  <2>3. NobodyQuarantined' /\ ListedAdmitted'
    BY <1>12 DEF ListStaged, StagedRuns, NobodyQuarantined, ListedAdmitted, NoRivalBreaker
  <2> QED BY <2>1, <2>2, <2>3
<1>13. CASE TripBreaker(q)
  <2>1. HeldStaged'
    BY <1>2, <1>13 DEF TripBreaker, HeldStaged, NobodyQuarantined, NoRivalBreaker
  <2>2. TodoStaged'
    BY <1>13 DEF TripBreaker, TodoStaged
  <2>3. NobodyQuarantined' /\ ListedAdmitted'
    BY <1>13 DEF TripBreaker, NobodyQuarantined, ListedAdmitted, NoRivalBreaker
  <2> QED BY <2>1, <2>2, <2>3
<1>14. CASE Abort(q)
  <2>1. HeldStaged'
    BY <1>2, <1>14 DEF Abort, EndTransaction, EndPass, HeldStaged, NobodyQuarantined, NoRivalBreaker
  <2>2. TodoStaged'
    BY <1>14 DEF Abort, EndTransaction, EndPass, TodoStaged
  <2>3. NobodyQuarantined' /\ ListedAdmitted'
    BY <1>14 DEF Abort, EndTransaction, EndPass, NobodyQuarantined, ListedAdmitted, NoRivalBreaker
  <2> QED BY <2>1, <2>2, <2>3
<1>15. CASE AbortQuarantine(q)
  <2>1. HeldStaged'
    BY <1>2, <1>15 DEF AbortQuarantine, EndPass, HeldStaged, NobodyQuarantined, NoRivalBreaker
  <2>2. TodoStaged'
    BY <1>15 DEF AbortQuarantine, EndPass, TodoStaged
  <2>3. NobodyQuarantined' /\ ListedAdmitted'
    BY <1>15 DEF AbortQuarantine, EndPass, NobodyQuarantined, ListedAdmitted, NoRivalBreaker
  <2> QED BY <2>1, <2>2, <2>3
<1> QED
  BY <1>0, <1>3, <1>4, <1>5, <1>6, <1>7, <1>8, <1>9, <1>10, <1>11, <1>12, <1>13, <1>14, <1>15 DEF AdvancePass, AbortPass

LEMMA HeldStepInv ==
  ASSUME PipeInv, HeldInv, NoRivalBreaker, [Next]_vars
  PROVE  HeldInv'
<1>1. CASE StageNext /\ UNCHANGED passVars
  BY <1>1, StagePreservesHeld
<1>2. CASE PassNext
  BY <1>2, PassPreservesHeld
<1>3. CASE DbtBuild \/ PublishStageLeaseExpires \/ UNCHANGED vars
  <2>1. UNCHANGED <<status, passVars>>
    BY <1>3 DEF DbtBuild, PublishStageLeaseExpires, StageLeaseExpires, vars, dbVars, runVars
  <2> QED
    BY <2>1 DEF passVars, HeldInv, HeldStaged, TodoStaged, NobodyQuarantined, ListedAdmitted, Current
<1> QED BY <1>1, <1>2, <1>3 DEF Next

\* A run is finalized by one pass, and is STAGED underneath until that pass
\* commits: no commit turns another pass's outcome over, for any number of
\* merge_orders passes, or one scd pass at a time.
THEOREM PipeFinalizedByOnePass ==
  ASSUME NoRivalBreaker
  PROVE  Spec => []FinalizedByOnePass
<1>1. Init => PipeInv /\ HeldInv
  BY PipeInitInv, HeldInitInv
<1>2. PipeInv /\ HeldInv /\ [Next]_vars => (PipeInv /\ HeldInv)'
  BY PipeStepInv, HeldStepInv
<1>3. PipeInv /\ HeldInv => FinalizedByOnePass
  BY PassAssumption DEF PipeInv, PassInv, HeldInv, HeldStaged, LockHeld, NothingPending, InTransaction,
     FinalizedByOnePass
<1> QED BY <1>1, <1>2, <1>3, PTL DEF Spec

-----------------------------------------------------------------------------
(* Success and gold.                                                         *)

\* Past its upsert, a transaction has put every run it listed in gold.
Covered ==
    \A q \in Pass : ppc[q] \in {"claim", "finalize", "complete"} => staged[q] \subseteq upserted[q]

\* The upsert of every pass finds what it listed: bronze has it (scd reads the
\* bronze history), or a build has folded it (merge_orders reads silver).
UpsertFindsListed ==
    Strategy = "scd" \/ \A q \in Pass : ppc[q] = "publish" => staged[q] \subseteq silver

\* Whatever a pass holds in gold, uncommitted, is in bronze.
UpsertedDurable == \A q \in Pass : upserted[q] \subseteq {r \in Run : bronze[r] > 0}

GoldInv == Covered /\ SucceededInGold /\ UpsertedDurable

LEMMA GoldInitInv == Init => GoldInv
  BY DEF Init, StageInit, DbInit, PassInit, GoldInv, Covered, SucceededInGold, UpsertedDurable

LEMMA GoldStepInv ==
  ASSUME PipeInv, HeldInv, GoldInv, UpsertFindsListed, [Next]_vars
  PROVE  GoldInv'
<1> USE DEF PipeInv, PassInv
<1>1. CASE StageNext /\ UNCHANGED passVars
  <2>1. StageTypeOK /\ StageEffect
    BY <1>1, StageStepEffect DEF StageInv
  <2>2. \A r \in Run : /\ bronze[r] > 0 => bronze'[r] > 0
                       /\ status'[r] = "SUCCEEDED" => status[r] = "SUCCEEDED"
    BY <2>1, StageEffectOnRun DEF Terminal
  <2> QED
    BY <1>1, <2>1, <2>2 DEF GoldInv, Covered, SucceededInGold, UpsertedDurable, passVars, StageEffect,
       PassTypeOK
<1>2. CASE PassNext
  <2> USE DEF PassAt, PassTypeOK, PassPC, InTransaction, LoopHasRun, ListedDurable, NothingPending,
              StageInv, StageTypeOK, DbTypeOK, RunStatus, dbVars, runVars, GoldInv, Covered,
              SucceededInGold, UpsertedDurable
  <2>1. PICK q \in Pass : ListStaged(q) \/ AdvancePass(q) \/ TripBreaker(q) \/ AbortPass(q)
    BY <1>2 DEF PassNext
  <2>2. CASE Publish(q)
    <3>1. staged[q] \subseteq Contribution(q) /\ Contribution(q) \subseteq {r \in Run : bronze[r] > 0}
      BY <2>2, PassAssumption DEF Publish, Contribution, UpsertFindsListed, HeldInv, ListedAdmitted
    <3> QED BY <2>2, <3>1 DEF Publish
  <2>3. CASE Commit(q)
    BY <2>3 DEF Commit, EndTransaction, EndPass
  <2>4. CASE QuarantineRun(q)
    <3>1. \A r \in Run : status'[r] \in {status[r], "QUARANTINED"}
      BY <2>4 DEF QuarantineRun, UpdateIngestionRunStatus
    <3> QED BY <2>4, <3>1 DEF QuarantineRun
  <2>5. CASE ListStaged(q) \/ AcquireLock(q)
    BY <2>5 DEF ListStaged, AcquireLock
  <2>11. CASE TripBreaker(q) BY <2>11 DEF TripBreaker
  <2>7. CASE ClaimPublishStage(q) \/ SkipRun(q)
    BY <2>7 DEF ClaimPublishStage, SkipRun
  <2>8. CASE FinalizePublication(q) \/ CompletePublishStage(q)
    BY <2>8 DEF FinalizePublication, CompletePublishStage
  <2>9. CASE EndQuarantine(q)
    BY <2>9 DEF EndQuarantine, EndPass
  <2>6. CASE Abort(q) BY <2>6 DEF Abort, EndTransaction, EndPass
  <2>10. CASE AbortQuarantine(q) BY <2>10 DEF AbortQuarantine, EndPass
  <2> QED BY <2>1, <2>2, <2>3, <2>4, <2>5, <2>6, <2>7, <2>8, <2>9,
     <2>10, <2>11 DEF AdvancePass, AbortPass
<1>3. CASE DbtBuild \/ PublishStageLeaseExpires \/ UNCHANGED vars
  <2>1. UNCHANGED <<status, bronze, gold, passVars>>
    BY <1>3 DEF DbtBuild, PublishStageLeaseExpires, StageLeaseExpires, vars, dbVars, runVars
  <2> QED
    BY <2>1 DEF passVars, GoldInv, Covered, SucceededInGold, UpsertedDurable
<1> QED BY <1>1, <1>2, <1>3 DEF Next

\* Success means published, for the scd publisher, one pass at a time: a run is
\* SUCCEEDED only if the transaction that finalized it put its rows in gold.
THEOREM ScdSucceededInGold ==
  ASSUME Strategy = "scd", NoRivalBreaker
  PROVE  Spec => []SucceededInGold
<1>1. Init => PipeInv /\ HeldInv /\ GoldInv
  BY PipeInitInv, HeldInitInv, GoldInitInv
<1>2. PipeInv /\ HeldInv /\ GoldInv /\ [Next]_vars => (PipeInv /\ HeldInv /\ GoldInv)'
  BY PipeStepInv, HeldStepInv, GoldStepInv DEF UpsertFindsListed
<1>3. GoldInv => SucceededInGold BY DEF GoldInv
<1> QED BY <1>1, <1>2, <1>3, PTL DEF Spec

-----------------------------------------------------------------------------
(* With heartbeat threads that live as long as their pods, a run inside the   *)
(* claimed section is RUNNING, and nothing that was listed is taken back.     *)

\* Whoever is inside the claimed section holds a RUNNING run.
HoldsRunning == \A p \in Pod : pc[p] \in Holding => beat[p] /\ status[job[p]] = "RUNNING"

\* What a pass has listed is STAGED or settled.
ListedSettled ==
    \A q \in Pass : \A r \in staged[q] : status[r] \in {"STAGED"} \cup Terminal

LEMMA ListedSettledStep ==
  ASSUME PipeInv, ListedSettled, [Next]_vars
  PROVE  ListedSettled'
<1> USE DEF PipeInv, PassInv, PassTypeOK, StageInv, StageTypeOK, DbTypeOK, ListedSettled, Terminal
<1>1. CASE StageNext /\ UNCHANGED passVars
  BY <1>1, StageStepEffect DEF StageEffect, Claimable, RunStatus, passVars
<1>2. CASE PassNext
  <2>1. PICK q \in Pass : ListStaged(q) \/ AdvancePass(q) \/ TripBreaker(q) \/ AbortPass(q)
    BY <1>2 DEF PassNext
  <2>2. CASE ListStaged(q)
    <3>1. UNCHANGED status BY <2>2 DEF ListStaged, dbVars, runVars
    <3>2. \A s \in Pass : staged'[s] = staged[s] \/ staged'[s] = StagedRuns
      BY <2>2 DEF ListStaged
    <3>3. \A r \in StagedRuns : status[r] = "STAGED" BY DEF StagedRuns
    <3> QED BY <3>1, <3>2, <3>3
  <2>3. CASE AcquireLock(q) \/ Publish(q) \/ TripBreaker(q)
    BY <2>3 DEF AcquireLock, Publish, TripBreaker, dbVars, runVars
  <2>4. CASE ClaimPublishStage(q) \/ SkipRun(q) \/ FinalizePublication(q)
             \/ CompletePublishStage(q) \/ Commit(q)
    BY <2>4, CurrentTodo DEF ClaimPublishStage, SkipRun, FinalizePublication,
       CompletePublishStage, Commit, EndPass, EndTransaction, dbVars, runVars
  <2>5. CASE QuarantineRun(q) \/ EndQuarantine(q)
    BY <2>5, CurrentTodo
    DEF QuarantineRun, UpdateIngestionRunStatus, EndQuarantine, EndPass, dbVars, runVars
  <2>6. CASE Abort(q) \/ AbortQuarantine(q)
    BY <2>6 DEF Abort, AbortQuarantine, EndPass, EndTransaction, dbVars, runVars
  <2> QED BY <2>1, <2>2, <2>3, <2>4, <2>5, <2>6 DEF AdvancePass, AbortPass
<1>3. CASE DbtBuild \/ PublishStageLeaseExpires \/ UNCHANGED vars
  BY <1>3 DEF DbtBuild, PublishStageLeaseExpires, StageLeaseExpires, vars, dbVars, runVars, passVars
<1> QED BY <1>1, <1>2, <1>3 DEF Next

LEMMA HoldsRunningStep ==
  ASSUME PipeInv, ListedSettled, HoldsRunning, HeartbeatsFail = FALSE, [Next]_vars
  PROVE  HoldsRunning'
<1> USE DEF PipeInv, PassInv, PassTypeOK, StageInv, StageTypeOK, DbTypeOK, RunStatus, HoldsRunning,
            Holding, Terminal
<1>1. CASE StageNext /\ UNCHANGED passVars
  <2> USE DEF dbVars, runVars, stageVars, podVars, Goto, Vacate, Ended, Waiting, HeartbeatHolds
  <2>1. ASSUME NEW p \in Pod, \E r \in Run : Launch(p, r) PROVE HoldsRunning'
    BY <2>1 DEF Launch
  <2>2. ASSUME NEW p \in Pod, Claim(p) \/ AwaitClaim(p) PROVE HoldsRunning'
    BY <2>2 DEF Claim, AwaitClaim, TakeClaim, ClaimIngestionRun
  <2>3. ASSUME NEW p \in Pod,
               ClaimRefused(p) \/ AwaitRead(p) \/ AwaitRefused(p) \/ GiveUp(p) \/ Skip(p)
        PROVE  HoldsRunning'
    BY <2>3 DEF ClaimRefused, AwaitRead, AwaitRefused, GiveUp, Skip
  <2>4. ASSUME NEW p \in Pod, CommitBronze(p) \/ Finish(p) PROVE HoldsRunning'
    BY <2>4 DEF CommitBronze, Finish
  <2>5. ASSUME NEW p \in Pod, MarkStaged(p) \/ MarkFails(p) PROVE HoldsRunning'
    BY <2>5 DEF MarkStaged, MarkFails, UpdateIngestionRunStatus
  <2>6. ASSUME NEW p \in Pod, Release(p) PROVE HoldsRunning'
    BY <2>6 DEF Release, FailIngestionRunClaim
  <2>7. ASSUME NEW p \in Pod, Heartbeat(p) PROVE HoldsRunning'
    BY <2>7 DEF Heartbeat, HeartbeatIngestionRun
  <2>8. ASSUME NEW p \in Pod, StagingFails(p) \/ HeartbeatDies(p) \/ Crash(p) PROVE HoldsRunning'
    BY <2>8 DEF StagingFails, HeartbeatDies, Crash
  <2>9. ASSUME NEW r \in Run, LeaseExpires(r) PROVE HoldsRunning'
    BY <2>9 DEF LeaseExpires
  <2> QED
    BY <1>1, <2>1, <2>2, <2>3, <2>4, <2>5, <2>6, <2>7, <2>8, <2>9 DEF StageNext, Advance, Disturb
<1>2. CASE PassNext /\ UNCHANGED podVars
  <2>1. \A r \in Run : status[r] = "RUNNING" => status'[r] = "RUNNING"
    BY <1>2, CurrentTodo DEF PassNext, ListStaged, AdvancePass, TripBreaker, AbortPass, AcquireLock,
       Publish, ClaimPublishStage, SkipRun, FinalizePublication, CompletePublishStage, Commit,
       QuarantineRun, UpdateIngestionRunStatus, EndQuarantine, Abort, AbortQuarantine, dbVars,
       runVars, ListedSettled, ListedDurable
  <2> QED BY <1>2, <2>1 DEF podVars
<1>3. CASE DbtBuild \/ PublishStageLeaseExpires \/ UNCHANGED vars
  BY <1>3 DEF DbtBuild, PublishStageLeaseExpires, StageLeaseExpires, vars, dbVars, runVars, podVars
<1> QED BY <1>1, <1>2, <1>3 DEF Next

SettledInv == PipeInv /\ HeldInv /\ ListedSettled /\ HoldsRunning

\* The invariant behind the terminal states and the refinement.
LEMMA SettledInvariance ==
  ASSUME NoRivalBreaker, HeartbeatsFail = FALSE
  PROVE  Spec => []SettledInv
<1>1. Init => SettledInv
  BY PipeInitInv, HeldInitInv
  DEF SettledInv, Init, StageInit, PassInit, ListedSettled, HoldsRunning, Holding
<1>2. SettledInv /\ [Next]_vars => SettledInv'
  BY PipeStepInv, HeldStepInv, ListedSettledStep, HoldsRunningStep DEF SettledInv
<1> QED BY <1>1, <1>2, PTL DEF Spec

\* SUCCEEDED and QUARANTINED are terminal: no claim, release, late STAGED mark,
\* commit or quarantine takes such a run back.
THEOREM PipeTerminalStays ==
  ASSUME NoRivalBreaker, HeartbeatsFail = FALSE
  PROVE  Spec => TerminalStays
<1> DEFINE A == \A r \in Run : status[r] \in Terminal => status'[r] = status[r]
<1>1. SettledInv /\ [Next]_vars => [A]_vars
  <2> SUFFICES ASSUME SettledInv, Next PROVE A OBVIOUS
  <2> USE DEF SettledInv, PipeInv, PassInv, PassTypeOK, StageInv, StageTypeOK, DbTypeOK, RunStatus, Terminal
  <2>1. CASE StageNext /\ UNCHANGED passVars
    BY <2>1, StageStepEffect DEF StageEffect, Claimable, HoldsRunning, Holding
  <2>2. CASE PassNext
    <3>1. ASSUME NEW q \in Pass, QuarantineRun(q) PROVE A
      BY <3>1, CurrentTodo, PassAssumption DEF QuarantineRun, UpdateIngestionRunStatus, HeldInv,
         TodoStaged, NobodyQuarantined, NoRivalBreaker
    <3>2. ASSUME NEW q \in Pass, Commit(q) PROVE A
      BY <3>2 DEF Commit, HeldInv, HeldStaged
    <3> QED
      BY <2>2, <3>1, <3>2 DEF PassNext, ListStaged, AdvancePass, TripBreaker, AbortPass, AcquireLock,
         Publish, ClaimPublishStage, SkipRun, FinalizePublication, CompletePublishStage,
         EndQuarantine, Abort, AbortQuarantine, dbVars, runVars
  <2>3. CASE DbtBuild \/ PublishStageLeaseExpires
    BY <2>3 DEF DbtBuild, PublishStageLeaseExpires, StageLeaseExpires, runVars
  <2> QED BY <2>1, <2>2, <2>3 DEF Next
<1>2. Spec => [][A]_vars
  BY <1>1, SettledInvariance, PTL DEF Spec
<1> QED BY <1>2 DEF TerminalStays

-----------------------------------------------------------------------------
(* The pipeline implements RunLifecycle.                                     *)

\* One step of the pipeline is one step of the lifecycle, or none.
LEMMA LifecycleStep ==
  ASSUME SettledInv, GoldInv, NoRivalBreaker, [Next]_vars
  PROVE  [Lifecycle!LifecycleNext]_Lifecycle!lifecycleVars
<1> DEFINE B == {r \in Run : bronze[r] > 0}
<1> USE DEF SettledInv, PipeInv, PassInv, PassTypeOK, StageInv, StageTypeOK, DbTypeOK, RunStatus,
            Terminal, Lifecycle!lifecycleVars
<1>1. CASE StageNext /\ UNCHANGED passVars
  <2>1. StageEffect BY <1>1, StageStepEffect
  <2>2. CASE UNCHANGED <<status, bronze>>
    BY <2>1, <2>2 DEF StageEffect
  <2>3. CASE UNCHANGED status /\ \E p \in Pod : /\ pc[p] = "load"
                                                /\ bronze' = [bronze EXCEPT ![job[p]] = @ + 1]
    <3>1. PICK p \in Pod : pc[p] = "load" /\ bronze' = [bronze EXCEPT ![job[p]] = @ + 1]
      BY <2>3
    <3>2. PICK r \in Run : r = job[p] /\ status[r] = "RUNNING"
      BY <3>1 DEF HoldsRunning, Holding
    <3>3. B' = B \cup {r}
      BY <3>1, <3>2
    <3>4. Lifecycle!Append(r)
      BY <2>1, <2>3, <3>2, <3>3 DEF StageEffect, Lifecycle!Append
    <3> QED BY <3>4 DEF Lifecycle!LifecycleNext
  <2>4. ASSUME UNCHANGED bronze, NEW r \in Run,
               Claimable(r) /\ status' = [status EXCEPT ![r] = "RUNNING"]
        PROVE  Lifecycle!LifecycleNext
    <3>1. Lifecycle!Start(r)
      BY <2>1, <2>4 DEF StageEffect, Claimable, Lifecycle!Start, Lifecycle!Become
    <3> QED BY <3>1 DEF Lifecycle!LifecycleNext
  <2>5. ASSUME UNCHANGED bronze, NEW r \in Run, status' = [status EXCEPT ![r] = "STAGED"],
               \E p \in Pod : pc[p] = "mark" /\ job[p] = r
        PROVE  Lifecycle!LifecycleNext
    <3>1. Lifecycle!Stage(r)
      BY <2>1, <2>5 DEF StageEffect, HoldsRunning, Holding, PastCommit, Lifecycle!Stage, Lifecycle!Become
    <3> QED BY <3>1 DEF Lifecycle!LifecycleNext
  <2>6. ASSUME UNCHANGED bronze, NEW r \in Run,
               status[r] = "RUNNING" /\ status' = [status EXCEPT ![r] = "FAILED"]
        PROVE  Lifecycle!LifecycleNext
    <3>1. Lifecycle!Fail(r)
      BY <2>1, <2>6 DEF StageEffect, Lifecycle!Fail, Lifecycle!Become
    <3> QED BY <3>1 DEF Lifecycle!LifecycleNext
  <2> QED BY <2>1, <2>2, <2>3, <2>4, <2>5, <2>6 DEF StageEffect
<1>2. CASE PassNext
  <2>1. ASSUME NEW q \in Pass, QuarantineRun(q) PROVE Lifecycle!LifecycleNext
    <3>1. status[Current(q)] = "STAGED" /\ Current(q) \in Run
      BY <2>1, CurrentTodo, PassAssumption DEF QuarantineRun, HeldInv, TodoStaged,
         NobodyQuarantined, NoRivalBreaker
    <3>2. Lifecycle!Quarantine(Current(q))
      BY <2>1, <3>1 DEF QuarantineRun, UpdateIngestionRunStatus, Lifecycle!Quarantine, Lifecycle!Become
    <3> QED BY <3>1, <3>2 DEF Lifecycle!LifecycleNext
  <2>2. ASSUME NEW q \in Pass, Commit(q) PROVE Lifecycle!LifecycleNext
    <3>1. /\ \A r \in finalized[q] : status[r] = "STAGED"
          /\ finalized[q] \subseteq upserted[q] /\ upserted[q] \subseteq B
      BY <2>2 DEF Commit, HeldInv, HeldStaged, GoldInv, Covered, UpsertedDurable, ListedDurable
    <3>2. Lifecycle!Succeed(finalized[q], upserted[q])
      BY <2>2, <3>1 DEF Commit, Lifecycle!Succeed
    <3>3. finalized[q] \in SUBSET Run /\ upserted[q] \in SUBSET Run
      OBVIOUS
    <3> QED BY <3>2, <3>3 DEF Lifecycle!LifecycleNext
  <2> QED
    BY <1>2, <2>1, <2>2 DEF PassNext, ListStaged, AdvancePass, TripBreaker, AbortPass, AcquireLock,
       Publish, ClaimPublishStage, SkipRun, FinalizePublication, CompletePublishStage,
       EndQuarantine, Abort, AbortQuarantine, dbVars, runVars
<1>3. CASE DbtBuild \/ PublishStageLeaseExpires \/ UNCHANGED vars
  BY <1>3 DEF DbtBuild, PublishStageLeaseExpires, StageLeaseExpires, vars, dbVars, runVars
<1> QED BY <1>1, <1>2, <1>3 DEF Next

LEMMA LifecycleStart == Init => Lifecycle!LifecycleInit
  BY DEF Init, StageInit, DbInit, Lifecycle!LifecycleInit

\* The pipeline with the scd publisher, one pass at a time, implements the
\* lifecycle: through every crash, lost lease, rollback and tripped breaker.
THEOREM ScdImplementsLifecycle ==
  ASSUME Strategy = "scd", NoRivalBreaker, HeartbeatsFail = FALSE
  PROVE  Spec => LifecycleImplemented
<1>1. Init => GoldInv
  BY GoldInitInv
<1>2. SettledInv /\ GoldInv /\ [Next]_vars => GoldInv'
  BY GoldStepInv DEF UpsertFindsListed, SettledInv
<1>3. SettledInv /\ GoldInv /\ [Next]_vars => [Lifecycle!LifecycleNext]_Lifecycle!lifecycleVars
  BY LifecycleStep
<1>4. Spec => Lifecycle!LifecycleSpec
  BY <1>1, <1>2, <1>3, LifecycleStart, SettledInvariance, PTL DEF Spec, Lifecycle!LifecycleSpec
<1> QED BY <1>4 DEF LifecycleImplemented

-----------------------------------------------------------------------------
(* The ingestion DAG.                                                        *)

\* Whatever a DagRun starts, gives up on or loses, the pipeline makes a step of
\* its own or none.
LEMMA DagStep == [DagNext]_allVars => [Next]_vars
<1> SUFFICES ASSUME [DagNext]_allVars PROVE [Next]_vars OBVIOUS
<1>1. ASSUME NEW d \in DagRun, DagAdvances(d) PROVE [Next]_vars
  BY <1>1 DEF DagAdvances, Discover, StageSucceeds, StageCannotSucceed, StageGivenUp,
     MarkDbtBuildRunning, DbtBuildSucceeds, MarkDbtBuildDone, DagRunEnds, StageReceipt,
     PublishAttempt, Next, PassNext
<1>2. ASSUME NEW d \in DagRun, DagFails(d) PROVE [Next]_vars
  BY <1>2 DEF DagFails, StageFails, StageGivenUp, DbtBuildFails, PublishLost, DagRunTimesOut, Next
<1>3. ASSUME NEW d \in DagRun, NEW p \in Pod, NEW r \in Run, StageAttempt(d, p, r) PROVE [Next]_vars
  BY <1>3 DEF StageAttempt, Next, StageNext
<1>4. ASSUME NEW q \in Pass, PassStep(q) \/ PublishAttemptFails(q) PROVE [Next]_vars
  BY <1>4 DEF PassStep, PublishAttemptFails, Next, PassNext
<1>5. ASSUME NEW p \in Pod, PodStep(p) PROVE [Next]_vars
  BY <1>5 DEF PodStep, Next, StageNext
<1>6. CASE LeasesElapse
  BY <1>6 DEF LeasesElapse, Next, StageNext
<1>7. CASE (\E r \in Run : Land(r)) \/ SchemaMoves
  BY <1>7 DEF Land, SchemaMoves
<1>8. CASE UNCHANGED allVars
  BY <1>8 DEF allVars
<1> QED
  BY <1>1, <1>2, <1>3, <1>4, <1>5, <1>6, <1>7, <1>8 DEF DagNext

\* A DAG over the pipeline behaves as the pipeline: what is proved of stage pods,
\* builds and passes in any order holds of those a DAG starts.
THEOREM DagImplementsPipeline == DagSpec => Spec
<1>1. DagInit => Init BY DEF DagInit
<1> QED BY <1>1, DagStep, PTL DEF DagSpec, Spec

DagOwnTypeOK ==
    /\ keyed \subseteq landed /\ landed \subseteq Run
    /\ dag \in [DagRun -> Task]
    /\ offered \in [DagRun -> SUBSET Run]
    /\ receipts \in [DagRun -> SUBSET Run]
    /\ pending \in [DagRun -> SUBSET Run]
    /\ built \in [DagRun -> BOOLEAN]
    /\ runner \in [DagRun -> Pass \cup {NoPass}]
    /\ dbtStage \in [Run -> {"none", "RUNNING", "SUCCEEDED", "FAILED"}]
    /\ taskFailures \in 0..MaxTaskFailures
    /\ losses \in 0..MaxLost

LEMMA DagInitType == DagInit => DagOwnTypeOK
  BY DagAssumption DEF DagInit, DagOwnTypeOK, Task

LEMMA DagTypeStep ==
  ASSUME StageTypeOK, DagOwnTypeOK, [DagNext]_allVars
  PROVE  DagOwnTypeOK'
<1> USE DagAssumption DEF DagOwnTypeOK, Task, dagVars, DagAt, TaskFailure, Loss, NoTaskFailure
<1>1. CASE (\E r \in Run : Land(r)) \/ SchemaMoves
  BY <1>1 DEF Land, SchemaMoves
<1>2. ASSUME NEW d \in DagRun, Discover(d) PROVE DagOwnTypeOK'
  BY <1>2 DEF Discover, FirstUnits
<1>3. ASSUME NEW d \in DagRun, StageSucceeds(d) PROVE DagOwnTypeOK'
  BY <1>3 DEF StageSucceeds, PendingDbtBuild, StageLoadSucceeded
<1>4. ASSUME NEW d \in DagRun, StageCannotSucceed(d) \/ StageFails(d) PROVE DagOwnTypeOK'
  BY <1>4 DEF StageCannotSucceed, StageFails, StageGivenUp
<1>5. ASSUME NEW d \in DagRun, MarkDbtBuildRunning(d) \/ MarkDbtBuildDone(d) PROVE DagOwnTypeOK'
  <2>1. dbtStage' \in [Run -> {"none", "RUNNING", "SUCCEEDED", "FAILED"}]
    BY <1>5 DEF MarkDbtBuildRunning, MarkDbtBuildDone, Record
  <2> QED BY <1>5, <2>1 DEF MarkDbtBuildRunning, MarkDbtBuildDone
<1>6. ASSUME NEW d \in DagRun, DbtBuildSucceeds(d) \/ DbtBuildFails(d) PROVE DagOwnTypeOK'
  <2>1. /\ dag' = [dag EXCEPT ![d] = "done"]
        /\ built' \in {[built EXCEPT ![d] = v] : v \in BOOLEAN}
        /\ UNCHANGED <<landed, keyed, offered, receipts, pending, runner, dbtStage, losses>>
        /\ taskFailures' = taskFailures \/ TaskFailure
    BY <1>6 DEF DbtBuildSucceeds, DbtBuildFails
  <2> QED BY <2>1
<1>7. ASSUME NEW d \in DagRun, NEW p \in Pod, StageReceipt(d, p) PROVE DagOwnTypeOK'
  BY <1>7 DEF StageReceipt, StageTypeOK
<1>8. ASSUME NEW d \in DagRun, NEW q \in Pass, PublishAttempt(d, q) PROVE DagOwnTypeOK'
  BY <1>8 DEF PublishAttempt
<1>9. ASSUME NEW d \in DagRun, DagRunEnds(d) \/ PublishLost(d) \/ DagRunTimesOut(d) PROVE DagOwnTypeOK'
  BY <1>9 DEF DagRunEnds, PublishLost, DagRunTimesOut
<1>10. ASSUME NEW q \in Pass, PublishAttemptFails(q) PROVE DagOwnTypeOK'
  BY <1>10 DEF PublishAttemptFails
<1>11. CASE UNCHANGED dagVars
  BY <1>11
<1> QED
  BY <1>1, <1>2, <1>3, <1>4, <1>5, <1>6, <1>7, <1>8, <1>9, <1>10, <1>11
  DEF DagNext, DagAdvances, DagFails, StageAttempt, PassStep, PodStep, LeasesElapse, allVars

\* Type correctness of DagRuns over the pipeline.
THEOREM DagTypeCorrect == DagSpec => []DagTypeOK
<1>1. PipeInv => StageTypeOK /\ TypeOK BY DEF PipeInv, StageInv, PassInv, TypeOK
<1>2. DagInit => DagOwnTypeOK BY DagInitType
<1>3. StageTypeOK /\ DagOwnTypeOK /\ [DagNext]_allVars => DagOwnTypeOK' BY DagTypeStep
<1>4. TypeOK /\ DagOwnTypeOK => DagTypeOK BY DEF DagTypeOK, DagOwnTypeOK
<1> QED BY <1>1, <1>2, <1>3, <1>4, DagImplementsPipeline, PipeInvariance, PTL DEF DagSpec

-----------------------------------------------------------------------------
(* Folded before published, for merge_orders under one DagRun at a time whose *)
(* tasks Airflow does not give up on and which never times out: by the time   *)
(* its publish task starts, whatever any pod ever staged has been built.      *)

OneDagRun ==
    /\ \A d, e \in DagRun : d = e
    /\ MaxTaskFailures = 0 /\ TimesOut = FALSE
    /\ Strategy = "merge_orders"

Untouched(r) == status[r] = "PENDING" /\ \A p \in Pod : pc[p] = "idle" \/ job[p] # r

\* What the DagRun has not offered, whether the cap or a new schema version left
\* it out or nobody has come to it yet, is in silver or untouched; between two
\* DagRuns so is everything.
OthersSettled ==
    \A d \in DagRun : \A r \in Run :
        (dag[d] # "idle" => r \notin offered[d]) => r \in silver \/ Untouched(r)

\* A receipt stands for committed rows; the build starts when all are in; and
\* after it all are in silver.
ReceiptsDurable == \A d \in DagRun : \A r \in receipts[d] : bronze[r] > 0
BuildReady == \A d \in DagRun : dag[d] \in {"mark", "dbt"} => offered[d] \subseteq receipts[d]
BuildDone == \A d \in DagRun : dag[d] \in {"done", "publish"} => offered[d] \subseteq silver
RunnerPublishes == \A d \in DagRun : runner[d] # NoPass => dag[d] = "publish"

\* A pass, even one whose DagRun is long over, has listed folded runs only.
ListedFolded ==
    \A q \in Pass : ppc[q] \in InTransaction \cup {"wait"} => staged[q] \subseteq silver
SucceededFolded == \A r \in Run : status[r] = "SUCCEEDED" => r \in silver

FoldInv ==
    /\ OthersSettled /\ ReceiptsDurable /\ BuildReady /\ BuildDone /\ RunnerPublishes
    /\ ListedFolded /\ SucceededFolded

LEMMA FoldInitInv == DagInit => FoldInv
  BY DEF DagInit, Init, StageInit, DbInit, PassInit, FoldInv, OthersSettled, Untouched,
     ReceiptsDurable, BuildReady, BuildDone, RunnerPublishes, ListedFolded, SucceededFolded, InTransaction

\* A pod that is under way keeps its run.
LEMMA PodKeepsJob ==
  ASSUME StageTypeOK, NEW p \in Pod, Advance(p) \/ Heartbeat(p) \/ Disturb(p)
  PROVE  \A z \in Pod : pc'[z] # "idle" => pc[z] # "idle" /\ job'[z] = job[z]
<1> USE DEF StageTypeOK, podVars, Goto, Vacate
<1>1. CASE Claim(p) \/ AwaitClaim(p)
  BY <1>1 DEF Claim, AwaitClaim, TakeClaim
<1>2. CASE ClaimRefused(p) \/ AwaitRead(p) \/ AwaitRefused(p) \/ GiveUp(p) \/ Skip(p)
  BY <1>2 DEF ClaimRefused, AwaitRead, AwaitRefused, GiveUp, Skip
<1>3. CASE CommitBronze(p) \/ MarkStaged(p) \/ MarkFails(p) \/ Finish(p) \/ Release(p)
  BY <1>3 DEF CommitBronze, MarkStaged, MarkFails, Finish, Release
<1>4. CASE Heartbeat(p) \/ StagingFails(p) \/ HeartbeatDies(p) \/ Crash(p)
  BY <1>4 DEF Heartbeat, StagingFails, HeartbeatDies, Crash
<1> QED BY <1>1, <1>2, <1>3, <1>4 DEF Advance, Disturb

\* What the pods do by themselves disturbs none of it.
LEMMA PodPreservesFold ==
  ASSUME PipeInv, DagOwnTypeOK, FoldInv, NEW p \in Pod, PodStep(p)
  PROVE  FoldInv'
<1> USE DEF PipeInv, PassInv, PassTypeOK
<1>1. StageTypeOK /\ StageEffect
  BY StageStepEffect DEF PodStep, StageNext, StageInv
<1>2. \A z \in Pod : pc'[z] # "idle" => pc[z] # "idle" /\ job'[z] = job[z]
  BY <1>1, PodKeepsJob DEF PodStep
<1>3. \A r \in Run : /\ bronze[r] > 0 => bronze'[r] > 0
                     /\ status'[r] = "SUCCEEDED" => status[r] = "SUCCEEDED"
  BY <1>1, StageEffectOnRun DEF Terminal
<1>4. \A r \in Run : status'[r] # status[r] => \E z \in Pod : pc[z] # "idle" /\ job[z] = r
  BY <1>1 DEF StageEffect, StageTypeOK, DbTypeOK
<1>5. UNCHANGED <<silver, passVars, dagVars>>
  BY <1>1 DEF StageEffect, PodStep
<1>6. \A r \in Run : Untouched(r) => Untouched(r)'
  BY <1>2, <1>4 DEF Untouched
<1>8. OthersSettled'
  BY <1>5, <1>6 DEF FoldInv, OthersSettled, dagVars
<1>9. ReceiptsDurable'
  BY <1>3, <1>5 DEF FoldInv, ReceiptsDurable, dagVars, DagOwnTypeOK
<1>10. BuildReady' /\ BuildDone' /\ RunnerPublishes' /\ ListedFolded' /\ SucceededFolded'
  BY <1>3, <1>5 DEF FoldInv, BuildReady, BuildDone, RunnerPublishes, ListedFolded, SucceededFolded,
     dagVars, passVars
<1> QED BY <1>8, <1>9, <1>10 DEF FoldInv

\* A publish pass commits and ends on what it has listed.
LEMMA PassPreservesFold ==
  ASSUME PipeInv, DagOwnTypeOK, FoldInv, OneDagRun, HeldInv, NEW q \in Pass,
         AdvancePass(q) \/ TripBreaker(q) \/ AbortPass(q),
         UNCHANGED <<podVars, offered, receipts>>,
         \A d \in DagRun :
            /\ dag'[d] = dag[d] \/ (dag'[d] = "idle" /\ dag[d] = "publish")
            /\ runner'[d] = NoPass \/ (runner'[d] = runner[d] /\ dag'[d] = dag[d])
  PROVE  FoldInv'
<1> USE DEF PipeInv, PassInv, PassTypeOK, InTransaction, PassPC, podVars, PassAt
<1>1. /\ UNCHANGED <<bronze, silver>>
      /\ \A z \in Pass : /\ staged'[z] \subseteq staged[z]
                         /\ ppc'[z] \in InTransaction \cup {"wait"} => ppc[z] \in InTransaction \cup {"wait"}
  BY DEF AdvancePass, TripBreaker, AbortPass, AcquireLock, Publish, ClaimPublishStage, SkipRun,
     FinalizePublication, CompletePublishStage, Commit, QuarantineRun, EndQuarantine, Abort,
     AbortQuarantine, EndPass, dbVars
<1>2. ppc[q] # "quarantine" /\ Strategy # "scd"
  BY PassAssumption DEF OneDagRun, HeldInv, NobodyQuarantined
<1>3. \A r \in Run : \/ status'[r] = status[r]
                     \/ r \in silver /\ status[r] = "STAGED" /\ status'[r] = "SUCCEEDED"
  <2>1. CASE Commit(q)
    BY <2>1 DEF Commit, FoldInv, ListedFolded, ListedDurable, HeldInv, HeldStaged
  <2>2. CASE ~Commit(q)
    BY <1>2, <2>2 DEF AdvancePass, TripBreaker, AbortPass, AcquireLock, Publish, ClaimPublishStage,
       SkipRun, FinalizePublication, CompletePublishStage, QuarantineRun, EndQuarantine, Abort,
       AbortQuarantine, dbVars, runVars
  <2> QED BY <2>1, <2>2
<1>4. OthersSettled'
  BY <1>1, <1>3 DEF FoldInv, OthersSettled, BuildDone, Untouched, DagOwnTypeOK
<1>5. ReceiptsDurable' /\ BuildReady' /\ BuildDone' /\ RunnerPublishes'
  BY <1>1 DEF FoldInv, ReceiptsDurable, BuildReady, BuildDone, RunnerPublishes
<1>6. ListedFolded' /\ SucceededFolded'
  BY <1>1, <1>3 DEF FoldInv, ListedFolded, SucceededFolded
<1> QED BY <1>4, <1>5, <1>6 DEF FoldInv

\* A build folds whatever is in bronze: the receipts of its DagRun, and nothing
\* silver has is lost.
LEMMA BuildPreservesFold ==
  ASSUME PipeInv, DagOwnTypeOK, FoldInv, NEW d \in DagRun, DbtBuildSucceeds(d)
  PROVE  FoldInv'
<1> USE DEF PipeInv, PassInv
<1>1. /\ UNCHANGED <<status, bronze, podVars, passVars, offered, receipts, runner>>
      /\ silver' = {r \in Run : bronze[r] > 0} /\ silver \subseteq silver'
      /\ dag[d] = "dbt" /\ dag' = [dag EXCEPT ![d] = "done"]
  BY DEF DbtBuildSucceeds, DbtBuild, DagAt, runVars
<1>2. OthersSettled'
  BY <1>1 DEF FoldInv, OthersSettled, Untouched, podVars, DagOwnTypeOK
<1>3. ReceiptsDurable' /\ BuildReady' /\ BuildDone' /\ RunnerPublishes'
  BY <1>1 DEF FoldInv, ReceiptsDurable, BuildReady, BuildDone, RunnerPublishes, DagOwnTypeOK
<1>4. ListedFolded' /\ SucceededFolded'
  BY <1>1 DEF FoldInv, ListedFolded, SucceededFolded, passVars
<1> QED BY <1>2, <1>3, <1>4 DEF FoldInv

\* The tasks around the pods, the build and the passes.
LEMMA TasksPreserveFold ==
  ASSUME PipeInv, DagOwnTypeOK, FoldInv, OneDagRun, HeldInv, UNCHANGED vars, NEW d \in DagRun,
         \/ Discover(d) \/ StageSucceeds(d) \/ StageCannotSucceed(d) \/ MarkDbtBuildRunning(d)
         \/ MarkDbtBuildDone(d) \/ DagRunEnds(d) \/ \E p \in Pod : StageReceipt(d, p)
         \/ PublishLost(d)
  PROVE  FoldInv'
<1> USE DEF PipeInv, PassInv, DagOwnTypeOK, DagAt, vars, dbVars, podVars, passVars
<1>0. UNCHANGED <<status, bronze, silver, pc, job, ppc, staged>>
  OBVIOUS
<1>1. ListedFolded' /\ SucceededFolded' /\ \A r \in Run : Untouched(r)' <=> Untouched(r)
  BY <1>0 DEF FoldInv, ListedFolded, SucceededFolded, Untouched
<1>2. CASE Discover(d)
  <2>1. PICK found \in SUBSET Run :
           /\ offered' = [offered EXCEPT ![d] = found] /\ receipts' = [receipts EXCEPT ![d] = {}]
           /\ dag' = [dag EXCEPT ![d] = IF found = {} THEN "publish" ELSE "stage"]
           /\ dag[d] = "idle" /\ runner' = runner
    <3> DEFINE found == FirstUnits({r \in keyed : status[r] \notin Terminal})
    <3>1. found \in SUBSET Run BY DEF FirstUnits
    <3> HIDE DEF found
    <3> QED BY <1>2, <3>1 DEF Discover, found
  <2>2. OthersSettled'
    BY <1>0, <1>1, <2>1 DEF FoldInv, OthersSettled, OneDagRun
  <2>3. ReceiptsDurable' /\ BuildReady' /\ BuildDone' /\ RunnerPublishes'
    BY <1>0, <2>1
    DEF FoldInv, ReceiptsDurable, BuildReady, BuildDone, RunnerPublishes, OneDagRun
  <2> QED BY <1>1, <2>2, <2>3 DEF FoldInv
<1>3. CASE StageCannotSucceed(d)
  BY <1>3 DEF StageCannotSucceed, OneDagRun, HeldInv, NobodyQuarantined
<1>4. CASE \E p \in Pod : StageReceipt(d, p)
  <2>1. PICK p \in Pod : StageReceipt(d, p) BY <1>4
  <2>2. bronze[job[p]] > 0
    BY <2>1 DEF StageReceipt, Unread, StageInv, PastCommit
  <2>3. ReceiptsDurable' /\ BuildReady'
    BY <1>0, <2>1, <2>2 DEF StageReceipt, FoldInv, ReceiptsDurable, BuildReady
  <2>4. OthersSettled' /\ BuildDone' /\ RunnerPublishes'
    BY <1>0, <1>1, <2>1 DEF StageReceipt, FoldInv, OthersSettled, BuildDone, RunnerPublishes
  <2> QED BY <1>1, <2>3, <2>4 DEF FoldInv
<1>5. CASE StageSucceeds(d) \/ MarkDbtBuildRunning(d) \/ MarkDbtBuildDone(d)
  <2>1. /\ UNCHANGED <<offered, receipts, runner>> /\ dag[d] \notin {"idle", "publish"}
        /\ \/ dag' = [dag EXCEPT ![d] = "mark"] /\ receipts[d] = offered[d]
           \/ dag' = [dag EXCEPT ![d] = "dbt"] /\ dag[d] = "mark"
           \/ dag' = [dag EXCEPT ![d] = "publish"] /\ dag[d] = "done"
    BY <1>5 DEF StageSucceeds, MarkDbtBuildRunning, MarkDbtBuildDone
  <2>2. OthersSettled'
    BY <1>0, <1>1, <2>1 DEF FoldInv, OthersSettled
  <2>3. ReceiptsDurable' /\ BuildReady' /\ BuildDone' /\ RunnerPublishes'
    BY <1>0, <2>1 DEF FoldInv, ReceiptsDurable, BuildReady, BuildDone, RunnerPublishes
  <2> QED BY <1>1, <2>2, <2>3 DEF FoldInv
<1>6. CASE DagRunEnds(d) \/ PublishLost(d)
  <2>1. /\ UNCHANGED <<offered, receipts>> /\ runner' = [runner EXCEPT ![d] = NoPass]
        /\ \/ dag' = dag
           \/ dag[d] = "publish" /\ dag' = [dag EXCEPT ![d] = "idle"]
    BY <1>6 DEF DagRunEnds, PublishLost
  <2>2. OthersSettled'
    BY <1>0, <1>1, <2>1 DEF FoldInv, OthersSettled, BuildDone
  <2>3. ReceiptsDurable' /\ BuildReady' /\ BuildDone' /\ RunnerPublishes'
    BY <1>0, <2>1 DEF FoldInv, ReceiptsDurable, BuildReady, BuildDone, RunnerPublishes
  <2> QED BY <1>1, <2>2, <2>3 DEF FoldInv
<1> QED BY <1>2, <1>3, <1>4, <1>5, <1>6

\* A publish task starts: whatever is STAGED by now was offered and built, or
\* was in silver before.
LEMMA PublishStartPreservesFold ==
  ASSUME PipeInv, DagOwnTypeOK, FoldInv, NEW d \in DagRun, NEW q \in Pass, PublishAttempt(d, q)
  PROVE  FoldInv'
<1> USE DEF PipeInv, PassInv, PassTypeOK, PassAt, dbVars, podVars
<1>1. /\ UNCHANGED <<status, bronze, silver, pc, job, offered, receipts, dag>>
      /\ dag[d] = "publish" /\ runner' = [runner EXCEPT ![d] = q]
      /\ staged' = [staged EXCEPT ![q] = StagedRuns]
      /\ \A z \in Pass \ {q} : ppc'[z] = ppc[z]
  BY DEF PublishAttempt, ListStaged
<1>2. StagedRuns \subseteq silver
  <2> SUFFICES ASSUME NEW r \in Run, status[r] = "STAGED" PROVE r \in silver
    BY DEF StagedRuns
  <2>1. CASE r \in offered[d] BY <1>1, <2>1 DEF FoldInv, BuildDone
  <2>2. CASE r \notin offered[d] BY <1>1, <2>2 DEF FoldInv, OthersSettled, Untouched
  <2> QED BY <2>1, <2>2
<1>3. ListedFolded'
  BY <1>1, <1>2 DEF FoldInv, ListedFolded
<1> QED
  BY <1>1, <1>3 DEF FoldInv, OthersSettled, Untouched, ReceiptsDurable, BuildReady,
     BuildDone, RunnerPublishes, SucceededFolded

\* A stage attempt starts on an offered run; a file lands; leases elapse.
LEMMA OthersPreserveFold ==
  ASSUME PipeInv, DagOwnTypeOK, FoldInv, OneDagRun,
         \/ \E d \in DagRun, p \in Pod, r \in Run : StageAttempt(d, p, r)
         \/ \E r \in Run : Land(r)
         \/ SchemaMoves
         \/ LeasesElapse
         \/ UNCHANGED allVars
  PROVE  FoldInv'
<1> USE DEF DagOwnTypeOK, dbVars, podVars, passVars, dagVars
<1>1. ASSUME NEW d \in DagRun, NEW p \in Pod, NEW r \in Run, StageAttempt(d, p, r) PROVE FoldInv'
  <2>1. /\ UNCHANGED <<dbVars, passVars, dagVars>> /\ r \in offered[d] /\ dag[d] = "stage"
        /\ pc' = [pc EXCEPT ![p] = "claim"] /\ job' = [job EXCEPT ![p] = r]
    BY <1>1 DEF StageAttempt, Launch
  <2>2. pc \in [Pod -> PodPC] /\ job \in [Pod -> Run]
    BY DEF PipeInv, StageInv, StageTypeOK
  <2>3. \A s \in Run : Untouched(s) => Untouched(s)' \/ s = r
    BY <2>1, <2>2 DEF Untouched
  <2>4. OthersSettled'
    BY <2>1, <2>3 DEF FoldInv, OthersSettled, OneDagRun
  <2> QED
    BY <2>1, <2>4 DEF FoldInv, ReceiptsDurable, BuildReady, BuildDone, RunnerPublishes, ListedFolded,
       SucceededFolded
<1>2. CASE (\E r \in Run : Land(r)) \/ SchemaMoves \/ LeasesElapse \/ UNCHANGED allVars
  <2>1. UNCHANGED <<status, bronze, silver, pc, job, ppc, staged, offered, receipts, dag, runner>>
    BY <1>2 DEF Land, SchemaMoves, LeasesElapse, LeaseExpires, PublishStageLeaseExpires,
       StageLeaseExpires, allVars, vars
  <2> QED
    BY <2>1 DEF FoldInv, OthersSettled, Untouched, ReceiptsDurable, BuildReady, BuildDone,
       RunnerPublishes, ListedFolded, SucceededFolded
<1> QED BY <1>1, <1>2

LEMMA FoldStepInv ==
  ASSUME PipeInv, DagOwnTypeOK, HeldInv, FoldInv, OneDagRun, [DagNext]_allVars
  PROVE  FoldInv'
<1>1. ASSUME NEW d \in DagRun, DbtBuildFails(d) \/ StageFails(d) PROVE FoldInv'
  BY <1>1 DEF DbtBuildFails, StageFails, TaskFailure, OneDagRun, DagOwnTypeOK
<1>2. ASSUME NEW q \in Pass, PassStep(q) PROVE FoldInv'
  BY <1>2, PassPreservesFold DEF PassStep, dagVars, DagOwnTypeOK
<1>3. ASSUME NEW q \in Pass, PublishAttemptFails(q) PROVE FoldInv'
  <2>1. /\ UNCHANGED <<podVars, offered, receipts>>
        /\ \A d \in DagRun :
              /\ dag'[d] = dag[d] \/ (dag'[d] = "idle" /\ dag[d] = "publish")
              /\ runner'[d] = NoPass \/ (runner'[d] = runner[d] /\ dag'[d] = dag[d])
    BY <1>3, PassAssumption DEF PublishAttemptFails, DagOwnTypeOK, FoldInv, RunnerPublishes
  <2> QED BY <1>3, <2>1, PassPreservesFold DEF PublishAttemptFails
<1>4. ASSUME NEW d \in DagRun, DagAdvances(d) PROVE FoldInv'
  <2>1. CASE DbtBuildSucceeds(d) BY <2>1, BuildPreservesFold
  <2>2. CASE \E q \in Pass : PublishAttempt(d, q) BY <2>2, PublishStartPreservesFold
  <2>3. CASE ~DbtBuildSucceeds(d) /\ ~\E q \in Pass : PublishAttempt(d, q)
    <3>1. UNCHANGED vars
      BY <1>4, <2>3 DEF DagAdvances, Discover, StageSucceeds, StageCannotSucceed, StageGivenUp,
         MarkDbtBuildRunning, MarkDbtBuildDone, DagRunEnds, StageReceipt
    <3> QED BY <1>4, <2>3, <3>1, TasksPreserveFold DEF DagAdvances
  <2> QED BY <2>1, <2>2, <2>3
<1>5. ASSUME NEW d \in DagRun, PublishLost(d) \/ DagRunTimesOut(d) PROVE FoldInv'
  <2>1. PublishLost(d) /\ UNCHANGED vars BY <1>5 DEF PublishLost, DagRunTimesOut, OneDagRun
  <2> QED BY <2>1, TasksPreserveFold
<1>6. ASSUME NEW p \in Pod, PodStep(p) PROVE FoldInv'
  BY <1>6, PodPreservesFold
<1> QED
  BY <1>1, <1>2, <1>3, <1>4, <1>5, <1>6, OthersPreserveFold DEF DagNext, DagFails

DagInv == PipeInv /\ DagOwnTypeOK /\ HeldInv /\ FoldInv /\ GoldInv

LEMMA FoldedFindsListed == FoldInv => FoldedBeforePublish /\ UpsertFindsListed
  BY DEF FoldInv, ListedFolded, FoldedBeforePublish, UpsertFindsListed, InTransaction

\* The inductive invariant of merge_orders under its DAG, whichever runs the cap
\* leaves out of an offer and whenever a schema version re-keys the files, as long
\* as a DagRun ends only when its stage tasks have returned.
THEOREM DagInvariance ==
  ASSUME OneDagRun
  PROVE  DagSpec => []DagInv
<1> NoRivalBreaker BY DEF OneDagRun, NoRivalBreaker
<1>1. DagInit => DagInv
  BY PipeInitInv, DagInitType, HeldInitInv, FoldInitInv, GoldInitInv DEF DagInv, DagInit
<1>2. DagInv /\ [DagNext]_allVars => DagInv'
  <2> SUFFICES ASSUME DagInv, [DagNext]_allVars PROVE DagInv' OBVIOUS
  <2> USE DEF DagInv
  <2>1. [Next]_vars BY DagStep
  <2>2. PipeInv' /\ HeldInv' BY <2>1, PipeStepInv, HeldStepInv
  <2>3. DagOwnTypeOK' BY DagTypeStep DEF PipeInv, StageInv
  <2>4. FoldInv' BY FoldStepInv
  <2>5. GoldInv' BY <2>1, GoldStepInv, FoldedFindsListed
  <2> QED BY <2>2, <2>3, <2>4, <2>5
<1> QED BY <1>1, <1>2, PTL DEF DagSpec

\* Folded before published: every run a publish transaction was given has its
\* bronze in silver, whatever pods crash, lease or pass is lost, whenever a
\* forgotten pass wakes up and whatever discover leaves out; when no DagRun times
\* out (a pod left behind may stage a run that the next DagRun does not offer).
THEOREM DagFoldedBeforePublish ==
  ASSUME OneDagRun
  PROVE  DagSpec => []FoldedBeforePublish
<1>1. DagInv => FoldedBeforePublish BY FoldedFindsListed DEF DagInv
<1> QED BY <1>1, DagInvariance, PTL

\* Success means published, for merge_orders under its DAG and the same conditions.
THEOREM DagSucceededInGold ==
  ASSUME OneDagRun
  PROVE  DagSpec => []SucceededInGold
<1>1. DagInv => SucceededInGold BY DEF DagInv, GoldInv
<1> QED BY <1>1, DagInvariance, PTL

\* No commit turns another pass's outcome over, for merge_orders under a DAG.
THEOREM DagFinalizedByOnePass ==
  ASSUME Strategy = "merge_orders"
  PROVE  DagSpec => []FinalizedByOnePass
<1> NoRivalBreaker BY DEF NoRivalBreaker
<1>1. Spec => []FinalizedByOnePass BY PipeFinalizedByOnePass
<1> QED BY <1>1, DagImplementsPipeline, PTL

\* merge_orders implements the lifecycle under its DAG, which is what makes its
\* upsert find in silver all that it is about to call published.
THEOREM DagImplementsLifecycle ==
  ASSUME OneDagRun, HeartbeatsFail = FALSE
  PROVE  DagSpec => LifecycleImplemented
<1> NoRivalBreaker BY DEF OneDagRun, NoRivalBreaker
<1>1. DagInv => GoldInv BY DEF DagInv
<1>2. SettledInv /\ GoldInv /\ [DagNext]_allVars =>
        [Lifecycle!LifecycleNext]_Lifecycle!lifecycleVars
  BY DagStep, LifecycleStep
<1>3. DagInit => Lifecycle!LifecycleInit BY LifecycleStart DEF DagInit
<1>4. Spec => []SettledInv BY SettledInvariance
<1>5. DagSpec => []DagInv BY DagInvariance
<1>6. DagSpec => Lifecycle!LifecycleSpec
  BY <1>1, <1>2, <1>3, <1>4, <1>5, DagImplementsPipeline, PTL DEF DagSpec, Lifecycle!LifecycleSpec
<1> QED BY <1>6 DEF LifecycleImplemented
=============================================================================
