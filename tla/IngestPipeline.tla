--------------------------- MODULE IngestPipeline ---------------------------
(***************************************************************************)
(* Stage pods, dbt builds and publish passes of one dataset over one         *)
(* analytical database, in any order: what the statements and transactions   *)
(* guarantee by themselves, before any DAG puts them in sequence (IngestDag   *)
(* does).                                                                    *)
(***************************************************************************)
EXTENDS StageIngest, PublishIngest

vars == <<dbVars, podVars, passVars>>

TypeOK == StageTypeOK /\ PassTypeOK

Init == StageInit /\ PassInit

\* A dbt build: the claim ledger picks up every run that is in bronze, whatever
\* its status, and one transaction folds their rows into silver.
DbtBuild ==
    /\ silver' = {r \in Run : bronze[r] > 0}
    /\ UNCHANGED <<runVars, stageVars, locked, bronze, gold, podVars, passVars>>

PublishStageLeaseExpires ==
    \E r \in Run : StageLeaseExpires(r) /\ UNCHANGED <<podVars, passVars>>

Next ==
    \/ StageNext /\ UNCHANGED passVars
    \/ DbtBuild
    \/ PassNext /\ UNCHANGED podVars
    \/ PublishStageLeaseExpires

Spec == Init /\ [][Next]_vars

\* Airflow keeps scheduling the publish task, a started pass runs, and leases
\* elapse; the stage side is as in StageIngest.
PassFairness ==
    /\ \A q \in Pass : WF_vars(AdvancePass(q) /\ UNCHANGED podVars)
    /\ \A q \in Pass : WF_vars(ListStaged(q) /\ UNCHANGED podVars)
    /\ WF_vars(PublishStageLeaseExpires)

FairSpec == Spec /\ PassFairness

-----------------------------------------------------------------------------
(* Properties.                                                               *)

\* What the statements promise together (RunLifecycle).
Lifecycle == INSTANCE RunLifecycle WITH
    state    <- status,
    inBronze <- {r \in Run : bronze[r] > 0},
    inGold   <- gold

\* The pipeline implements RunLifecycle: stage_ingest and publish_ingest,
\* statement by statement and through crashes and rollbacks, only ever move a
\* run the way the lifecycle allows, and success and gold appear in one step.
LifecycleImplemented == Lifecycle!LifecycleSpec

\* Success means published: a run is SUCCEEDED only if the transaction that
\* finalized it also put its rows in gold (publish_ingest's one transaction).
SucceededInGold == \A r \in Run : status[r] = "SUCCEEDED" => r \in gold

\* A run is finalized by one pass: no two open transactions hold the same run
\* as finalized, and what they hold is still STAGED underneath, so that no
\* commit turns another pass's outcome over (claim_run_stage's guard).
FinalizedByOnePass ==
    /\ \A p, q \in Pass : p # q => finalized[p] \cap finalized[q] = {}
    /\ \A q \in Pass : \A r \in finalized[q] : status[r] = "STAGED"

\* SUCCEEDED and QUARANTINED are terminal: discovery never offers such a run
\* again, so no statement may take it back (run.py, the QUARANTINE comment).
TerminalStays ==
    [][\A r \in Run : status[r] \in Terminal => status'[r] = status[r]]_vars

\* No silent drop after staging: every STAGED run is published or quarantined.
StagedIsSettled == \A r \in Run : status[r] = "STAGED" ~> status[r] \in Terminal
=============================================================================
