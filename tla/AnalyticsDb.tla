---------------------------- MODULE AnalyticsDb ----------------------------
(***************************************************************************)
(* The analytical PostgreSQL database, as far as one dataset's ingestion   *)
(* runs are concerned: the rows of meta.ingestion_runs and of              *)
(* meta.run_stages (stage PUBLISH), the bronze, silver and gold tables, and *)
(* the statements PostgresMetadataRepository issues against them.  Every    *)
(* operator below is ONE committed SQL statement, given as the update it    *)
(* makes; the modules that extend this one say who calls it and when.       *)
(*                                                                          *)
(* Rows of data are abstracted to the run that carries them: bronze counts  *)
(* how many times a run's rows were appended, silver and gold say whose     *)
(* rows the layer holds.                                                    *)
(***************************************************************************)
EXTENDS Naturals, FiniteSets

CONSTANTS
    Run,      \* meta.ingestion_runs.run_id: one per file admitted by discovery
    Pod,      \* attempts of the stage task; a pod is its own k8s_pod_name
    NoPod     \* k8s_pod_name of a run nobody has claimed yet

\* Run ids are bigserial keys: ORDER BY run_id and max(run_id) use their order.
ASSUME RunAssumption == Run \subseteq Nat /\ Run # {} /\ IsFiniteSet(Run)
ASSUME NoPodAssumption == NoPod \notin Pod

VARIABLES
    status,    \* meta.ingestion_runs.status
    owner,     \* meta.ingestion_runs.k8s_pod_name, the pod of the last claim
    live,      \* lease_expires_at >= now(), for a run that is RUNNING
    stage,     \* meta.run_stages.status of the row (run, PUBLISH), "none" without a row
    stageLive, \* that row's lease_expires_at >= now()
    locked,    \* runs whose row the open publish transaction has updated
    bronze,    \* number of committed appends of the run's rows to staging.<dataset>
    silver,    \* runs whose rows a committed dbt build has folded into silver.<dataset>
    gold       \* runs whose rows a committed publish has put in normalized.<dataset>

runVars   == <<status, owner, live>>
stageVars == <<stage, stageLive>>
dbVars    == <<status, owner, live, stage, stageLive, locked, bronze, silver, gold>>

RunStatus ==
    {"PENDING", "RUNNING", "FAILED", "STAGED", "SUCCEEDED", "QUARANTINED"}
StageStatus == {"none", "RUNNING", "SUCCEEDED"}

\* The two statuses discovery never offers again.
Terminal == {"SUCCEEDED", "QUARANTINED"}

DbTypeOK ==
    /\ status \in [Run -> RunStatus]
    /\ owner \in [Run -> Pod \cup {NoPod}]
    /\ live \in [Run -> BOOLEAN]
    /\ stage \in [Run -> StageStatus]
    /\ stageLive \in [Run -> BOOLEAN]
    /\ locked \subseteq Run
    /\ bronze \in [Run -> Nat]
    /\ silver \subseteq Run
    /\ gold \subseteq Run

\* Every run has been registered by discovery (get_or_create_ingestion_run).
DbInit ==
    /\ status = [r \in Run |-> "PENDING"]
    /\ owner = [r \in Run |-> NoPod]
    /\ live = [r \in Run |-> FALSE]
    /\ stage = [r \in Run |-> "none"]
    /\ stageLive = [r \in Run |-> FALSE]
    /\ locked = {}
    /\ bronze = [r \in Run |-> 0]
    /\ silver = {}
    /\ gold = {}

-----------------------------------------------------------------------------
(* meta.ingestion_runs.  A statement whose WHERE clause matches a row waits   *)
(* for the transaction that holds the row's lock and then evaluates the       *)
(* clause again: it is enabled only on an unlocked row.  One whose clause      *)
(* does not match the committed row updates nothing and waits for nobody.      *)

Unlocked(r) == r \notin locked

\* Seeded fault: the claim forgets lease_expires_at < now().
ClaimableIgnoringLease(r) == status[r] \in {"PENDING", "FAILED", "RUNNING"}

\* Seeded fault: the claim never takes over a dead pod's run.
ClaimableNeverStolen(r) == status[r] \in {"PENDING", "FAILED"}

\* Seeded fault: the claim only excludes the runs somebody holds.
ClaimableUnlessHeld(r) == status[r] # "RUNNING" \/ ~live[r]

\* WHERE status IN ('PENDING','FAILED') OR (RUNNING AND lease_expires_at < now())
Claimable(r) ==
    \/ status[r] \in {"PENDING", "FAILED"}
    \/ status[r] = "RUNNING" /\ ~live[r]

\* claim_ingestion_run that returns a row: exclusive ownership and a fresh lease.
ClaimIngestionRun(r, p) ==
    /\ Unlocked(r)
    /\ Claimable(r)
    /\ status' = [status EXCEPT ![r] = "RUNNING"]
    /\ owner' = [owner EXCEPT ![r] = p]
    /\ live' = [live EXCEPT ![r] = TRUE]

\* heartbeat_ingestion_run: no pod in its WHERE clause, only the status.
HeartbeatIngestionRun(r) ==
    /\ status[r] = "RUNNING" => Unlocked(r)
    /\ live' = [live EXCEPT ![r] = @ \/ status[r] = "RUNNING"]
    /\ UNCHANGED <<status, owner>>

\* Seeded fault: a release guarded on the status only.
FailAnyPodsClaim(r, p) ==
    /\ Unlocked(r)
    /\ IF status[r] = "RUNNING"
       THEN /\ status' = [status EXCEPT ![r] = "FAILED"]
            /\ live' = [live EXCEPT ![r] = FALSE]
       ELSE UNCHANGED <<status, live>>
    /\ UNCHANGED owner

\* Seeded fault: a release that clears the status.
FailToNoStatus(r, p) ==
    /\ Unlocked(r)
    /\ status' = [status EXCEPT ![r] = "none"]
    /\ UNCHANGED <<owner, live>>

\* fail_ingestion_run_claim: guarded on the status AND the claiming pod.
FailIngestionRunClaim(r, p) ==
    /\ IF status[r] = "RUNNING" /\ owner[r] = p
       THEN /\ Unlocked(r)
            /\ status' = [status EXCEPT ![r] = "FAILED"]
            /\ live' = [live EXCEPT ![r] = FALSE]
       ELSE UNCHANGED <<status, live>>
    /\ UNCHANGED owner

\* update_ingestion_run_status: WHERE run_id = %s and nothing else.
UpdateIngestionRunStatus(r, s) ==
    /\ Unlocked(r)
    /\ status' = [status EXCEPT ![r] = s]
    /\ UNCHANGED <<owner, live>>

\* list_staged_run_ids: the committed statuses, no lock taken.
StagedRuns == {r \in Run : status[r] = "STAGED"}

-----------------------------------------------------------------------------
(* meta.run_stages, stage PUBLISH.                                           *)

\* WHERE EXISTS (run STAGED) and the existing row, if any, is not held.
StageClaimable(r) ==
    /\ status[r] = "STAGED"
    /\ stage[r] = "none" \/ (stage[r] = "RUNNING" /\ ~stageLive[r])

\* claim_run_stage that returns a row; it commits on its own connection.
ClaimRunStage(r) ==
    /\ StageClaimable(r)
    /\ stage' = [stage EXCEPT ![r] = "RUNNING"]
    /\ stageLive' = [stageLive EXCEPT ![r] = TRUE]

\* complete_run_stage(SUCCEEDED): unguarded, and commits on its own connection.
CompleteRunStage(r) ==
    /\ stage' = [stage EXCEPT ![r] = "SUCCEEDED"]
    /\ UNCHANGED stageLive

\* The five minutes of a PUBLISH stage's lease elapse; nothing refreshes it
\* (publish_ingest never calls heartbeat_run_stage).
StageLeaseExpires(r) ==
    /\ stage[r] = "RUNNING" /\ stageLive[r]
    /\ stageLive' = [stageLive EXCEPT ![r] = FALSE]
    /\ UNCHANGED <<status, owner, live, stage, locked, bronze, silver, gold>>
=============================================================================
