------------------------------ MODULE IngestDag ------------------------------
(***************************************************************************)
(* One ingestion DAG over the pipeline: discover, one mapped stage task per  *)
(* offered run, the DBT_BUILD bookkeeping tasks, dbt_build, and publish.  The *)
(* steps of the pods themselves are IngestPipeline's; this module says when   *)
(* Airflow lets them start.                                                  *)
(*                                                                          *)
(* The edges are wire_dbt_build_tracking's.  resolve_dbt_build_status and    *)
(* mark_dbt_build_done run on trigger rule all_done and publish hangs on the  *)
(* latter only, so publish starts whatever became of stage and dbt_build.    *)
(* A run's number is also its object's place in key order.                   *)
(***************************************************************************)
EXTENDS IngestPipeline, FiniteSets

CONSTANTS
    DagRun,           \* slots of concurrently active DagRuns (max_active_runs)
    MaxUnits,         \* batching.max_units_per_run
    TimesOut,         \* DagRuns may reach their dagrun_timeout
    MaxTaskFailures,  \* bound: stage and dbt_build tasks Airflow gives up on
    MaxLost           \* bound: publish pods lost sight of, and DagRun timeouts

ASSUME DagAssumption ==
    MaxUnits \in Nat \ {0} /\ TimesOut \in BOOLEAN /\ MaxTaskFailures \in Nat /\ MaxLost \in Nat

VARIABLES
    landed,        \* runs of the files in the raw bucket
    keyed,         \* those under the present schema version's key
    dag,           \* the task the DagRun stands at
    offered,       \* runs its discover task returned
    receipts,      \* offered runs whose stage task has succeeded
    pending,       \* run ids list_run_ids_pending_dbt_build returned
    built,         \* what resolve_dbt_build_status will report
    runner,        \* pass slot of its publish task, NoPass when none runs
    dbtStage,      \* meta.run_stages.status of the row (run, DBT_BUILD)
    taskFailures,  \* tasks given up on so far
    losses         \* pods and DagRuns lost so far

dagVars == <<landed, keyed, dag, offered, receipts, pending, built, runner, dbtStage, taskFailures, losses>>
allVars == <<vars, dagVars>>

Task == {"idle", "stage", "mark", "dbt", "done", "publish"}

DagTypeOK ==
    /\ TypeOK
    /\ keyed \subseteq landed /\ landed \subseteq Run
    /\ dag \in [DagRun -> Task]
    /\ offered \in [DagRun -> SUBSET Run]
    /\ receipts \in [DagRun -> SUBSET Run]
    /\ pending \in [DagRun -> SUBSET Run]
    /\ built \in [DagRun -> BOOLEAN]
    /\ runner \in [DagRun -> Pass \cup {NoPass}]
    /\ dbtStage \in [Run -> {"none", "RUNNING", "SUCCEEDED", "FAILED"}]
    /\ taskFailures \in 0..MaxTaskFailures
    /\ losses \in 0..MaxLost

DagInit ==
    /\ Init
    /\ landed = {} /\ keyed = {}
    /\ dag = [d \in DagRun |-> "idle"]
    /\ offered = [d \in DagRun |-> {}]
    /\ receipts = [d \in DagRun |-> {}]
    /\ pending = [d \in DagRun |-> {}]
    /\ built = [d \in DagRun |-> FALSE]
    /\ runner = [d \in DagRun |-> NoPass]
    /\ dbtStage = [r \in Run |-> "none"]
    /\ taskFailures = 0 /\ losses = 0

-----------------------------------------------------------------------------
DagAt(d, t) == dag' = [dag EXCEPT ![d] = t]
TaskFailure ==
    taskFailures < MaxTaskFailures /\ taskFailures' = taskFailures + 1 /\ UNCHANGED losses
Loss == losses < MaxLost /\ losses' = losses + 1 /\ UNCHANGED taskFailures
NoTaskFailure == UNCHANGED <<taskFailures, losses>>

Land(r) ==
    /\ r \notin landed
    /\ landed' = landed \cup {r} /\ keyed' = keyed \cup {r}
    /\ NoTaskFailure
    /\ UNCHANGED <<vars, dag, offered, receipts, pending, built, runner, dbtStage>>

\* A stage task or a contract change registers another schema version: each file
\* gets a run of a new key, and what is under way on the old one goes on.
SchemaMoves ==
    /\ keyed # {}
    /\ \E fresh \in SUBSET (Run \ landed) :
         /\ Cardinality(fresh) = Cardinality(keyed)
         /\ keyed' = fresh /\ landed' = landed \cup fresh
    /\ NoTaskFailure
    /\ UNCHANGED <<vars, dag, offered, receipts, pending, built, runner, dbtStage>>

\* candidates[: max_units_per_run]
FirstUnits(found) == {r \in found : Cardinality({s \in found : s < r}) < MaxUnits}

\* The discover task: the first of the runs that are not terminal under the key of
\* the schema version it has read.  With nothing to offer, the mapped stage task and
\* all that hangs on it by all_success are skipped, and publish still runs.
Discover(d) ==
    /\ dag[d] = "idle"
    /\ LET found == FirstUnits({r \in keyed : status[r] \notin Terminal}) IN
       /\ offered' = [offered EXCEPT ![d] = found]
       /\ DagAt(d, IF found = {} THEN "publish" ELSE "stage")
    /\ receipts' = [receipts EXCEPT ![d] = {}]
    /\ NoTaskFailure
    /\ UNCHANGED <<vars, landed, keyed, pending, built, runner, dbtStage>>

\* A receipt Airflow has not read yet.
Unread(d, p) == pc[p] \in {"done", "skipped"} /\ job[p] \in offered[d] \ receipts[d]

\* A stage attempt starts; the previous one of the same task may still be alive.
StageAttempt(d, p, r) ==
    /\ dag[d] = "stage"
    /\ r \in offered[d] \ receipts[d]
    /\ ~Unread(d, p)
    /\ Launch(p, r)
    /\ UNCHANGED <<passVars, dagVars>>

\* Seeded fault: the receipt is filed under the pod that returned it.
StageReceiptByPod(d, p) ==
    /\ dag[d] = "stage"
    /\ Unread(d, p)
    /\ receipts' = [receipts EXCEPT ![d] = @ \cup {p}]
    /\ NoTaskFailure
    /\ UNCHANGED <<vars, landed, keyed, dag, offered, pending, built, runner, dbtStage>>

\* A pod of an offered run ended without raising: its task instance succeeds.
StageReceipt(d, p) ==
    /\ dag[d] = "stage"
    /\ Unread(d, p)
    /\ receipts' = [receipts EXCEPT ![d] = @ \cup {job[p]}]
    /\ NoTaskFailure
    /\ UNCHANGED <<vars, landed, keyed, dag, offered, pending, built, runner, dbtStage>>

\* list_run_ids_pending_dbt_build joins the STAGE_LOAD rows that SUCCEEDED; the
\* only stage claim_run_stage and complete_run_stage are called with is PUBLISH.
StageLoadSucceeded == {}
PendingDbtBuild == {r \in StageLoadSucceeded : dbtStage[r] # "SUCCEEDED"}

\* Seeded fault: one mapped instance is enough (trigger rule one_success).
StageSucceedsOnce(d) ==
    /\ dag[d] = "stage"
    /\ receipts[d] # {}
    /\ pending' = [pending EXCEPT ![d] = PendingDbtBuild]
    /\ DagAt(d, "mark")
    /\ NoTaskFailure
    /\ UNCHANGED <<vars, landed, keyed, offered, receipts, built, runner, dbtStage>>

\* Every mapped instance has succeeded: resolve the run ids, go on to the marks.
StageSucceeds(d) ==
    /\ dag[d] = "stage"
    /\ receipts[d] = offered[d]
    /\ pending' = [pending EXCEPT ![d] = PendingDbtBuild]
    /\ DagAt(d, "mark")
    /\ NoTaskFailure
    /\ UNCHANGED <<vars, landed, keyed, offered, receipts, built, runner, dbtStage>>

\* A mapped instance is out of retries: dbt_build is upstream_failed, the
\* all_done tasks run with no run ids, and publish follows.
StageGivenUp(d) ==
    /\ dag[d] = "stage"
    /\ DagAt(d, "publish")
    /\ UNCHANGED <<vars, landed, keyed, offered, receipts, pending, built, runner, dbtStage>>

StageFails(d) == receipts[d] # offered[d] /\ TaskFailure /\ StageGivenUp(d)

\* A run that a pass has quarantined since it was offered can neither be
\* claimed nor skipped: every attempt raises, with nothing else at fault.
StageCannotSucceed(d) ==
    /\ \E r \in offered[d] \ receipts[d] : status[r] = "QUARANTINED"
    /\ NoTaskFailure
    /\ StageGivenUp(d)

\* record_dbt_build_stage, one upsert per listed run.
Record(d, s) == dbtStage' = [r \in Run |-> IF r \in pending[d] THEN s ELSE dbtStage[r]]

MarkDbtBuildRunning(d) ==
    /\ dag[d] = "mark"
    /\ Record(d, "RUNNING")
    /\ DagAt(d, "dbt")
    /\ NoTaskFailure
    /\ UNCHANGED <<vars, landed, keyed, offered, receipts, pending, built, runner>>

DbtBuildSucceeds(d) ==
    /\ dag[d] = "dbt"
    /\ DbtBuild
    /\ built' = [built EXCEPT ![d] = TRUE]
    /\ DagAt(d, "done")
    /\ NoTaskFailure
    /\ UNCHANGED <<landed, keyed, offered, receipts, pending, runner, dbtStage>>

\* dbt_build is out of retries, with or without a build having committed.
DbtBuildFails(d) ==
    /\ dag[d] = "dbt"
    /\ TaskFailure
    /\ DbtBuild \/ UNCHANGED vars
    /\ built' = [built EXCEPT ![d] = FALSE]
    /\ DagAt(d, "done")
    /\ UNCHANGED <<landed, keyed, offered, receipts, pending, runner, dbtStage>>

MarkDbtBuildDone(d) ==
    /\ dag[d] = "done"
    /\ Record(d, IF built[d] THEN "SUCCEEDED" ELSE "FAILED")
    /\ DagAt(d, "publish")
    /\ NoTaskFailure
    /\ UNCHANGED <<vars, landed, keyed, offered, receipts, pending, built, runner>>

-----------------------------------------------------------------------------
\* Seeded fault: publish hangs on the stage task only.
PublishBesideBuild(d, q) ==
    /\ dag[d] \in {"mark", "dbt", "done", "publish"}
    /\ runner[d] = NoPass
    /\ \A e \in DagRun : runner[e] # q
    /\ ListStaged(q)
    /\ runner' = [runner EXCEPT ![d] = q]
    /\ NoTaskFailure
    /\ UNCHANGED <<podVars, landed, keyed, dag, offered, receipts, pending, built, dbtStage>>

\* An attempt of the publish task starts in a slot of its own.
PublishAttempt(d, q) ==
    /\ dag[d] = "publish"
    /\ runner[d] = NoPass
    /\ \A e \in DagRun : runner[e] # q
    /\ ListStaged(q)
    /\ runner' = [runner EXCEPT ![d] = q]
    /\ NoTaskFailure
    /\ UNCHANGED <<podVars, landed, keyed, dag, offered, receipts, pending, built, dbtStage>>

\* The attempt has returned, SUCCEEDED or QUARANTINED: the DagRun is over.
DagRunEnds(d) ==
    /\ dag[d] = "publish"
    /\ runner[d] # NoPass /\ ppc[runner[d]] = "idle"
    /\ DagAt(d, "idle")
    /\ runner' = [runner EXCEPT ![d] = NoPass]
    /\ NoTaskFailure
    /\ UNCHANGED <<vars, landed, keyed, offered, receipts, pending, built, dbtStage>>

\* The attempt raises or is killed: the next attempt, or, retries exhausted,
\* the end of the DagRun.
PublishAttemptFails(q) ==
    /\ AbortPass(q)
    /\ runner' = [d \in DagRun |-> IF runner[d] = q THEN NoPass ELSE runner[d]]
    /\ \/ UNCHANGED dag
       \/ dag' = [d \in DagRun |-> IF runner[d] = q THEN "idle" ELSE dag[d]]
    /\ NoTaskFailure
    /\ UNCHANGED <<podVars, landed, keyed, offered, receipts, pending, built, dbtStage>>

\* Airflow loses sight of a publish pod that goes on running.
PublishLost(d) ==
    /\ runner[d] # NoPass /\ ppc[runner[d]] # "idle"
    /\ Loss
    /\ runner' = [runner EXCEPT ![d] = NoPass]
    /\ UNCHANGED <<vars, landed, keyed, dag, offered, receipts, pending, built, dbtStage>>

\* dagrun_timeout: the unfinished tasks are skipped; pods run on.
DagRunTimesOut(d) ==
    /\ TimesOut /\ dag[d] # "idle"
    /\ Loss
    /\ DagAt(d, "idle")
    /\ runner' = [runner EXCEPT ![d] = NoPass]
    /\ UNCHANGED <<vars, landed, keyed, offered, receipts, pending, built, dbtStage>>

-----------------------------------------------------------------------------
\* The pods' own steps, whatever their DagRun thinks of them.
PodStep(p) == (Advance(p) \/ Heartbeat(p) \/ Disturb(p)) /\ UNCHANGED <<passVars, dagVars>>
PassStep(q) == (AdvancePass(q) \/ TripBreaker(q)) /\ UNCHANGED <<podVars, dagVars>>
LeasesElapse ==
    \/ \E r \in Run : LeaseExpires(r) /\ UNCHANGED <<passVars, dagVars>>
    \/ PublishStageLeaseExpires /\ UNCHANGED dagVars

DagAdvances(d) ==
    \/ Discover(d) \/ StageSucceeds(d) \/ StageCannotSucceed(d)
    \/ MarkDbtBuildRunning(d) \/ DbtBuildSucceeds(d) \/ MarkDbtBuildDone(d)
    \/ DagRunEnds(d)
    \/ \E p \in Pod : StageReceipt(d, p)
    \/ \E q \in Pass : PublishAttempt(d, q)

DagFails(d) == StageFails(d) \/ DbtBuildFails(d) \/ PublishLost(d) \/ DagRunTimesOut(d)

DagNext ==
    \/ \E r \in Run : Land(r)
    \/ SchemaMoves
    \/ \E d \in DagRun : \/ DagAdvances(d) \/ DagFails(d)
                         \/ \E p \in Pod, r \in Run : StageAttempt(d, p, r)
    \/ \E q \in Pass : PassStep(q) \/ PublishAttemptFails(q)
    \/ \E p \in Pod : PodStep(p)
    \/ LeasesElapse

DagSpec == DagInit /\ [][DagNext]_allVars

\* Files land; the scheduler moves DagRuns on and retries stage attempts, each
\* pod and pass runs, a pod's wait for a rival is finite, and leases elapse.
DagFairness ==
    /\ \A r \in Run : WF_allVars(Land(r))
    /\ \A d \in DagRun : WF_allVars(DagAdvances(d))
    /\ \A d \in DagRun, r \in Run : WF_allVars(
           \E p \in Pod : StageAttempt(d, p, r))
    /\ \A q \in Pass : WF_allVars(AdvancePass(q) /\ UNCHANGED <<podVars, dagVars>>)
    /\ \A p \in Pod : WF_allVars(Advance(p) /\ UNCHANGED <<passVars, dagVars>>)
    /\ \A p \in Pod : SF_allVars(GiveUp(p) /\ UNCHANGED <<passVars, dagVars>>)
    /\ WF_allVars(LeasesElapse)

DagFairSpec == DagSpec /\ DagFairness

-----------------------------------------------------------------------------
(* Properties.                                                               *)

\* Folded before published: every run a publish transaction was given has its
\* bronze folded into silver (merge_orders.py's DELTA SCOPING comment; the
\* whole of publish's correctness for orders rests on it).  No DagRun may time
\* out: a pod of a run that the next one does not offer stages it unbuilt.
FoldedBeforePublish ==
    \A q \in Pass : ppc[q] \in InTransaction => staged[q] \subseteq silver

\* No silent drop, end to end: whichever pod dies and whichever task Airflow
\* gives up on, every landed file ends up published or quarantined, for good, under
\* the key of the last schema version.
EventuallySettled ==
    \A r \in Run : <>[](\/ status[r] = "QUARANTINED" \/ (status[r] = "SUCCEEDED" /\ r \in gold)
                        \/ r \in landed \ keyed)
=============================================================================
