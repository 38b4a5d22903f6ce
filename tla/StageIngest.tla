---------------------------- MODULE StageIngest ----------------------------
(***************************************************************************)
(* The stage task: pods that run stage_ingest against one dataset.  A pod   *)
(* claims its run, streams the file into bronze inside one transaction and   *)
(* only then, on another connection, marks the run STAGED; a heartbeat       *)
(* thread of its own keeps the lease fresh meanwhile.  Airflow may have      *)
(* several attempts of one run alive at a time (a retry whose predecessor    *)
(* still runs, a backfill beside the schedule), and a pod may die anywhere.  *)
(*                                                                          *)
(* Pod is the set of attempt slots: a slot whose attempt has ended may hold  *)
(* a new one.  Time is not counted.  A lease elapses when nothing refreshes  *)
(* it, and the wait budget of a refused attempt (420s) outlasts one lease    *)
(* (300s).                                                                   *)
(***************************************************************************)
EXTENDS AnalyticsDb

CONSTANTS
    MaxFaults,       \* bound: crashes, exceptions and dead heartbeat threads
    HeartbeatsFail   \* whether a heartbeat thread may die under a living pod

ASSUME FaultsAssumption == MaxFaults \in Nat /\ HeartbeatsFail \in BOOLEAN

VARIABLES
    pc,       \* where the attempt in a slot stands
    job,      \* the run named by its assignment document
    beat,     \* its heartbeat thread is running
    renewed,  \* waiting pods whose rival refreshed the lease since they began
    faults    \* environment faults so far

podVars   == <<pc, job, beat, renewed, faults>>
stageIngestVars == <<dbVars, podVars>>

Waiting == {"await", "retry"}
Holding == {"load", "mark"}             \* inside the claimed section
Ended   == {"idle", "done", "skipped", "concurrent"}  \* "idle" also after a failure
PodPC   == Ended \cup Waiting \cup Holding \cup {"claim", "skip", "staged", "release"}

NoJob == CHOOSE r \in Run : TRUE        \* filler for the job of an idle slot

StageTypeOK ==
    /\ DbTypeOK
    /\ pc \in [Pod -> PodPC]
    /\ job \in [Pod -> Run]
    /\ beat \in [Pod -> BOOLEAN]
    /\ renewed \subseteq Pod
    /\ faults \in 0..MaxFaults

StageInit ==
    /\ DbInit
    /\ pc = [p \in Pod |-> "idle"]
    /\ job = [p \in Pod |-> NoJob]
    /\ beat = [p \in Pod |-> FALSE]
    /\ renewed = {}
    /\ faults = 0

-----------------------------------------------------------------------------
Goto(p, l) == pc' = [pc EXCEPT ![p] = l] /\ UNCHANGED job
Vacate(p) == pc' = [pc EXCEPT ![p] = "idle"] /\ job' = [job EXCEPT ![p] = NoJob]
NoFault == UNCHANGED faults
Fault == faults < MaxFaults /\ faults' = faults + 1

\* Pods whose wait on run r is prolonged by a fresh lease.
WaitersOf(r) == {q \in Pod : pc[q] \in Waiting /\ job[q] = r}

\* Airflow starts an attempt of the stage task for run r.
Launch(p, r) ==
    /\ pc[p] \in Ended
    /\ pc' = [pc EXCEPT ![p] = "claim"]
    /\ job' = [job EXCEPT ![p] = r]
    /\ renewed' = renewed \ {p}
    /\ NoFault
    /\ UNCHANGED <<dbVars, beat>>

\* _attempt_claim succeeds; the heartbeat thread starts at once.
TakeClaim(p) ==
    /\ ClaimIngestionRun(job[p], p)
    /\ Goto(p, "load")
    /\ beat' = [beat EXCEPT ![p] = TRUE]
    /\ renewed' = (renewed \cup WaitersOf(job[p])) \ {p}
    /\ NoFault
    /\ UNCHANGED <<stageVars, locked, bronze, silver, gold>>

\* _claim_or_await, first attempt.
Claim(p) == pc[p] = "claim" /\ TakeClaim(p)

ClaimRefused(p) ==
    /\ pc[p] = "claim"
    /\ ~Claimable(job[p])
    /\ Goto(p, "await")
    /\ NoFault
    /\ UNCHANGED <<dbVars, beat, renewed>>

\* Seeded fault: a live rival is taken for success.
SkipWhileRunning(p) ==
    /\ pc[p] = "await"
    /\ Goto(p, IF status[job[p]] \in {"SUCCEEDED", "STAGED", "RUNNING"} THEN "skip" ELSE "retry")
    /\ NoFault
    /\ UNCHANGED <<dbVars, beat, renewed>>

\* _await_concurrent_claim reads the status ...
AwaitRead(p) ==
    /\ pc[p] = "await"
    /\ Goto(p, IF status[job[p]] \in {"SUCCEEDED", "STAGED"} THEN "skip" ELSE "retry")
    /\ NoFault
    /\ UNCHANGED <<dbVars, beat, renewed>>

\* ... and, in a statement of its own, tries the claim again.
AwaitClaim(p) == pc[p] = "retry" /\ TakeClaim(p)

AwaitRefused(p) ==
    /\ pc[p] = "retry"
    /\ ~Claimable(job[p])
    /\ Goto(p, "await")
    /\ NoFault
    /\ UNCHANGED <<dbVars, beat, renewed>>

\* The wait budget is spent and the claim still refused: raise.  A lease that
\* nobody refreshed during the wait has elapsed by then.
GiveUp(p) ==
    /\ pc[p] = "retry"
    /\ ~Claimable(job[p])
    /\ p \in renewed \/ status[job[p]] # "RUNNING"
    /\ Vacate(p)
    /\ NoFault
    /\ UNCHANGED <<dbVars, beat, renewed>>

\* _skipped_receipt reads the status once more.
Skip(p) ==
    /\ pc[p] = "skip"
    /\ \/ status[job[p]] \in {"SUCCEEDED", "STAGED"} /\ Goto(p, "skipped")
       \/ status[job[p]] = "RUNNING" /\ Goto(p, "concurrent")
       \/ status[job[p]] \notin {"SUCCEEDED", "STAGED", "RUNNING"} /\ Vacate(p)
    /\ NoFault
    /\ UNCHANGED <<dbVars, beat, renewed>>

-----------------------------------------------------------------------------
\* The staging transaction commits: load, barriers, quality gate, persisted
\* findings and promote_to_durable_bronze, all or nothing.
CommitBronze(p) ==
    /\ pc[p] = "load"
    /\ bronze' = [bronze EXCEPT ![job[p]] = @ + 1]
    /\ Goto(p, "mark")
    /\ NoFault
    /\ UNCHANGED <<runVars, stageVars, locked, silver, gold, beat, renewed>>

\* Any exception in it (a tripped quality gate included) rolls it back; the
\* inner finally stops the heartbeat before the outer one releases the claim.
StagingFails(p) ==
    /\ pc[p] = "load"
    /\ Fault
    /\ Goto(p, "release")
    /\ beat' = [beat EXCEPT ![p] = FALSE]
    /\ UNCHANGED <<dbVars, renewed>>

\* Seeded fault: STAGED is written before the staging transaction commits.
MarkStagedFirst(p) ==
    /\ pc[p] \in Holding
    /\ UpdateIngestionRunStatus(job[p], "STAGED")
    /\ Goto(p, "staged")
    /\ NoFault
    /\ UNCHANGED <<stageVars, locked, bronze, silver, gold, beat, renewed>>

\* update_ingestion_run_status(STAGED), on a connection of its own.
MarkStaged(p) ==
    /\ pc[p] = "mark"
    /\ UpdateIngestionRunStatus(job[p], "STAGED")
    /\ Goto(p, "staged")
    /\ NoFault
    /\ UNCHANGED <<stageVars, locked, bronze, silver, gold, beat, renewed>>

\* That statement raises: nothing was written, or its commit was not acknowledged.
MarkFails(p) ==
    /\ pc[p] = "mark"
    /\ Fault
    /\ \/ UpdateIngestionRunStatus(job[p], "STAGED")
       \/ UNCHANGED runVars
    /\ Goto(p, "release")
    /\ beat' = [beat EXCEPT ![p] = FALSE]
    /\ UNCHANGED <<stageVars, locked, bronze, silver, gold, renewed>>

\* stop_heartbeat.set(), and the STAGED receipt is returned.
Finish(p) ==
    /\ pc[p] = "staged"
    /\ Goto(p, "done")
    /\ beat' = [beat EXCEPT ![p] = FALSE]
    /\ NoFault
    /\ UNCHANGED <<dbVars, renewed>>

\* _release_failed_claim: best effort, a failure of its own is swallowed.
Release(p) ==
    /\ pc[p] = "release"
    /\ \/ FailIngestionRunClaim(job[p], p) /\ NoFault
       \/ UNCHANGED runVars /\ Fault
    /\ Vacate(p)
    /\ UNCHANGED <<stageVars, locked, bronze, silver, gold, beat, renewed>>

-----------------------------------------------------------------------------
\* One turn of _heartbeat_loop.
Heartbeat(p) ==
    /\ beat[p]
    /\ HeartbeatIngestionRun(job[p])
    /\ renewed' = IF status[job[p]] = "RUNNING"
                  THEN renewed \cup WaitersOf(job[p]) ELSE renewed
    /\ NoFault
    /\ UNCHANGED <<stageVars, locked, bronze, silver, gold, pc, job, beat>>

\* The loop catches nothing: a failed UPDATE ends the thread, not the pod.
HeartbeatDies(p) ==
    /\ HeartbeatsFail
    /\ beat[p]
    /\ Fault
    /\ beat' = [beat EXCEPT ![p] = FALSE]
    /\ UNCHANGED <<dbVars, pc, job, renewed>>

\* SIGKILL, OOM, node loss: no finally runs.
Crash(p) ==
    /\ pc[p] \notin Ended
    /\ Fault
    /\ Vacate(p)
    /\ beat' = [beat EXCEPT ![p] = FALSE]
    /\ UNCHANGED <<dbVars, renewed>>

\* Five minutes pass without a heartbeat on run r.
LeaseExpires(r) ==
    /\ status[r] = "RUNNING" /\ live[r]
    /\ \A p \in Pod : ~(beat[p] /\ job[p] = r)
    /\ live' = [live EXCEPT ![r] = FALSE]
    /\ UNCHANGED <<status, owner, stageVars, locked, bronze, silver, gold, podVars>>

-----------------------------------------------------------------------------
Advance(p) ==                           \* the pod's own code, no fault
    \/ Claim(p) \/ ClaimRefused(p)
    \/ AwaitRead(p) \/ AwaitClaim(p) \/ AwaitRefused(p) \/ GiveUp(p) \/ Skip(p)
    \/ CommitBronze(p) \/ MarkStaged(p) \/ Finish(p)
    \/ Release(p)

Disturb(p) == StagingFails(p) \/ MarkFails(p) \/ HeartbeatDies(p) \/ Crash(p)

StageNext ==
    \/ \E p \in Pod : \/ \E r \in Run : Launch(p, r)
                      \/ Advance(p)
                      \/ Heartbeat(p)
                      \/ Disturb(p)
    \/ \E r \in Run : LeaseExpires(r)

StageSpec == StageInit /\ [][StageNext]_stageIngestVars

\* Pods run, leases elapse, and Airflow keeps starting attempts of a run that
\* discovery still offers (the retries of the task, then the next DagRun): the
\* runs share the slots, and none waits for a free one for ever.  A refused
\* attempt that may give up does so in the end: its wait budget is finite.
StageFairness ==
    /\ \A p \in Pod : WF_stageIngestVars(Advance(p)) /\ SF_stageIngestVars(GiveUp(p))
    /\ \A r \in Run : WF_stageIngestVars(LeaseExpires(r))
    /\ \A r \in Run : SF_stageIngestVars(
           status[r] \notin Terminal \cup {"STAGED"} /\ \E p \in Pod : Launch(p, r))

StageFairSpec == StageSpec /\ StageFairness

-----------------------------------------------------------------------------
(* Properties.                                                               *)

\* Bronze before STAGED (run.py, the ordering comment before the status
\* update): no interleaving of attempts, crashes and lost leases ever shows a
\* run STAGED whose rows are not committed to bronze.
StagedHasBronze ==
    \A r \in Run : status[r] \in {"STAGED", "SUCCEEDED"} => bronze[r] > 0

\* Lease exclusion: of the attempts inside the claimed section of one run, at
\* most one still has a heartbeat, and it is the one the row names.
LeaseExclusion ==
    \A p \in Pod : beat[p] /\ pc[p] \in Holding =>
        /\ owner[job[p]] = p
        /\ \A q \in Pod \ {p} : ~(beat[q] /\ pc[q] \in Holding /\ job[q] = job[p])

\* Task success means staged data: an attempt that ends without raising ends
\* on a run whose rows are in bronze, and SKIPPED_CONCURRENT is never returned
\* (stage_ingest's Returns section).
SuccessMeansStaged ==
    \A p \in Pod : /\ pc[p] \in {"done", "skipped"} => bronze[job[p]] > 0
                   /\ pc[p] # "concurrent"

\* A release never stomps: a run goes to FAILED only from RUNNING and never
\* under an attempt that is heartbeating inside the claimed section
\* (_release_failed_claim's guard on status and pod).
ReleaseNeverStomps ==
    [][\A r \in Run :
         status'[r] = "FAILED" /\ status[r] # "FAILED" =>
            /\ status[r] = "RUNNING"
            /\ \A p \in Pod : ~(beat[p] /\ pc[p] \in Holding /\ job[p] = r)
      ]_stageIngestVars

\* No silent drop: whatever attempt dies where, once faults stop every run
\* reaches STAGED (the wedge of finding 20a is gone).
EventuallyStaged == \A r \in Run : <>(status[r] = "STAGED")
=============================================================================
