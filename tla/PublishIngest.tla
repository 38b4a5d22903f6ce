--------------------------- MODULE PublishIngest ---------------------------
(***************************************************************************)
(* The publish task: publish_ingest for one dataset.  A pass lists the      *)
(* STAGED runs, takes the dataset's advisory lock inside a transaction,      *)
(* publishes their rows to gold and finalizes them one by one in that same   *)
(* transaction; but the PUBLISH row of meta.run_stages is claimed and        *)
(* completed on connections of their own, which commit at once.  A tripped   *)
(* delete breaker rolls the transaction back and quarantines every listed    *)
(* run, each in a statement of its own.                                      *)
(*                                                                          *)
(* Two passes may be alive at a time (a backfill DagRun beside a scheduled   *)
(* one, a retry whose predecessor still runs), and a pass may fail or be     *)
(* killed between any two statements.                                        *)
(***************************************************************************)
EXTENDS AnalyticsDb

CONSTANTS
    Pass,       \* slots of concurrently alive publish attempts
    NoPass,     \* the advisory lock is free
    Strategy,   \* load.strategy: "scd" (customers) or "merge_orders" (orders)
    MaxAborts   \* bound: publish attempts that raise or are killed

ASSUME PassAssumption ==
    NoPass \notin Pass /\ Strategy \in {"scd", "merge_orders"} /\ MaxAborts \in Nat

VARIABLES
    ppc,        \* where the pass in a slot stands
    staged,     \* its list of STAGED runs, read before the lock
    todo,       \* listed runs its loop has not handled yet
    upserted,   \* runs whose rows its open transaction has put in gold
    finalized,  \* runs its open transaction has finalized
    lock,       \* holder of pg_advisory_xact_lock(publish:<target>)
    aborts      \* passes that failed so far

passVars == <<ppc, staged, todo, upserted, finalized, lock, aborts>>
publishIngestVars == <<dbVars, passVars>>

InTransaction == {"publish", "claim", "finalize", "complete"}
PassPC == InTransaction \cup {"idle", "wait", "quarantine"}

PassTypeOK ==
    /\ ppc \in [Pass -> PassPC]
    /\ staged \in [Pass -> SUBSET Run]
    /\ todo \in [Pass -> SUBSET Run]
    /\ upserted \in [Pass -> SUBSET Run]
    /\ finalized \in [Pass -> SUBSET Run]
    /\ lock \in Pass \cup {NoPass}
    /\ aborts \in 0..MaxAborts

PassInit ==
    /\ ppc = [q \in Pass |-> "idle"]
    /\ staged = [q \in Pass |-> {}]
    /\ todo = [q \in Pass |-> {}]
    /\ upserted = [q \in Pass |-> {}]
    /\ finalized = [q \in Pass |-> {}]
    /\ lock = NoPass
    /\ aborts = 0

-----------------------------------------------------------------------------
PassAt(q, l) == ppc' = [ppc EXCEPT ![q] = l]

\* ORDER BY run_id ASC: the loops handle the smallest listed run first.
Current(q) == CHOOSE r \in todo[q] : \A s \in todo[q] : r <= s

\* The pass returns or dies; its slot may hold a later one.
EndPass(q) ==
    /\ PassAt(q, "idle")
    /\ staged' = [staged EXCEPT ![q] = {}]
    /\ todo' = [todo EXCEPT ![q] = {}]

\* The row the loop is at, handled.
Handled(q) == todo' = [todo EXCEPT ![q] = @ \ {Current(q)}]

\* list_staged_run_ids, before any lock; nothing STAGED is a no-op success.
ListStaged(q) ==
    /\ ppc[q] = "idle"
    /\ staged' = [staged EXCEPT ![q] = StagedRuns]
    /\ todo' = [todo EXCEPT ![q] = StagedRuns]
    /\ PassAt(q, IF StagedRuns = {} THEN "idle" ELSE "wait")
    /\ UNCHANGED <<dbVars, upserted, finalized, lock, aborts>>

\* Seeded fault: the transaction starts without the advisory lock.
StartUnlocked(q) ==
    /\ ppc[q] = "wait"
    /\ lock' = q
    /\ PassAt(q, "publish")
    /\ UNCHANGED <<dbVars, staged, todo, upserted, finalized, aborts>>

\* pg_advisory_xact_lock: one writer per target, held to the transaction's end.
AcquireLock(q) ==
    /\ ppc[q] = "wait"
    /\ lock = NoPass
    /\ lock' = q
    /\ PassAt(q, "publish")
    /\ UNCHANGED <<dbVars, staged, todo, upserted, finalized, aborts>>

\* Whose rows Publisher.publish reads.  merge_orders: the listed runs' rows in
\* silver.  scd: the whole bronze history of every key a listed run touches;
\* the runs of the dataset are taken to touch common keys.  Both leave out
\* the runs that are QUARANTINED when the statement runs.
Contribution(q) ==
    LET admitted == {r \in Run : status[r] # "QUARANTINED"} IN
    IF Strategy = "scd"
    THEN {r \in admitted : bronze[r] > 0}
    ELSE staged[q] \cap silver \cap admitted

Publish(q) ==
    /\ ppc[q] = "publish"
    /\ upserted' = [upserted EXCEPT ![q] = Contribution(q)]
    /\ PassAt(q, "claim")
    /\ UNCHANGED <<dbVars, staged, todo, finalized, lock, aborts>>

\* The mass-delete breaker raises before the first mutation (scd only).
TripBreaker(q) ==
    /\ ppc[q] = "publish"
    /\ Strategy = "scd"
    /\ lock' = NoPass
    /\ PassAt(q, "quarantine")
    /\ UNCHANGED <<dbVars, staged, todo, upserted, finalized, aborts>>

\* The finalize loop, one listed run at a time: claim_run_stage ...
ClaimPublishStage(q) ==
    /\ ppc[q] = "claim" /\ todo[q] # {}
    /\ ClaimRunStage(Current(q))
    /\ PassAt(q, "finalize")
    /\ UNCHANGED <<runVars, locked, bronze, silver, gold,
                   staged, todo, upserted, finalized, lock, aborts>>

\* ... which, refused, skips the run (continue) ...
SkipRun(q) ==
    /\ ppc[q] = "claim" /\ todo[q] # {}
    /\ ~StageClaimable(Current(q))
    /\ Handled(q)
    /\ UNCHANGED <<dbVars, ppc, staged, upserted, finalized, lock, aborts>>

\* Seeded fault: finalize_publication on a connection of its own.
FinalizeOnOwnConnection(q) ==
    /\ ppc[q] = "finalize"
    /\ UpdateIngestionRunStatus(Current(q), "SUCCEEDED")
    /\ PassAt(q, "complete")
    /\ UNCHANGED <<stageVars, locked, bronze, silver, gold,
                   staged, todo, upserted, finalized, lock, aborts>>

\* Seeded fault: an UPDATE guarded on a status the run no longer has.
FinalizeMatchesNothing(q) ==
    /\ ppc[q] = "finalize"
    /\ PassAt(q, "complete")
    /\ UNCHANGED <<dbVars, staged, todo, upserted, finalized, lock, aborts>>

\* ... finalize_publication, inside the publish transaction ...
FinalizePublication(q) ==
    /\ ppc[q] = "finalize"
    /\ Unlocked(Current(q))
    /\ finalized' = [finalized EXCEPT ![q] = @ \cup {Current(q)}]
    /\ locked' = locked \cup {Current(q)}
    /\ PassAt(q, "complete")
    /\ UNCHANGED <<runVars, stageVars, bronze, silver, gold,
                   staged, todo, upserted, lock, aborts>>

\* ... and complete_run_stage, which commits before that transaction does.
CompletePublishStage(q) ==
    /\ ppc[q] = "complete"
    /\ CompleteRunStage(Current(q))
    /\ Handled(q)
    /\ PassAt(q, "claim")
    /\ UNCHANGED <<runVars, locked, bronze, silver, gold,
                   staged, upserted, finalized, lock, aborts>>

\* The transaction's effects become visible together, or not at all.
EndTransaction(q) ==
    /\ lock' = IF lock = q THEN NoPass ELSE lock
    /\ locked' = locked \ finalized[q]
    /\ upserted' = [upserted EXCEPT ![q] = {}]
    /\ finalized' = [finalized EXCEPT ![q] = {}]

Commit(q) ==
    /\ ppc[q] = "claim" /\ todo[q] = {}
    /\ gold' = gold \cup upserted[q]
    /\ status' = [r \in Run |-> IF r \in finalized[q] THEN "SUCCEEDED" ELSE status[r]]
    /\ EndTransaction(q)
    /\ EndPass(q)
    /\ UNCHANGED <<owner, live, stageVars, bronze, silver, aborts>>

\* An exception of any other class, or the death of the pod: rolled back.
Abort(q) ==
    /\ ppc[q] \in InTransaction \cup {"wait"}
    /\ aborts < MaxAborts
    /\ aborts' = aborts + 1
    /\ EndTransaction(q)
    /\ EndPass(q)
    /\ UNCHANGED <<runVars, stageVars, bronze, silver, gold>>

\* The quarantine loop: one unguarded, separately committed update per run.
QuarantineRun(q) ==
    /\ ppc[q] = "quarantine" /\ todo[q] # {}
    /\ UpdateIngestionRunStatus(Current(q), "QUARANTINED")
    /\ Handled(q)
    /\ UNCHANGED <<stageVars, locked, bronze, silver, gold,
                   ppc, staged, upserted, finalized, lock, aborts>>

EndQuarantine(q) ==
    /\ ppc[q] = "quarantine" /\ todo[q] = {}
    /\ EndPass(q)
    /\ UNCHANGED <<dbVars, upserted, finalized, lock, aborts>>

\* The pod is killed between two of those updates.
AbortQuarantine(q) ==
    /\ ppc[q] = "quarantine"
    /\ aborts < MaxAborts
    /\ aborts' = aborts + 1
    /\ EndPass(q)
    /\ UNCHANGED <<dbVars, upserted, finalized, lock>>

-----------------------------------------------------------------------------
AdvancePass(q) ==
    \/ AcquireLock(q) \/ Publish(q)
    \/ ClaimPublishStage(q) \/ SkipRun(q) \/ FinalizePublication(q)
    \/ CompletePublishStage(q) \/ Commit(q)
    \/ QuarantineRun(q) \/ EndQuarantine(q)

AbortPass(q) == Abort(q) \/ AbortQuarantine(q)

PassNext ==
    \E q \in Pass : ListStaged(q) \/ AdvancePass(q) \/ TripBreaker(q) \/ AbortPass(q)
=============================================================================
