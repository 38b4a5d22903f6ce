---------------------------- MODULE MergeOrders ----------------------------
(***************************************************************************)
(* The merge_orders publisher row by row, over the overlapping dbt builds   *)
(* of DbtLedger: which silver row of a key reaches normalized.orders when   *)
(* stage tasks, builds and publish passes go their own pace.                *)
(*                                                                         *)
(* A pass lists the STAGED runs, then upserts their silver rows and         *)
(* finalizes them in one transaction, under the publish lock.  What happens *)
(* inside that transaction to the stage rows is PublishIngest's.            *)
(***************************************************************************)
EXTENDS DbtLedger

CONSTANTS
    Survivors,  \* run -> the sets of lines that validation may leave of its
                \* file; a line also has a val, its other fields
    Pass        \* slots of concurrently running publish passes

ASSUME SurvivorsAssumption == Survivors \in [Run -> SUBSET SUBSET Line]

Null == 0   \* a line's ts when its order_date is NULL

VARIABLES
    status,  \* run -> RUNNING, STAGED or SUCCEEDED
    listed,  \* pass -> the runs it has listed, none when it is not under way
    gold,    \* normalized.orders: key -> the row last written
    deaths   \* passes rolled back so far

publishVars == <<status, listed, gold, deaths>>
mergeVars == <<ledgerVars, publishVars>>

Staged == {r \in Run : status[r] = "STAGED"}

MergeInit ==
    /\ LedgerInit
    /\ status = [r \in Run |-> "RUNNING"]
    /\ listed = [p \in Pass |-> {}]
    /\ gold = <<>>
    /\ deaths = 0

\* _record_hash covers the fields of a row and nothing of where it came from.
RecordHash(x) == <<x.line.key, x.line.ts, x.line.val>>

\* Seeded fault: a gold row without a date is compared as any other, so that
\* the comparison is never true.
SupersedesDated(x, g) ==
    /\ RecordHash(x) # RecordHash(g)
    /\ g.line.ts # Null /\ x.line.ts # Null /\ x.line.ts >= g.line.ts

\* ON CONFLICT ... DO UPDATE ... WHERE
Supersedes(x, g) ==
    /\ RecordHash(x) # RecordHash(g)
    /\ g.line.ts = Null \/ (x.line.ts # Null /\ x.line.ts >= g.line.ts)

\* Seeded fault: a pass reads the rows of the last run it lists.
DeltaOfLast(runs) == {x \in silver : x.run \in runs /\ \A r \in runs : x.run >= r}

\* The silver rows the listed runs won; silver holds one row per key.
Delta(runs) == {x \in silver : x.run \in runs}

Upserted(rows) ==
    [k \in DOMAIN gold \cup Keys(rows) |->
        IF k \notin Keys(rows) THEN gold[k]
        ELSE LET x == CHOOSE x \in rows : x.line.key = k
             IN  IF k \notin DOMAIN gold \/ Supersedes(x, gold[k]) THEN x ELSE gold[k]]

-----------------------------------------------------------------------------
\* MaxAborts bounds the builds and the passes that are rolled back together.
MayRollBack == aborts + deaths < MaxAborts

\* A stage task commits the rows of its file that survive validation.
StageCommits(r) ==
    /\ status[r] = "RUNNING"
    /\ Append(r)
    /\ {x.line : x \in bronze' \ bronze} \in Survivors[r]
    /\ UNCHANGED publishVars

\* update_ingestion_run_status, on a connection of its own, later.
MarkStaged(r) ==
    /\ status[r] = "RUNNING" /\ copies[r] > 0
    /\ status' = [status EXCEPT ![r] = "STAGED"]
    /\ UNCHANGED <<ledgerVars, listed, gold, deaths>>

\* Builds are those of both DAGs: they start whatever the runs' status.
RunBuild(b) ==
    /\ AdvanceBuild(b) \/ (MayRollBack /\ AbortBuild(b))
    /\ UNCHANGED publishVars

\* list_staged_run_ids.  The DAG has run dbt_build after stage and before
\* publish, so the runs STAGED by now are in silver (IngestDag).
ListStaged(p) ==
    /\ listed[p] = {} /\ Staged # {} /\ Staged \subseteq ledger
    /\ listed' = [listed EXCEPT ![p] = Staged]
    /\ UNCHANGED <<ledgerVars, status, gold, deaths>>

\* The publish transaction, serialized by the advisory lock: its upsert reads
\* what silver holds now, and a run another pass has finalized is left alone.
Publish(p) ==
    /\ listed[p] # {}
    /\ gold' = Upserted(Delta(listed[p]))
    /\ status' = [r \in Run |-> IF r \in listed[p] THEN "SUCCEEDED" ELSE status[r]]
    /\ listed' = [listed EXCEPT ![p] = {}]
    /\ UNCHANGED <<ledgerVars, deaths>>

\* It dies or raises before its first run is finalized.
AbortPass(p) ==
    /\ listed[p] # {} /\ MayRollBack
    /\ deaths' = deaths + 1
    /\ listed' = [listed EXCEPT ![p] = {}]
    /\ UNCHANGED <<ledgerVars, status, gold>>

MergeNext ==
    \/ \E r \in Run : StageCommits(r) \/ MarkStaged(r)
    \/ \E b \in Build : RunBuild(b)
    \/ \E p \in Pass : ListStaged(p) \/ Publish(p) \/ AbortPass(p)

MergeSpec == MergeInit /\ [][MergeNext]_mergeVars

\* Builds and passes keep being scheduled and go on; a run whose rows are
\* committed is marked.  Nobody has to deliver a file.
MergeFairSpec ==
    /\ MergeSpec
    /\ \A b \in Build : WF_mergeVars(AdvanceBuild(b) /\ UNCHANGED publishVars)
    /\ \A r \in Run : WF_mergeVars(MarkStaged(r))
    /\ \A p \in Pass : WF_mergeVars(ListStaged(p)) /\ WF_mergeVars(Publish(p))

-----------------------------------------------------------------------------
\* Gold follows silver: a key whose silver row belongs to a published run shows
\* that row in gold, whichever passes and builds came in between.  A pass reads
\* its own runs' rows only, so a row it passes over is nobody's to publish later.
GoldFollowsSilver ==
    \A x \in silver : status[x.run] = "SUCCEEDED" =>
        x.line.key \in DOMAIN gold /\ RecordHash(gold[x.line.key]) = RecordHash(x)

\* What a published run delivered is in gold in the end, as itself or as a row
\* of its key that beats it, even where another run's row had taken its place in
\* silver before that run could be published.
DeliveredInGold ==
    \A r \in Run : status[r] = "SUCCEEDED" ~>
        \A x \in RowsOf({r}) : /\ x.line.key \in DOMAIN gold
                               /\ \/ RecordHash(gold[x.line.key]) = RecordHash(x)
                                  \/ Beats(gold[x.line.key], x)
=============================================================================
