# Verification of the airflow-platform ingestion pipeline

TLA+ models of the batch ingestion platform in `src/`: CSV deliveries land in an
object store, Airflow DAGs run short-lived pods against one PostgreSQL database,
and rows travel from raw files to bronze (staging tables), silver (dbt models) and
gold (normalized tables). The core of the platform is its bookkeeping: which file is
which run, who works on it, what has been done, and what may be done again. This
project models that bookkeeping statement by statement, the way of a file's rows into
bronze, silver and gold, and what operators do to the platform meanwhile; it checks the
models with TLC and proves most of their safety properties with TLAPS.

All paths below are relative to `src/`. `dataplat` stands for
`packages/dataplat/src/dataplat`, `csv_processor` for
`packages/csv-processor/src/csv_processor`.

Contents: [1 The system](#1-the-system) · [2 The modules](#2-the-modules) ·
[3 The runs](#3-the-runs) · [4 Fairness and time](#4-fairness-and-time) ·
[5 Proofs](#5-proofs) · [6 Findings](#6-findings) ·
[7 What the models leave out](#7-what-the-models-leave-out) · [8 Plan](#8-plan)

## 1 The system

### Components

| Component | Code | State | Operations |
|---|---|---|---|
| Discovery | `dataplat/discovery.py`, `discover` of `csv_processor/cli.py` | `meta.files`, `meta.ingestion_runs`, assignment documents in the bucket | list, group multipart units, find by content hash, register, correct, allocate a run, write its assignment, cut at the cap |
| Schema history | `dataplat/schema/*`, `_resolve_schema` of `csv_processor/source.py` | `meta.schema_versions` | `get_current`, `sync`, `resolve_by_hash` |
| Stage task | `stage_ingest` in `dataplat/pipeline/run.py` | a run's row (status, pod, heartbeat), bronze | claim or await, heartbeat thread, staging transaction, STAGED mark, release |
| Publish task | `publish_ingest` in `dataplat/pipeline/run.py` | advisory lock, `meta.run_stages`, gold | list, lock, publish, finalize loop, commit, quarantine loop |
| Publishers | `dataplat/load/publish/*` | gold rows | scd, merge, merge_orders; mass-delete breaker |
| dbt builds | `dbt/macros/*`, `dbt/models/silver/*` | `meta.dbt_processed_runs`, silver, `meta.dedup_audit`, `meta.reconciliation_results` | claim, select, audit, reconcile, commit |
| Ingestion DAGs | `airflow/dags/csv_ingest_*.py`, `_common/run_stage_recorder.py` | task states of a DagRun, `DBT_BUILD` rows | task order, trigger rules, retries, timeouts |
| Staging loader, quality stages | `dataplat/load/staging.py`, `dataplat/validate/*`, `dataplat/normalize/*`, `dataplat/pipeline/engine.py` | rows inside the staging transaction | normalize, validate, COPY, barriers, breaker, promote |
| CSV reader, detectors | `csv_processor/*` | one file's profile and stream | sample, decode, find the header, resolve the schema, match the filename, stream records |
| SCD2, delete detection | `dataplat/scd/*` | version chains in gold | recompute, find vanished keys |
| Retention | `airflow/dags/_common/retention_query.py`, `dataplat/retention/*` | raw objects, metadata rows | list, evaluate windows, delete |
| Rebuild and repair | `scripts/*`, `dataplat/pipeline/rebuild_reconciliation.py` | all schemas; lineage | drop, migrate, wipe, trigger; one UPDATE of lineage |
| Integrity gate, gap recorder | `airflow/dags/_common/*` | unstable objects | wait, record |
| Configuration, secrets, observability | the remaining packages | none of the protocol's | |

### How they interact

A DagRun is `discover >> stage (mapped, one pod per run) >> dbt_build >> publish`.
Nothing but the database and the bucket is shared. Pods do not call each other: they
meet in rows (`meta.ingestion_runs`, `meta.run_stages`, `meta.dbt_processed_runs`),
in row and advisory locks, and in what earlier transactions left behind. Every
repository call without an explicit connection is a transaction of its own; the
staging transaction, the publish transaction and the dbt build are the three long ones.
Two things close loops: the schema version is a term of the idempotency key, so a stage
task can change which run a file belongs to; and whatever is not SUCCEEDED or
QUARANTINED is found again by the next discovery, which offers the first
`max_units_per_run` of what it finds.

### What is hard

- **Several attempts of one run.** A retry starts while its predecessor still runs; a
  DagRun times out and leaves pods behind; a heartbeat thread dies under a living pod.
- **Crashes between two commits.** Bronze commits before the STAGED mark; the PUBLISH
  stage row commits before gold does; a registered file exists before its run.
- **Decisions on what was read earlier.** STAGED runs are listed before the lock is
  taken; a rival's status is read in one statement and the claim tried in the next; the
  schema version is read once for a whole discovery call.
- **Trigger rules.** `publish` follows on `all_done`: it starts whatever became of
  `stage` and `dbt_build`.
- **Overlapping builds.** The DAGs run unscoped dbt builds whose snapshots differ per
  statement.
- **Positions.** Rows are rejected by stage, numbered by chunk and deleted by number; parts,
  header, preamble and chunks of a file are cut on different boundaries; values reach
  columns by position.
- **Conversions.** Separators, signs, centuries, clock changes and encodings have
  boundaries at which a value silently becomes another.
- **Maintenance under load.** A rebuild resets the identity columns, retention deletes
  objects outside and rows inside one transaction, a repair rewrites lineage, all while
  DAGs go on.
- **Progress.** A run left RUNNING by a killed pod, a file first marked as a duplicate
  of itself, a group whose parts land one by one must all get through in the end.

### What makes each component correct

- *Stage task*: a run is STAGED or SUCCEEDED only with its rows in bronze; at most one
  heartbeating attempt works on a run; a task that succeeds has staged data; a release
  never takes a run from a living successor; every run is staged in the end.
- *Publish task*: a run is SUCCEEDED exactly when its rows are in gold; one pass
  finalizes a run; terminal statuses stay; every staged run is settled; what is
  quarantined never reaches gold.
- *dbt builds*: incremental builds give what one full build would; a run is claimed once
  and never skipped; a processed run is processed whole.
- *merge_orders*: gold shows, for every key of a published run, the row silver shows.
- *Rows*: every row read is staged or rejected, once; bronze holds what the writer of the
  file meant; a commit has lost no more than the threshold.
- *CSV reader*: a file is read in its encoding, its values reach the right columns, every
  record is delivered, a small archive cannot expand without bound.
- *Operations*: lineage names rows that exist and are the right ones; nothing is deleted
  before its time; what was in gold comes back after a rebuild.
- *DAG*: what is published has been folded into silver; every landed file is settled.
- *SCD2*: a key has one open version and disjoint ones before it; every current key is
  what its whole history says, in whatever order its files arrived; a commit never deletes
  more keys than the threshold allows.
- *Discovery*: duplicates point at the first file of their content; a run's document
  lists what its key says; the schema history does not repeat; every landed file is
  ingested or marked, or it is known what keeps it out.

`PROJECT.json` lists the hazards line by line, each with the properties that watch it.

## 2 The modules

```
AnalyticsDb            meta.ingestion_runs, meta.run_stages, bronze/silver/gold: statements
  StageIngest          stage_ingest pods
  PublishIngest        publish_ingest passes
    IngestPipeline     both, and dbt builds           --> implements RunLifecycle
      IngestDag        one ingestion DAG over it      --> implements IngestPipeline
                       (proofs of all three: IngestPipeline_proofs)
DbtLedger              overlapping dbt builds
  MergeOrders          and publish passes beside them --> implements DbtLedger
                       (proofs of both: MergeOrders_proofs)
Ordering               sorted, ORDER BY               --> Ordering_proofs
  Discovery            discover_files, schema history --> Discovery_proofs
  Scd2                 the scd publisher, row by row  --> Scd2_proofs
CsvFile                one object: detectors, schema, filename, record stream
                                                      --> CsvFile_proofs
Normalize              value normalizers, and what a locale prints
  StagingRows          one file's rows into bronze    --> StagingRows_proofs
Operations             rebuild, retention and repair over coarse ingestion
                                                      --> Operations_proofs
RunLifecycle           abstract: what ingestion promises about a run
```

`MC<Module>` adds the constants, definitions and symmetry sets TLC needs.

- **AnalyticsDb** — one operator per repository statement (`dataplat/metadata/postgres.py`),
  with its WHERE clause: `Claimable`, `ClaimIngestionRun`, `HeartbeatIngestionRun`,
  `FailIngestionRunClaim`, `UpdateIngestionRunStatus`, `ClaimRunStage`,
  `CompleteRunStage`. A row updated by an open transaction is in `locked`: other writers
  wait (`Unlocked`), readers see the committed value. `live` stands for
  "heartbeat younger than five minutes".
- **StageIngest** — `pc` is where an attempt stands in `stage_ingest`: `claim`, `await`
  and `retry` are `_claim_or_await`, `load` and `mark` the claimed section, `release` the
  outer `finally`. `Crash` may strike anywhere, `StagingFails` and `MarkFails` are
  exceptions, `MarkFails` with either outcome of an unacknowledged commit.
- **PublishIngest** — `ppc` walks `publish_ingest`: the listing, the advisory lock,
  `Publisher.publish`, then per run `claim_run_stage`, `finalize_publication`,
  `complete_run_stage`. What the open transaction holds is in `upserted` and `finalized`
  and becomes visible in `Commit`; the two stage statements change `stage` at once,
  because the code calls them without its connection.
- **IngestPipeline** — the two above and dbt builds in any order over one database.
  `Lifecycle == INSTANCE RunLifecycle` maps status, bronze and gold to the abstract state.
- **IngestDag** — the task a DagRun stands at and what its tasks returned; guards the
  pods' starts, nothing else. `Discover` offers the first `MaxUnits` unfinished runs of the
  present schema version; `SchemaMoves` gives every file a run of a new key, at any time.
  A run of an old key, or behind the cap, is not offered, whatever a pod still does on it.
- **DbtLedger** — rows of bronze and silver, one build step per SQL statement, each
  under READ COMMITTED; the primary key's wait in `Claim`.
- **MergeOrders** — DbtLedger's builds with stage tasks before them and publish passes
  beside them. `Delta` is the WHERE clause of `merge_orders`, `Supersedes` that of its
  ON CONFLICT. A pass lists, then upserts and finalizes in one step: the transaction's
  inside is PublishIngest's.
- **CsvFile** — `phase` walks `CsvSource.inspect()` (sample, encoding, dialect, header,
  current schema, resolution, filename) and then the stream that `open()` returns: `Pull` is
  one bounded read of one part's decompressor, `ReadRecords` one chunk. Sizes are counted in
  units, one per field and one per line end. What a statistical detector concludes is a
  free choice; what the code does with its conclusions is not.
- **Normalize** — numbers character by character under a locale profile, dates with a
  pivot year or an offset, spreadsheet serials of both epochs, naive local times, tokens; and
  beside each the meaning a writer gives the text (`Renderings`, `Meaning`), defined without
  the code's steps. `DecimalOf` is `Decimal(text)`: it also reads exponents, underscores, NaN
  and the infinities, which are in the reference as `Literals` and `NonFinite`; `Scientific` is
  the guard's regular expression, one digit before a point.
- **StagingRows** — `at` is the stage a chunk is at (ragged rows, padding, nulls, types,
  NFC, the rules under their strategies); `CopyChunk` numbers and stages what is left;
  then the referential barrier, the rejection breaker and the promotion.
- **Operations** — one step per object discovered, task staged, run published; beside them
  `script` (drop, migrate, wipe, trigger), `pass` (list, delete objects, delete rows,
  commit) and `Repair`. Ids restart with a rebuild, as identity columns do; foreign keys
  and the locks of an open pass are in `Unreferenced`, `Referable`, `Locked`. A pass finds
  objects by key and runs by id and deletes them as such: what is put under the key, or
  changes in the row, between the two does not save them. A re-discovered file is committed as
  a duplicate of itself (`DiscoverAgain`) before it is corrected (`CorrectOriginal`), and an
  orphan is marked as a duplicate by discovery as well as by the repair. No row of
  `meta.files` is a candidate: retention asks for `discovered_at`, which nothing writes.
- **Ordering** — `InOrder` sorts a finite set by a given order, as `sorted` and ORDER BY do
  (the community modules' sort rests on an operator the provers cannot expand).
- **Discovery** — `at` walks `discover_files` call by call (each its own transaction),
  `part` the parts of a multipart unit; stage tasks are reduced to `_resolve_schema`
  and the outcome of the run. `Fragment` has the objects whose key `re.search` finds the
  multipart pattern in and `re.fullmatch` does not: they are in no unit (`UnitsOf`).
- **Scd2** — the scd publisher inside the transaction that PublishIngest treats as one
  step: `DetectDeletes` is step A and B of `SCDPublisher.publish`, `Recompute` steps C and
  D for one key, `Chain` is `recompute_version_chain`, `Vanished` the query of
  delete detection, `TooMany` the breaker. `work` is the table as the open transaction
  sees it. `DeleteRaises` and `RecomputeRaises` are the two places where the statements
  themselves fail: an inverted range, and the maximum of an empty history.
- **RunLifecycle** — no pods, leases, locks or transactions: a run is staged only with
  rows in bronze; runs succeed in the step that shows their rows in gold.

**Seeded faults.** Definitions whose comment starts with "Seeded fault" are not part of
the model: each is a plausible slip in the definition that follows it, and substituting
it makes the property named in `PROJECT.json` ("mutants") fail. They document that every
checked property depends on the code it is about.

## 3 The runs

| Run | Instance | Checks | Distinct states |
|---|---|---|---|
| StageIngest | 2 runs, 2 attempt slots, 2 faults, heartbeats may die | StageTypeOK, StagedHasBronze, LeaseExclusion, SuccessMeansStaged, ReleaseNeverStomps, EventuallyStaged | 100 k |
| PipelineScd | 2 runs, 1 pod slot, 1 pass, 1 fault, 1 abort, breaker | TerminalStays, LifecycleImplemented | 354 k |
| DagOrders | 3 runs, 2 a DagRun (cap), 1 pod at a time, 1 pod fault, 2 passes (one lost and running on, one that dies), no task given up on, no DagRun timing out, schema versions that move | DagTypeOK, FoldedBeforePublish, SucceededInGold, FinalizedByOnePass | 5.2 M |
| DagRecovers | 3 runs, 2 a DagRun, any 1 task given up on, 1 publish pod lost or DagRun timed out, schema versions that move, no pod fault, scd | EventuallySettled | 871 k |
| DbtBuilds | 2 runs, 4 lines, 2 builds and 1 publish pass, 1 rollback | IncrementalEqualsFull, AuditNeverOvercounts, ClaimedOnce, OneClaimant, EventuallyProcessed, GoldFollowsSilver, DeliveredInGold | 493 k |
| Discovery | 5 objects (a file, one that breaks the schema, a delivery in two parts that holds a duplicate of the file, a fragment), cap 1, 1 fault | DiscoveryTypeOK, DuplicatesPointAtOriginal, AssignmentDescribesRun, HistoryNeverRepeats, EventuallyIngested | 425 k |
| Scd2 | 3 snapshots of 4 keys and a replay, 2 passes, 1 killed, threshold 40 % | ChainsSound, CurrentIsRecompute, SucceededKeysInGold, DeletionsBounded | 345 k |
| StagingRows | files of up to 3 rows in chunks of 2, 4 rule sets, threshold 50 %; every text three number formats print, or Decimal() reads, for 9 amounts; dates, serials, hours | RowsAccounted, BronzeIsClean, LossBounded | 81 k |
| CsvFile | files of up to 3 parts, sample of 14 units, ceiling of 24, reads of 4, chunks of 2, 1 sync by another file | ReadAsWritten, ColumnsAligned, RowsDelivered, BombBounded, FacetsRead | 205 k |
| Operations | 2 objects of one content, a dataset without objects, 1 rebuild, 1 retention pass, 1 death, windows of 1 day in 2, 4 deployments | LineageKept, RetentionSpares, RebuildRestores | 832 k |

Two more runs end in the counterexample their finding describes (section 6).

Why the bounds are enough to be of use:

- *Two runs* (three in DagOrders and DagRecovers, of which a DagRun offers two): every interaction
  between runs in the code is between the one at hand and another one (the finalize loop's order, another run's bronze in an scd pass, one
  mapped instance failing beside another); no statement relates three.
- *Two pods, two passes, two builds*: exclusion is pairwise. (The DAG's runs have one pod slot:
  `max_active_tis_per_dag = 1` runs one stage task at a time, and rival attempts are
  StageIngest's.) Slots are refilled for ever, so any number of attempts follow each other.
- *Faults and aborts*: two faults in StageIngest allow a crash while the release of the
  rival fails, or a dead heartbeat and a later crash. PipelineScd allows one
  stage fault beside one publish abort; DagOrders a stage fault, a lost publish pod and a
  dying one.
- *Four lines in DbtBuilds*: one key with a date, without one and twice under one date, a
  line that both files hold, and a key only one delivers: the ranking, its tie-breaks, NULLs,
  replays, late files and untouched keys.
- *Three rows in chunks of two in StagingRows*: a full chunk, a short last one, and a row
  whose number depends on an earlier chunk. Rows are of every kind a stage tells apart. The
  numbers have at most six digits, so grouping occurs with one and with no fraction. A text
  is in a file with a sound row, so that a text wrongly refused shows.
- *CsvFile*: the sample of 14 units cuts some files inside the header's line (behind a
  title of 11 words), inside the body and not at all; archives end below, at and above the ceiling of 24, and overshoot it
  inside one read of 4; three parts is one more than two, which is what joins need.
- *Operations*: one content in two objects is what duplicates, repair and expiry of an
  original are about; ages 0, 1 and 2 are inside, at and over a window of one day.
- *Three snapshots in Scd2*: a change, a change back with the same timestamp in another
  file, a key first seen later, keys that vanish below and above the threshold, a late
  file published after newer ones. Every action fires, both failing ones included.
- *Five objects, cap 1 in Discovery*: the cap bites, a file that is refused for ever stands
  in front of another, keys are formed before and after the first schema version, the group
  is seen with one part and with both, and its second part is the duplicate or the
  original of a file, whichever comes first.

`MaxAppends`, `MaxFaults`, `MaxAborts`, `MaxTaskFailures`, `MaxLost` only bound how often the
environment misbehaves, or a file is staged; the code's own loops are not bounded.
Symmetry is used for pod, pass and DagRun slots and only in runs without liveness.

What some passing runs depend on, and why that is said in the instance:

- `TerminalStays`, `LifecycleImplemented` and `SucceededInGold` (which LifecycleImplemented
  entails, and DagOrders checks) hold while heartbeat
  threads live (`HeartbeatsFail = FALSE`). A pod that lost its heartbeat and finishes
  late overwrites SUCCEEDED with STAGED, because `update_ingestion_run_status` is
  guarded on `run_id` alone.
- `TerminalStays` holds with one pass at a time or without the breaker. With two passes
  over different listings, one may quarantine a run while the other, which got the lock
  after the breaker's rollback, commits it as SUCCEEDED.
- `FoldedBeforePublish`, and with it `SucceededInGold` of the orders DAG, hold as long as no
  task is given up on, one DagRun is active and none times out (`TimesOut = FALSE`).
  DagDbtFails shows the first condition biting, section 6 the last.
- `EventuallyIngested` names what the code leaves out for good: a delivery one part of which
  is a duplicate (`Withheld`, and files deduplicated against its parts with it), a file whose
  run is refused, or which stands behind as many refused ones as a pass may offer (`Starved`),
  a gap in some delivery (`Blocked`), and fragments, for which nothing is claimed. TLC finds
  the property violated without the first two, and for fragments; no gap stays in the instance.
- `EventuallySettled` holds while no publish attempt dies; RetryRecovers shows why. It
  speaks of the runs of the last schema version, and of files none of which is refused.
- `FinalizedByOnePass` is checked with merge_orders, which has no breaker; with scd and
  two passes it fails the way `TerminalStays` does.
- `IncrementalEqualsFull` holds with one append per run (`MaxAppends = 1`). With two, rows
  that the second append adds to a run the ledger holds stay out of silver: the ledger is
  keyed by run. An attempt that dies between the staging commit and the STAGED mark
  appends twice.
- `CurrentIsRecompute` is claimed in every state, passes under way included. It says nothing
  of keys delivered by a run that is quarantined or staged and not yet published, nor whether
  a key should be current (section 6). It needs the delete semantics `invalidate`, which
  `configs/datasets/customers.yaml:119` sets; with `ignore` and `new_record` it fails.
- `HistoryNeverRepeats` holds with one stage task at a time, which is what
  `max_active_tis_per_dag=1` gives, and one extra-column shape; with two it fails (section 6).
- `GoldFollowsSilver` and `DeliveredInGold` hold while a pass lists only runs whose rows
  are in silver (guard of `ListStaged`), which is `FoldedBeforePublish` of DagOrders, and no
  pass dies after its first run is finalized (RetryRecovers).
- `ColumnsAligned` and `RowsDelivered` are about files after their dataset's first, whose
  columns nothing compares. `ColumnsAligned` also needs the header to end within the sample
  (`HeaderWhole`): of a longer line the classifier sees the beginning only (section 6).
- `RowsDelivered` takes the file's header to be the one line that names the columns the
  contract requires, and a contract to require some (`NamedOnce`): with optional columns only,
  a file without any header passes as well.
- `ReadAsWritten` assumes of the two encoding detectors that the second is right when the
  first has its answer among its near ties; a delimiter may be found wrongly or not at all.
- `BronzeIsClean` ranges over texts a writer of the declared locale prints, what `Decimal()`
  reads besides (1_000, 7.0E+2, NaN), and some that nothing reads. The meaning of the second
  kind is what Python gives them; whether a delivery should be able to hold them is not said.
  NaN passes a validity range and reaches bronze. A text of another locale may be read as a
  number it does not mean (section 6).
- `LineageKept` holds with no stage task in flight when the schemas are dropped
  (`Drained = TRUE`). The script does not pause the DAGs; with a task in flight, its
  document's run and file ids belong to other objects afterwards, and its rows are tagged
  with them. The steps of a discovery pass over one object are atomic here but for the two
  upserts of a re-discovery, so a pass that carries a file's id across the drop is left out.
- `RetentionSpares` lets a pass take a run that is over its window and has staged nothing (an
  attempt claimed it and died: no row refers to it), and an object put again under a key
  listed for one that was over. For runs it needs `Drained`, for objects nothing.
- `RebuildRestores` excepts contents whose original has been expired by retention
  (`OriginalExpired`): a duplicate of it is never offered.

## 4 Fairness and time

- **Weak fairness of pods, passes, builds and stage tasks**: a process that is not killed
  goes on with its next statement. Faults carry no fairness; all are bounded, so
  eventually none happens.
- **Strong fairness of launches** (`StageFairness`): discovery offers an unfinished run
  in every DagRun and Airflow retries its task. Runs share the pod slots, so a launch is
  enabled again and again and not continuously.
- **Strong fairness of GiveUp**: the wait of a refused attempt is bounded by a clock
  (420 s). It is not *continuously* able to give up (its loop alternates between reading
  and retrying), so weak fairness would let it wait for ever.
- **DAG**: the scheduler moves a DagRun on, retries stage attempts, and files land.
  No fairness on task failures or timeouts.
- **Operations**: discovery offers and stage tasks, publications, a started migration and a
  started retention pass go on (the DAGs' schedules); nobody has to land a file, to start a
  rebuild, a pass or a repair, and a script that dies need not be started again.
- **MergeOrders**: builds, passes and the marks of staged runs go on.
- **StagingRows, CsvFile**: no liveness is claimed, so no fairness is stated; one attempt of
  one file either ends or is killed, which StageIngest has.
- **Time** is not counted. The ratios are kept as ordering: a heartbeat comes every 60 s
  and a waiting attempt polls every 2 s, so a living heartbeat never lets the 300 s
  lease elapse (`LeaseExpires` needs no heartbeat on the run); the wait budget (420 s)
  exceeds the lease (300 s), so a refused attempt gives up on a RUNNING row only if
  somebody refreshed it meanwhile (`renewed`).

## 5 Proofs

Everything below holds for every value of the constants: any number of runs, pods, builds,
passes, files, faults. Where a theorem has a hypothesis (ASSUME), TLC has found the
property violated without it, or the code is configured that way; the tables say which.
The named assumptions on the constants (`RunAssumption`, `LedgerAssumption`,
`DiscoveryAssumption`, `Scd2Assumption`, `OperationsAssumption`, ...) say that ids, keys and
bounds are naturals, that sets of runs, lines and objects are finite, and that keys identify
what they are keys of; `WorkAssumption` of CsvFile says what a file and a contract are. TLC
evaluates them in every run.

Each proof has the same three parts: the inductive invariant holds in the initial states,
every action keeps it (one lemma per action or group of actions), and it implies the property.

### The stage task (IngestPipeline_proofs)

| Theorem | States |
|---|---|
| `StageTypeCorrect` | `StageSpec => []StageTypeOK` |
| `StageInvariance` | `StageSpec => []StageInv` |
| `StageBronzeFirst` | `StageSpec => []StagedHasBronze` |
| `StageLeaseExclusion` | `StageSpec => []LeaseExclusion` |
| `StageSuccessMeansStaged` | `StageSpec => []SuccessMeansStaged` |
| `StageReleaseNeverStomps` | `StageSpec => ReleaseNeverStomps` |

None of the properties is inductive alone. `StageInv` adds what each program counter
knows:

- `HeartbeatHolds`: while a heartbeat runs, its attempt is in the claimed section, the row
  names it, and the row is not claimable. This is what keeps a rival out, and it is
  where the lease's condition (expiry only without a heartbeat) enters. Lease exclusion
  follows: two heartbeats on one run would need two names on one row.
- `PastCommit`: past the staging transaction's commit, bronze holds rows; the STAGED mark
  is only reachable from there.
- `SkipVerified`: an attempt told to skip saw STAGED or a terminal status, which no other
  attempt takes back. Without it `_skipped_receipt`'s second read could see RUNNING, and
  the task would succeed on nothing (SKIPPED_CONCURRENT).

`StageReleaseNeverStomps` then looks at the one action that writes FAILED: the releasing
attempt is named on the row, a heartbeating one would be too, and they differ.

### The pipeline and the DAG (IngestPipeline_proofs)

| Theorem | States | Hypothesis |
|---|---|---|
| `PipeInvariance` | `Spec => []PipeInv` | |
| `PipeTypeCorrect`, `PipeBronzeFirst`, `PipeLeaseExclusion`, `PipeSuccessMeansStaged` | the stage task's properties, builds and passes beside it | |
| `PipeFinalizedByOnePass` | `Spec => []FinalizedByOnePass` | merge_orders, or one pass |
| `ScdSucceededInGold` | `Spec => []SucceededInGold` | scd, one pass |
| `PipeTerminalStays` | `Spec => TerminalStays` | as above, heartbeats live |
| `ScdImplementsLifecycle` | `Spec => LifecycleImplemented` | scd, one pass, heartbeats live |
| `DagImplementsPipeline` | `DagSpec => Spec` | |
| `DagTypeCorrect` | `DagSpec => []DagTypeOK` | |
| `DagInvariance`, `DagFoldedBeforePublish`, `DagSucceededInGold` | `DagSpec => []...` | `OneDagRun` |
| `DagFinalizedByOnePass` | `DagSpec => []FinalizedByOnePass` | merge_orders |
| `DagImplementsLifecycle` | `DagSpec => LifecycleImplemented` | `OneDagRun`, heartbeats live |

- `PipeInv` is `StageInv` and `PassInv`: what a pass holds is what it listed, and durable in
  bronze (`ListedDurable`); the advisory lock is held by exactly the pass that is inside its
  transaction (`LockHeld`), and the rows locked are those it has finalized.
- `HeldInv`: from the check of `claim_run_stage` to the commit a run stays STAGED
  (`HeldStaged`). `update_ingestion_run_status` has no guard, so this is what a commit's
  SUCCEEDED rests on.
- `GoldInv`: past its upsert a transaction has put every run it listed in gold (`Covered`),
  and a run is SUCCEEDED only with its rows there. With merge_orders the upsert must find
  what was listed in silver, hence the theorem for scd here and for the DAG below.
- `SettledInv` (with living heartbeats): an attempt in the claimed section has its run
  RUNNING under it (`HoldsRunning`), so none is left to mark a SUCCEEDED run STAGED.
- The refinement of RunLifecycle maps status, bronze and gold. Every stage, build and
  publish action is matched with a step of the abstract specification or a stutter; `Commit`
  is the one that has gold and SUCCEEDED change together.
- `NoRivalBreaker` (merge_orders, which has no breaker, or at most one pass slot): with two scd
  passes one may quarantine what the other commits (section 3).
- `OneDagRun` (one DagRun, no task given up on, no timeout, merge_orders) has the conditions
  under which the task order means anything. `FoldInv` then says, task by task, that what was
  offered is durable before the build and in silver after it, that every other run, whether
  the cap or a new key left it out, is in silver already or untouched: still PENDING and no
  pod on it (`OthersSettled`), and that a pass, even one Airflow has lost and that runs on, has
  listed folded runs only (`ListedFolded`). That a pod cannot be on a run that is not offered
  is what the hypothesis on timeouts gives: a DagRun reaches its end only through the
  receipts of all the runs it offered, and all of them are in silver by then.

### dbt builds and merge_orders (MergeOrders_proofs)

| Theorem | States | Hypothesis |
|---|---|---|
| `LedgerInvariance`, `LedgerClaimedOnce`, `LedgerOneClaimant` | `LedgerSpec => []...` | |
| `RowInvariance`, `LedgerAuditNeverOvercounts` | `LedgerSpec => []...` | |
| `LedgerIncrementalEqualsFull` | `LedgerSpec => []IncrementalEqualsFull` | a run is appended once |
| `MergeImplementsLedger` | `MergeSpec => LedgerSpec` | |
| `MergeClaimsOnce`, `MergeOneClaimant`, `MergeAuditNeverOvercounts` | the same with passes beside the builds | |
| `MergeIncrementalEqualsFull`, `MergeGoldFollowsSilver` | `MergeSpec => []...` | a run is appended once |

`OneClaimant` is the reason why overlapping builds are safe: nothing in the code makes
them take turns. It is not inductive. `LedgerInv` adds that the snapshots of two builds
under way are nested but for what was committed since (`WantsNested`: a claim takes
everything the ledger lacks, and bronze only grows), and that a build past its claim
holds all it wanted that the ledger still lacks (`ClaimedAllWanted`). Of two claimants
one would then hold runs of the other, which the primary key excludes. A build that
claimed only some of what it finds would break the argument, and `IncrementalEqualsFull`.

`RowInv` types the rows and has the audit's arithmetic: what a build counts as deduplicated
is at most what it leaves out. `ExactInv` has the equality: silver holds the winners of what
the ledger holds, and the open claimant, of whom there is one, has selected from all of it.
The lemma under it is that the winners of a union are the winners of the winners, which is
where the ranking's being total enters (`LedgerAssumption`). `MergeGoldFollowsSilver` adds
that for the keys of a published run gold's row is superseded by none in silver. With two
appends per run the last three are false (section 3).

### Discovery and sorting (Ordering_proofs, Discovery_proofs)

| Theorem | States | Hypothesis |
|---|---|---|
| `InOrderSorts` | `InOrder` lists a finite set, each element once, in order | a strict total order |
| `DiscoveryInvariance` | `DiscoverySpec => []DiscoveryInv` | |
| `DiscoveryTypeCorrect` | `DiscoverySpec => []DiscoveryTypeOK` | |
| `DiscoveryDuplicates` | `DiscoverySpec => []DuplicatesPointAtOriginal` | |
| `DiscoveryAssignments` | `DiscoverySpec => []AssignmentDescribesRun` | |

`DiscoveryInv` says what each call may rely on after the calls before it although other
DagRuns and stage tasks commit in between: what a pass has found by content hash is the first
registered file of that content, and files are only appended, so it stays the first (`FileInv`);
a key that was allocated has its document, and a document lists the contents its key was
computed from (`RunInv`). Sorting is what makes two passes compute one key from the same parts.
`HistoryNeverRepeats` is only model-checked, on one stage task and one wider shape: the
code guarantees neither, and with two of either it is false (section 6).

### The scd publisher (Scd2_proofs)

| Theorem | States | Hypothesis |
|---|---|---|
| `Scd2Invariance` | `Scd2Spec => []Scd2Inv` | |
| `Scd2Chains` | `Scd2Spec => []ChainsSound` | |
| `Scd2SucceededInGold` | `Scd2Spec => []SucceededKeysInGold` | |
| `Scd2DeletionsBounded` | `Scd2Spec => DeletionsBounded` | |
| `Scd2CurrentIsRecompute` | `Scd2Spec => []CurrentIsRecompute` | delete semantics `invalidate` |

`ChainSound` shows that `recompute_version_chain` over any history gives versions that follow
one another, only the last open; `DeletesSound` that each delete semantics keeps it so. `SoundInv`
has it for gold and for the table as each open transaction sees it. The advisory lock lets no
other pass commit in between, so at the commit gold becomes that table. `DeliveredInv` says that
the table has every key of gold, and each key of the pass's runs that is no longer to be
recomputed; `LossInv` that it has lost no more of gold's current keys than the breaker let
through. `FreshInv` has `CurrentIsRecompute` inside the transaction, for the keys not to be
recomputed any more: their versions are what gold must have once the pass's runs succeed. A
version closed as deleted differs from the recomputation, but its key is not current then, and
the next delivery recomputes it whole.

### The row pipeline (StagingRows_proofs)

| Theorem | States |
|---|---|
| `RowsTyped` | `RowsSpec => []RowsTypeOK` |
| `RowsAreAccounted` | `RowsSpec => []RowsAccounted` |
| `LossIsBounded` | `RowsSpec => []LossBounded` |

Assumptions: `ChunkSizeAssumption` (at least one record per chunk), `ThresholdAssumption`,
`JobsAssumption` (a file is a finite sequence of rows). The lists of stages, what they
refuse and how they rewrite a row are left entirely open: the argument uses none of it.

- `RowsAccounted` says that the rows read are partitioned into the chunk in flight, the
  scratch table and the rejects, and that row numbers are distinct. `RowsInv` adds that
  numbers handed out so far are 1 to `parsed` (`NumbersBounded`), so the numbers of a new
  chunk are fresh, and that nothing is in flight between chunks (`Drained`). Within a chunk the
  numbers differ because a row's predecessors are a proper subset of those of a later row
  (`PredecessorsCounted`). Distinct numbers are what makes the barrier's DELETE by number
  take the orphans and nothing else (`ReferentialInv`).
- `LossBounded` compares rows lost with rows of the file, the breaker its own counters.
  `LossInv` says that the counter of parsed rows is the number of positions staged or
  orphaned since; with the partition, the rejects' number is that of the positions lost, and
  the ratios are the same (`LossFollows`).

### One object's way through CsvSource (CsvFile_proofs)

| Theorem | States | About |
|---|---|---|
| `CsvTypeCorrect` | `CsvSpec => []StreamTyped` | parts, positions and counters |
| `CsvReadAsWritten` | `CsvSpec => []ReadAsWritten` | encoding |
| `CsvBombBounded` | `CsvSpec => []BombBounded` | decompression |
| `CsvColumnsAligned` | `CsvSpec => []ColumnsAligned` | header and recorded shapes |
| `CsvRowsDelivered` | `CsvSpec => []RowsDelivered` | records |

Assumptions: `SizeAssumption` (sizes are naturals, a read and a chunk hold something) and
`WorkAssumption`. The latter says of each work that its parts end one behind the other
(`WorkTyped`), that earlier recorded shapes begin with the contract's columns (`HistorySound`,
which the theorem shows to be kept), that the longest mark a file begins with tells its encoding
(`MarkTold`), and that only the header names what the contract requires (`NamedOnce`). Texts,
casefolds and what looks like a number are left open.

- `Settled`: past the detector, the encoding is the file's. `FirstMarkIsLongest` is the lemma
  under it: the first entry of the table that a sample begins with is the longest such mark.
  It holds because UTF-32LE's mark is before UTF-16LE's, which begins it.
- `Guarded`: what was pulled of the current part is within the ceiling unless the pod has
  failed, each part before it was, and the stream ends only at the end of the last part
  (`EndOfStream`: no more lines can be available than the parts have). Both together give
  the bound for parts that were read to their end.
- `HeaderRead`: the header's names are what the sample has of its line, and once the resolver
  has let a file pass, they stand at their places (`PassedAtItsPlace`, from the three branches
  of `_resolve_schema`); recorded shapes begin with the contract's. The recorded history can
  change between the read of the current version and the resolution; the argument does not
  use that it does not.
- `HeaderIsNamed`: names at their places include all the required ones, so the line is the
  file's header and the delimiter was right. Neither the header's index nor the delimiter is
  known to be right for files that did not pass.
- `Delivering`: what was handed on is the slice of the stream from the first chunk that ends
  behind the ordinal asked for up to where reading stopped (`HandedOn`). Slices of adjacent
  chunks make one slice, and a slice that ends with the stream is a suffix of the records.

### Rebuild, retention, repair (Operations_proofs)

| Theorem | States | Hypothesis |
|---|---|---|
| `OpsInvariance` | `Spec => []OpsInv` | |
| `OpsRetentionSpares` | `Spec => RetentionSpares` | `Drained` |
| `OpsLineage` | `Spec => []LineageKept` | `Drained` |

- `LineageKept` speaks of the smallest id of a content (`FirstOf`); the invariant of the file
  that has it (`IsFirst`), which later registrations, having larger ids, do not disturb. What
  discovery writes over an existing row is the first of its content as well, whether that is
  another file, the row itself (until it is corrected) or nothing: `ExistingIsFirst`,
  `CreateFileStep`. `DocumentInv` says that a document in flight agrees with whatever rows its
  ids have, and that a run past PENDING has rows in bronze. A rebuild hands ids out again, so
  only `DocumentInv` needs `Drained`; `OpsInv` is proved without.
- `PassInv` has what an open pass has listed and deleted: an object listed was over its
  window and has at most been put again since; nothing refers to a run it has deleted (the
  foreign keys), and nothing comes to (the row locks). A run with rows is referred to by
  them, so a run that a pass deletes is still PENDING and its content is not in gold
  (`RunsSpared`). Nothing else protects a run: neither its status nor its file.

### Model-checked only

- Every liveness property: fairness and ENABLED are outside the prover.
- `DeliveredInGold`, which is one.
- `HistoryNeverRepeats`, whose conditions the code does not guarantee.
- `BronzeIsClean`: conversions of texts digit by digit, against their meaning. It needs
  induction over the data, which the installed provers cannot use.
- `FacetsRead`: matching a mask is a recursion over its tokens, and whether a name gives back
  the facets it was built from depends on the mask: for masks whose fields share characters
  it is not true, so there is no statement for all of them to prove.

## 6 Findings

| Run | What it shows |
|---|---|
| RetryRecovers | `complete_run_stage` commits outside the publish transaction. If the pass then fails, gold and SUCCEEDED roll back and the PUBLISH row stays SUCCEEDED: no later pass can claim the run, it stays STAGED for ever. |
| DagDbtFails | `publish` runs after a failed `dbt_build` and marks runs SUCCEEDED whose rows are not in silver, so merge_orders published nothing of them. |

Noted while modelling, without a run of their own (the first five were explored with TLC on
the instances above):

- *Quarantined rows in gold.* An scd pass reads the bronze history of its keys across all
  runs that are not QUARANTINED yet (`dataplat/load/publish/scd.py:124`); a run quarantined
  later has its rows in gold already, though `docs/adr/0012-quarantined-run-artifact-disposition.md`
  says that "Gold can no longer receive quarantined data through any publisher path".
- *Schema oscillation.* Two files with different extra columns make each other's schema
  current again for ever, and each flip re-keys every file of the dataset
  (`csv_processor/source.py:828`: the branch for wider files never looks a shape up in the
  history).
- *Batches decide on vanished keys.* A pass that lists a change of a key and a fresher file
  without the key closes the old version and never writes the new one; one pass per file
  writes it.
- *A pod that outlives its DagRun.* `dagrun_timeout` leaves pods running, and the next DagRun
  need not offer their runs: the cap (`dataplat/discovery.py:1004`) may leave them out, and a
  schema version may have given their files new keys (`:924`). Staged between that DagRun's
  dbt_build and its publish, such a run is listed unfolded and marked SUCCEEDED with nothing
  published. With `TimesOut = TRUE` and a second pod slot TLC finds it in the instance of
  DagOrders: land, discover, the schema moves, a stage attempt starts, the DagRun times out, the next one discovers,
  stages and builds the new run, the old pod stages the old one, publish lists both.
- *A rebuild with tasks in flight* mixes up lineage (section 3, `Drained`).
- *Discovery's second writer of lineage.* `create_file` overwrites `duplicate_of_file_id` at
  every re-discovery (`dataplat/metadata/postgres.py:148`): orphans are marked as duplicates
  without the repair, and each re-discovered original is a duplicate of itself between two
  commits (`dataplat/discovery.py:238`, `:261`), which a query of `meta.files` can see and a
  pass that dies in between leaves until the next one.
- *Keys between two matches.* A key in which `re.search` finds the multipart pattern and that
  `re.fullmatch` refuses (`dataplat/discovery.py:943`, `:1068`) is in no group and not among the
  single objects: never registered, never ingested, not logged.
- *A delivery with a duplicate part* is withheld, all of it, at every pass
  (`dataplat/discovery.py:366`). A file whose content is that of another of its parts and which
  comes later is a duplicate of the part, and so is not ingested either.
- *Retention*: with the `etl-app` policy of `helm/values/local/minio.yaml` (ListBucket on
  `raw` and `validated` only), listing `processed` is denied, so a pass raises before it
  reports anything, dry run or not. `etl_app` has no DELETE grant on the metadata tables.
  `_FILES_SQL` wants a `discovered_at` (`airflow/dags/_common/retention_query.py:100`), which
  `create_file` does not write and the column does not default: no file is ever deleted. A run
  over its window is kept by the rows that refer to it only: one that was claimed, whose
  pod died, and that nobody came back to, is deleted where DELETE is granted. One run that is
  referred to undoes the rows of all datasets, while objects already deleted stay deleted. Run
  status is not looked at: an original may expire before it was ingested, and its registered
  duplicate is never offered (`OriginalExpired`). Listings are not paginated; an object put
  again between listing and deletion is deleted by key, new as it is.
- *Rows*: one value that `::int` cannot cast aborts the referential anti-join and the whole
  file, though the barrier "Never raises for a row-level problem (QUAL-03)"
  (`dataplat/validate/referential.py:134`). `_source_row_number` counts the rows that reached
  the stage, not lines of the file. The uniqueness rule counts rows that a later stage
  rejects, and only within a chunk. Orphans stay in the recorded `rows_parsed`.
- *Values*: `reject_scientific_notation` catches one digit before a point
  (`dataplat/normalize/numeric.py:50`): `12E+14`, `1,23457E+14` and `+1E+14` are loaded, and so
  is `1_000`, which `Decimal()` reads. NaN passes a validity range; an infinity does not where
  there is one. Separators are dropped wherever they are: `1.50` under a profile with `.` for
  thousands is read as 150. A serial beyond the calendar raises OverflowError
  and fails the file, though the stage "Never raises, regardless of
  how malformed a value is" (`dataplat/normalize/dates.py:287`).
- *A header longer than the sample.* `inspect()` classifies the schema from a sample of 64 KiB
  (`csv_processor/source.py:89`, `:637`). Of a header line that does not end within it, behind a
  long preamble or with very many columns, the columns after the cut are neither looked for nor
  compared: the file passes if the missing ones are optional, and another column in
  their place is loaded under their name. `ColumnsAligned` without `HeaderWhole` is violated
  by the run's own instance. The proof attempt found it; the bounds had hidden it before.
- *CSV*: a dataset's first file is accepted whatever its columns are, and its first line is
  dropped as a header even if it is data. A sample cut inside a multi-byte character rejects a
  valid file. An impossible date in a filename raises ValueError instead of an inspection
  error. Duplicate names are looked for before trimming. The footer detector's result is not
  used by the loader.
- `report.json` is put before the transaction it reports on commits.
- `airflow/dags/_common/run_stage_recorder.py` asks for runs whose STAGE_LOAD row SUCCEEDED;
  no code writes STAGE_LOAD rows, so the DBT_BUILD bookkeeping never records anything
  (`StageLoadSucceeded` in IngestDag).
- `dbt/macros/claim_dbt_processed_runs.sql:41` says rows are "never half-processed"; a run
  staged twice around one build is (section 3, `IncrementalEqualsFull`).
- A late snapshot published alone, when newer keys are current, dates their deletion
  before the versions it closes: the range is inverted, the statement raises, and so does
  every retry until a fresher run is staged with it (`DeleteRaises`). A pass that listed
  a run before another pass published it can meet the same.
- A key first seen in a pass whose freshest run omits it becomes current: only keys that
  were current before the pass can vanish.
- With `new_record`, the version reopened at a deletion is current, so the next pass that
  omits the key closes it and opens another.
- The bronze_silver discrepancy of the reconciliation hook compares whole tables while
  bronze grows; it can be non-zero with nothing lost.
- The cap keeps the first `max_units_per_run` candidates in key order; that many
  permanently failing files in front starve the rest (`Starved`).
- When the schema term changes, files already SUCCEEDED or QUARANTINED are offered again
  under their new key.
- A multipart group is checked for gaps from its first listed part, so a group without
  its first part is accepted.

## 7 What the models leave out

- *Rows among attempts.* StagingRows follows one attempt; StageIngest has the attempts and
  the transaction as one step. Watermarks, reconciliation rows and `replay_of_run_id` commit or
  roll back with the transactions modelled and are not state of any model.
- *Gold per key.* PublishIngest tracks whose rows are in gold, not which; Scd2 and
  MergeOrders have the keys, and PublishIngest's stage rows not. The runs of an
  scd dataset are taken to touch common keys, the case in which they interact.
- *The breaker's arithmetic* is a free choice in PublishIngest (`TripBreaker`) and
  computed in Scd2.
- *Hashing* in Scd2: the hash of name and country is one value, so neither its null
  handling (null and the empty string agree) nor its separator is in the model; gold rows
  from before the bronze era are absent.
- *The first dbt build* (non-incremental) and scoped builds.
- *Discovery*: SUCCEEDED and QUARANTINED are one status; staging and publishing a run is
  one step; one DagRun at a time, beside passes and tasks Airflow has lost. The
  `_BATCH_COMPLETE` gate is left out: no dataset configures it. A larger instance (two
  scan slots, three objects, 634 k states) was explored for the safety properties.
- *Sensors, integrity gate, gap recorder* precede discovery and write none of this state.
- *CsvFile*: the statistics of encoding and dialect detection (free choices), footer
  detection (unused), type inference of columns, quoting inside a record.
- *Normalize, StagingRows*: `strptime`, `zoneinfo` and NFC are tables; of `Decimal()`,
  signaling NaNs and payloads are left out, and of dates the serials beyond the calendar and the
  pivot of naive local times with a two-digit year; `volume_anomaly` only
  reports; `batch_complete_manifest` is configured for no dataset.
- *Operations*: ingestion is coarse; the layers of retention other than raw objects and
  runs (no file is a candidate); an object put again has the content it had; the snapshot comparison of the rebuild beyond "which contents were in gold";
  backfill DagRuns (the DAGs' own schedules offer the same files).
- *The merge strategy* is used by no dataset.
- *Not modelled*: configuration loading and registry (a row lock serializes its syncs), object
  store and secret clients, observability, deployment and bootstrap scripts, the corpus
  generators under `tools/`. Reasons are in `PROJECT.json`, "components".

## 8 Plan

Order: what can lose or duplicate data first.

1. Done: the stage task and its proofs; the publish task and the pipeline; the DAG; the
   dbt ledger; discovery with the schema history; the scd publisher; merge_orders row by row;
   the row pipeline with its normalizers and its proofs; the CSV reader; rebuild, retention
   and repair.
2. Models next, if the code grows there: the configuration registry; the integrity gate; the
   `_BATCH_COMPLETE` gate once a dataset configures it.
3. Proofs: done for the safety properties of all modules but the conversions of StagingRows
   and the filename masks of CsvFile (section 5, model-checked only).
