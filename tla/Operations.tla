----------------------------- MODULE Operations -----------------------------
(***************************************************************************)
(* What operators and maintenance do to a platform that goes on ingesting: *)
(* scripts/rebuild-from-raw.py, the platform_retention DAG and             *)
(* scripts/repair-duplicate-file-lineage.py.                               *)
(*                                                                         *)
(* Ingestion is coarse here, one step per object, task and publication:    *)
(* its own interleavings are Discovery's, StageIngest's, PublishIngest's.  *)
(* An object is known by its place in key order; equal contents of one     *)
(* dataset are equal values of Content.  Days stand for ages.  Of the      *)
(* layers of retention the bucket raw and meta.ingestion_runs are here; no *)
(* row of meta.files has a discovered_at, so retention never finds one.    *)
(***************************************************************************)
EXTENDS FiniteSets, Sequences, FiniteSetsExt, Naturals

CONSTANTS
    Object,        \* keys of the bucket raw
    ContentOf,     \* Object -> content
    DatasetOf,     \* content -> dataset
    Datasets,      \* configs/datasets/*.yaml, sorted
    RawDays,       \* retention.raw_days
    MetadataDays,  \* retention.ingestion_metadata_days
    Deployments,   \* what the credentials and the configuration may allow
    Drained,       \* no stage task is in flight when the schemas are dropped
    MaxDay,        \* bound: days
    MaxRebuilds,   \* bound: runs of the rebuild script
    MaxPasses,     \* bound: runs of platform_retention
    MaxFaults      \* bound: tasks, scripts and passes that die

Grants == {"enforce", "list", "delete_objects", "delete_rows"}

ASSUME OperationsAssumption ==
    /\ Object \subseteq Nat /\ IsFiniteSet(Object)
    /\ DOMAIN ContentOf = Object
    /\ Deployments \subseteq SUBSET Grants
    /\ Drained \in BOOLEAN
    /\ {RawDays, MetadataDays, MaxDay, MaxRebuilds, MaxPasses, MaxFaults} \subseteq Nat

Absent == MaxDay + 1     \* no such object
None   == 0              \* SQL NULL in a column of ids

Content == {ContentOf[o] : o \in Object}
DataOf(o) == DatasetOf[ContentOf[o]]

VARIABLES
    day,       \* the clock
    raw,       \* object -> the day it was last put, or Absent
    allowed,   \* the grants of this deployment
    migrated,  \* the schemas of the ETL exist
    files,     \* meta.files: id, object, original (duplicate_of_file_id)
    runs,      \* meta.ingestion_runs: id, file, content (idempotency_key), status,
               \* day (COALESCE(finished_at, started_at))
    next,      \* the identity columns of the two
    bronze,    \* staging: run (_run_id), file (_file_id), object
    gold,      \* contents in normalized
    tasks,     \* stage tasks in flight: the run, file and object of their documents
    script,    \* rebuild-from-raw: at, todo
    before,    \* contents that were in gold when it was dropped
    pass,      \* platform_retention: at, todo, over (candidates of objects and of
               \* runs to delete), gone (the runs deleted so far)
    spent      \* rebuilds, passes and faults so far

ingestVars == <<files, runs, next, bronze, gold, tasks>>
vars == <<day, raw, allowed, migrated, ingestVars, script, before, pass, spent>>

Idle == [at |-> "idle", todo |-> <<>>]
Nothing == [objects |-> {}, runs |-> {}]
NoPass == [at |-> "idle", todo |-> <<>>, over |-> Nothing, gone |-> {}]

FileRow(i, o, original) == [id |-> i, object |-> o, original |-> original]
RunRow(i, file, c) ==
    [id |-> i, file |-> file, content |-> c, status |-> "PENDING", day |-> Absent]

Twins(o) == {f \in files : ContentOf[f.object] = ContentOf[o]}

\* An empty platform, or one where the lookup without ORDER BY has registered
\* the first two objects as originals of one content.
Init ==
    /\ day = 0
    /\ allowed \in Deployments
    /\ raw \in [Object -> {0, Absent}]
    /\ migrated = TRUE
    /\ \/ files = {} /\ next = [file |-> 1, run |-> 1]
       \/ \E o, p \in Object :
            /\ o < p /\ ContentOf[o] = ContentOf[p] /\ raw[o] = 0 /\ raw[p] = 0
            /\ files = {FileRow(1, o, None), FileRow(2, p, None)}
            /\ next = [file |-> 3, run |-> 1]
    /\ runs = {} /\ bronze = {} /\ gold = {} /\ tasks = {}
    /\ script = Idle /\ before = {}
    /\ pass = NoPass
    /\ spent = [rebuilds |-> 0, passes |-> 0, faults |-> 0]

Spend(what, bound) == spent[what] < bound /\ spent' = [spent EXCEPT ![what] = @ + 1]
Fault == Spend("faults", MaxFaults)

Tick ==
    /\ day < MaxDay
    /\ day' = day + 1
    /\ UNCHANGED <<raw, allowed, migrated, ingestVars, script, before, pass, spent>>

\* An object is put, for the first time or again under its key.
Land(o) ==
    /\ raw[o] # day
    /\ raw' = [raw EXCEPT ![o] = day]
    /\ UNCHANGED <<day, allowed, migrated, ingestVars, script, before, pass, spent>>

-----------------------------------------------------------------------------
(* Ingestion.  A run that an open retention pass has deleted is locked: a    *)
(* statement on it, or on a row that would refer to it, waits for the pass.  *)

Ids(S) == {x.id : x \in S}

Locked(r) == r.id \in Ids(pass.gone)

\* find_file_by_content_hash
Existing(o) == IF Twins(o) = {} THEN None ELSE Min(Ids(Twins(o)))

RowsOf(o) == {f \in files : f.object = o}
IsRediscovered(o) == \E f \in RowsOf(o) : f.id = Existing(o)

\* create_file: a new row, or the object's own with duplicate_of_file_id
\* overwritten.
CreateFile(o, original) ==
    /\ files' = IF RowsOf(o) = {} THEN files \cup {FileRow(next.file, o, original)}
                ELSE {IF f.object = o THEN [f EXCEPT !.original = original] ELSE f : f \in files}
    /\ next' = [next EXCEPT !.file = IF RowsOf(o) = {} THEN @ + 1 ELSE @,
                            !.run  = IF runs' = runs THEN @ ELSE @ + 1]

IdOf(o) == IF RowsOf(o) = {} THEN next.file ELSE (CHOOSE f \in RowsOf(o) : TRUE).id

\* The run of the content, or a new one.
RunOf(o) ==
    IF \E r \in runs : r.content = ContentOf[o]
    THEN CHOOSE r \in runs : r.content = ContentOf[o]
    ELSE RunRow(next.run, IdOf(o), ContentOf[o])

\* get_or_create_ingestion_run and, until the run has succeeded, an assignment
\* document for a stage task.
OfferRun(o) ==
    LET r == RunOf(o) IN
    /\ ~Locked(r)
    /\ runs' = runs \cup {r}
    /\ tasks' = IF r.status = "PENDING" /\ \A t \in tasks : t.object # o
                THEN tasks \cup {[run |-> r.id, file |-> IdOf(o), object |-> o]} ELSE tasks

\* discover comes to the first object of a content.
DiscoverFirst(o) ==
    /\ migrated /\ raw[o] # Absent
    /\ Existing(o) = None
    /\ OfferRun(o) /\ CreateFile(o, None)
    /\ UNCHANGED <<day, raw, allowed, migrated, bronze, gold, script, before, pass, spent>>

\* To another one, whatever its row said so far: no run for a duplicate.
DiscoverDuplicate(o) ==
    /\ migrated /\ raw[o] # Absent
    /\ Existing(o) # None /\ ~IsRediscovered(o)
    /\ UNCHANGED <<runs, tasks>> /\ CreateFile(o, Existing(o))
    /\ UNCHANGED <<day, raw, allowed, migrated, bronze, gold, script, before, pass, spent>>

\* To the first one again: the row is committed as a duplicate of itself ...
DiscoverAgain(o) ==
    /\ migrated /\ raw[o] # Absent
    /\ IsRediscovered(o)
    /\ UNCHANGED <<runs, tasks>> /\ CreateFile(o, Existing(o))
    /\ UNCHANGED <<day, raw, allowed, migrated, bronze, gold, script, before, pass, spent>>

\* ... and then corrected, by this pass or, if it dies in between, a later one.
CorrectOriginal(o) ==
    /\ migrated /\ raw[o] # Absent
    /\ \E f \in RowsOf(o) : f.original = f.id
    /\ OfferRun(o) /\ CreateFile(o, None)
    /\ UNCHANGED <<day, raw, allowed, migrated, bronze, gold, script, before, pass, spent>>

Discover(o) ==
    DiscoverFirst(o) \/ DiscoverDuplicate(o) \/ DiscoverAgain(o) \/ CorrectOriginal(o)

ClaimableBy(t) == {r \in runs : r.content = ContentOf[t.object] /\ r.status = "PENDING"}

\* started_at = COALESCE(started_at, now())
Claimed(r) == IF r.day = Absent THEN [r EXCEPT !.day = day] ELSE r

\* The claim waits for a locked run, and so do the foreign keys.
Waits(t) == \E r \in runs : Locked(r) /\ (r.id = t.run \/ r \in ClaimableBy(t))

\* The foreign keys of staging's _run_id and _file_id.
Referable(t) ==
    /\ \E r \in runs : r.id = t.run
    /\ \E f \in files : f.id = t.file

\* stage_ingest: claims the run of its idempotency key, tags the rows with the
\* run and the file of its document.
Stage(t) ==
    /\ migrated /\ raw[t.object] # Absent /\ Referable(t) /\ ~Waits(t)
    /\ \E r \in ClaimableBy(t) :
         runs' = (runs \ {r}) \cup {[Claimed(r) EXCEPT !.status = "STAGED"]}
    /\ bronze' = bronze \cup {t}
    /\ tasks' = tasks \ {t}
    /\ UNCHANGED <<day, raw, allowed, migrated, files, next, gold, script, before, pass, spent>>

ClaimOnly(t) ==
    /\ runs' = {IF r \in ClaimableBy(t) THEN Claimed(r) ELSE r : r \in runs}
    /\ tasks' = tasks \ {t}
    /\ UNCHANGED <<day, raw, allowed, migrated, files, next, bronze, gold, script, before, pass>>

\* It raises: no schema, no object, no row to refer to or nothing to claim.
\* The claim comes first, and its started_at stays.
StageRaises(t) ==
    /\ ~(migrated /\ raw[t.object] # Absent /\ Referable(t) /\ ClaimableBy(t) # {})
    /\ ~Waits(t)
    /\ ClaimOnly(t)
    /\ UNCHANGED spent

\* It dies after its claim, before its rows are committed.
StageDies(t) ==
    /\ ~Waits(t)
    /\ ClaimOnly(t)
    /\ Fault

\* publish_ingest: the rows tagged with the run; finished_at is now.
Publish(r) ==
    /\ migrated /\ r.status = "STAGED" /\ ~Locked(r)
    /\ gold' = gold \cup {ContentOf[b.object] : b \in {b \in bronze : b.run = r.id}}
    /\ runs' = (runs \ {r}) \cup {[r EXCEPT !.status = "SUCCEEDED", !.day = day]}
    /\ UNCHANGED <<day, raw, allowed, migrated, files, next, bronze, tasks, script, before, pass, spent>>

-----------------------------------------------------------------------------
(* The repair: one UPDATE over all of meta.files.                            *)

FirstOf(c) == Min(Ids({f \in files : ContentOf[f.object] = c}))

\* Seeded fault: the group's newest row taken for its original.
LastOf(c) == Max(Ids({f \in files : ContentOf[f.object] = c}))

Orphans ==
    {f \in files : f.original = None /\ f.id # FirstOf(ContentOf[f.object])}

\* Seeded fault: repaired row by row, each against the row registered last.
RepairToNewest ==
    /\ migrated /\ Orphans # {}
    /\ files' = {IF f \in Orphans THEN [f EXCEPT !.original = LastOf(ContentOf[f.object])] ELSE f
                   : f \in files}
    /\ UNCHANGED <<day, raw, allowed, migrated, runs, next, bronze, gold, tasks,
                   script, before, pass, spent>>

Repair ==
    /\ migrated /\ Orphans # {}
    /\ files' = {IF f \in Orphans THEN [f EXCEPT !.original = FirstOf(ContentOf[f.object])] ELSE f
                   : f \in files}
    /\ UNCHANGED <<day, raw, allowed, migrated, runs, next, bronze, gold, tasks,
                   script, before, pass, spent>>

-----------------------------------------------------------------------------
(* rebuild-from-raw.                                                         *)

\* Seeded fault: metadata thought to be worth keeping.
DataSchemas == {"staging", "silver", "normalized"}

EtlSchemas == {"staging", "silver", "normalized", "meta"}

\* Never raw, never metadata.
WipeBuckets == {"validated", "processed", "quarantine"}

ScriptAt(l) == script' = [script EXCEPT !.at = l]

BeginRebuild ==
    /\ script.at = "idle"
    /\ Spend("rebuilds", MaxRebuilds)
    /\ ScriptAt("drop")
    /\ UNCHANGED <<day, raw, allowed, migrated, ingestVars, before, pass>>

\* DROP SCHEMA ... CASCADE, one statement, once no transaction is open on them.
\* The table alembic keeps its revision in goes with meta.
DropSchemas ==
    /\ script.at = "drop" /\ pass.at = "idle"
    /\ Drained => tasks = {}
    /\ before' = before \cup gold
    /\ gold' = IF "normalized" \in EtlSchemas THEN {} ELSE gold
    /\ bronze' = IF "staging" \in EtlSchemas THEN {} ELSE bronze
    /\ IF "meta" \in EtlSchemas
       THEN files' = {} /\ runs' = {} /\ next' = [file |-> 1, run |-> 1]
       ELSE UNCHANGED <<files, runs, next>>
    /\ migrated' = FALSE
    /\ ScriptAt("migrate")
    /\ UNCHANGED <<day, raw, allowed, tasks, pass, spent>>

\* alembic upgrade head
UpgradeToHead ==
    /\ script.at = "migrate"
    /\ migrated' = TRUE
    /\ ScriptAt("wipe")
    /\ UNCHANGED <<day, raw, allowed, ingestVars, before, pass, spent>>

WipeLayers ==
    /\ script.at = "wipe"
    /\ raw' = IF "raw" \in WipeBuckets THEN [o \in Object |-> Absent] ELSE raw
    /\ script' = [at |-> "trigger", todo |-> Datasets]
    /\ UNCHANGED <<day, allowed, migrated, ingestVars, before, pass, spent>>

Landed(d) == {o \in Object : raw[o] # Absent /\ DataOf(o) = d}

\* A backfill of the next dataset, or none for a DAG that an asset triggers.
\* Either way its own schedule goes on offering what is in raw.
TriggerBackfill ==
    /\ script.at = "trigger" /\ script.todo # <<>>
    /\ Landed(Head(script.todo)) # {}
    /\ script' = [script EXCEPT !.todo = Tail(@)]
    /\ UNCHANGED <<day, raw, allowed, migrated, ingestVars, before, pass, spent>>

\* The end: every dataset has been triggered, or one has nothing under raw/
\* and the script raises.
EndRebuild ==
    /\ script.at = "trigger"
    /\ script.todo # <<>> => Landed(Head(script.todo)) = {}
    /\ script' = Idle
    /\ UNCHANGED <<day, raw, allowed, migrated, ingestVars, before, pass, spent>>

\* It dies between two steps; run again, it starts from the drop.
RebuildDies ==
    /\ script.at # "idle"
    /\ Fault
    /\ script' = Idle
    /\ UNCHANGED <<day, raw, allowed, migrated, ingestVars, before, pass>>

-----------------------------------------------------------------------------
(* platform_retention: all datasets in one transaction, the deletions from   *)
(* the bucket outside it.                                                    *)

\* Seeded fault: the window's last day counted as over.
OverOrAt(since, window) == since # Absent /\ day - since >= window

\* evaluate_retention: strictly older than the window.
Over(since, window) == since # Absent /\ day - since > window

BeginPass ==
    /\ pass.at = "idle" /\ migrated
    /\ Spend("passes", MaxPasses)
    /\ pass' = [NoPass EXCEPT !.at = "list", !.todo = Datasets]
    /\ UNCHANGED <<day, raw, allowed, migrated, ingestVars, script, before>>

\* RetentionCandidate: what to delete, and since when it counts.
Candidate(i, since) == [id |-> i, since |-> since]

Left(deleted) == {r \in runs : r.id \notin Ids(deleted)}

\* The candidates of the next dataset that are over their windows, from every
\* layer; a bucket that may not be listed raises.
ListCandidates ==
    /\ pass.at = "list" /\ pass.todo # <<>> /\ "list" \in allowed
    /\ LET d == Head(pass.todo) IN
       pass' = IF "enforce" \notin allowed THEN [pass EXCEPT !.todo = Tail(@)] ELSE [pass EXCEPT
           !.at = "objects",
           !.over = [objects |-> {Candidate(o, raw[o]) :
                                    o \in {o \in Object : DataOf(o) = d /\ Over(raw[o], RawDays)}},
                     runs    |-> {Candidate(r.id, r.day) :
                                    r \in {r \in Left(pass.gone) : DatasetOf[r.content] = d
                                                               /\ Over(r.day, MetadataDays)}}]]
    /\ UNCHANGED <<day, raw, allowed, migrated, ingestVars, script, before, spent>>

\* delete_objects, by key; what may not be deleted comes back as an error of
\* the response, which nobody reads.
DeleteObjects ==
    /\ pass.at = "objects"
    /\ raw' = [o \in Object |-> IF "delete_objects" \in allowed /\ o \in Ids(pass.over.objects)
                                THEN Absent ELSE raw[o]]
    /\ pass' = [pass EXCEPT !.at = "rows"]
    /\ UNCHANGED <<day, allowed, migrated, ingestVars, script, before, spent>>

\* The foreign keys on meta.ingestion_runs.
Unreferenced(deleted) == \A b \in bronze : b.run \notin Ids(deleted)

MayDelete ==
    pass.over.runs # {} => "delete_rows" \in allowed /\ Unreferenced(pass.over.runs)

DeleteRows ==
    /\ pass.at = "rows" /\ MayDelete
    /\ pass' = [pass EXCEPT !.at = "list", !.todo = Tail(@), !.over = Nothing,
                            !.gone = @ \cup pass.over.runs]
    /\ UNCHANGED <<day, raw, allowed, migrated, ingestVars, script, before, spent>>

CommitPass ==
    /\ pass.at = "list" /\ pass.todo = <<>>
    /\ runs' = Left(pass.gone)
    /\ pass' = NoPass
    /\ UNCHANGED <<day, raw, allowed, migrated, files, next, bronze, gold, tasks, script, before, spent>>

\* No right to list or to delete, or a row still referred to: everything the
\* pass has done to rows is undone, what it has done to objects is not.
PassRaises ==
    /\ \/ pass.at = "list" /\ pass.todo # <<>> /\ "list" \notin allowed
       \/ pass.at = "rows" /\ ~MayDelete
    /\ pass' = NoPass
    /\ UNCHANGED <<day, raw, allowed, migrated, ingestVars, script, before, spent>>

PassDies ==
    /\ pass.at # "idle"
    /\ Fault
    /\ pass' = NoPass
    /\ UNCHANGED <<day, raw, allowed, migrated, ingestVars, script, before>>

-----------------------------------------------------------------------------
Ingest ==
    \/ \E o \in Object : Discover(o)
    \/ \E t \in tasks : Stage(t) \/ StageRaises(t) \/ StageDies(t)
    \/ \E r \in runs : Publish(r)

Rebuild ==
    \/ BeginRebuild \/ DropSchemas \/ UpgradeToHead \/ WipeLayers
    \/ TriggerBackfill \/ EndRebuild \/ RebuildDies

Retain ==
    \/ BeginPass \/ ListCandidates \/ DeleteObjects \/ DeleteRows
    \/ CommitPass \/ PassRaises \/ PassDies

Next == Tick \/ (\E o \in Object : Land(o)) \/ Ingest \/ Repair \/ Rebuild \/ Retain

\* The DAGs' schedules offer and retry, the scheduler runs what is offered, a
\* script or a pass that does not die goes on.  Nobody has to land a file, to
\* start a rebuild or a pass, or to repair.
Fairness ==
    /\ \A o \in Object : WF_vars(Discover(o))
    /\ \A o \in Object : WF_vars(\E t \in tasks : t.object = o /\ (Stage(t) \/ StageRaises(t)))
    /\ \A c \in Content : WF_vars(\E r \in runs : r.content = c /\ Publish(r))
    /\ WF_vars(UpgradeToHead)
    /\ WF_vars(DeleteObjects \/ DeleteRows \/ ListCandidates \/ CommitPass \/ PassRaises)

Spec == Init /\ [][Next]_vars /\ Fairness

-----------------------------------------------------------------------------
(* Lineage stays true under all of this: a row of meta.files that names an   *)
(* original names the first of that content, which exists (itself, while a   *)
(* rediscovery has yet to be corrected); a run's file exists and has the     *)
(* run's content; a bronze row's run and file exist and are those of the     *)
(* object it was read from.  Ids start again at one with a rebuild, so what  *)
(* outlives it must not meet new rows.                                       *)
LineageKept ==
    /\ \A f \in files : f.original # None => f.original = FirstOf(ContentOf[f.object])
    /\ \A r \in runs : \E f \in files : f.id = r.file /\ ContentOf[f.object] = r.content
    /\ \A b \in bronze :
         /\ \E r \in runs : r.id = b.run /\ r.content = ContentOf[b.object]
         /\ \E f \in files : f.id = b.file /\ f.object = b.object

\* delete_objects goes by key: what has been put under a listed key since the
\* listing is deleted in its predecessor's place.
PutSinceListed(o) == \E c \in pass.over.objects : c.id = o /\ c.since < raw[o]

Gone(r) == \A s \in runs' : s.id # r.id

\* What a step takes.
Spared ==
    /\ \A o \in Object : raw[o] # Absent /\ raw'[o] = Absent =>
         "enforce" \in allowed /\ (day - raw[o] > RawDays \/ PutSinceListed(o))
    /\ migrated /\ migrated' => \A r \in {r \in runs : Gone(r)} :
         /\ {"enforce", "delete_rows"} \subseteq allowed /\ day - r.day > MetadataDays
         /\ r.status = "PENDING" /\ r.content \notin gold

(* Nothing is deleted before its time, and nothing at all without the opt-in, *)
(* unless a rebuild has dropped the schemas: an object that leaves raw is     *)
(* over its window or was put under a key listed for one that was, and a run  *)
(* that leaves meta is over its window and never staged or published          *)
(* anything, whatever ingestion does between the listing and the commit.      *)
RetentionSpares == [][Spared]_vars

\* Every object that is left of a content is registered as a duplicate: the
\* original has been expired before it was ingested again.
OriginalExpired(c) ==
    /\ {"enforce", "list", "delete_objects"} \subseteq allowed /\ day > RawDays
    /\ \A o \in Object : ContentOf[o] = c /\ raw[o] # Absent =>
         \E f \in files : f.object = o /\ f.original # None

(* What was in gold when a rebuild dropped it is in gold again in the end,   *)
(* wherever the script died after its migration and whatever retention did   *)
(* in between, unless the schemas are down or its original has been expired. *)
RebuildRestores ==
    \A c \in Content :
        (c \in before /\ migrated) ~> (c \in gold \/ ~migrated \/ OriginalExpired(c))
=============================================================================
