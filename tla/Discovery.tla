------------------------------ MODULE Discovery ------------------------------
(***************************************************************************)
(* discover_files over one dataset's part of the raw bucket, and the schema  *)
(* history its idempotency keys depend on.  A pass lists the bucket once,     *)
(* reads the current schema version once, and then hashes, registers and      *)
(* allocates unit after unit, every call a transaction of its own; a stage    *)
(* task that meets a file of a new shape adds a schema version meanwhile,     *)
(* which re-keys every file there is.                                        *)
(*                                                                          *)
(* Hashes are the things hashed.  A unit is the sequence of objects staged    *)
(* together: one object, or the parts of a multipart delivery.  The run of a  *)
(* unit is identified by its idempotency key; configuration, image and        *)
(* pipeline version are fixed, so the key is the contents and the schema      *)
(* version term (0 for the empty string).  Batches and replay_of_run_id, which *)
(* nothing here reads back, are left out.                                     *)
(***************************************************************************)
EXTENDS Naturals, FiniteSets, Sequences, SequencesExt, Ordering

CONSTANTS
    Object,    \* raw objects [key, content, group, index, shape]; group 0 is no group
    Fragment,  \* those whose key only contains a match of multipart_pattern
    None,      \* NULL
    Scan,      \* slots of concurrently alive discover passes
    Worker,    \* slots of concurrently alive stage tasks
    MaxUnits,  \* config.batching.max_units_per_run
    MaxFaults  \* bound: pods that die, raise, or are given up on

\* Keys are unique and sort as naturals do here.
ASSUME DiscoveryAssumption ==
    /\ \A o, p \in Object : o.key = p.key => o = p
    /\ \A o \in Object : o.key \in Nat /\ o.group \in Nat /\ o.index \in Nat
    /\ Fragment \subseteq {o \in Object : o.group = 0}
    /\ None \notin Object /\ None \notin {o.shape : o \in Object} \cup {"contract"}
    /\ MaxUnits \in Nat \ {0} /\ MaxFaults \in Nat

VARIABLES
    bucket,    \* objects landed under raw/<dataset>/; nothing ever removes one
    files,     \* meta.files in file_id order
    duplicate, \* meta.files.duplicate_of_file_id
    status,    \* meta.ingestion_runs.status of every allocated key
    document,  \* the unit in s3://metadata/assignments/.../<run>.json, <<>> without one
    history,   \* meta.schema_versions: the shape of version 1, 2, ...; the last is current
    offered,   \* runs a discover pass has returned and no stage task has handled
    at,        \* where the pass in a slot stands
    agenda,    \* units it has still to process
    part,      \* index of the part of the first of them it is at
    found,     \* what find_file_by_content_hash returned for that part
    withheld,  \* whether an earlier part of that unit was a duplicate
    term,      \* its schema version term
    candidates,\* the runs it has accepted so far
    lost,      \* slots whose pass Airflow has given up on while its pod runs on
    task,      \* run of the stage task in a slot, None when idle
    seen,      \* the current shape that task read
    faults     \* failures so far

fileVars  == <<files, duplicate>>
runVars   == <<status, document>>
scanVars  == <<at, agenda, part, found, withheld, term, candidates, lost>>
stageVars == <<task, seen>>
discoveryVars == <<bucket, fileVars, runVars, history, offered, scanVars, stageVars, faults>>

\* The two statuses that are not offered again are one here: a QUARANTINED run
\* is to discovery what a SUCCEEDED one is.
Terminal == {"SUCCEEDED"}
Steps == {"idle", "term", "find", "register", "correct", "allocate", "assign"}

FilesTyped ==
    /\ files \in Seq(Object) /\ Cardinality(ToSet(files)) = Len(files)
    /\ duplicate \in [Object -> Object \cup {None}]

RunsTyped ==
    /\ \A k \in DOMAIN status :
           /\ k.contents \in Seq({o.content : o \in Object}) /\ k.term \in Nat
           /\ status[k] \in {"PENDING", "FAILED"} \cup Terminal
    /\ DOMAIN document = DOMAIN status
    /\ \A k \in DOMAIN document : document[k] \in Seq(Object)

RefsTyped ==
    /\ offered \subseteq DOMAIN status /\ candidates \in [Scan -> Seq(DOMAIN status)]
    /\ task \in [Worker -> DOMAIN status \cup {None}]

DiscoveryTypeOK ==
    /\ bucket \subseteq Object
    /\ FilesTyped /\ RunsTyped /\ RefsTyped
    /\ history \in Seq({o.shape : o \in Object} \cup {"contract"})
    /\ at \in [Scan -> Steps] /\ agenda \in [Scan -> Seq(Seq(Object))]
    /\ part \in [Scan -> Nat \ {0}] /\ withheld \in [Scan -> BOOLEAN]
    /\ found \in [Scan -> Object \cup {None}] /\ term \in [Scan -> Nat]
    /\ seen \in [Worker -> {o.shape : o \in Object} \cup {"contract", None}]
    /\ lost \subseteq Scan /\ faults \in 0..MaxFaults

DiscoveryInit ==
    /\ bucket = {} /\ files = <<>> /\ duplicate = [o \in Object |-> None]
    /\ status = <<>> /\ document = <<>> /\ history = <<>> /\ offered = {}
    /\ at = [s \in Scan |-> "idle"] /\ agenda = [s \in Scan |-> <<>>]
    /\ part = [s \in Scan |-> 1] /\ found = [s \in Scan |-> None]
    /\ withheld = [s \in Scan |-> FALSE] /\ term = [s \in Scan |-> 0]
    /\ candidates = [s \in Scan |-> <<>>] /\ lost = {}
    /\ task = [w \in Worker |-> None] /\ seen = [w \in Worker |-> None]
    /\ faults = 0

-----------------------------------------------------------------------------
(* The listing.                                                              *)

ByKey(S) == InOrder(S, {e \in S \X S : e[1].key < e[2].key})

\* sorted() over (index, key)
ByIndex(S) ==
    InOrder(S, {e \in S \X S : \/ e[1].index < e[2].index
                               \/ e[1].index = e[2].index /\ e[1].key < e[2].key})

PartsOf(g, listed) == ByIndex({o \in listed : o.group = g})

\* group_multipart_units raises on a gap after the group's FIRST LISTED part.
Gapped(g, listed) ==
    LET parts == PartsOf(g, listed) IN
    \E i \in 1..Len(parts) : parts[i].index # parts[1].index + i - 1

GroupsOf(listed) == {o.group : o \in listed} \ {0}

\* Groups in order of their key, then the other objects in order of theirs.  A
\* key is a candidate for a group by re.search and a member of one by
\* re.fullmatch: between the two it is in no unit at all.
UnitsOf(listed) ==
    LET keys   == GroupsOf(listed)
        groups == InOrder(keys, {e \in keys \X keys : e[1] < e[2]})
        alone  == ByKey({o \in listed \ Fragment : o.group = 0})
    IN  [i \in 1..Len(groups) |-> PartsOf(groups[i], listed)]
            \o [i \in 1..Len(alone) |-> <<alone[i]>>]

Land(o) ==
    /\ o \notin bucket
    /\ bucket' = bucket \cup {o}
    /\ UNCHANGED <<fileVars, runVars, history, offered, scanVars, stageVars, faults>>

ScanAt(s, l) == at' = [at EXCEPT ![s] = l]

\* One DagRun at a time: its predecessor's tasks are over, as far as Airflow knows.
MayStart == offered = {} /\ \A z \in Scan \ lost : at[z] = "idle"

\* list_objects and the grouping.  A gap in one group raises: the whole call
\* fails before it registers anything, and so does every retry of it.
List(s) ==
    /\ at[s] = "idle" /\ MayStart
    /\ \A g \in GroupsOf(bucket) : ~Gapped(g, bucket)
    /\ agenda' = [agenda EXCEPT ![s] = UnitsOf(bucket)]
    /\ ScanAt(s, "term")
    /\ UNCHANGED <<bucket, fileVars, runVars, history, offered,
                   part, found, withheld, term, candidates, lost, stageVars, faults>>

\* schema.get_current, once per call.
ReadSchemaTerm(s) ==
    /\ at[s] = "term"
    /\ term' = [term EXCEPT ![s] = Len(history)]
    /\ ScanAt(s, "find")
    /\ UNCHANGED <<bucket, fileVars, runVars, history, offered,
                   agenda, part, found, withheld, candidates, lost, stageVars, faults>>

-----------------------------------------------------------------------------
(* One unit: every part is registered, then the run is allocated.            *)

Unit(s) == Head(agenda[s])
Part(s) == Unit(s)[part[s]]

SameContent(o) == {i \in 1..Len(files) : files[i].content = o.content}

\* Seeded fault: LIMIT 1 without ORDER BY.
FindNewestByContentHash(o) ==
    IF SameContent(o) = {} THEN None
    ELSE files[CHOOSE i \in SameContent(o) : \A j \in SameContent(o) : i >= j]

\* ORDER BY file_id ASC LIMIT 1
FindFileByContentHash(o) ==
    IF SameContent(o) = {} THEN None
    ELSE files[CHOOSE i \in SameContent(o) : \A j \in SameContent(o) : i <= j]

Find(s) ==
    /\ at[s] = "find" /\ agenda[s] # <<>>
    /\ found' = [found EXCEPT ![s] = FindFileByContentHash(Part(s))]
    /\ ScanAt(s, "register")
    /\ UNCHANGED <<bucket, fileVars, runVars, history, offered,
                   agenda, part, withheld, term, candidates, lost, stageVars, faults>>

NextUnit(s) ==
    /\ agenda' = [agenda EXCEPT ![s] = Tail(@)]
    /\ part' = [part EXCEPT ![s] = 1]
    /\ withheld' = [withheld EXCEPT ![s] = FALSE]
    /\ ScanAt(s, "find")

\* The part is registered: the next one, or, a duplicate among them, no run
\* for the whole unit, or its run.
PartDone(s, isDuplicate) ==
    IF part[s] < Len(Unit(s))
    THEN /\ part' = [part EXCEPT ![s] = @ + 1]
         /\ withheld' = [withheld EXCEPT ![s] = @ \/ isDuplicate]
         /\ ScanAt(s, "find")
         /\ UNCHANGED agenda
    ELSE IF withheld[s] \/ isDuplicate THEN NextUnit(s)
    ELSE ScanAt(s, "allocate") /\ UNCHANGED <<agenda, part, withheld>>

\* Seeded fault: an insert without ON CONFLICT (dataset_id, object_uri, content_sha256).
InsertFile(o, original) ==
    /\ files' = Append(files, o)
    /\ duplicate' = [duplicate EXCEPT ![o] = original]

\* create_file: an upsert that always overwrites duplicate_of_file_id.
CreateFile(o, original) ==
    /\ files' = IF o \in ToSet(files) THEN files ELSE Append(files, o)
    /\ duplicate' = [duplicate EXCEPT ![o] = original]

\* Seeded fault: a rediscovered file stays marked as a duplicate of itself.
RegisterOnly(s) ==
    /\ at[s] = "register"
    /\ CreateFile(Part(s), found[s])
    /\ PartDone(s, found[s] # None)
    /\ UNCHANGED <<bucket, runVars, history, offered,
                   found, term, candidates, lost, stageVars, faults>>

\* The first create_file.  A match that is the row itself is a rediscovery ...
Register(s) ==
    /\ at[s] = "register"
    /\ CreateFile(Part(s), found[s])
    /\ IF found[s] = Part(s)
       THEN ScanAt(s, "correct") /\ UNCHANGED <<agenda, part, withheld>>
       ELSE PartDone(s, found[s] # None)
    /\ UNCHANGED <<bucket, runVars, history, offered,
                   found, term, candidates, lost, stageVars, faults>>

\* ... which a second create_file corrects.
Correct(s) ==
    /\ at[s] = "correct"
    /\ CreateFile(Part(s), None)
    /\ PartDone(s, FALSE)
    /\ UNCHANGED <<bucket, runVars, history, offered,
                   found, term, candidates, lost, stageVars, faults>>

Contents(unit) == [i \in 1..Len(unit) |-> unit[i].content]

\* Seeded fault: a multipart run is keyed by its first part.
KeyOfFirstPart(unit, t) == [contents |-> <<unit[1].content>>, term |-> t]

IdempotencyKey(unit, t) == [contents |-> Contents(unit), term |-> t]

Key(s) == IdempotencyKey(Unit(s), term[s])

\* get_or_create_ingestion_run; a terminal run is not offered again.
AllocateRun(s) ==
    /\ at[s] = "allocate"
    /\ LET k == Key(s) IN
       /\ status' = IF k \in DOMAIN status THEN status
                    ELSE [j \in DOMAIN status \cup {k} |-> IF j = k THEN "PENDING" ELSE status[j]]
       /\ document' = IF k \in DOMAIN status THEN document
                      ELSE [j \in DOMAIN status \cup {k} |-> IF j = k THEN <<>> ELSE document[j]]
       /\ IF status'[k] \in Terminal THEN NextUnit(s)
          ELSE ScanAt(s, "assign") /\ UNCHANGED <<agenda, part, withheld>>
    /\ UNCHANGED <<bucket, fileVars, history, offered, found, term, candidates, lost, stageVars, faults>>

\* put_object of the assignment document, at the run's own key.
PutAssignment(s) ==
    /\ at[s] = "assign"
    /\ document' = [document EXCEPT ![Key(s)] = Unit(s)]
    /\ candidates' = [candidates EXCEPT ![s] = Append(@, Key(s))]
    /\ NextUnit(s)
    /\ UNCHANGED <<bucket, fileVars, status, history, offered, found, term, lost, stageVars, faults>>

ResetScan(s) ==
    /\ ScanAt(s, "idle")
    /\ agenda' = [agenda EXCEPT ![s] = <<>>]
    /\ part' = [part EXCEPT ![s] = 1]
    /\ found' = [found EXCEPT ![s] = None]
    /\ withheld' = [withheld EXCEPT ![s] = FALSE]
    /\ term' = [term EXCEPT ![s] = 0]
    /\ candidates' = [candidates EXCEPT ![s] = <<>>]
    /\ lost' = lost \ {s}

\* The result, cut at max_units_per_run; the stage task is mapped over it,
\* unless nobody waits for it any more.
Finish(s) ==
    /\ at[s] = "find" /\ agenda[s] = <<>>
    /\ offered' = IF s \in lost THEN offered
                  ELSE {candidates[s][i] : i \in {j \in 1..Len(candidates[s]) : j <= MaxUnits}}
    /\ ResetScan(s)
    /\ UNCHANGED <<bucket, fileVars, runVars, history, stageVars, faults>>

Fault == faults < MaxFaults /\ faults' = faults + 1

\* Airflow loses sight of the pod and starts over.
DiscoverLost(s) ==
    /\ at[s] # "idle" /\ s \notin lost
    /\ Fault
    /\ lost' = lost \cup {s}
    /\ UNCHANGED <<bucket, fileVars, runVars, history, offered,
                   at, agenda, part, found, withheld, term, candidates, stageVars>>

\* A call raises or the pod dies; what was committed stays.
DiscoverDies(s) ==
    /\ at[s] # "idle"
    /\ Fault
    /\ ResetScan(s)
    /\ UNCHANGED <<bucket, fileVars, runVars, history, offered, stageVars>>

-----------------------------------------------------------------------------
(* The stage task, as far as it bears on discovery: _resolve_schema, and     *)
(* what becomes of the run.                                                  *)

Current == IF history = <<>> THEN None ELSE Last(history)

\* The shape of a unit is that of its first line.
ShapeOf(unit) == unit[1].shape

StageReads(w) ==
    /\ task[w] = None
    /\ \E k \in offered : status[k] \notin Terminal /\ task' = [task EXCEPT ![w] = k]
    /\ seen' = [seen EXCEPT ![w] = Current]
    /\ UNCHANGED <<bucket, fileVars, runVars, history, offered, scanVars, faults>>

\* A run that a given-up pod has brought to its end meanwhile is skipped.
StageSkips(w) ==
    /\ task[w] = None
    /\ \E k \in offered : status[k] \in Terminal /\ offered' = offered \ {k}
    /\ UNCHANGED <<bucket, fileVars, runVars, history, scanVars, stageVars, faults>>

\* SchemaRepository.sync: compares with the version that is current NOW.
Synced(shape) == IF Current = shape THEN history ELSE Append(history, shape)

\* Seeded fault: a contract-shaped file is synced, never resolved by its hash.
ResolvedBySync(shape, wasCurrent) ==
    IF wasCurrent = None \/ shape = "narrow" THEN Synced("contract") ELSE Synced(shape)

\* _resolve_schema of a loadable shape, given what get_current returned.  The
\* first file ever records the contract, whatever its shape; a file with extra
\* columns is synced; one of the contract's own columns, or of a prefix of
\* them, resolves to the version that recorded the contract.
Resolved(shape, wasCurrent) ==
    IF wasCurrent = None THEN Synced("contract")
    ELSE CASE shape = "narrow" -> IF "contract" \in ToSet(history) THEN history ELSE Synced("contract")
           [] shape = "contract" -> IF wasCurrent = "contract" THEN Synced("contract") ELSE history
           [] OTHER -> Synced(shape)

StageDone(w) ==
    /\ offered' = offered \ {task[w]}
    /\ task' = [task EXCEPT ![w] = None]
    /\ seen' = [seen EXCEPT ![w] = None]

\* The task is given up on, and its pod runs on.
StageLost(w) ==
    /\ task[w] \in offered
    /\ Fault
    /\ offered' = offered \ {task[w]}
    /\ UNCHANGED <<bucket, fileVars, runVars, history, scanVars, stageVars>>

StageResolves(w) ==
    /\ task[w] # None
    /\ LET shape == ShapeOf(document[task[w]]) IN
       /\ shape # "breaking" \/ seen[w] = None
       /\ history' = Resolved(shape, seen[w])
    /\ status' = [status EXCEPT ![task[w]] = "SUCCEEDED"]
    /\ StageDone(w)
    /\ UNCHANGED <<bucket, fileVars, document, scanVars, faults>>

\* IncompatibleSchemaError propagates: nothing staged, the claim is released.
StageRejects(w) ==
    /\ task[w] # None /\ seen[w] # None
    /\ ShapeOf(document[task[w]]) = "breaking"
    /\ status' = [status EXCEPT ![task[w]] = "FAILED"]
    /\ StageDone(w)
    /\ UNCHANGED <<bucket, fileVars, document, history, scanVars, faults>>

-----------------------------------------------------------------------------
ScanStep(s) ==
    \/ List(s) \/ ReadSchemaTerm(s)
    \/ Find(s) \/ Register(s) \/ Correct(s) \/ AllocateRun(s) \/ PutAssignment(s)
    \/ Finish(s)

StageStep(w) == StageReads(w) \/ StageSkips(w) \/ StageResolves(w) \/ StageRejects(w)

DiscoveryNext ==
    \/ \E o \in Object : Land(o)
    \/ \E s \in Scan : ScanStep(s) \/ DiscoverLost(s) \/ DiscoverDies(s)
    \/ \E w \in Worker : StageStep(w) \/ StageLost(w)

DiscoverySpec == DiscoveryInit /\ [][DiscoveryNext]_discoveryVars

\* Files land, every DagRun discovers, stages what was offered and publishes.
DiscoveryFairSpec ==
    /\ DiscoverySpec
    /\ \A o \in Object : WF_discoveryVars(Land(o))
    /\ \A s \in Scan : WF_discoveryVars(ScanStep(s))
    /\ \A w \in Worker : WF_discoveryVars(StageStep(w))

-----------------------------------------------------------------------------
(* Properties.                                                               *)

\* The original is well defined: a file is only ever marked as a duplicate of
\* the first file registered with its content, whatever passes overlap or die
\* between the two upserts (find_file_by_content_hash, CR-02).
DuplicatesPointAtOriginal ==
    \A o \in Object : duplicate[o] # None =>
        \E i \in 1..Len(files) : /\ files[i] = duplicate[o]
                                 /\ files[i].content = o.content
                                 /\ \A j \in SameContent(o) : i <= j

\* The manifest is frozen: a run that was offered has its document, and a
\* document always lists exactly the contents its run is keyed by, late parts,
\* duplicates and repeated passes notwithstanding (ORCH-08).
AssignmentDescribesRun ==
    /\ \A k \in offered : document[k] # <<>>
    /\ \A k \in DOMAIN document : document[k] # <<>> => Contents(document[k]) = k.contents

\* A shape the history already holds is resolved to its version, never
\* recorded again (SCHEMA-06): a repeat re-keys every file of the dataset.
HistoryNeverRepeats == \A i, j \in 1..Len(history) : i # j => history[i] # history[j]

Ingested(o) == \E k \in DOMAIN status : status[k] \in Terminal /\ o.content \in ToSet(k.contents)

\* The file an object stands for: the original of a duplicate.
Original(o) == IF duplicate[o] = None THEN o ELSE duplicate[o]

\* One part of a delivery is a duplicate of another file: no part of it is staged.
Withheld(o) == \E p \in Object : o.group # 0 /\ p.group = o.group /\ duplicate[p] \notin {None, p}

\* The units whose run fails, at their places in the listing: each of them is
\* offered again by every pass.
Refused ==
    LET units == UnitsOf(bucket) IN
    {i \in 1..Len(units) : LET k == IdempotencyKey(units[i], Len(history))
                           IN  k \in DOMAIN status /\ status[k] = "FAILED"}

\* o's own unit is among them, or as many units as a pass offers are before it.
Starved(o) ==
    \E i \in 1..Len(UnitsOf(bucket)) :
        /\ o \in ToSet(UnitsOf(bucket)[i])
        /\ i \in Refused \/ Cardinality({j \in Refused : j < i}) >= MaxUnits

\* A delivery with a gap: every pass fails over it.
Blocked == \E g \in GroupsOf(bucket) : Gapped(g, bucket)

\* No silent drop, with the exceptions the code has: the content of every landed
\* file that is no fragment ends up in a run that is settled, unless the
\* delivery it belongs to is withheld for a duplicate part, or its run is
\* refused, or refused units take all the places of a pass, or no pass gets
\* past a gap in some delivery.
EventuallyIngested ==
    \A o \in Object \ Fragment :
        <>[](Ingested(o) \/ Withheld(Original(o)) \/ Starved(Original(o)) \/ Blocked)
=============================================================================
