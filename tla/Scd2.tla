-------------------------------- MODULE Scd2 --------------------------------
(***************************************************************************)
(* The scd publisher, row by row: normalized.customers as chains of versions *)
(* that every pass recomputes, for the keys its runs touch, from the whole   *)
(* bronze history of the key; and delete detection, which closes the current *)
(* version of every key that the freshest of its runs does not deliver.      *)
(*                                                                          *)
(* Staging commits whenever it likes, also between the listing of a pass and *)
(* its queries; passes list before they hold the advisory lock and publish   *)
(* what they listed.  A raw file may be staged again under another run (a    *)
(* replay), with the same file id and line numbers.  What is tracked of the   *)
(* row (the hash of name and country) is one value, as are the Type-1 and the *)
(* Type-0 attribute; of a version's lineage, file and line are kept.          *)
(***************************************************************************)
EXTENDS Naturals, FiniteSets, Sequences, SequencesExt, Ordering

CONSTANTS
    Run,              \* run ids
    FileOf,           \* file_id of each run
    Rows,             \* rows of each file: [key, ts, num, tracked, birth, signup]
    Pass,             \* slots of concurrently alive publish attempts
    NoPass,           \* the advisory lock is free
    DeleteSemantics,  \* scd.delete_semantics
    Threshold,        \* scd.mass_delete_threshold, in percent
    MaxAborts         \* bound: publish attempts that are killed

File == {FileOf[r] : r \in Run}

\* Line numbers identify the rows of a file; a file has rows, all with a timestamp.
ASSUME Scd2Assumption ==
    /\ Run \subseteq Nat /\ IsFiniteSet(Run) /\ File \subseteq Nat
    /\ \A f \in File :
          /\ Rows[f] # {} /\ IsFiniteSet(Rows[f])
          /\ \A x, y \in Rows[f] : x.num = y.num => x = y
          /\ \A x \in Rows[f] :
                /\ x = [key |-> x.key, ts |-> x.ts, num |-> x.num, tracked |-> x.tracked,
                        birth |-> x.birth, signup |-> x.signup]
                /\ x.ts \in Nat \ {0} /\ x.num \in Nat
    /\ NoPass \notin Pass
    /\ DeleteSemantics \in {"ignore", "invalidate", "new_record"}
    /\ Threshold \in 0..100 /\ MaxAborts \in Nat

VARIABLES
    status,    \* meta.ingestion_runs.status
    gold,      \* committed versions in normalized.customers
    at,        \* where a pass stands
    listed,    \* its list of STAGED runs
    todo,      \* touched keys it has still to recompute
    work,      \* normalized.customers as its open transaction sees it
    lock,      \* holder of the advisory lock
    aborts     \* attempts killed so far

passVars == <<at, listed, todo, work, lock, aborts>>
scd2Vars == <<status, gold, passVars>>

Keys == {x.key : x \in UNION {Rows[f] : f \in File}}

\* Open versions end at the sentinel (9999-12-31), later than every timestamp.
Sentinel == 1 + CHOOSE t \in {x.ts : x \in UNION {Rows[f] : f \in File}} :
                    \A f \in File : \A x \in Rows[f] : x.ts <= t

Scd2Init ==
    /\ status = [r \in Run |-> "PENDING"]
    /\ gold = {}
    /\ at = [q \in Pass |-> "idle"]
    /\ listed = [q \in Pass |-> {}] /\ todo = [q \in Pass |-> {}]
    /\ work = [q \in Pass |-> {}]
    /\ lock = NoPass /\ aborts = 0

-----------------------------------------------------------------------------
(* Bronze, and the version chain of a key.                                   *)

\* A row with the file it came from; copies of a replay coincide.
RowsOf(r) == {[x EXCEPT !.num = <<FileOf[r], x.num>>] : x \in Rows[FileOf[r]]}

RowsOfRuns(S) == UNION {RowsOf(r) : r \in S}
KeysOf(S) == {x.key : x \in RowsOfRuns(S)}

\* Runs whose staging transaction has committed; bronze rows are never removed.
InBronze == {r \in Run : status[r] # "PENDING"}

\* _BRONZE_HISTORY_SQL: every run but the QUARANTINED ones, listed or not.
History(k) == {x \in RowsOfRuns({r \in InBronze : status[r] # "QUARANTINED"}) : x.key = k}

\* (event_ts, file_id, source_row_number)
Earlier(x, y) ==
    \/ x.ts < y.ts
    \/ x.ts = y.ts /\ x.num[1] < y.num[1]
    \/ x.ts = y.ts /\ x.num[1] = y.num[1] /\ x.num[2] < y.num[2]

\* _select_lineage_rows: a version's lineage is that of the last row of its group.
LineageRow(ordered, starts, i) ==
    ordered[CHOOSE e \in i..Len(ordered) :
                /\ \A j \in (i + 1)..e : j \notin starts
                /\ e = Len(ordered) \/ e + 1 \in starts]

\* recompute_version_chain: a version begins where the tracked attributes change
\* and lasts until the next one begins.  Type-1 comes from the latest row, Type-0
\* from the earliest, in every version alike.
Chain(H) ==
    LET ordered == InOrder(H, {e \in H \X H : Earlier(e[1], e[2])})
        starts  == {i \in 1..Len(ordered) :
                      i = 1 \/ ordered[i].tracked # ordered[i - 1].tracked}
        Later(i) == {j \in starts : j > i}
        Following(i) == CHOOSE j \in Later(i) : \A m \in Later(i) : j <= m
        Version(i) ==
            [key     |-> ordered[i].key,
             tracked |-> ordered[i].tracked,
             birth   |-> Last(ordered).birth,
             signup  |-> ordered[1].signup,
             from    |-> ordered[i].ts,
             to      |-> IF Later(i) = {} THEN Sentinel ELSE ordered[Following(i)].ts,
             current |-> Later(i) = {},
             lineage |-> LineageRow(ordered, starts, i).num]
    IN  {Version(i) : i \in starts}

VersionsOf(k, table) == {v \in table : v.key = k}

-----------------------------------------------------------------------------
(* Delete detection.                                                         *)

MaxTs(X) == CHOOSE t \in {x.ts : x \in X} : \A x \in X : x.ts <= t

\* Of the runs of a pass, those whose own latest row is the latest of all.
FreshestRuns(S) == {r \in S : MaxTs(RowsOf(r)) = MaxTs(RowsOfRuns(S))}

CurrentKeys(table) == {v.key : v \in {w \in table : w.current}}

\* Seeded fault: any key bronze knows counts, in gold or not.
VanishedFromBronze(S, table) == KeysOf(InBronze) \ KeysOf(FreshestRuns(S))

\* find_vanished_customer_ids: current and bronze-known, but not delivered by
\* the freshest runs of the pass.
Vanished(S, table) == (CurrentKeys(table) \cap KeysOf(InBronze)) \ KeysOf(FreshestRuns(S))

\* Seeded fault: the ratio is taken over every version, current or not.
TooManyOfAll(S, table) ==
    table # {} /\ Cardinality(Vanished(S, table)) * 100 > Threshold * Cardinality(table)

\* MassDeleteCircuitBreaker: vanished / current > threshold, and some current.
TooMany(S, table) ==
    LET current == Cardinality(CurrentKeys(table) \cap KeysOf(InBronze)) IN
    current # 0 /\ Cardinality(Vanished(S, table)) * 100 > Threshold * current

\* Seeded fault: an UPDATE without AND is_current.
ClosingEvery(S, table) ==
    IF DeleteSemantics = "ignore" THEN {}
    ELSE {v \in table : v.key \in Vanished(S, table)}

\* The versions that the statements of apply_delete_semantics close.
Closing(S, table) ==
    IF DeleteSemantics = "ignore" THEN {}
    ELSE {v \in table : v.current /\ v.key \in Vanished(S, table)}

\* tstzrange(event_ts, valid_to) is generated: its bounds must be in order.
Inverted(S, table) == \E v \in Closing(S, table) : MaxTs(RowsOfRuns(S)) < v.from

\* apply_delete_semantics, dated by the latest row of the pass.
AfterDeletes(S, table) ==
    LET instant == MaxTs(RowsOfRuns(S))
        closed  == {[v EXCEPT !.to = instant, !.current = FALSE] : v \in Closing(S, table)}
        opened  == IF DeleteSemantics = "new_record"
                   THEN {[v EXCEPT !.from = instant, !.to = Sentinel] : v \in Closing(S, table)}
                   ELSE {}
    IN  (table \ Closing(S, table)) \cup closed \cup opened

-----------------------------------------------------------------------------
(* The pass.                                                                 *)

PassAt(q, l) == at' = [at EXCEPT ![q] = l]

\* A staging transaction has committed and the run is STAGED (StageIngest).
Stage(r) ==
    /\ status[r] = "PENDING"
    /\ status' = [status EXCEPT ![r] = "STAGED"]
    /\ UNCHANGED <<gold, passVars>>

\* list_staged_run_ids, before any lock.
List(q) ==
    /\ at[q] = "idle"
    /\ LET staged == {r \in Run : status[r] = "STAGED"} IN
       /\ listed' = [listed EXCEPT ![q] = staged]
       /\ PassAt(q, IF staged = {} THEN "idle" ELSE "wait")
    /\ UNCHANGED <<status, gold, todo, work, lock, aborts>>

AcquireLock(q) ==
    /\ at[q] = "wait" /\ lock = NoPass
    /\ lock' = q
    /\ work' = [work EXCEPT ![q] = gold]
    /\ PassAt(q, "detect")
    /\ UNCHANGED <<status, gold, listed, todo, aborts>>

\* The transaction is over, with or without effect, and the pass with it.
EndPass(q) ==
    /\ lock' = IF lock = q THEN NoPass ELSE lock
    /\ PassAt(q, "idle")
    /\ listed' = [listed EXCEPT ![q] = {}]
    /\ todo' = [todo EXCEPT ![q] = {}]
    /\ work' = [work EXCEPT ![q] = {}]

\* Steps A and B: close what vanished; what was closed is not touched.
DetectDeletes(q) ==
    /\ at[q] = "detect"
    /\ ~TooMany(listed[q], work[q]) /\ ~Inverted(listed[q], work[q])
    /\ work' = [work EXCEPT ![q] = AfterDeletes(listed[q], work[q])]
    /\ todo' = [todo EXCEPT ![q] = KeysOf(listed[q]) \ Vanished(listed[q], work[q])]
    /\ PassAt(q, "recompute")
    /\ UNCHANGED <<status, gold, listed, lock, aborts>>

\* The breaker raises: rolled back, and the listed runs are quarantined after.
TripBreaker(q) ==
    /\ at[q] = "detect"
    /\ TooMany(listed[q], work[q])
    /\ PassAt(q, "quarantine")
    /\ lock' = NoPass
    /\ work' = [work EXCEPT ![q] = {}]
    /\ UNCHANGED <<status, gold, listed, todo, aborts>>

\* The quarantine loop of publish_ingest (run by run in PublishIngest).
QuarantineListed(q) ==
    /\ at[q] = "quarantine"
    /\ status' = [r \in Run |-> IF r \in listed[q] THEN "QUARANTINED" ELSE status[r]]
    /\ EndPass(q)
    /\ UNCHANGED <<gold, aborts>>

\* The UPDATE of valid_to raises; nothing is quarantined.
DeleteRaises(q) ==
    /\ at[q] = "detect"
    /\ ~TooMany(listed[q], work[q]) /\ Inverted(listed[q], work[q])
    /\ EndPass(q)
    /\ UNCHANGED <<status, gold, aborts>>

\* Seeded fault: the history is scoped to the runs of the pass (Finding F-1).
RecomputeFromListed(q) ==
    /\ at[q] = "recompute"
    /\ \E k \in todo[q] :
          LET H == History(k) \cap RowsOfRuns(listed[q]) IN
          /\ H # {}
          /\ work' = [work EXCEPT ![q] = (@ \ VersionsOf(k, @)) \cup Chain(H)]
          /\ todo' = [todo EXCEPT ![q] = @ \ {k}]
    /\ UNCHANGED <<status, gold, at, listed, lock, aborts>>

\* Steps C and D for one touched key: its versions are replaced by its chain.
\* A touched key always has a history, but for runs quarantined meanwhile.
Recompute(q) ==
    /\ at[q] = "recompute"
    /\ \E k \in todo[q] :
          /\ History(k) # {}
          /\ work' = [work EXCEPT ![q] = (@ \ VersionsOf(k, @)) \cup Chain(History(k))]
          /\ todo' = [todo EXCEPT ![q] = @ \ {k}]
    /\ UNCHANGED <<status, gold, at, listed, lock, aborts>>

\* max() of an empty history raises.
RecomputeRaises(q) ==
    /\ at[q] = "recompute"
    /\ \E k \in todo[q] : History(k) = {}
    /\ EndPass(q)
    /\ UNCHANGED <<status, gold, aborts>>

\* The listed runs that are still STAGED succeed with the commit (claim_run_stage).
Commit(q) ==
    /\ at[q] = "recompute" /\ todo[q] = {}
    /\ gold' = work[q]
    /\ status' = [r \in Run |-> IF r \in listed[q] /\ status[r] = "STAGED"
                                THEN "SUCCEEDED" ELSE status[r]]
    /\ EndPass(q)
    /\ UNCHANGED aborts

\* The pod dies.
Abort(q) ==
    /\ at[q] # "idle"
    /\ aborts < MaxAborts
    /\ aborts' = aborts + 1
    /\ EndPass(q)
    /\ UNCHANGED <<status, gold>>

Scd2Next ==
    \/ \E r \in Run : Stage(r)
    \/ \E q \in Pass : \/ List(q) \/ AcquireLock(q)
                       \/ DetectDeletes(q) \/ TripBreaker(q) \/ QuarantineListed(q)
                       \/ DeleteRaises(q) \/ Recompute(q) \/ RecomputeRaises(q)
                       \/ Commit(q) \/ Abort(q)

Scd2Spec == Scd2Init /\ [][Scd2Next]_scd2Vars

-----------------------------------------------------------------------------
(* Properties.                                                               *)

Overlap(v, w) == v.from < w.to /\ w.from < v.to

\* A key has one version at a time: validity ranges are disjoint, at most one is
\* current, and the current one is the open one (SCD-12, the exclusion
\* constraint of migration 0035, which no commit may run into).
ChainsSound ==
    \A v, w \in gold : v.key = w.key /\ v # w =>
        /\ ~Overlap(v, w) /\ ~(v.current /\ w.current)
        /\ v.current <=> v.to = Sentinel

Unspoilt(k) == \A r \in Run : k \in KeysOf({r}) => status[r] \in {"PENDING", "SUCCEEDED"}

\* What a key's whole history says, whatever order its files were staged and
\* published in, and however passes overlapped or died: every current key has
\* exactly the versions of one recomputation over all of it (Finding F-1, D-03).
CurrentIsRecompute ==
    \A k \in CurrentKeys(gold) : Unspoilt(k) =>
        VersionsOf(k, gold) = Chain(History(k))

\* Nothing that succeeded is missing: a key delivered by a SUCCEEDED run is in
\* gold, if only as a closed version.
SucceededKeysInGold ==
    \A r \in Run : status[r] = "SUCCEEDED" =>
        \A k \in KeysOf({r}) : VersionsOf(k, gold) # {}

Lost(before, after) == CurrentKeys(before) \ CurrentKeys(after)

LittleLost ==
    Cardinality(Lost(gold, gold')) * 100 <= Threshold * Cardinality(CurrentKeys(gold))

\* No commit takes more of the current keys out of gold than the threshold allows,
\* whatever else was committed since the pass listed its runs.
DeletionsBounded == [][LittleLost]_gold
=============================================================================
