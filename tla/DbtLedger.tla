------------------------------ MODULE DbtLedger ------------------------------
(***************************************************************************)
(* dbt builds of one silver model over the append-only bronze table.  A      *)
(* build is one transaction of several READ COMMITTED statements: the        *)
(* pre-hook claims every bronze run that meta.dbt_processed_runs does not     *)
(* hold, the model folds the claimed rows into silver (best row per business  *)
(* key, delete+insert), and two post-hooks write the dedup audit and the      *)
(* bronze_silver reconciliation.  Both ingestion DAGs run unscoped builds, so *)
(* builds overlap; bronze grows under them; a build may be rolled back.       *)
(*                                                                          *)
(* A bronze row is the line of the run's file it came from, with the append  *)
(* that wrote it: a second attempt of a run appends its file again, minus     *)
(* the orphans the referential barrier removes that time.  Run and file ids  *)
(* order rows alike, one file per run.                                       *)
(***************************************************************************)
EXTENDS Integers, FiniteSets

CONSTANTS
    Run,         \* run ids
    Line,        \* lines a file can hold: [key, ts, num], num the line number
    Build,       \* slots of concurrently running dbt builds
    MaxAppends,  \* bound: committed staging transactions per run
    MaxAborts    \* bound: builds rolled back

ASSUME LedgerAssumption ==
    /\ Run \subseteq Nat /\ IsFiniteSet(Line)
    /\ \A l \in Line : l.ts \in Nat /\ l.num \in Nat
    /\ \A l, m \in Line : l.num = m.num => l = m
    /\ MaxAppends \in Nat /\ MaxAborts \in Nat

VARIABLES
    bronze,       \* committed rows of staging.<dataset>
    copies,       \* committed appends per run
    silver,       \* committed rows of silver.<dataset>
    ledger,       \* committed run ids of meta.dbt_processed_runs
    deduplicated, \* sum of meta.dedup_audit.records_deduplicated
    discrepancy,  \* the last committed bronze_silver discrepancy
    bpc,          \* the statement a build is at
    want,         \* runs its claim found missing from the ledger
    claimed,      \* runs it has inserted, uncommitted
    put,          \* rows it has written to silver, uncommitted
    dropped,      \* records_deduplicated of its audit row, uncommitted
    balance,      \* discrepancy of its reconciliation rows, uncommitted
    aborts        \* builds rolled back so far

tables == <<bronze, copies, silver, ledger, deduplicated, discrepancy>>
builds == <<bpc, want, claimed, put, dropped, balance>>
ledgerVars == <<tables, builds, aborts>>

Statements == {"idle", "claim", "select", "audit", "reconcile", "commit"}

LedgerInit ==
    /\ bronze = {} /\ silver = {} /\ ledger = {}
    /\ copies = [r \in Run |-> 0]
    /\ deduplicated = 0 /\ discrepancy = 0
    /\ bpc = [b \in Build |-> "idle"]
    /\ want = [b \in Build |-> {}] /\ claimed = [b \in Build |-> {}]
    /\ put = [b \in Build |-> {}]
    /\ dropped = [b \in Build |-> 0] /\ balance = [b \in Build |-> 0]
    /\ aborts = 0

-----------------------------------------------------------------------------
Keys(rows) == {x.line.key : x \in rows}
RowsOf(runs) == {x \in bronze : x.run \in runs}

\* order by <ts> desc nulls last, _source_row_number desc, _file_id desc, _run_id desc
Beats(x, y) ==
    \/ x.line.ts > y.line.ts
    \/ x.line.ts = y.line.ts /\ x.line.num > y.line.num
    \/ x.line.ts = y.line.ts /\ x.line.num = y.line.num /\ x.run > y.run

\* row_number() ... = 1 of every business key; between copies of one line,
\* which agree in all the columns above, the database picks either.
Winners(rows) ==
    {x \in rows : \A y \in rows : y.line.key = x.line.key /\ y # x =>
                     Beats(x, y) \/ (~Beats(y, x) /\ x.copy < y.copy)}

\* What the build's own statements see of silver after its delete+insert.
View(b) == {x \in silver : x.line.key \notin Keys(put[b])} \cup put[b]

BuildAt(b, s) == bpc' = [bpc EXCEPT ![b] = s]

\* A staging transaction commits (promote_to_durable_bronze).
Append(r) ==
    /\ copies[r] < MaxAppends
    /\ \E survivors \in SUBSET Line \ {{}} :
          bronze' = bronze \cup [run : {r}, copy : {copies[r] + 1}, line : survivors]
    /\ copies' = [copies EXCEPT ![r] = @ + 1]
    /\ UNCHANGED <<silver, ledger, deduplicated, discrepancy, builds, aborts>>

\* Seeded fault: the claim is a watermark, max(run_id) of what was processed.
BeginBuildPastWatermark(b) ==
    /\ bpc[b] = "idle"
    /\ want' = [want EXCEPT ![b] =
                   {r \in {x.run : x \in bronze} : \A done \in ledger : r > done}]
    /\ BuildAt(b, "claim")
    /\ UNCHANGED <<tables, claimed, put, dropped, balance, aborts>>

\* Seeded fault: a build claims one run of those it finds.
BeginBuildOfOne(b) ==
    /\ bpc[b] = "idle"
    /\ \E r \in {x.run : x \in bronze} \ ledger : want' = [want EXCEPT ![b] = {r}]
    /\ BuildAt(b, "claim")
    /\ UNCHANGED <<tables, claimed, put, dropped, balance, aborts>>

\* The claim's snapshot: the NOT EXISTS sees committed ledger rows only ...
BeginBuild(b) ==
    /\ bpc[b] = "idle"
    /\ want' = [want EXCEPT ![b] = {x.run : x \in bronze} \ ledger]
    /\ BuildAt(b, "claim")
    /\ UNCHANGED <<tables, claimed, put, dropped, balance, aborts>>

\* Seeded fault: no primary key, so no wait and no conflict.
ClaimWithoutKey(b) ==
    /\ bpc[b] = "claim"
    /\ claimed' = [claimed EXCEPT ![b] = want[b]]
    /\ BuildAt(b, "select")
    /\ UNCHANGED <<tables, want, put, dropped, balance, aborts>>

\* ... and its INSERT waits on the primary key for every open build that has
\* claimed one of these runs, then drops what has been committed meanwhile.
Claim(b) ==
    /\ bpc[b] = "claim"
    /\ \A c \in Build \ {b} : claimed[c] \cap want[b] = {}
    /\ claimed' = [claimed EXCEPT ![b] = want[b] \ ledger]
    /\ BuildAt(b, "select")
    /\ UNCHANGED <<tables, want, put, dropped, balance, aborts>>

\* Seeded fault: the resident silver rows do not contend.
MaterializeNewOnly(b) ==
    /\ bpc[b] = "select"
    /\ put' = [put EXCEPT ![b] = Winners(RowsOf(claimed[b]))]
    /\ BuildAt(b, "audit")
    /\ UNCHANGED <<tables, want, claimed, dropped, balance, aborts>>

\* The model's SELECT and its delete+insert.
Materialize(b) ==
    /\ bpc[b] = "select"
    /\ LET new == RowsOf(claimed[b]) IN
       put' = [put EXCEPT ![b] =
                  Winners(new \cup {x \in silver : x.line.key \in Keys(new)})]
    /\ BuildAt(b, "audit")
    /\ UNCHANGED <<tables, want, claimed, dropped, balance, aborts>>

\* Seeded fault: the audit looks at all of bronze and not at the claimed rows.
AuditWholeBronze(b) ==
    /\ bpc[b] = "audit"
    /\ dropped' = [dropped EXCEPT ![b] = Cardinality(
           {x \in bronze : \E w \in View(b) :
               /\ w.line.key = x.line.key
               /\ ~(w.run = x.run /\ w.line.num = x.line.num)})]
    /\ BuildAt(b, "reconcile")
    /\ UNCHANGED <<tables, want, claimed, put, balance, aborts>>

\* dedup_audit_post_hook: a claimed row is dropped unless it is, by file and
\* line number, the row silver now holds for its key.
Audit(b) ==
    /\ bpc[b] = "audit"
    /\ dropped' = [dropped EXCEPT ![b] = Cardinality(
           {x \in RowsOf(claimed[b]) : \E w \in View(b) :
               /\ w.line.key = x.line.key
               /\ ~(w.run = x.run /\ w.line.num = x.line.num)})]
    /\ BuildAt(b, "reconcile")
    /\ UNCHANGED <<tables, want, claimed, put, balance, aborts>>

\* reconciliation_post_hook: whole-table counts, one row per claimed file.
Reconcile(b) ==
    /\ bpc[b] = "reconcile"
    /\ balance' = [balance EXCEPT ![b] =
           Cardinality(bronze) - (Cardinality(View(b)) + deduplicated + dropped[b])]
    /\ BuildAt(b, "commit")
    /\ UNCHANGED <<tables, want, claimed, put, dropped, aborts>>

EndBuild(b) ==
    /\ BuildAt(b, "idle")
    /\ want' = [want EXCEPT ![b] = {}]
    /\ claimed' = [claimed EXCEPT ![b] = {}]
    /\ put' = [put EXCEPT ![b] = {}]
    /\ dropped' = [dropped EXCEPT ![b] = 0]
    /\ balance' = [balance EXCEPT ![b] = 0]

CommitBuild(b) ==
    /\ bpc[b] = "commit"
    /\ silver' = View(b)
    /\ ledger' = ledger \cup claimed[b]
    /\ deduplicated' = deduplicated + dropped[b]
    /\ discrepancy' = IF claimed[b] = {} THEN discrepancy ELSE balance[b]
    /\ EndBuild(b)
    /\ UNCHANGED <<bronze, copies, aborts>>

\* The build fails or its pod dies: everything rolls back, claims included.
AbortBuild(b) ==
    /\ bpc[b] # "idle"
    /\ aborts < MaxAborts
    /\ aborts' = aborts + 1
    /\ EndBuild(b)
    /\ UNCHANGED tables

AdvanceBuild(b) ==
    BeginBuild(b) \/ Claim(b) \/ Materialize(b) \/ Audit(b) \/ Reconcile(b) \/ CommitBuild(b)

LedgerNext ==
    \/ \E r \in Run : Append(r)
    \/ \E b \in Build : AdvanceBuild(b) \/ AbortBuild(b)

LedgerSpec == LedgerInit /\ [][LedgerNext]_ledgerVars

\* Builds keep being scheduled and a started one runs to its end.
LedgerFairSpec == LedgerSpec /\ \A b \in Build : WF_ledgerVars(AdvanceBuild(b))

-----------------------------------------------------------------------------
(* Properties.                                                               *)

\* Incremental equals full: after any schedule of overlapping, interrupted
\* builds and late files, silver is what one ranking over all the rows of all
\* the processed runs would give (claim_dbt_processed_runs.sql, EXACTNESS).
IncrementalEqualsFull == silver = Winners(RowsOf(ledger))

\* The dedup audit never explains away a row that is missing: the sum over all
\* committed builds is no more than the rows silver has really left out, however
\* builds overlap and whatever they see of each other's rows.  (It may be less:
\* a resident row displaced later is nobody's drop.)
AuditNeverOvercounts ==
    deduplicated + Cardinality(silver) <= Cardinality(RowsOf(ledger))

\* A run is claimed by one build: what an open build has claimed, no other
\* build has and the ledger does not hold yet.
ClaimedOnce ==
    \A b \in Build : /\ claimed[b] \cap ledger = {}
                     /\ \A c \in Build \ {b} : claimed[b] \cap claimed[c] = {}

\* Overlapping builds take turns: at most one open build holds claims, although
\* nothing but the primary key of the ledger stands between them.  It is why the
\* delete+insert of one build never meets uncommitted rows of another.
OneClaimant == \A b, c \in Build : claimed[b] # {} /\ claimed[c] # {} => b = c

\* No run is skipped for good: whatever committed to bronze, in whatever
\* order of run ids, is eventually processed (finding 21, the watermark).
EventuallyProcessed == \A r \in Run : copies[r] > 0 ~> r \in ledger
=============================================================================
