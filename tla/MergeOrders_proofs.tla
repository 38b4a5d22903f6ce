------------------------- MODULE MergeOrders_proofs -------------------------
(***************************************************************************)
(* Proofs about the dbt builds and the merge_orders publisher, for every set *)
(* of runs and lines, any number of builds, appends, passes and rollbacks.   *)
(* First the builds alone, from the module DbtLedger; then MergeOrders, which *)
(* is DbtLedger with stage tasks and a publisher around it.                 *)
(***************************************************************************)
EXTENDS MergeOrders, FiniteSetTheorems, WellFoundedInduction, TLAPS

-----------------------------------------------------------------------------
(* The builds alone.                                                         *)

\* The run-id state of the builds, without the rows.
ClaimTypes ==
    /\ ledger \subseteq Run
    /\ \A x \in bronze : x.run \in Run
    /\ bpc \in [Build -> Statements]
    /\ want \in [Build -> SUBSET Run]
    /\ claimed \in [Build -> SUBSET Run]

\* A build holds claims only between its claim and its end, and only on runs it
\* has found missing from the ledger.
NoClaimBeforeClaim ==
    \A b \in Build : /\ bpc[b] \in {"idle", "claim"} => claimed[b] = {}
                     /\ claimed[b] \subseteq want[b]

\* Past its claim a build holds every run it wanted that the ledger lacks: what it
\* was refused, another build had committed.
ClaimedAllWanted ==
    \A b \in Build : bpc[b] \notin {"idle", "claim"} => want[b] \subseteq claimed[b] \cup ledger

\* Snapshots grow: of two builds under way, one has found whatever the other has,
\* but for what has been committed since.
WantsNested ==
    \A b, c \in Build : bpc[b] # "idle" /\ bpc[c] # "idle" =>
        \/ want[b] \ ledger \subseteq want[c]
        \/ want[c] \ ledger \subseteq want[b]

\* What a build has found was, and stays, in bronze.
WantsInBronze == \A b \in Build : want[b] \subseteq {x.run : x \in bronze}

LedgerInv ==
    /\ ClaimTypes /\ WantsInBronze /\ WantsNested
    /\ NoClaimBeforeClaim /\ ClaimedAllWanted /\ ClaimedOnce

LEMMA LedgerInitInv == LedgerInit => LedgerInv
  BY DEF LedgerInit, LedgerInv, ClaimTypes, WantsInBronze, WantsNested, NoClaimBeforeClaim,
         ClaimedAllWanted, ClaimedOnce, Statements

LEMMA LedgerStepInv == LedgerInv /\ [LedgerNext]_ledgerVars => LedgerInv'
<1> SUFFICES ASSUME LedgerInv, [LedgerNext]_ledgerVars PROVE LedgerInv'
  OBVIOUS
<1> USE DEF LedgerInv, ClaimTypes
<1>1. ASSUME NEW r \in Run, Append(r) PROVE LedgerInv'
  <2>1. PICK S \in SUBSET Line :
          bronze' = bronze \cup [run : {r}, copy : {copies[r] + 1}, line : S]
    BY <1>1 DEF Append
  <2>2. UNCHANGED <<ledger, bpc, want, claimed>>
    BY <1>1 DEF Append, builds
  <2>3. \A x \in bronze' : x \in bronze \/ x.run = r
    BY <2>1
  <2>4. bronze \subseteq bronze'
    BY <2>1
  <2> QED
    BY <2>2, <2>3, <2>4
    DEF WantsInBronze, WantsNested, NoClaimBeforeClaim, ClaimedAllWanted, ClaimedOnce
<1>2. ASSUME NEW b \in Build, BeginBuild(b) PROVE LedgerInv'
  <2>1. UNCHANGED <<ledger, bronze, claimed>>
    BY <1>2 DEF BeginBuild, tables
  <2>2. /\ bpc' = [bpc EXCEPT ![b] = "claim"]
        /\ want' = [want EXCEPT ![b] = {x.run : x \in bronze} \ ledger]
        /\ bpc[b] = "idle"
    BY <1>2 DEF BeginBuild, BuildAt
  <2>3. ClaimTypes'
    BY <2>1, <2>2 DEF Statements
  <2>4. WantsInBronze'
    BY <2>1, <2>2 DEF WantsInBronze
  <2>5. WantsNested'
    BY <2>1, <2>2 DEF WantsNested, WantsInBronze
  <2>6. NoClaimBeforeClaim' /\ ClaimedAllWanted' /\ ClaimedOnce'
    BY <2>1, <2>2 DEF NoClaimBeforeClaim, ClaimedAllWanted, ClaimedOnce
  <2> QED
    BY <2>3, <2>4, <2>5, <2>6
<1>3. ASSUME NEW b \in Build, Claim(b) PROVE LedgerInv'
  <2>1. UNCHANGED <<ledger, bronze, want>>
    BY <1>3 DEF Claim, tables
  <2>2. /\ bpc' = [bpc EXCEPT ![b] = "select"]
        /\ claimed' = [claimed EXCEPT ![b] = want[b] \ ledger]
        /\ bpc[b] = "claim"
        /\ \A c \in Build \ {b} : claimed[c] \cap want[b] = {}
    BY <1>3 DEF Claim, BuildAt
  <2>3. ClaimTypes'
    BY <2>1, <2>2 DEF Statements
  <2>4. WantsInBronze' /\ WantsNested'
    BY <2>1, <2>2 DEF WantsInBronze, WantsNested
  <2>5. NoClaimBeforeClaim' /\ ClaimedAllWanted'
    BY <2>1, <2>2 DEF NoClaimBeforeClaim, ClaimedAllWanted
  <2>6. ClaimedOnce'
    BY <2>1, <2>2 DEF ClaimedOnce
  <2> QED
    BY <2>3, <2>4, <2>5, <2>6
<1>4. ASSUME NEW b \in Build, Materialize(b) \/ Audit(b) \/ Reconcile(b) PROVE LedgerInv'
  <2>1. UNCHANGED <<ledger, bronze, want, claimed>>
    BY <1>4 DEF Materialize, Audit, Reconcile, tables
  <2>2. /\ bpc[b] \in {"select", "audit", "reconcile"}
        /\ bpc' \in {[bpc EXCEPT ![b] = s] : s \in {"audit", "reconcile", "commit"}}
    BY <1>4 DEF Materialize, Audit, Reconcile, BuildAt
  <2> QED
    BY <2>1, <2>2 DEF WantsInBronze, WantsNested, NoClaimBeforeClaim, ClaimedAllWanted,
                      ClaimedOnce, Statements
<1>5. ASSUME NEW b \in Build, CommitBuild(b) \/ AbortBuild(b) PROVE LedgerInv'
  <2>1. /\ bpc' = [bpc EXCEPT ![b] = "idle"]
        /\ want' = [want EXCEPT ![b] = {}]
        /\ claimed' = [claimed EXCEPT ![b] = {}]
        /\ bronze' = bronze
    BY <1>5 DEF CommitBuild, AbortBuild, EndBuild, BuildAt, tables
  <2>2. ledger' = ledger \cup claimed[b] \/ ledger' = ledger
    BY <1>5 DEF CommitBuild, AbortBuild, tables
  <2>3. ClaimTypes'
    BY <2>1, <2>2 DEF Statements
  <2>4. WantsInBronze' /\ WantsNested'
    BY <2>1, <2>2 DEF WantsInBronze, WantsNested
  <2>5. NoClaimBeforeClaim' /\ ClaimedAllWanted'
    BY <2>1, <2>2 DEF NoClaimBeforeClaim, ClaimedAllWanted
  <2>6. ClaimedOnce'
    BY <2>1, <2>2 DEF ClaimedOnce
  <2> QED
    BY <2>3, <2>4, <2>5, <2>6
<1>6. CASE UNCHANGED ledgerVars
  BY <1>6 DEF ledgerVars, tables, builds, WantsInBronze, WantsNested, NoClaimBeforeClaim,
              ClaimedAllWanted, ClaimedOnce
<1> QED
  BY <1>1, <1>2, <1>3, <1>4, <1>5, <1>6 DEF LedgerNext, AdvanceBuild

\* The inductive invariant of overlapping builds.
THEOREM LedgerInvariance == LedgerSpec => []LedgerInv
  BY LedgerInitInv, LedgerStepInv, PTL DEF LedgerSpec

\* A run is claimed by one build, and never again once a build has committed it.
THEOREM LedgerClaimedOnce == LedgerSpec => []ClaimedOnce
<1>1. LedgerInv => ClaimedOnce
  BY DEF LedgerInv
<1> QED
  BY <1>1, LedgerInvariance, PTL

\* Of two builds that both hold claims, each would have to hold what the other does.
LEMMA InvOneClaimant == LedgerInv => OneClaimant
<1> SUFFICES ASSUME LedgerInv, NEW b \in Build, NEW c \in Build,
                    claimed[b] # {}, claimed[c] # {}, b # c
             PROVE  FALSE
  BY DEF OneClaimant
<1> USE DEF LedgerInv, ClaimTypes
<1>1. /\ claimed[b] \subseteq want[b] /\ want[b] \subseteq claimed[b] \cup ledger
      /\ claimed[c] \subseteq want[c] /\ want[c] \subseteq claimed[c] \cup ledger
      /\ bpc[b] # "idle" /\ bpc[c] # "idle"
  BY DEF NoClaimBeforeClaim, ClaimedAllWanted
<1>2. claimed[b] \cap claimed[c] = {} /\ claimed[b] \cap ledger = {} /\ claimed[c] \cap ledger = {}
  BY DEF ClaimedOnce
<1>3. want[b] \ ledger \subseteq want[c] \/ want[c] \ ledger \subseteq want[b]
  BY <1>1 DEF WantsNested
<1> QED
  BY <1>1, <1>2, <1>3

\* Overlapping builds take turns: at most one holds claims.
THEOREM LedgerOneClaimant == LedgerSpec => []OneClaimant
  BY InvOneClaimant, LedgerInvariance, PTL

-----------------------------------------------------------------------------
(* The rows.  Every bronze row is typed, bronze is finite, and silver holds   *)
(* one row per business key.                                                 *)

Row == [run : Run, copy : Nat, line : Line]

OnePerKey(rows) == \A x, y \in rows : x.line.key = y.line.key => x = y

\* Of two winners of one key each would have to beat the other.
LEMMA WinnersOnePerKey ==
  ASSUME NEW rows \in SUBSET Row
  PROVE  Winners(rows) \subseteq rows /\ OnePerKey(Winners(rows))
<1>1. \A x \in rows : x.line.ts \in Nat /\ x.line.num \in Nat /\ x.run \in Nat /\ x.copy \in Nat
  BY LedgerAssumption DEF Row
<1>2. ASSUME NEW x \in Winners(rows), NEW y \in Winners(rows), x.line.key = y.line.key, x # y
      PROVE  FALSE
  <2>1. Beats(x, y) \/ (~Beats(y, x) /\ x.copy < y.copy)
    BY <1>2 DEF Winners
  <2>2. Beats(y, x) \/ (~Beats(x, y) /\ y.copy < x.copy)
    BY <1>2 DEF Winners
  <2>3. x \in rows /\ y \in rows
    BY DEF Winners
  <2> QED BY <1>1, <2>1, <2>2, <2>3 DEF Beats
<1> QED BY <1>2 DEF Winners, OnePerKey

RowTypes ==
    /\ bronze \subseteq Row /\ IsFiniteSet(bronze)
    /\ copies \in [Run -> Nat]
    /\ deduplicated \in Nat
    /\ put \in [Build -> SUBSET bronze]
    /\ dropped \in [Build -> Nat]

\* Silver holds one processed row per key.
SilverRows == silver \subseteq RowsOf(ledger) /\ OnePerKey(silver)

\* What a build has written to silver are its own rows or what it found there.
PutRows ==
    \A b \in Build : OnePerKey(put[b]) /\ put[b] \subseteq silver \cup RowsOf(claimed[b])

\* A build without claims writes nothing, nor does one before its SELECT.
PutNothing ==
    \A b \in Build : /\ claimed[b] = {} \/ bpc[b] \in {"idle", "claim", "select"} => put[b] = {}
                     /\ claimed[b] = {} \/ bpc[b] \notin {"reconcile", "commit"} => dropped[b] = 0

\* The rows a build has counted as dropped, and those it has added to silver, are
\* different rows of the runs it has claimed.
DropsAreOwn ==
    \A b \in Build : bpc[b] \in {"reconcile", "commit"} =>
        dropped[b] + Cardinality(put[b] \ silver) <= Cardinality(RowsOf(claimed[b]))

RowInv == RowTypes /\ SilverRows /\ PutRows /\ PutNothing /\ DropsAreOwn /\ AuditNeverOvercounts

LEMMA RowInitInv == LedgerInit => RowInv
  BY FS_EmptySet, FS_CardinalityType
  DEF LedgerInit, RowInv, RowTypes, SilverRows, PutRows, PutNothing, DropsAreOwn,
      AuditNeverOvercounts, RowsOf, OnePerKey, Row

\* Rows of more bronze, or of more runs, are no fewer.
LEMMA RowsFinite ==
  ASSUME IsFiniteSet(bronze), NEW runs
  PROVE  IsFiniteSet(RowsOf(runs)) /\ RowsOf(runs) \subseteq bronze /\ Cardinality(RowsOf(runs)) \in Nat
  BY FS_Subset, FS_CardinalityType DEF RowsOf

\* A staging transaction appends a finite set of rows, and takes none away.
LEMMA AppendedRows ==
  ASSUME RowTypes, NEW r \in Run, Append(r)
  PROVE  bronze \subseteq bronze' /\ bronze' \subseteq Row /\ IsFiniteSet(bronze')
<1>1. PICK S \in SUBSET Line :
        bronze' = bronze \cup [run : {r}, copy : {copies[r] + 1}, line : S]
  BY DEF Append
<1> DEFINE new == [run : {r}, copy : {copies[r] + 1}, line : S]
           f == [l \in S |-> [run |-> r, copy |-> copies[r] + 1, line |-> l]]
<1>2. IsFiniteSet(S) BY FS_Subset, LedgerAssumption
<1>3. IsFiniteSet(new)
  <2>1. f \in Surjection(S, new)
    <3>1. f \in [S -> new] OBVIOUS
    <3>2. \A x \in new : x.line \in S /\ f[x.line] = x OBVIOUS
    <3> QED BY <3>1, <3>2 DEF Surjection
  <2> QED BY <1>2, <2>1, FS_Surjection
<1>4. new \subseteq Row BY DEF Row, RowTypes
<1> QED BY <1>1, <1>3, <1>4, FS_Union DEF RowTypes

LEMMA AppendPreservesRows ==
  ASSUME LedgerInv, RowInv, NEW r \in Run, Append(r)
  PROVE  RowInv'
<1>1. bronze \subseteq bronze' /\ bronze' \subseteq Row /\ IsFiniteSet(bronze') /\ IsFiniteSet(bronze)
  BY AppendedRows DEF RowInv, RowTypes
<1>2. /\ UNCHANGED <<silver, ledger, deduplicated, bpc, claimed, put, dropped>>
      /\ copies' = [copies EXCEPT ![r] = @ + 1]
  BY DEF Append, builds
<1>3. RowTypes'
  BY <1>1, <1>2 DEF RowInv, RowTypes
<1>4. ASSUME NEW runs
      PROVE  /\ RowsOf(runs) \subseteq RowsOf(runs)'
             /\ Cardinality(RowsOf(runs)) <= Cardinality(RowsOf(runs)')
             /\ Cardinality(RowsOf(runs)) \in Nat /\ Cardinality(RowsOf(runs)') \in Nat
  <2>1. RowsOf(runs) \subseteq RowsOf(runs)' /\ RowsOf(runs)' \subseteq bronze'
    BY <1>1 DEF RowsOf
  <2> QED BY <1>1, <2>1, FS_Subset, FS_CardinalityType
<1>5. SilverRows' /\ PutRows' /\ PutNothing'
  BY <1>1, <1>2 DEF RowInv, SilverRows, PutRows, PutNothing, RowsOf
<1>6. DropsAreOwn'
  <2> SUFFICES ASSUME NEW b \in Build, bpc[b] \in {"reconcile", "commit"}
               PROVE  dropped[b] + Cardinality(put[b] \ silver) <= Cardinality(RowsOf(claimed[b])')
    BY <1>2 DEF DropsAreOwn, RowsOf
  <2>1. dropped[b] \in Nat /\ IsFiniteSet(put[b] \ silver)
    BY <1>1, FS_Subset DEF RowInv, RowTypes
  <2>2. dropped[b] + Cardinality(put[b] \ silver) <= Cardinality(RowsOf(claimed[b]))
    BY DEF RowInv, DropsAreOwn
  <2>3. claimed[b]' = claimed[b] BY <1>2
  <2>4. Cardinality(RowsOf(claimed[b])) <= Cardinality({x \in bronze' : x.run \in claimed[b]})
    BY <1>4 DEF RowsOf
  <2> QED BY <1>1, <1>2, <2>1, <2>2, <2>4, FS_CardinalityType, RowsFinite, FS_Subset DEF RowsOf
<1>7. AuditNeverOvercounts'
  <2>1. Cardinality(RowsOf(ledger)) <= Cardinality({x \in bronze' : x.run \in ledger})
    BY <1>4 DEF RowsOf
  <2>2. Cardinality(RowsOf(ledger)) \in Nat /\ Cardinality({x \in bronze' : x.run \in ledger}) \in Nat
    BY <1>4 DEF RowsOf
  <2>3. IsFiniteSet(silver)
    BY <1>1, RowsFinite, FS_Subset DEF RowInv, SilverRows
  <2> QED
    BY <1>2, <2>1, <2>2, <2>3, FS_CardinalityType DEF RowInv, RowTypes, AuditNeverOvercounts, RowsOf
<1> QED BY <1>3, <1>5, <1>6, <1>7 DEF RowInv

LEMMA ClaimPreservesRows ==
  ASSUME LedgerInv, RowInv, NEW b \in Build, BeginBuild(b) \/ Claim(b)
  PROVE  RowInv'
<1>1. /\ UNCHANGED <<bronze, copies, silver, ledger, deduplicated, put, dropped>>
      /\ bpc[b] \in {"idle", "claim"} /\ bpc' \in {[bpc EXCEPT ![b] = s] : s \in {"claim", "select"}}
      /\ \A c \in Build \ {b} : claimed'[c] = claimed[c]
  BY DEF BeginBuild, Claim, BuildAt, tables, LedgerInv, ClaimTypes
<1>2. claimed[b] = {} /\ put[b] = {} /\ dropped[b] = 0
  BY <1>1 DEF LedgerInv, NoClaimBeforeClaim, RowInv, PutNothing
<1>3. bpc \in [Build -> Statements]
  BY DEF LedgerInv, ClaimTypes
<1>4. RowTypes' /\ SilverRows' /\ AuditNeverOvercounts'
  BY <1>1 DEF RowInv, RowTypes, SilverRows, AuditNeverOvercounts, RowsOf
<1>5. PutRows' /\ PutNothing'
  BY <1>1, <1>2, <1>3 DEF RowInv, PutRows, PutNothing, RowsOf
<1>6. DropsAreOwn'
  BY <1>1, <1>3 DEF RowInv, DropsAreOwn, RowsOf
<1> QED BY <1>4, <1>5, <1>6 DEF RowInv

\* The SELECT ranks the claimed rows with the resident ones of the same keys.
LEMMA MaterializePreservesRows ==
  ASSUME LedgerInv, RowInv, NEW b \in Build, Materialize(b)
  PROVE  RowInv'
<1> DEFINE new == RowsOf(claimed[b])
           met == new \cup {x \in silver : x.line.key \in Keys(new)}
<1>1. /\ UNCHANGED <<bronze, copies, silver, ledger, deduplicated, claimed, dropped>>
      /\ bpc[b] = "select" /\ bpc' = [bpc EXCEPT ![b] = "audit"]
      /\ put' = [put EXCEPT ![b] = Winners(met)]
  BY DEF Materialize, BuildAt, tables
<1>2. bpc \in [Build -> Statements] /\ put \in [Build -> SUBSET bronze] /\ dropped[b] = 0
  BY <1>1 DEF LedgerInv, ClaimTypes, RowInv, RowTypes, PutNothing
<1>3. met \subseteq bronze /\ met \subseteq silver \cup RowsOf(claimed[b]) /\ met \in SUBSET Row
  BY DEF RowInv, RowTypes, SilverRows, RowsOf
<1>4. Winners(met) \subseteq met /\ OnePerKey(Winners(met))
  BY <1>3, WinnersOnePerKey
<1>5. claimed[b] = {} => Winners(met) = {}
  <2>1. claimed[b] = {} => met = {} BY DEF RowsOf, Keys
  <2> QED BY <1>4, <2>1
<1> HIDE DEF met, new
<1>6. RowTypes' /\ SilverRows' /\ AuditNeverOvercounts'
  BY <1>1, <1>2, <1>3, <1>4 DEF RowInv, RowTypes, SilverRows, AuditNeverOvercounts, RowsOf
<1>7. PutRows' /\ PutNothing'
  BY <1>1, <1>2, <1>3, <1>4, <1>5 DEF RowInv, PutRows, PutNothing, RowsOf
<1>8. DropsAreOwn'
  BY <1>1, <1>2 DEF RowInv, DropsAreOwn, RowsOf
<1> QED BY <1>6, <1>7, <1>8 DEF RowInv

\* The audit counts no row that the build has added to silver: its view of
\* silver has one row per key, so such a row meets itself there only.
LEMMA AuditPreservesRows ==
  ASSUME LedgerInv, RowInv, NEW b \in Build, Audit(b)
  PROVE  RowInv'
<1> DEFINE new == RowsOf(claimed[b])
           D == {x \in new : \E w \in View(b) : /\ w.line.key = x.line.key
                                                /\ ~(w.run = x.run /\ w.line.num = x.line.num)}
           P == put[b] \ silver
<1>1. /\ UNCHANGED <<bronze, copies, silver, ledger, deduplicated, claimed, put>>
      /\ bpc[b] = "audit" /\ bpc' = [bpc EXCEPT ![b] = "reconcile"]
      /\ dropped' = [dropped EXCEPT ![b] = Cardinality(D)]
  BY DEF Audit, BuildAt, tables
<1>2. bpc \in [Build -> Statements] /\ dropped \in [Build -> Nat] /\ IsFiniteSet(bronze)
  BY DEF LedgerInv, ClaimTypes, RowInv, RowTypes
<1>3. P \subseteq new
  BY DEF RowInv, PutRows
<1>4. P \cap D = {}
  <2> SUFFICES ASSUME NEW x \in put[b], NEW w \in View(b), w.line.key = x.line.key PROVE w = x
    OBVIOUS
  <2>1. x.line.key \in Keys(put[b]) BY DEF Keys
  <2>2. w \in put[b] BY <2>1 DEF View
  <2> QED BY <2>2 DEF RowInv, PutRows, OnePerKey
<1>5. IsFiniteSet(new) /\ IsFiniteSet(P) /\ IsFiniteSet(D)
  BY <1>2, <1>3, RowsFinite, FS_Subset
<1>6. Cardinality(D) + Cardinality(P) <= Cardinality(new)
  <2> HIDE DEF D, P, new
  <2>1. D \subseteq new BY DEF D
  <2>2. Cardinality(D \cup P) = Cardinality(D) + Cardinality(P) - Cardinality(D \cap P)
    BY <1>5, FS_Union
  <2>3. D \cap P = {} /\ D \cup P \subseteq new BY <1>3, <1>4, <2>1
  <2>4. Cardinality(D \cup P) <= Cardinality(new) BY <1>5, <2>3, FS_Subset
  <2>5. Cardinality(D \cap P) = 0 BY <2>3, FS_EmptySet
  <2> QED BY <1>5, <2>2, <2>4, <2>5, FS_CardinalityType
<1>7. Cardinality(D) \in Nat /\ (claimed[b] = {} => Cardinality(D) = 0)
  <2>1. claimed[b] = {} => D = {} BY DEF RowsOf
  <2> QED BY <1>5, <2>1, FS_CardinalityType, FS_EmptySet
<1> HIDE DEF D
<1>8. RowTypes' /\ SilverRows' /\ PutRows' /\ PutNothing' /\ AuditNeverOvercounts'
  BY <1>1, <1>2, <1>7 DEF RowInv, RowTypes, SilverRows, PutRows, PutNothing, AuditNeverOvercounts, RowsOf
<1>9. DropsAreOwn'
  BY <1>1, <1>2, <1>6, <1>7 DEF RowInv, DropsAreOwn, RowsOf
<1> QED BY <1>8, <1>9 DEF RowInv

\* Other builds' commits change nothing for the one that holds claims.
LEMMA OnlyClaimantWrites ==
  ASSUME LedgerInv, RowInv, NEW b \in Build
  PROVE  /\ claimed[b] # {} => \A c \in Build \ {b} : claimed[c] = {} /\ put[c] = {} /\ dropped[c] = 0
         /\ claimed[b] = {} => View(b) = silver /\ put[b] = {} /\ dropped[b] = 0
<1>1. put[b] = {} => View(b) = silver
  BY DEF View, Keys
<1> QED BY <1>1, InvOneClaimant DEF OneClaimant, RowInv, PutNothing

\* The commit: the view becomes silver, the claims join the ledger.
LEMMA CommitPreservesRows ==
  ASSUME LedgerInv, RowInv, NEW b \in Build, CommitBuild(b)
  PROVE  RowInv'
<1>1. /\ UNCHANGED <<bronze, copies>> /\ bpc[b] = "commit"
      /\ silver' = View(b) /\ ledger' = ledger \cup claimed[b]
      /\ deduplicated' = deduplicated + dropped[b]
      /\ bpc' = [bpc EXCEPT ![b] = "idle"] /\ claimed' = [claimed EXCEPT ![b] = {}]
      /\ put' = [put EXCEPT ![b] = {}] /\ dropped' = [dropped EXCEPT ![b] = 0]
  BY DEF CommitBuild, EndBuild, BuildAt
<1>2. /\ bpc \in [Build -> Statements] /\ claimed \in [Build -> SUBSET Run]
      /\ put \in [Build -> SUBSET bronze] /\ dropped \in [Build -> Nat]
      /\ IsFiniteSet(bronze) /\ deduplicated \in Nat
  BY DEF LedgerInv, ClaimTypes, RowInv, RowTypes
<1>3. RowTypes'
  BY <1>1, <1>2 DEF RowInv, RowTypes
<1>4. SilverRows'
  <2>1. View(b) \subseteq silver \cup put[b] BY DEF View
  <2>2. RowsOf(ledger)' = RowsOf(ledger) \cup RowsOf(claimed[b]) BY <1>1 DEF RowsOf
  <2>3. View(b) \subseteq RowsOf(ledger)'
    BY <2>1, <2>2 DEF RowInv, PutRows, SilverRows
  <2>4. OnePerKey(View(b))
    BY DEF RowInv, PutRows, SilverRows, OnePerKey, View, Keys
  <2>5. OnePerKey(silver')
    BY <1>1, <2>4
  <2> QED BY <1>1, <2>3, <2>5 DEF SilverRows, OnePerKey
<1>5. PutNothing'
  BY <1>1, <1>2 DEF RowInv, PutNothing
<1>6. PutRows'
  <2>1. CASE claimed[b] = {}
    <3>1. silver' = silver BY <1>1, <2>1, OnlyClaimantWrites
    <3> QED BY <1>1, <1>2, <3>1 DEF RowInv, PutRows, RowsOf, OnePerKey
  <2>2. CASE claimed[b] # {}
    <3>1. \A c \in Build : put'[c] = {} BY <1>1, <1>2, <2>2, OnlyClaimantWrites
    <3> QED BY <3>1 DEF PutRows, OnePerKey
  <2> QED BY <2>1, <2>2
<1>7. DropsAreOwn'
  <2>1. CASE claimed[b] = {}
    <3>1. silver' = silver BY <1>1, <2>1, OnlyClaimantWrites
    <3> QED BY <1>1, <1>2, <3>1 DEF RowInv, DropsAreOwn, RowsOf
  <2>2. CASE claimed[b] # {}
    <3>1. \A c \in Build : put'[c] = {} /\ dropped'[c] = 0
      BY <1>1, <1>2, <2>2, OnlyClaimantWrites
    <3>2. \A c \in Build : Cardinality(RowsOf(claimed[c])') \in Nat
      BY <1>1, <1>2, FS_Subset, FS_CardinalityType DEF RowsOf
    <3>3. \A c \in Build : put'[c] \ silver' = {} BY <3>1
    <3>4. \A c \in Build : Cardinality(put'[c] \ silver') = 0
      <4> TAKE c \in Build
      <4> QED BY <3>3, FS_EmptySet
    <3>5. \A c \in Build :
             dropped'[c] + Cardinality(put'[c] \ silver') <= Cardinality(RowsOf(claimed[c])')
      BY <3>1, <3>2, <3>4
    <3> QED BY <3>5 DEF DropsAreOwn, RowsOf
  <2> QED BY <2>1, <2>2
<1>8. AuditNeverOvercounts'
  <2> DEFINE new == RowsOf(claimed[b])
             old == RowsOf(ledger)
             P == put[b] \ silver
  <2>1. old \cap new = {} /\ RowsOf(ledger)' = old \cup new
    BY <1>1 DEF RowsOf, LedgerInv, ClaimedOnce
  <2>2. IsFiniteSet(new) /\ IsFiniteSet(old) /\ IsFiniteSet(P) /\ IsFiniteSet(silver)
    BY <1>2, RowsFinite, FS_Subset DEF RowInv, SilverRows
  <2>3. View(b) \subseteq silver \cup P BY DEF View
  <2>4. dropped[b] + Cardinality(P) <= Cardinality(new)
    BY <1>1 DEF RowInv, DropsAreOwn
  <2>5. deduplicated + Cardinality(silver) <= Cardinality(old)
    BY DEF RowInv, AuditNeverOvercounts
  <2> HIDE DEF new, old, P
  <2>6. Cardinality(View(b)) <= Cardinality(silver) + Cardinality(P) /\ Cardinality(View(b)) \in Nat
    <3>1. /\ IsFiniteSet(silver \cup P)
          /\ Cardinality(silver \cup P)
               = Cardinality(silver) + Cardinality(P) - Cardinality(silver \cap P)
      BY <2>2, FS_Union
    <3>2. IsFiniteSet(silver \cap P) BY <2>2, FS_Subset
    <3>3. IsFiniteSet(View(b)) /\ Cardinality(View(b)) <= Cardinality(silver \cup P)
      BY <2>3, <3>1, FS_Subset
    <3>4. /\ Cardinality(silver) \in Nat /\ Cardinality(P) \in Nat
          /\ Cardinality(silver \cap P) \in Nat /\ Cardinality(View(b)) \in Nat
      BY <2>2, <3>2, <3>3, FS_CardinalityType
    <3> QED BY <3>1, <3>3, <3>4
  <2>7. Cardinality(old \cup new) = Cardinality(old) + Cardinality(new)
    <3>1. Cardinality(old \cap new) = 0 BY <2>1, FS_EmptySet
    <3>2. Cardinality(old \cup new) = Cardinality(old) + Cardinality(new) - Cardinality(old \cap new)
      BY <2>2, FS_Union
    <3>3. Cardinality(old) \in Nat /\ Cardinality(new) \in Nat
      BY <2>2, FS_CardinalityType
    <3> QED BY <3>1, <3>2, <3>3
  <2>8. deduplicated + dropped[b] + Cardinality(View(b)) <= Cardinality(old \cup new)
    BY <1>2, <2>2, <2>4, <2>5, <2>6, <2>7, FS_CardinalityType
  <2> QED BY <1>1, <2>1, <2>8 DEF AuditNeverOvercounts
<1> QED BY <1>3, <1>4, <1>5, <1>6, <1>7, <1>8 DEF RowInv

LEMMA AbortPreservesRows ==
  ASSUME LedgerInv, RowInv, NEW b \in Build, AbortBuild(b)
  PROVE  RowInv'
<1>1. /\ UNCHANGED <<bronze, copies, silver, ledger, deduplicated>>
      /\ bpc' = [bpc EXCEPT ![b] = "idle"] /\ claimed' = [claimed EXCEPT ![b] = {}]
      /\ put' = [put EXCEPT ![b] = {}] /\ dropped' = [dropped EXCEPT ![b] = 0]
  BY DEF AbortBuild, EndBuild, BuildAt, tables
<1>2. /\ bpc \in [Build -> Statements] /\ claimed \in [Build -> SUBSET Run]
  BY DEF LedgerInv, ClaimTypes
<1> QED
  BY <1>1, <1>2 DEF RowInv, RowTypes, SilverRows, PutRows, PutNothing, DropsAreOwn,
     AuditNeverOvercounts, RowsOf, OnePerKey

LEMMA RowStepInv == LedgerInv /\ RowInv /\ [LedgerNext]_ledgerVars => RowInv'
<1> SUFFICES ASSUME LedgerInv, RowInv, [LedgerNext]_ledgerVars PROVE RowInv' OBVIOUS
<1>1. ASSUME NEW b \in Build, Reconcile(b) PROVE RowInv'
  <2>1. /\ UNCHANGED <<bronze, copies, silver, ledger, deduplicated, claimed, put, dropped>>
        /\ bpc[b] = "reconcile" /\ bpc' = [bpc EXCEPT ![b] = "commit"]
        /\ bpc \in [Build -> Statements]
    BY <1>1 DEF Reconcile, BuildAt, tables, LedgerInv, ClaimTypes
  <2> QED
    BY <2>1 DEF RowInv, RowTypes, SilverRows, PutRows, PutNothing, DropsAreOwn,
       AuditNeverOvercounts, RowsOf, OnePerKey
<1>2. CASE UNCHANGED ledgerVars
  BY <1>2 DEF ledgerVars, tables, builds, RowInv, RowTypes, SilverRows, PutRows, PutNothing,
     DropsAreOwn, AuditNeverOvercounts, RowsOf, OnePerKey
<1> QED
  BY <1>1, <1>2, AppendPreservesRows, ClaimPreservesRows, MaterializePreservesRows,
     AuditPreservesRows, CommitPreservesRows, AbortPreservesRows DEF LedgerNext, AdvanceBuild

\* What each build knows of the rows, for any number of appends and builds.
THEOREM RowInvariance == LedgerSpec => []RowInv
  BY RowInitInv, RowStepInv, LedgerInvariance, PTL DEF LedgerSpec

\* The dedup audit never explains away a row that is missing: over all committed
\* builds it counts no more than the rows silver has left out.
THEOREM LedgerAuditNeverOvercounts == LedgerSpec => []AuditNeverOvercounts
<1>1. RowInv => AuditNeverOvercounts BY DEF RowInv
<1> QED BY <1>1, RowInvariance, PTL

-----------------------------------------------------------------------------
(* Ranking.  With one append per run, no two bronze rows agree in all of the  *)
(* columns the model orders by, and the incremental build is exact.          *)

SingleRow == [run : Run, copy : {1}, line : Line]

\* The order by of the model is a strict total order on such rows.
LEMMA BeatsIsTotalOrder ==
  /\ \A x, y \in SingleRow : x # y => Beats(x, y) \/ Beats(y, x)
  /\ \A x, y \in SingleRow : ~(Beats(x, y) /\ Beats(y, x))
  /\ \A x, y, z \in SingleRow : Beats(x, y) /\ Beats(y, z) => Beats(x, z)
<1>1. \A x \in SingleRow : x.line.ts \in Nat /\ x.line.num \in Nat /\ x.run \in Nat
  BY LedgerAssumption DEF SingleRow
<1>2. ASSUME NEW x \in SingleRow, NEW y \in SingleRow, x.line.num = y.line.num, x.run = y.run
      PROVE  x = y
  <2>1. x.line = y.line BY <1>2, LedgerAssumption DEF SingleRow
  <2> QED BY <1>2, <2>1 DEF SingleRow
<1>3. \A x, y \in SingleRow : x # y => Beats(x, y) \/ Beats(y, x)
  BY <1>1, <1>2 DEF Beats
<1>4. \A x, y \in SingleRow : ~(Beats(x, y) /\ Beats(y, x))
  BY <1>1 DEF Beats
<1>5. \A x, y, z \in SingleRow : Beats(x, y) /\ Beats(y, z) => Beats(x, z)
  BY <1>1 DEF Beats
<1> QED BY <1>3, <1>4, <1>5

\* So a row is a winner if it beats every other row of its key.
LEMMA WinnersBeat ==
  ASSUME NEW rows \in SUBSET SingleRow, NEW x \in rows
  PROVE  x \in Winners(rows) <=> \A y \in rows : y.line.key = x.line.key /\ y # x => Beats(x, y)
  BY LedgerAssumption DEF Winners, SingleRow

\* A finite nonempty set of rows has one that beats all others: a smallest set
\* without one could be made smaller.
LEMMA ChampionExists ==
  ASSUME NEW S \in SUBSET SingleRow, IsFiniteSet(S), S # {}
  PROVE  \E m \in S : \A y \in S : y # m => Beats(m, y)
<1> DEFINE Beaten(T) == \E m \in T : \A y \in T : y # m => Beats(m, y)
           F == {T \in SUBSET S : T # {} /\ ~Beaten(T)}
           R == StrictSubsetOrdering(S)
<1> SUFFICES ASSUME F # {} PROVE FALSE
  BY DEF F
<1>1. F \subseteq FiniteSubsetsOf(S)
  BY FS_FiniteSubsetsOfFinite
<1>2. IsWellFoundedOn(R, FiniteSubsetsOf(S))
  BY FS_StrictSubsetOrderingWellFounded
<1>3. \E T \in F : \A U \in F : ~(<<U, T>> \in R)
  <2> HIDE DEF F, R
  <2> QED BY <1>1, <1>2, WFMin
<1>4. PICK T \in F : \A U \in F : ~(<<U, T>> \in R)
  BY <1>3
<1>5. PICK t \in T : TRUE
  OBVIOUS
<1>6. T \ {t} # {} /\ T \ {t} \notin F
  <2>1. T \ {t} # {} OBVIOUS
  <2>2. <<T \ {t}, T>> \in R BY <1>5 DEF StrictSubsetOrdering
  <2> QED BY <1>4, <2>1, <2>2
<1>7. PICK m \in T \ {t} : \A y \in T \ {t} : y # m => Beats(m, y)
  BY <1>6
<1>8. m \in SingleRow /\ t \in SingleRow /\ m # t /\ T \subseteq SingleRow
  BY <1>5, <1>7
<1>9. CASE Beats(m, t)
  BY <1>7, <1>9
<1>10. CASE Beats(t, m)
  BY <1>7, <1>8, <1>10, BeatsIsTotalOrder
<1> QED BY <1>8, <1>9, <1>10, BeatsIsTotalOrder

\* Every key of a finite set of rows has a winner.
LEMMA KeyHasWinner ==
  ASSUME NEW rows \in SUBSET SingleRow, IsFiniteSet(rows), NEW x \in rows
  PROVE  \E w \in Winners(rows) : w.line.key = x.line.key /\ (w = x \/ Beats(w, x))
<1> DEFINE K == {y \in rows : y.line.key = x.line.key}
<1>1. IsFiniteSet(K) /\ K # {} /\ K \in SUBSET SingleRow
  BY FS_Subset
<1>2. PICK w \in K : \A y \in K : y # w => Beats(w, y)
  <2> HIDE DEF K
  <2> QED BY <1>1, ChampionExists
<1> QED BY <1>2, WinnersBeat

\* Incremental exactness: ranking the new rows with the resident winners of their
\* keys, and leaving the other keys alone, is ranking all the rows.
LEMMA IncrementalRanking ==
  ASSUME NEW A \in SUBSET SingleRow, IsFiniteSet(A), NEW N \in SUBSET SingleRow, IsFiniteSet(N)
  PROVE  LET P == Winners(N \cup {x \in Winners(A) : x.line.key \in Keys(N)})
         IN  {x \in Winners(A) : x.line.key \notin Keys(P)} \cup P = Winners(A \cup N)
<1> DEFINE S == Winners(A)
           M == N \cup {x \in S : x.line.key \in Keys(N)}
           P == Winners(M)
           V == {x \in S : x.line.key \notin Keys(P)} \cup P
<1>1. S \subseteq A /\ P \subseteq M
  BY DEF Winners
<1>2. IsFiniteSet(M) /\ M \in SUBSET SingleRow /\ M \subseteq A \cup N /\ A \cup N \in SUBSET SingleRow
  BY <1>1, FS_Union, FS_Subset
<1>3. Keys(P) = Keys(N)
  <2>1. ASSUME NEW n \in N PROVE n.line.key \in Keys(P)
    <3>1. n \in M OBVIOUS
    <3>2. \E w \in Winners(M) : w.line.key = n.line.key
      <4> HIDE DEF M
      <4> QED BY <1>2, <3>1, KeyHasWinner
    <3> QED BY <3>2 DEF Keys
  <2>2. ASSUME NEW p \in P PROVE p.line.key \in Keys(N)
    BY <1>1 DEF Keys
  <2> QED BY <2>1, <2>2 DEF Keys
<1>4. ASSUME NEW x \in V PROVE x \in Winners(A \cup N)
  <2>1. CASE x \in S /\ x.line.key \notin Keys(N)
    <3>1. \A y \in N : y.line.key # x.line.key BY <2>1 DEF Keys
    <3>2. \A y \in A : y.line.key = x.line.key /\ y # x => Beats(x, y)
      BY <1>1, <2>1, WinnersBeat
    <3> QED BY <1>1, <1>2, <2>1, <3>1, <3>2, WinnersBeat
  <2>2. CASE x \in P
    <3>1. x.line.key \in Keys(N) BY <1>3, <2>2 DEF Keys
    <3>2. x \in M /\ \A y \in M : y.line.key = x.line.key /\ y # x => Beats(x, y)
      <4> HIDE DEF M
      <4> QED BY <1>1, <1>2, <2>2, WinnersBeat
    <3>3. ASSUME NEW y \in A, y.line.key = x.line.key, y # x PROVE Beats(x, y)
      <4>1. PICK w \in S : w.line.key = y.line.key /\ (w = y \/ Beats(w, y))
        BY KeyHasWinner
      <4>2. w \in M BY <3>1, <3>3, <4>1
      <4>3. w = x \/ Beats(x, w) BY <3>2, <3>3, <4>1, <4>2
      <4>4. w \in SingleRow /\ x \in SingleRow /\ y \in SingleRow BY <1>2, <3>2, <4>2
      <4>5. CASE w = y BY <3>3, <4>3, <4>5
      <4>6. CASE w # y /\ w = x BY <4>1, <4>6
      <4>7. CASE w # y /\ w # x
        <5>1. Beats(x, w) /\ Beats(w, y) BY <4>1, <4>3, <4>7
        <5> HIDE DEF S, M, P, V
        <5> QED BY <4>4, <5>1, BeatsIsTotalOrder
      <4> QED BY <4>5, <4>6, <4>7
    <3>4. \A y \in A \cup N : y.line.key = x.line.key /\ y # x => Beats(x, y)
      BY <3>2, <3>3
    <3>5. x \in A \cup N BY <1>2, <3>2
    <3> QED BY <1>2, <3>4, <3>5, WinnersBeat
  <2> QED BY <1>3, <2>1, <2>2
<1>5. ASSUME NEW x \in Winners(A \cup N) PROVE x \in V
  <2>1. x \in A \cup N /\ \A y \in A \cup N : y.line.key = x.line.key /\ y # x => Beats(x, y)
    <3>1. x \in A \cup N BY DEF Winners
    <3> QED BY <1>2, <3>1, WinnersBeat
  <2>2. x \in A => x \in S
    BY <2>1, WinnersBeat
  <2>3. CASE x.line.key \notin Keys(N)
    <3>1. x \notin N BY <2>3 DEF Keys
    <3> QED BY <1>3, <2>1, <2>2, <2>3, <3>1
  <2>4. CASE x.line.key \in Keys(N)
    <3>1. x \in M BY <2>1, <2>2, <2>4
    <3>2. \A y \in M : y.line.key = x.line.key /\ y # x => Beats(x, y) BY <1>2, <2>1
    <3>3. x \in P
      <4> HIDE DEF M
      <4> QED BY <1>2, <3>1, <3>2, WinnersBeat
    <3> QED BY <3>3
  <2> QED BY <2>3, <2>4
<1> HIDE DEF V
<1>6. V = Winners(A \cup N) BY <1>4, <1>5
<1> QED BY <1>6 DEF V

\* A run's rows are appended once, before any build finds the run.
OneCopy == \A x \in bronze : x.copy = 1 /\ copies[x.run] >= 1
LedgerInBronze == ledger \subseteq {x.run : x \in bronze}

\* The rows a build ranks: its own and the residents of their keys.
Met(b) ==
    RowsOf(claimed[b]) \cup {x \in silver : x.line.key \in Keys(RowsOf(claimed[b]))}

\* What a build has written is the ranking of these as they still are.
PutIsRanking ==
    \A b \in Build : bpc[b] \in {"audit", "reconcile", "commit"} => put[b] = Winners(Met(b))

ExactInv == OneCopy /\ LedgerInBronze /\ PutIsRanking /\ IncrementalEqualsFull

\* Winners is an operator of its argument alone.
LEMMA RankingFrame ==
  ASSUME UNCHANGED <<bronze, silver>>
  PROVE  /\ \A runs : {x \in bronze' : x.run \in runs} = RowsOf(runs)
         /\ \A b \in Build : claimed'[b] = claimed[b] => Met(b)' = Met(b)
         /\ UNCHANGED ledger => RowsOf(ledger)' = RowsOf(ledger)
         /\ IncrementalEqualsFull /\ UNCHANGED ledger => IncrementalEqualsFull'
<1>1. \A runs : {x \in bronze' : x.run \in runs} = RowsOf(runs)
  BY DEF RowsOf
<1>2. ASSUME NEW b \in Build, claimed'[b] = claimed[b] PROVE Met(b)' = Met(b)
  BY <1>2 DEF Met, RowsOf, Keys
<1>3. UNCHANGED ledger => RowsOf(ledger)' = RowsOf(ledger)
  BY DEF RowsOf
<1>4. IncrementalEqualsFull /\ UNCHANGED ledger => IncrementalEqualsFull'
  BY <1>3 DEF IncrementalEqualsFull
<1> QED BY <1>1, <1>2, <1>3, <1>4

LEMMA ExactInitInv == LedgerInit => ExactInv
  BY DEF LedgerInit, ExactInv, OneCopy, LedgerInBronze, PutIsRanking, IncrementalEqualsFull,
     RowsOf, Winners

LEMMA ExactStepInv ==
  ASSUME LedgerInv, RowInv, ExactInv, MaxAppends <= 1, [LedgerNext]_ledgerVars
  PROVE  ExactInv'
<1> USE DEF LedgerInv, ClaimTypes, RowInv, RowTypes, ExactInv
<1>0. bronze \subseteq SingleRow
  BY DEF OneCopy, Row, SingleRow
<1>1. ASSUME NEW r \in Run, Append(r) PROVE ExactInv'
  <2>1. PICK S \in SUBSET Line :
          bronze' = bronze \cup [run : {r}, copy : {copies[r] + 1}, line : S]
    BY <1>1 DEF Append
  <2>2. /\ UNCHANGED <<silver, ledger, bpc, want, claimed, put>>
        /\ copies' = [copies EXCEPT ![r] = @ + 1] /\ copies[r] = 0
    BY <1>1, LedgerAssumption DEF Append, builds
  <2>3. OneCopy' /\ LedgerInBronze'
    BY <2>1, <2>2 DEF OneCopy, LedgerInBronze, Row
  <2>4. \A x \in bronze : x.run # r
    BY <2>2 DEF OneCopy
  <2>5. r \notin ledger /\ \A b \in Build : r \notin claimed[b]
    BY <2>4 DEF LedgerInBronze, WantsInBronze, NoClaimBeforeClaim
  <2>6. \A runs : r \notin runs => {x \in bronze' : x.run \in runs} = {x \in bronze : x.run \in runs}
    BY <2>1
  <2>7. RowsOf(ledger)' = RowsOf(ledger) /\ \A b \in Build : RowsOf(claimed[b])' = RowsOf(claimed[b])
    BY <2>2, <2>5, <2>6 DEF RowsOf
  <2>8. \A b \in Build : Met(b)' = Met(b)
    BY <2>2, <2>7 DEF Met, Keys
  <2>9. PutIsRanking' /\ IncrementalEqualsFull'
    BY <2>2, <2>7, <2>8 DEF PutIsRanking, IncrementalEqualsFull
  <2> QED BY <2>3, <2>9
<1>2. ASSUME NEW b \in Build, BeginBuild(b) \/ Claim(b) PROVE ExactInv'
  <2>1. /\ UNCHANGED <<bronze, copies, silver, ledger, put>>
        /\ bpc' \in {[bpc EXCEPT ![b] = s] : s \in {"claim", "select"}}
        /\ \A c \in Build \ {b} : claimed'[c] = claimed[c]
    BY <1>2 DEF BeginBuild, Claim, BuildAt, tables
  <2> QED
    BY <2>1, RankingFrame DEF OneCopy, LedgerInBronze, PutIsRanking
<1>3. ASSUME NEW b \in Build, Materialize(b) PROVE ExactInv'
  <2>1. /\ UNCHANGED <<bronze, copies, silver, ledger, claimed>>
        /\ bpc' = [bpc EXCEPT ![b] = "audit"]
        /\ put' = [put EXCEPT ![b] = Winners(Met(b))]
    BY <1>3 DEF Materialize, BuildAt, tables, Met
  <2> QED
    BY <2>1, RankingFrame DEF OneCopy, LedgerInBronze, PutIsRanking
<1>4. ASSUME NEW b \in Build, Audit(b) \/ Reconcile(b) PROVE ExactInv'
  <2>1. /\ UNCHANGED <<bronze, copies, silver, ledger, claimed, put>>
        /\ bpc[b] \in {"audit", "reconcile"}
        /\ bpc' \in {[bpc EXCEPT ![b] = s] : s \in {"reconcile", "commit"}}
    BY <1>4 DEF Audit, Reconcile, BuildAt, tables
  <2> QED
    BY <2>1, RankingFrame DEF OneCopy, LedgerInBronze, PutIsRanking
<1>5. ASSUME NEW b \in Build, CommitBuild(b) PROVE ExactInv'
  <2>1. /\ UNCHANGED <<bronze, copies>> /\ bpc[b] = "commit"
        /\ silver' = View(b) /\ ledger' = ledger \cup claimed[b]
        /\ bpc' = [bpc EXCEPT ![b] = "idle"]
        /\ claimed' = [claimed EXCEPT ![b] = {}] /\ put' = [put EXCEPT ![b] = {}]
    BY <1>5 DEF CommitBuild, EndBuild, BuildAt
  <2>2. OneCopy' /\ LedgerInBronze'
    BY <2>1 DEF OneCopy, LedgerInBronze, WantsInBronze, NoClaimBeforeClaim
  <2>3. IncrementalEqualsFull'
    <3> DEFINE A == RowsOf(ledger)
               N == RowsOf(claimed[b])
    <3>1. IsFiniteSet(A) /\ IsFiniteSet(N) /\ A \in SUBSET SingleRow /\ N \in SUBSET SingleRow
      BY <1>0, RowsFinite DEF RowsOf
    <3>2. RowsOf(ledger)' = A \cup N BY <2>1 DEF RowsOf
    <3>3. silver = Winners(A) /\ put[b] = Winners(N \cup {x \in Winners(A) : x.line.key \in Keys(N)})
      BY <2>1 DEF PutIsRanking, IncrementalEqualsFull, Met
    <3> HIDE DEF A, N
    <3>4. View(b) = Winners(A \cup N)
      <4> DEFINE P == Winners(N \cup {x \in Winners(A) : x.line.key \in Keys(N)})
                 V == {x \in Winners(A) : x.line.key \notin Keys(P)} \cup P
      <4>1. V = Winners(A \cup N) BY <3>1, IncrementalRanking
      <4>2. put[b] = P /\ silver = Winners(A) BY <3>3
      <4> HIDE DEF P
      <4> QED BY <4>1, <4>2 DEF View
    <3>5. Winners(RowsOf(ledger))' = Winners(A \cup N)
      BY <3>2 DEF Winners, Beats
    <3> QED BY <2>1, <3>4, <3>5 DEF IncrementalEqualsFull
  <2>4. PutIsRanking'
    <3>1. CASE claimed[b] = {}
      <4>1. silver' = silver BY <2>1, <3>1, OnlyClaimantWrites
      <4> QED BY <2>1, <4>1, RankingFrame DEF PutIsRanking
    <3>2. CASE claimed[b] # {}
      <4>1. ASSUME NEW c \in Build, c # b PROVE put'[c] = {} /\ Met(c)' = {}
        BY <2>1, <3>2, <4>1, OnlyClaimantWrites DEF RowsOf, Met, Keys
      <4>2. Winners({}) = {} BY DEF Winners
      <4>3. bpc'[b] = "idle" BY <2>1
      <4> QED BY <4>1, <4>2, <4>3 DEF PutIsRanking
    <3> QED BY <3>1, <3>2
  <2> QED BY <2>2, <2>3, <2>4
<1>6. ASSUME NEW b \in Build, AbortBuild(b) PROVE ExactInv'
  <2>1. /\ UNCHANGED <<bronze, copies, silver, ledger>>
        /\ bpc' = [bpc EXCEPT ![b] = "idle"] /\ claimed' = [claimed EXCEPT ![b] = {}]
        /\ put' = [put EXCEPT ![b] = {}]
    BY <1>6 DEF AbortBuild, EndBuild, BuildAt, tables
  <2> QED
    BY <2>1, RankingFrame DEF OneCopy, LedgerInBronze, PutIsRanking
<1>7. CASE UNCHANGED ledgerVars
  BY <1>7, RankingFrame DEF ledgerVars, tables, builds, OneCopy, LedgerInBronze, PutIsRanking
<1> QED
  BY <1>1, <1>2, <1>3, <1>4, <1>5, <1>6, <1>7 DEF LedgerNext, AdvanceBuild

\* Incremental equals full: with one append per run, whatever builds overlap or
\* roll back and in whatever order runs arrive, silver is what one ranking over
\* all the rows of all the processed runs would give.
THEOREM LedgerIncrementalEqualsFull ==
  ASSUME MaxAppends <= 1
  PROVE  LedgerSpec => []IncrementalEqualsFull
<1>1. LedgerInv /\ RowInv /\ ExactInv /\ [LedgerNext]_ledgerVars => ExactInv'
  BY ExactStepInv
<1>2. ExactInv => IncrementalEqualsFull BY DEF ExactInv
<1> QED BY <1>1, <1>2, ExactInitInv, RowInvariance, LedgerInvariance, PTL DEF LedgerSpec

-----------------------------------------------------------------------------
(* The builds with stage tasks and publish passes around them.               *)

\* Every step of stage tasks, builds and passes is a step of the ledger or
\* leaves it alone.
LEMMA MergeStep == [MergeNext]_mergeVars => [LedgerNext]_ledgerVars
<1> SUFFICES ASSUME [MergeNext]_mergeVars PROVE [LedgerNext]_ledgerVars OBVIOUS
<1>1. ASSUME NEW r \in Run, StageCommits(r) PROVE LedgerNext
  BY <1>1 DEF StageCommits, LedgerNext
<1>2. ASSUME NEW r \in Run, MarkStaged(r) PROVE UNCHANGED ledgerVars
  BY <1>2 DEF MarkStaged
<1>3. ASSUME NEW b \in Build, RunBuild(b) PROVE LedgerNext
  BY <1>3 DEF RunBuild, LedgerNext
<1>4. ASSUME NEW p \in Pass, ListStaged(p) \/ Publish(p) \/ AbortPass(p)
      PROVE  UNCHANGED ledgerVars
  BY <1>4 DEF ListStaged, Publish, AbortPass
<1>5. ASSUME UNCHANGED mergeVars PROVE UNCHANGED ledgerVars
  BY <1>5 DEF mergeVars
<1> QED BY <1>1, <1>2, <1>3, <1>4, <1>5 DEF MergeNext

\* The publisher's system implements the ledger's: nothing it adds is seen by
\* the builds.
THEOREM MergeImplementsLedger == MergeSpec => LedgerSpec
<1>1. MergeInit => LedgerInit BY DEF MergeInit
<1> QED BY <1>1, MergeStep, PTL DEF MergeSpec, LedgerSpec

\* A run is claimed by one build and never again, with passes publishing beside
\* the builds.
THEOREM MergeClaimsOnce == MergeSpec => []ClaimedOnce
BY MergeImplementsLedger, LedgerClaimedOnce, PTL

\* Builds take turns, with passes publishing beside them.
THEOREM MergeOneClaimant == MergeSpec => []OneClaimant
BY MergeImplementsLedger, LedgerOneClaimant, PTL

\* The dedup audit never overcounts, with passes publishing beside the builds.
THEOREM MergeAuditNeverOvercounts == MergeSpec => []AuditNeverOvercounts
BY MergeImplementsLedger, LedgerAuditNeverOvercounts, PTL

\* Incremental equals full, with passes publishing beside the builds.
THEOREM MergeIncrementalEqualsFull ==
  ASSUME MaxAppends <= 1
  PROVE  MergeSpec => []IncrementalEqualsFull
<1>1. LedgerSpec => []IncrementalEqualsFull BY LedgerIncrementalEqualsFull
<1> QED BY <1>1, MergeImplementsLedger, PTL

-----------------------------------------------------------------------------
(* Gold.                                                                     *)

\* A run is listed, and published, only once a build has processed it.
PublishedProcessed ==
    /\ \A r \in Run : status[r] = "SUCCEEDED" => r \in ledger
    /\ \A p \in Pass : listed[p] \subseteq ledger

\* What gold holds under a key is a processed bronze row of that key.
GoldRows ==
    \A k \in DOMAIN gold : gold[k] \in RowsOf(ledger) /\ gold[k].line.key = k

GoldOrderInv ==
    /\ status \in [Run -> {"RUNNING", "STAGED", "SUCCEEDED"}]
    /\ listed \in [Pass -> SUBSET Run]
    /\ PublishedProcessed /\ GoldRows /\ GoldFollowsSilver

RankedInv == LedgerInv /\ RowInv /\ IncrementalEqualsFull

LEMMA GoldOrderInitInv == MergeInit => GoldOrderInv
  BY DEF MergeInit, LedgerInit, GoldOrderInv, PublishedProcessed, GoldRows, GoldFollowsSilver

\* A silver row of a run processed before a build commits was silver's already:
\* what wins among more rows wins among fewer.
LEMMA OldWinnersStay ==
  ASSUME RankedInv, RankedInv', ledger \subseteq ledger', bronze \subseteq bronze',
         NEW x \in silver', x \in RowsOf(ledger)
  PROVE  x \in silver
<1>1. silver' = Winners(RowsOf(ledger)') /\ silver = Winners(RowsOf(ledger))
  BY DEF RankedInv, IncrementalEqualsFull
<1>2. RowsOf(ledger) \subseteq RowsOf(ledger)' BY DEF RowsOf
<1>3. \A big, small : small \subseteq big /\ x \in small /\ x \in Winners(big) => x \in Winners(small)
  BY DEF Winners
<1> QED BY <1>1, <1>2, <1>3

\* The builds and the staging transactions leave gold right.
LEMMA LedgerPreservesGold ==
  ASSUME RankedInv, RankedInv', GoldOrderInv, [LedgerNext]_ledgerVars, UNCHANGED publishVars
  PROVE  GoldOrderInv'
<1> USE DEF GoldOrderInv, publishVars
<1>1. ledger \subseteq ledger' /\ bronze \subseteq bronze'
  BY DEF LedgerNext, Append, AdvanceBuild, BeginBuild, Claim, Materialize, Audit, Reconcile,
     CommitBuild, AbortBuild, ledgerVars, tables
<1>2. PublishedProcessed' /\ GoldRows'
  BY <1>1 DEF PublishedProcessed, GoldRows, RowsOf
<1>3. GoldFollowsSilver'
  <2> SUFFICES ASSUME NEW x \in silver', status[x.run] = "SUCCEEDED"
               PROVE  x.line.key \in DOMAIN gold /\ RecordHash(gold[x.line.key]) = RecordHash(x)
    BY DEF GoldFollowsSilver, RecordHash
  <2>1. x \in bronze' /\ x.run \in Run /\ x.run \in ledger
    BY DEF RankedInv, RowInv, SilverRows, RowTypes, Row, RowsOf, PublishedProcessed
  <2>2. CASE silver' = silver
    BY <2>2 DEF GoldFollowsSilver
  <2>3. CASE silver' # silver
    <3>1. bronze' = bronze
      BY <2>3 DEF LedgerNext, Append, AdvanceBuild, BeginBuild, Claim, Materialize, Audit, Reconcile,
         CommitBuild, AbortBuild, ledgerVars, tables
    <3>2. x \in RowsOf(ledger) BY <2>1, <3>1 DEF RowsOf
    <3>3. x \in silver BY <1>1, <3>2, OldWinnersStay
    <3> QED BY <3>3 DEF GoldFollowsSilver
  <2> QED BY <2>2, <2>3
<1> QED BY <1>2, <1>3

\* A silver row beats, or is, the gold row of its key: where it does not replace
\* it, the two say the same.
LEMMA SilverSupersedesGold ==
  ASSUME RankedInv, NEW x \in silver, NEW g \in RowsOf(ledger), x.line.key = g.line.key,
         ~Supersedes(x, g)
  PROVE  RecordHash(g) = RecordHash(x)
<1>1. x = g \/ x.line.ts >= g.line.ts
  <2>1. x \in Winners(RowsOf(ledger)) BY DEF RankedInv, IncrementalEqualsFull
  <2>2. x # g => Beats(x, g) \/ (~Beats(g, x) /\ x.copy < g.copy) BY <2>1 DEF Winners
  <2>3. x.line.ts \in Nat /\ g.line.ts \in Nat
    BY LedgerAssumption DEF RankedInv, RowInv, RowTypes, SilverRows, RowsOf, Row
  <2> QED BY <2>2, <2>3 DEF Beats
<1>2. x.line.ts \in Nat /\ g.line.ts \in Nat
  BY LedgerAssumption DEF RankedInv, RowInv, RowTypes, SilverRows, RowsOf, Row
<1> QED BY <1>1, <1>2 DEF Supersedes, Null

LEMMA PublishPreservesGold ==
  ASSUME RankedInv, GoldOrderInv, NEW p \in Pass, Publish(p)
  PROVE  GoldOrderInv'
<1> DEFINE rows == Delta(listed[p])
<1> USE DEF GoldOrderInv
<1>1. /\ UNCHANGED <<bronze, silver, ledger>>
      /\ status' = [r \in Run |-> IF r \in listed[p] THEN "SUCCEEDED" ELSE status[r]]
      /\ listed' = [listed EXCEPT ![p] = {}]
      /\ gold' = Upserted(rows)
  BY DEF Publish, ledgerVars, tables
<1>2. rows \subseteq silver /\ rows \subseteq RowsOf(ledger) /\ OnePerKey(silver)
  BY DEF Delta, RankedInv, RowInv, SilverRows
<1>3. ASSUME NEW x \in rows
      PROVE  /\ x.line.key \in DOMAIN gold'
             /\ gold'[x.line.key] =
                  IF x.line.key \notin DOMAIN gold \/ Supersedes(x, gold[x.line.key])
                  THEN x ELSE gold[x.line.key]
  <2>1. x.line.key \in Keys(rows) BY DEF Keys
  <2>2. (CHOOSE y \in rows : y.line.key = x.line.key) = x
    BY <1>2 DEF OnePerKey
  <2> HIDE DEF rows
  <2> QED BY <1>1, <2>1, <2>2 DEF Upserted
<1>4. ASSUME NEW k, k \notin Keys(rows)
      PROVE  (k \in DOMAIN gold' <=> k \in DOMAIN gold) /\ (k \in DOMAIN gold => gold'[k] = gold[k])
  <2> HIDE DEF rows
  <2> QED BY <1>1, <1>4 DEF Upserted
<1>5. \A k \in Keys(rows) : \E x \in rows : k = x.line.key
  BY DEF Keys
<1>6. PublishedProcessed' /\ status' \in [Run -> {"RUNNING", "STAGED", "SUCCEEDED"}]
      /\ listed' \in [Pass -> SUBSET Run]
  BY <1>1 DEF PublishedProcessed
<1>7. GoldRows'
  <2> SUFFICES ASSUME NEW k \in DOMAIN gold'
               PROVE  gold'[k] \in RowsOf(ledger) /\ gold'[k].line.key = k
    BY <1>1 DEF GoldRows, RowsOf
  <2>1. CASE k \notin Keys(rows) BY <1>4, <2>1 DEF GoldRows
  <2>2. CASE k \in Keys(rows)
    <3>1. PICK x \in rows : k = x.line.key BY <1>5, <2>2
    <3> HIDE DEF rows
    <3> QED BY <1>2, <1>3, <3>1 DEF GoldRows
  <2> QED BY <2>1, <2>2
<1>8. GoldFollowsSilver'
  <2> SUFFICES ASSUME NEW x \in silver, status'[x.run] = "SUCCEEDED"
               PROVE  x.line.key \in DOMAIN gold' /\ RecordHash(gold'[x.line.key]) = RecordHash(x)
    BY <1>1 DEF GoldFollowsSilver, RecordHash
  <2>1. CASE x \in rows
    <3>1. CASE x.line.key \in DOMAIN gold /\ ~Supersedes(x, gold[x.line.key])
      <4>1. gold[x.line.key] \in RowsOf(ledger) /\ gold[x.line.key].line.key = x.line.key
        BY <3>1 DEF GoldRows
      <4>2. RecordHash(gold[x.line.key]) = RecordHash(x)
        BY <3>1, <4>1, SilverSupersedesGold
      <4> QED BY <1>3, <2>1, <3>1, <4>2
    <3>2. CASE ~(x.line.key \in DOMAIN gold /\ ~Supersedes(x, gold[x.line.key]))
      BY <1>3, <2>1, <3>2
    <3> QED BY <3>1, <3>2
  <2>2. CASE x \notin rows
    <3>1. x.line.key \notin Keys(rows)
      BY <1>2, <1>5, <2>2 DEF OnePerKey
    <3>2. x.run \notin listed[p] /\ x.run \in Run
      BY <2>2 DEF Delta, RankedInv, RowInv, SilverRows, RowTypes, RowsOf, Row
    <3>3. status[x.run] = "SUCCEEDED" BY <1>1, <3>2
    <3>4. x.line.key \in DOMAIN gold /\ RecordHash(gold[x.line.key]) = RecordHash(x)
      BY <3>3 DEF GoldFollowsSilver
    <3> QED BY <1>4, <3>1, <3>4
  <2> QED BY <2>1, <2>2
<1> QED BY <1>6, <1>7, <1>8

LEMMA GoldOrderStepInv ==
  ASSUME RankedInv, RankedInv', GoldOrderInv, [MergeNext]_mergeVars
  PROVE  GoldOrderInv'
<1>1. CASE [LedgerNext]_ledgerVars /\ UNCHANGED publishVars
  BY <1>1, LedgerPreservesGold
<1>2. ASSUME NEW r \in Run, MarkStaged(r) PROVE GoldOrderInv'
  <2>1. /\ UNCHANGED <<bronze, silver, ledger, listed, gold>>
        /\ status' = [status EXCEPT ![r] = "STAGED"] /\ status[r] = "RUNNING"
    BY <1>2 DEF MarkStaged, ledgerVars, tables
  <2>2. GoldRows' /\ PublishedProcessed'
    BY <2>1 DEF GoldOrderInv, GoldRows, PublishedProcessed, RowsOf
  <2>3. GoldFollowsSilver'
    BY <2>1 DEF GoldOrderInv, GoldFollowsSilver, RecordHash, RankedInv, RowInv, SilverRows,
       RowTypes, RowsOf, Row
  <2> QED BY <2>1, <2>2, <2>3 DEF GoldOrderInv
<1>3. ASSUME NEW p \in Pass, ListStaged(p) \/ AbortPass(p) PROVE GoldOrderInv'
  <2>1. /\ UNCHANGED <<bronze, silver, ledger, status, gold>>
        /\ listed' \in {[listed EXCEPT ![p] = s] : s \in SUBSET (Run \cap ledger)}
    BY <1>3 DEF ListStaged, AbortPass, Staged, ledgerVars, tables
  <2>2. GoldRows' /\ PublishedProcessed'
    BY <2>1 DEF GoldOrderInv, GoldRows, PublishedProcessed, RowsOf
  <2>3. GoldFollowsSilver'
    BY <2>1 DEF GoldOrderInv, GoldFollowsSilver, RecordHash
  <2> QED BY <2>1, <2>2, <2>3 DEF GoldOrderInv
<1>4. ASSUME NEW p \in Pass, Publish(p) PROVE GoldOrderInv'
  BY <1>4, PublishPreservesGold
<1>5. ASSUME NEW r \in Run, StageCommits(r) PROVE GoldOrderInv'
  <2>1. LedgerNext /\ UNCHANGED publishVars BY <1>5 DEF StageCommits, LedgerNext
  <2> QED BY <1>1, <2>1
<1>6. ASSUME NEW b \in Build, RunBuild(b) PROVE GoldOrderInv'
  <2>1. LedgerNext /\ UNCHANGED publishVars BY <1>6 DEF RunBuild, LedgerNext
  <2> QED BY <1>1, <2>1
<1>7. CASE UNCHANGED mergeVars
  BY <1>1, <1>7 DEF mergeVars
<1> QED BY <1>2, <1>3, <1>4, <1>5, <1>6, <1>7 DEF MergeNext

\* Gold follows silver: with one append per run, a key whose silver row belongs to
\* a published run shows that row in gold, whatever passes and builds came between.
THEOREM MergeGoldFollowsSilver ==
  ASSUME MaxAppends <= 1
  PROVE  MergeSpec => []GoldFollowsSilver
<1>1. LedgerSpec => []IncrementalEqualsFull BY LedgerIncrementalEqualsFull
<1>2. RankedInv <=> LedgerInv /\ RowInv /\ IncrementalEqualsFull BY DEF RankedInv
<1>3. MergeInit => GoldOrderInv BY GoldOrderInitInv
<1>4. RankedInv /\ RankedInv' /\ GoldOrderInv /\ [MergeNext]_mergeVars => GoldOrderInv'
  BY GoldOrderStepInv
<1>5. GoldOrderInv => GoldFollowsSilver BY DEF GoldOrderInv
<1>6. MergeSpec => []RankedInv
  BY <1>1, <1>2, MergeImplementsLedger, LedgerInvariance, RowInvariance, PTL
<1> QED BY <1>3, <1>4, <1>5, <1>6, PTL DEF MergeSpec
=============================================================================
