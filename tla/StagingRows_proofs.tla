------------------------ MODULE StagingRows_proofs ------------------------
(* Proofs about StagingRows: every row of a file is accounted for, under any *)
(* contract, rule set, chunk size and file.                                  *)
EXTENDS StagingRows, FiniteSetTheorems, TLAPS

\* The file being staged is one of those that may arrive.
JobOK == job \in Jobs

\* Between two chunks nothing is in flight.
Drained == phase \notin {"load", "failed"} \/ at = 0 => chunk = {}

\* Row numbers of the scratch table are those handed out so far.
NumbersBounded == \A r \in scratch : r.number \in 1..parsed

RowsInv == JobOK /\ RowsTypeOK /\ Drained /\ NumbersBounded /\ RowsAccounted

\* A file has a number of rows.
LEMMA SizeIsNat == JobOK => Size \in Nat /\ DOMAIN Raw = 1..Size
BY JobsAssumption DEF JobOK, JobsAssumption, Raw, Size

\* Rows of a chunk have a finite number of predecessors in it, fewer the earlier.
LEMMA PredecessorsCounted ==
  ASSUME NEW n \in Nat, chunk \subseteq 1..n
  PROVE  /\ IsFiniteSet(chunk) /\ Cardinality(chunk) \in Nat
         /\ \A p \in chunk : Cardinality(Before(p)) \in 0..(Cardinality(chunk) - 1)
         /\ \A p, q \in chunk : p # q => Cardinality(Before(p)) # Cardinality(Before(q))
<1>1. IsFiniteSet(1..n) BY FS_Interval
<1>2. IsFiniteSet(chunk) BY <1>1, FS_Subset
<1>3. Cardinality(chunk) \in Nat BY <1>2, FS_CardinalityType
<1>4. ASSUME NEW p \in chunk
      PROVE  /\ IsFiniteSet(Before(p)) /\ Cardinality(Before(p)) \in Nat
             /\ Cardinality(Before(p)) < Cardinality(chunk)
  <2>1. Before(p) \subseteq chunk /\ p \notin Before(p) BY DEF Before
  <2>2. Before(p) # chunk BY <2>1
  <2> QED BY <1>2, <2>1, <2>2, FS_Subset, FS_CardinalityType
<1>5. ASSUME NEW p \in chunk, NEW q \in chunk, p < q
      PROVE  Cardinality(Before(p)) < Cardinality(Before(q))
  <2>1. Before(p) \subseteq Before(q)
    <3> SUFFICES ASSUME NEW x \in chunk, x < p PROVE x < q BY DEF Before
    <3>1. x \in Int /\ p \in Int /\ q \in Int OBVIOUS
    <3> QED BY <1>5, <3>1
  <2>2. p \in Before(q) /\ p \notin Before(p) BY <1>5 DEF Before
  <2> QED BY <1>4, <2>1, <2>2, FS_Subset
<1>6. \A p, q \in chunk : p # q => p < q \/ q < p OBVIOUS
<1> QED BY <1>2, <1>3, <1>4, <1>5, <1>6

\* The initial state satisfies the invariant.
LEMMA RowsInitInv == RowsInit => RowsInv
<1> SUFFICES ASSUME RowsInit PROVE RowsInv OBVIOUS
<1>1. JobOK BY DEF RowsInit, JobOK
<1>2. Size \in Nat /\ DOMAIN Raw = 1..Size BY <1>1, SizeIsNat
<1> QED BY <1>1, <1>2 DEF RowsInit, RowsInv, RowsTypeOK, Drained, NumbersBounded, RowsAccounted, Positions

\* Handing out a chunk adds its positions and nothing else.
LEMMA ReadChunkInv == RowsInv /\ ReadChunk => RowsInv'
<1> SUFFICES ASSUME RowsInv, ReadChunk PROVE RowsInv' OBVIOUS
<1> USE DEF RowsInv, ReadChunk
<1>1. Size \in Nat BY SizeIsNat
<1>2. ChunkSize \in Nat \ {0} BY ChunkSizeAssumption DEF ChunkSizeAssumption
<1>3. read \in 0..Size /\ chunk = {} /\ at \in Nat BY DEF RowsTypeOK, Drained
<1>4. read' \in read..Size /\ read' > read BY <1>1, <1>2, <1>3
<1>5. Size' = Size /\ JobOK' BY DEF Size, Raw, JobOK
<1>6. 1..read' = (1..read) \cup ((read + 1)..read') BY <1>1, <1>3, <1>4
<1>7. (1..read) \cap ((read + 1)..read') = {} BY <1>1, <1>3, <1>4
<1>8. RowsTypeOK' BY <1>1, <1>3, <1>4, <1>5, <1>6 DEF RowsTypeOK, Positions
<1>9. RowsAccounted'
  <2>1. chunk' = (read + 1)..read' OBVIOUS
  <2>2. Positions(scratch)' = Positions(scratch) /\ Positions(rejects)' = Positions(rejects)
    BY DEF Positions
  <2>3. Positions(scratch) \cup Positions(rejects) = 1..read BY <1>3 DEF RowsAccounted
  <2> QED BY <1>6, <1>7, <2>1, <2>2, <2>3 DEF RowsAccounted
<1> QED BY <1>5, <1>8, <1>9 DEF Drained, NumbersBounded

\* A stage moves rows from the chunk to the rejects.
LEMMA ApplyStageInv == RowsInv /\ ApplyStage => RowsInv'
<1> SUFFICES ASSUME RowsInv, ApplyStage PROVE RowsInv' OBVIOUS
<1> DEFINE s == Stages[at]
           record(p) == [position |-> p, number |-> RejectNumber(p), orphan |-> FALSE]
<1>1. /\ rejects' = rejects \cup {record(p) : p \in Excluded(s)}
      /\ chunk' = chunk \ Excluded(s)
      /\ DOMAIN row' = DOMAIN row
      /\ at' = at + 1
      /\ UNCHANGED <<job, read, scratch, parsed, phase, bronze, recorded>>
      /\ phase = "load"
  BY DEF ApplyStage
<1>2. Excluded(s) \subseteq chunk BY DEF Excluded
<1> HIDE DEF s
<1>3. Positions(rejects)' = Positions(rejects) \cup Excluded(s)
  <2>1. \A p : record(p).position = p OBVIOUS
  <2> HIDE DEF record
  <2> QED BY <1>1, <2>1 DEF Positions
<1>4. Positions(scratch)' = Positions(scratch) /\ Positions(bronze)' = Positions(bronze)
  BY <1>1 DEF Positions
<1>5. Size' = Size /\ JobOK' BY <1>1 DEF Size, Raw, JobOK, RowsInv
<1>6. RowsTypeOK'
  <2>1. RowsTypeOK BY DEF RowsInv
  <2>2. Excluded(s) \subseteq 1..read BY <1>2, <2>1 DEF RowsTypeOK
  <2>3. at' \in Nat BY <1>1, <2>1 DEF RowsTypeOK
  <2>4. chunk' \subseteq 1..read' BY <1>1, <2>1 DEF RowsTypeOK
  <2> HIDE DEF record
  <2> QED BY <1>1, <1>3, <1>4, <1>5, <2>1, <2>2, <2>3, <2>4 DEF RowsTypeOK
<1>7. \A r, t \in rejects' : r # t => r.position # t.position
  <2>1. \A r \in rejects : r.position \in Positions(rejects) BY DEF Positions
  <2>2. \A r \in rejects : r.position \notin Excluded(s)
    BY <1>2, <2>1 DEF RowsInv, RowsAccounted
  <2>3. \A r \in rejects' : r \in rejects \/ \E p \in Excluded(s) : r = record(p) BY <1>1
  <2>4. \A p : record(p).position = p OBVIOUS
  <2>5. \A r, t \in rejects : r # t => r.position # t.position BY DEF RowsInv, RowsAccounted
  <2> HIDE DEF record
  <2> QED BY <2>2, <2>3, <2>4, <2>5
<1>8. RowsAccounted'
  BY <1>1, <1>2, <1>3, <1>4, <1>7 DEF RowsAccounted, RowsInv
<1>9. Drained' BY <1>1, <1>6 DEF Drained, RowsTypeOK, RowsInv
<1> QED BY <1>1, <1>5, <1>6, <1>8, <1>9 DEF NumbersBounded, RowsInv

\* The COPY moves the chunk to the scratch table, under numbers not used before.
LEMMA CopyChunkInv == RowsInv /\ CopyChunk => RowsInv'
<1> SUFFICES ASSUME RowsInv, CopyChunk PROVE RowsInv' OBVIOUS
<1> DEFINE staged(p) == [position |-> p, number |-> StagedNumber(p),
                         fields |-> SubSeq(row[p], 1, Target)]
<1>1. /\ scratch' = scratch \cup {staged(p) : p \in chunk}
      /\ parsed' = parsed + Cardinality(chunk)
      /\ chunk' = {} /\ at' = 0 /\ phase = "load"
      /\ UNCHANGED <<job, read, row, rejects, phase, bronze, recorded>>
  BY DEF CopyChunk
<1>2. Size \in Nat /\ read \in Nat /\ parsed \in Nat /\ chunk \subseteq 1..read
  BY SizeIsNat DEF RowsInv, RowsTypeOK
<1>3. /\ Cardinality(chunk) \in Nat
      /\ \A p \in chunk : Cardinality(Before(p)) \in 0..(Cardinality(chunk) - 1)
      /\ \A p, q \in chunk : p # q => Cardinality(Before(p)) # Cardinality(Before(q))
  BY <1>2, PredecessorsCounted
<1>4. /\ \A p \in chunk : StagedNumber(p) \in (parsed + 1)..(parsed + Cardinality(chunk))
      /\ \A p, q \in chunk : p # q => StagedNumber(p) # StagedNumber(q)
  BY <1>2, <1>3 DEF StagedNumber
<1>5. \A p : staged(p).position = p /\ staged(p).number = StagedNumber(p) OBVIOUS
<1> HIDE DEF staged
<1>6. Positions(scratch)' = Positions(scratch) \cup chunk BY <1>1, <1>5 DEF Positions
<1>7. Positions(rejects)' = Positions(rejects) /\ Positions(bronze)' = Positions(bronze)
  BY <1>1 DEF Positions
<1>8. Size' = Size /\ JobOK' BY <1>1 DEF Size, Raw, JobOK, RowsInv
<1>9. RowsTypeOK'
  <2>1. RowsTypeOK BY DEF RowsInv
  <2>2. parsed' \in Nat /\ at' \in Nat BY <1>1, <1>2, <1>3
  <2>3. chunk' \subseteq 1..read' BY <1>1
  <2> QED BY <1>1, <1>2, <1>6, <1>7, <1>8, <2>1, <2>2, <2>3 DEF RowsTypeOK
<1>10. NumbersBounded'
  <2>1. \A r \in scratch : r.number \in 1..parsed BY DEF RowsInv, NumbersBounded
  <2>2. 1..parsed \subseteq 1..parsed' /\ (parsed + 1)..parsed' \subseteq 1..parsed'
    BY <1>1, <1>2, <1>3
  <2>3. \A r \in scratch' : r \in scratch \/ \E p \in chunk : r = staged(p) BY <1>1
  <2> QED BY <1>1, <1>4, <1>5, <2>1, <2>2, <2>3 DEF NumbersBounded
<1>11. \A r, t \in scratch' : r # t => r.number # t.number /\ r.position # t.position
  <2>1. \A r \in scratch : r.number \in 1..parsed /\ r.position \notin chunk
    BY DEF RowsInv, NumbersBounded, RowsAccounted, Positions
  <2>2. \A r, t \in scratch : r # t => r.number # t.number /\ r.position # t.position
    BY DEF RowsInv, RowsAccounted
  <2>3. \A r \in scratch' : r \in scratch \/ \E p \in chunk : r = staged(p) BY <1>1
  <2>4. \A p \in chunk : StagedNumber(p) \notin 1..parsed BY <1>2, <1>3, <1>4
  <2> QED BY <1>4, <1>5, <2>1, <2>2, <2>3, <2>4
<1>12. RowsAccounted'
  BY <1>1, <1>6, <1>7, <1>11 DEF RowsAccounted, RowsInv
<1> QED BY <1>1, <1>8, <1>9, <1>10, <1>12 DEF Drained, RowsInv

\* The barrier moves orphans from the scratch table to the rejects: deleting by
\* row number deletes the orphans only.
LEMMA ReferentialInv == RowsInv /\ Referential => RowsInv'
<1> SUFFICES ASSUME RowsInv, Referential PROVE RowsInv' OBVIOUS
<1> DEFINE orphan(r) == [position |-> r.position, number |-> r.number,
                         orphan |-> TRUE]
<1>1. /\ rejects' = rejects \cup {orphan(r) : r \in Orphans}
      /\ scratch' = {r \in scratch : ~\E o \in Orphans : o.number = r.number}
      /\ phase = "referential" /\ phase' = "gate"
      /\ UNCHANGED <<job, read, chunk, at, row, parsed, bronze, recorded>>
  BY DEF Referential
<1>2. Orphans \subseteq scratch BY DEF Orphans
<1>3. \A r, t \in scratch : r # t => r.number # t.number /\ r.position # t.position
  BY DEF RowsInv, RowsAccounted
<1>4. scratch' = scratch \ Orphans BY <1>1, <1>2, <1>3
<1>5. \A r : orphan(r).position = r.position OBVIOUS
<1> HIDE DEF orphan
<1>6. Positions(scratch)' \cup Positions(Orphans) = Positions(scratch)
  BY <1>2, <1>4 DEF Positions
<1>7. Positions(scratch)' \cap Positions(Orphans) = {} BY <1>2, <1>3, <1>4 DEF Positions
<1>8. Positions(rejects)' = Positions(rejects) \cup Positions(Orphans)
  BY <1>1, <1>5 DEF Positions
<1>9. Positions(bronze)' = Positions(bronze) BY <1>1 DEF Positions
<1>10. Size' = Size /\ JobOK' BY <1>1 DEF Size, Raw, JobOK, RowsInv
<1>11. RowsTypeOK' BY <1>1, <1>6, <1>8, <1>9, <1>10 DEF RowsTypeOK, RowsInv
<1>12. \A r, t \in rejects' : r # t => r.position # t.position
  <2>1. \A r \in rejects : r.position \in Positions(rejects) BY DEF Positions
  <2>2. \A r \in Orphans : r.position \in Positions(scratch) BY <1>2 DEF Positions
  <2>3. Positions(scratch) \cap Positions(rejects) = {} BY DEF RowsInv, RowsAccounted
  <2>4. \A r, t \in rejects : r # t => r.position # t.position BY DEF RowsInv, RowsAccounted
  <2>5. \A r \in rejects' : r \in rejects \/ \E o \in Orphans : r = orphan(o) BY <1>1
  <2> QED BY <1>2, <1>3, <1>5, <2>1, <2>2, <2>3, <2>4, <2>5
<1>13. RowsAccounted'
  BY <1>1, <1>3, <1>4, <1>6, <1>7, <1>8, <1>12 DEF RowsAccounted, RowsInv
<1> QED BY <1>1, <1>4, <1>10, <1>11, <1>13 DEF Drained, NumbersBounded, RowsInv

\* Every other step leaves the rows where they are.
LEMMA OtherStepsInv ==
  RowsInv /\ (LoadDone \/ Fail \/ Promote \/ UNCHANGED rowVars) => RowsInv'
<1> SUFFICES ASSUME RowsInv, LoadDone \/ Fail \/ Promote \/ UNCHANGED rowVars
             PROVE  RowsInv'
  OBVIOUS
<1>1. /\ UNCHANGED <<job, read, chunk, at, row, scratch, rejects, parsed>>
      /\ phase' \in {phase, "referential", "failed", "committed"}
      /\ bronze' \in {bronze, scratch}
      /\ phase' = "load" => phase = "load"
  BY DEF LoadDone, Fail, Promote, rowVars
<1>2. Size' = Size /\ JobOK' BY <1>1 DEF Size, Raw, JobOK, RowsInv
<1>3. /\ Positions(scratch)' = Positions(scratch) /\ Positions(rejects)' = Positions(rejects)
      /\ Positions(bronze)' \in {Positions(bronze), Positions(scratch)}
  BY <1>1 DEF Positions
<1>4. RowsTypeOK' BY <1>1, <1>2, <1>3 DEF RowsTypeOK, RowsInv
<1>5. RowsAccounted' BY <1>1, <1>3 DEF RowsAccounted, RowsInv
<1>6. Drained'
  <2>1. CASE LoadDone BY <1>1, <2>1 DEF LoadDone, Drained, RowsInv
  <2>2. CASE Promote BY <1>1, <2>2 DEF Promote, Drained, RowsInv
  <2>3. CASE UNCHANGED rowVars BY <2>3 DEF rowVars, Drained, RowsInv
  <2>4. CASE Fail BY <1>1, <2>4 DEF Fail, Drained, RowsInv
  <2> QED BY <2>1, <2>2, <2>3, <2>4
<1> QED BY <1>1, <1>2, <1>4, <1>5, <1>6 DEF NumbersBounded, RowsInv

\* The invariant is inductive.
LEMMA RowsStep == RowsInv /\ [RowsNext]_rowVars => RowsInv'
<1> SUFFICES ASSUME RowsInv, [RowsNext]_rowVars PROVE RowsInv' OBVIOUS
<1>1. CASE ReadChunk BY <1>1, ReadChunkInv
<1>2. CASE ApplyStage BY <1>2, ApplyStageInv
<1>3. CASE CopyChunk BY <1>3, CopyChunkInv
<1>4. CASE Referential BY <1>4, ReferentialInv
<1>5. CASE LoadDone \/ Promote \/ UNCHANGED rowVars BY <1>5, OtherStepsInv
<1>6. CASE EscalateRule \/ ReferentialAborts \/ TripBreaker
  BY <1>6, OtherStepsInv DEF EscalateRule, ReferentialAborts, TripBreaker
<1> QED BY <1>1, <1>2, <1>3, <1>4, <1>5, <1>6 DEF RowsNext

\* The counters and positions of a load stay within its file, for every file,
\* contract and chunk size.
THEOREM RowsTyped == RowsSpec => []RowsTypeOK
<1>1. RowsInv => RowsTypeOK BY DEF RowsInv
<1> QED BY <1>1, RowsInitInv, RowsStep, PTL DEF RowsSpec

\* At every step each row read is in flight, staged or rejected, and only one of
\* these; the row number by which an orphan is deleted names one staged row.
THEOREM RowsAreAccounted == RowsSpec => []RowsAccounted
<1>1. RowsInv => RowsAccounted BY DEF RowsInv
<1> QED BY <1>1, RowsInitInv, RowsStep, PTL DEF RowsSpec

-----------------------------------------------------------------------------
\* The breaker's counts, as sets of rows: those the load parsed, whether still
\* staged or found orphaned since, and those it rejected.
Loaded == Positions(scratch) \cup Positions({r \in rejects : r.orphan})
LoadRejects == {r \in rejects : ~r.orphan}

LossInv ==
  /\ parsed = Cardinality(Loaded)
  /\ phase \notin {"load", "failed"} => read = Size
  /\ phase = "committed" => bronze = scratch /\ ~Breached

\* Records with distinct positions within a file are as many as their positions.
LEMMA PositionsCounted ==
  ASSUME NEW n \in Nat, NEW R, Positions(R) \subseteq 1..n,
         \A r, s \in R : r # s => r.position # s.position
  PROVE  /\ IsFiniteSet(R) /\ IsFiniteSet(Positions(R))
         /\ Cardinality(R) = Cardinality(Positions(R))
<1> DEFINE f == [r \in R |-> r.position]
<1>1. IsFiniteSet(1..n) BY FS_Interval
<1>2. IsFiniteSet(Positions(R)) BY <1>1, FS_Subset
<1>3. f \in [R -> Positions(R)] BY DEF Positions
<1>4. f \in Injection(R, Positions(R)) BY <1>3 DEF Injection, IsInjective
<1>5. f \in Surjection(R, Positions(R)) BY <1>3 DEF Surjection, Positions
<1> QED BY <1>2, <1>4, <1>5, FS_Injection

\* The initial state satisfies the counts.
LEMMA LossInitInv == RowsInit => LossInv
<1> SUFFICES ASSUME RowsInit PROVE LossInv OBVIOUS
<1>1. Loaded = {} BY DEF RowsInit, Loaded, Positions
<1> QED BY <1>1, FS_EmptySet DEF RowsInit, LossInv

\* The counts are kept by every step.
LEMMA LossStep == RowsInv /\ LossInv /\ [RowsNext]_rowVars => LossInv'
<1> SUFFICES ASSUME RowsInv, LossInv, [RowsNext]_rowVars PROVE LossInv' OBVIOUS
<1>1. Size' = Size
  BY DEF RowsNext, rowVars, ReadChunk, ApplyStage, EscalateRule, CopyChunk, LoadDone, Referential,
         ReferentialAborts, TripBreaker, Promote, Fail, Size, Raw
<1>2. CASE ReadChunk
  <2>1. Loaded' = Loaded BY <1>2 DEF ReadChunk, Loaded, Positions
  <2> QED BY <1>2, <2>1 DEF ReadChunk, LossInv
<1>3. CASE ApplyStage
  <2> DEFINE new == rejects' \ rejects
  <2>1. /\ rejects \subseteq rejects' /\ \A r \in new : ~r.orphan
        /\ UNCHANGED <<read, scratch, parsed, phase, bronze>> /\ phase = "load"
    BY <1>3 DEF ApplyStage
  <2>2. {r \in rejects' : r.orphan} = {r \in rejects : r.orphan} BY <2>1
  <2>3. Loaded' = Loaded BY <2>1, <2>2 DEF Loaded, Positions
  <2> QED BY <2>1, <2>3 DEF LossInv
<1>4. CASE CopyChunk
  <2>1. Positions(scratch') = Positions(scratch) \cup chunk
    <3> DEFINE staged(p) == [position |-> p, number |-> StagedNumber(p),
                             fields |-> SubSeq(row[p], 1, Target)]
    <3>1. scratch' = scratch \cup {staged(p) : p \in chunk} BY <1>4 DEF CopyChunk
    <3>2. \A p : staged(p).position = p OBVIOUS
    <3> HIDE DEF staged
    <3> QED BY <3>1, <3>2 DEF Positions
  <2>2. Loaded' = Loaded \cup chunk BY <1>4, <2>1 DEF CopyChunk, Loaded, Positions
  <2>3. Loaded \cap chunk = {} BY DEF Loaded, RowsInv, RowsAccounted, Positions
  <2>4. read \in Nat /\ Loaded \subseteq 1..read /\ chunk \subseteq 1..read
    BY SizeIsNat DEF RowsInv, RowsTypeOK, RowsAccounted, Loaded, Positions
  <2>5. IsFiniteSet(Loaded) /\ IsFiniteSet(chunk)
    <3>1. IsFiniteSet(1..read) BY <2>4, FS_Interval
    <3> QED BY <2>4, <3>1, FS_Subset
  <2>6. /\ Cardinality(Loaded \cup chunk) = Cardinality(Loaded) + Cardinality(chunk)
                                            - Cardinality(Loaded \cap chunk)
        /\ Cardinality(Loaded \cap chunk) = 0
        /\ Cardinality(Loaded) \in Nat /\ Cardinality(chunk) \in Nat
    BY <2>3, <2>5, FS_Union, FS_EmptySet, FS_CardinalityType
  <2>7. parsed' = parsed + Cardinality(chunk) /\ phase' = "load" BY <1>4 DEF CopyChunk
  <2>8. parsed' = Cardinality(Loaded') BY <2>2, <2>6, <2>7 DEF LossInv
  <2> QED BY <2>7, <2>8 DEF LossInv
<1>5. CASE Referential
  <2> DEFINE orphan(r) == [position |-> r.position, number |-> r.number, orphan |-> TRUE]
  <2>1. /\ rejects' = rejects \cup {orphan(r) : r \in Orphans}
        /\ scratch' = {r \in scratch : ~\E o \in Orphans : o.number = r.number}
        /\ phase = "referential" /\ phase' = "gate"
        /\ UNCHANGED <<read, parsed, bronze>>
    BY <1>5 DEF Referential
  <2>2. Orphans \subseteq scratch BY DEF Orphans
  <2>3. scratch' = scratch \ Orphans BY <2>1, <2>2 DEF RowsInv, RowsAccounted
  <2>4. \A r : orphan(r).position = r.position /\ orphan(r).orphan OBVIOUS
  <2> HIDE DEF orphan
  <2>5. {r \in rejects' : r.orphan} = {r \in rejects : r.orphan} \cup {orphan(r) : r \in Orphans}
    BY <2>1, <2>4
  <2>6. Positions({r \in rejects' : r.orphan})
          = Positions({r \in rejects : r.orphan}) \cup Positions(Orphans)
    BY <2>4, <2>5 DEF Positions
  <2>7. Positions(scratch') \cup Positions(Orphans) = Positions(scratch)
    BY <2>2, <2>3 DEF Positions
  <2>8. Loaded' = Loaded BY <2>6, <2>7 DEF Loaded, Positions
  <2> QED BY <1>1, <2>1, <2>8 DEF LossInv
<1>6. CASE LoadDone
  <2>1. Loaded' = Loaded BY <1>6 DEF LoadDone, Loaded, Positions
  <2> QED BY <1>1, <1>6, <2>1 DEF LoadDone, LossInv
<1>7. CASE EscalateRule \/ ReferentialAborts \/ TripBreaker
  <2>1. Fail BY <1>7 DEF EscalateRule, ReferentialAborts, TripBreaker
  <2>2. Loaded' = Loaded BY <2>1 DEF Fail, Loaded, Positions
  <2> QED BY <2>1, <2>2 DEF Fail, LossInv
<1>8. CASE Promote
  <2>1. Loaded' = Loaded /\ (Breached' <=> Breached)
    BY <1>8 DEF Promote, Loaded, Positions, Breached, RowsRead, RowsRejected
  <2> QED BY <1>1, <1>8, <2>1 DEF Promote, LossInv
<1>9. CASE UNCHANGED rowVars
  <2>1. Loaded' = Loaded /\ (Breached' <=> Breached)
    BY <1>9 DEF rowVars, Loaded, Positions, Breached, RowsRead, RowsRejected
  <2> QED BY <1>1, <1>9, <2>1 DEF rowVars, LossInv
<1> QED BY <1>2, <1>3, <1>4, <1>5, <1>6, <1>7, <1>8, <1>9 DEF RowsNext

\* What a committed run lost is what it rejected, and what it read is its file.
LEMMA LossFollows == RowsInv /\ LossInv => LossBounded
<1> SUFFICES ASSUME RowsInv, LossInv, phase = "committed"
             PROVE  100 * Cardinality((1..Size) \ Positions(bronze)) <= Threshold * Size
  BY DEF LossBounded
<1>1. Size \in Nat BY SizeIsNat DEF RowsInv
<1>2. chunk = {} /\ read = Size /\ bronze = scratch BY DEF RowsInv, Drained, LossInv
<1>3. /\ Positions(scratch) \cup Positions(rejects) = 1..Size
      /\ Positions(scratch) \cap Positions(rejects) = {}
      /\ \A r, s \in rejects : r # s => r.position # s.position
  BY <1>2 DEF RowsInv, RowsAccounted
<1>4. (1..Size) \ Positions(bronze) = Positions(rejects) BY <1>2, <1>3
<1>5. IsFiniteSet(rejects) /\ Cardinality(rejects) = Cardinality(Positions(rejects))
  BY <1>1, <1>3, PositionsCounted
<1>6. Positions(LoadRejects) \subseteq 1..Size BY <1>3 DEF LoadRejects, Positions
<1>7. /\ IsFiniteSet(Positions(LoadRejects))
      /\ Cardinality(LoadRejects) = Cardinality(Positions(LoadRejects))
  <2>1. \A r, s \in LoadRejects : r # s => r.position # s.position BY <1>3 DEF LoadRejects
  <2> QED BY <1>1, <1>6, <2>1, PositionsCounted
<1>8. Loaded \cup Positions(LoadRejects) = 1..Size
  BY <1>3 DEF Loaded, LoadRejects, Positions
<1>9. Loaded \cap Positions(LoadRejects) = {}
  BY <1>3 DEF Loaded, LoadRejects, Positions
<1>10. IsFiniteSet(Loaded) /\ IsFiniteSet(1..Size)
  <2>1. IsFiniteSet(1..Size) BY <1>1, FS_Interval
  <2> QED BY <1>8, <2>1, FS_Subset
<1>11. Cardinality(Loaded) + Cardinality(Positions(LoadRejects)) = Size
  <2>1. Cardinality(1..Size) = Size BY <1>1, FS_Interval
  <2>2. Cardinality(Loaded \cap Positions(LoadRejects)) = 0 BY <1>9, FS_EmptySet
  <2>3. Cardinality(1..Size) = Cardinality(Loaded) + Cardinality(Positions(LoadRejects))
                               - Cardinality(Loaded \cap Positions(LoadRejects))
    BY <1>7, <1>8, <1>10, FS_Union
  <2>4. Cardinality(Loaded) \in Nat /\ Cardinality(Positions(LoadRejects)) \in Nat
    BY <1>7, <1>10, FS_CardinalityType
  <2> QED BY <2>1, <2>2, <2>3, <2>4
<1>12. RowsRead = Size BY <1>7, <1>11 DEF RowsRead, RowsRejected, LoadRejects, LossInv
<1>13. ~(100 * Cardinality(rejects) > Threshold * Size) BY <1>12 DEF LossInv, Breached
<1>14. 100 * Cardinality(rejects) \in Int /\ Threshold * Size \in Int
  BY <1>1, <1>5, FS_CardinalityType, ThresholdAssumption DEF ThresholdAssumption
<1> QED BY <1>4, <1>5, <1>13, <1>14

\* No run commits having lost more of its file than the dataset's threshold, under
\* any chunk size and whatever its stages, rules and barriers reject.
THEOREM LossIsBounded == RowsSpec => []LossBounded
BY RowsInitInv, RowsStep, LossInitInv, LossStep, LossFollows, PTL DEF RowsSpec
=============================================================================
