---------------------------- MODULE StagingRows ----------------------------
(* The rows of one file on their way into bronze: the streaming stages of    *)
(* StagingLoader.load, the barriers of stage_ingest and the promotion to     *)
(* staging.<dataset>.  A row is named by its position in the file (1, 2, ..  *)
(* after the header); its fields are abstract values.                        *)
EXTENDS Normalize

CONSTANTS
    Jobs,        \* what may be staged: [dataset |-> [columns, rules, reference], file |-> [width, rows]]
    NullTokens,  \* texts declared absent for a nullable column
    Nfc,         \* text -> its NFC form, for texts that are not in it
    Matching,    \* texts a QUALITY_PATTERN rule matches
    Minimum, Maximum, \* of a QUALITY_VALIDITY_RANGE rule
    IntText,     \* texts the cast to int of the anti-join accepts
    Known,       \* keys present in the referenced table
    ChunkSize,   \* records per chunk
    Threshold    \* quality.rejection_rate_threshold, in percent

ASSUME ChunkSizeAssumption == ChunkSize \in Nat \ {0}
ASSUME ThresholdAssumption == Threshold \in Nat
ASSUME JobsAssumption == \A j \in Jobs : j.file.rows \in Seq(Range(j.file.rows))

VARIABLES
    job,       \* the file being staged and the contract of its dataset
    read,      \* positions 1..read have been handed out in chunks
    chunk,     \* positions of the chunk in flight that no stage has rejected
    at,        \* index of the stage it is at, 0 between two chunks
    row,       \* current fields of every row read
    scratch,   \* staging.<dataset>__r<run_id>: [position, number, fields]
    rejects,   \* RejectedRecords so far: [position, number, orphan]
    parsed,    \* StagingResult.rows_parsed
    phase,     \* where stage_ingest stands
    bronze,    \* committed rows of staging.<dataset>
    recorded   \* committed meta.rejected_records

rowVars == <<job, read, chunk, at, row, scratch, rejects, parsed, phase, bronze, recorded>>

Raw == job.file.rows
Size == Len(Raw)
Columns == job.dataset.columns
Rules == job.dataset.rules
RefColumn == job.dataset.reference
Target == Len(Columns)
StageOf(op, column, strategy) == [op |-> op, column |-> column, strategy |-> strategy]
Types == {"numeric", "boolean", "date", "serial", "local"}
Typed(c) == Columns[c].kind \in Types

\* The normalizers of one column: its null tokens first, then its type.
ColumnStages(c) ==
    (IF Columns[c].nullable THEN <<StageOf("null", c, "REJECT_RECORD")>> ELSE <<>>)
    \o (IF Typed(c) THEN <<StageOf("type", c, "REJECT_RECORD")>> ELSE <<>>)

QualityStages == [i \in DOMAIN Rules |-> StageOf(Rules[i].rule, Rules[i].column, Rules[i].strategy)]

Stages == <<StageOf("ragged", 1, "REJECT_RECORD"), StageOf("pad", 1, "REJECT_RECORD")>>
          \o FlattenSeq([c \in DOMAIN Columns |-> ColumnStages(c)])
          \o <<StageOf("unicode", 1, "REJECT_RECORD")>> \o QualityStages

-----------------------------------------------------------------------------
\* What each stage refuses.
Ragged(p) == Len(row[p]) # job.file.width
Unreadable(c, p) == row[p][c] # Absent /\ Normalized(Columns[c], row[p][c]) = Unparsed
Incomplete(c, p) == row[p][c] \in {Absent, <<>>}
Mismatched(c, p) == row[p][c] \notin Matching
\* Comparisons with a NaN are false.
OutOfRange(c, p) == row[p][c] = Absent \/ (row[p][c] # NaN /\ row[p][c] \notin Minimum..Maximum)
\* The rule's set of seen values lives for one chunk.
Repeated(c, p) == \E q \in chunk : q < p /\ row[q][c] = row[p][c]

Violates(s, p) ==
    CASE s.op = "ragged" -> Ragged(p)
      [] s.op = "type" -> Unreadable(s.column, p)
      [] s.op = "QUALITY_COMPLETENESS" -> Incomplete(s.column, p)
      [] s.op = "QUALITY_PATTERN" -> Mismatched(s.column, p)
      [] s.op = "QUALITY_VALIDITY_RANGE" -> OutOfRange(s.column, p)
      [] s.op = "QUALITY_UNIQUENESS" -> Repeated(s.column, p)
      [] OTHER -> FALSE

\* What each stage makes of the fields of a row it keeps.
Padded(fields) == fields \o [c \in 1..(Target - Len(fields)) |-> Absent]
NullRecognized(fields, c) == IF fields[c] \in NullTokens THEN [fields EXCEPT ![c] = Absent] ELSE fields
TypeParsed(fields, c) ==
    IF fields[c] = Absent THEN fields ELSE [fields EXCEPT ![c] = Normalized(Columns[c], fields[c])]
\* Only columns without a type hold texts that are not in NFC.
Composed(fields) ==
    [c \in DOMAIN fields |-> IF c \in DOMAIN Columns /\ ~Typed(c) /\ fields[c] \in DOMAIN Nfc
                             THEN Nfc[fields[c]] ELSE fields[c]]

Rewritten(s, fields) ==
    CASE s.op = "pad" -> Padded(fields)
      [] s.op = "null" -> NullRecognized(fields, s.column)
      [] s.op = "type" -> TypeParsed(fields, s.column)
      [] s.op = "unicode" -> Composed(fields)
      [] OTHER -> fields

\* A stage numbers a row from its place among the rows that reached the stage.
Before(p) == {q \in chunk : q < p}
FirstOrdinal == ((read - 1) \div ChunkSize) * ChunkSize
RejectNumber(p) == FirstOrdinal + Cardinality(Before(p))
\* Seeded fault: the count of the rows staged from earlier chunks is forgotten.
StagedNumberInChunk(p) == Cardinality(Before(p)) + 1
StagedNumber(p) == parsed + Cardinality(Before(p)) + 1

Escalating == {"FAIL_FILE", "QUARANTINE_FILE"}
\* WARN_AND_CONTINUE hands on the chunk as it came.
Excluded(s) == IF s.strategy = "WARN_AND_CONTINUE" THEN {}
               ELSE {p \in chunk : Violates(s, p)}
Escalates(s) == s.strategy \in Escalating /\ \E p \in chunk : Violates(s, p)

-----------------------------------------------------------------------------
RowsInit ==
    /\ job \in Jobs
    /\ read = 0 /\ at = 0 /\ parsed = 0
    /\ chunk = {} /\ scratch = {} /\ rejects = {}
    /\ row = Raw
    /\ phase = "load"
    /\ bronze = {} /\ recorded = {}

\* chunked_records yields the next records; the last chunk may be short.
ReadChunk ==
    /\ phase = "load" /\ at = 0 /\ read < Size
    /\ read' = (IF read + ChunkSize < Size THEN read + ChunkSize ELSE Size)
    /\ chunk' = (read + 1)..read'
    /\ at' = 1
    /\ UNCHANGED <<job, row, scratch, rejects, parsed, phase, bronze, recorded>>

\* One stage.apply of run_streaming, wrapped in its strategy.
ApplyStage ==
    /\ phase = "load" /\ at \in DOMAIN Stages
    /\ ~Escalates(Stages[at])
    /\ LET s == Stages[at] IN
       /\ rejects' = rejects \cup {[position |-> p, number |-> RejectNumber(p), orphan |-> FALSE] :
                                   p \in Excluded(s)}
       /\ chunk' = chunk \ Excluded(s)
       /\ row' = [p \in DOMAIN row |-> IF p \in chunk' THEN Rewritten(s, row[p]) ELSE row[p]]
    /\ at' = at + 1
    /\ UNCHANGED <<job, read, scratch, parsed, phase, bronze, recorded>>

\* The exception leaves stage_ingest; its connection rolls everything back.
Fail ==
    /\ phase' = "failed"
    /\ UNCHANGED <<job, read, chunk, at, row, scratch, rejects, parsed, bronze, recorded>>

EscalateRule ==
    /\ phase = "load" /\ at \in DOMAIN Stages
    /\ Escalates(Stages[at])
    /\ Fail

\* The COPY of a chunk: fields beyond the contract are cut off.
CopyChunk ==
    /\ phase = "load" /\ at = Len(Stages) + 1
    /\ scratch' = scratch \cup {[position |-> p, number |-> StagedNumber(p),
                                 fields |-> SubSeq(row[p], 1, Target)] : p \in chunk}
    /\ parsed' = parsed + Cardinality(chunk)
    /\ chunk' = {} /\ at' = 0
    /\ UNCHANGED <<job, read, row, rejects, phase, bronze, recorded>>

LoadDone ==
    /\ phase = "load" /\ at = 0 /\ read = Size
    /\ phase' = "referential"
    /\ UNCHANGED <<job, read, chunk, at, row, scratch, rejects, parsed, bronze, recorded>>

Reference(r) == r.fields[RefColumn]
CastFails(r) == Reference(r) # Absent /\ Reference(r) \notin IntText
Orphans == {r \in scratch : RefColumn # 0 /\ Reference(r) \notin Known}

\* ReferentialIntegrityBarrier, and the DELETE of every orphan by its row number.
Referential ==
    /\ phase = "referential"
    /\ RefColumn # 0 => ~\E r \in scratch : CastFails(r)
    /\ rejects' = rejects \cup {[position |-> r.position, number |-> r.number,
                                 orphan |-> TRUE] : r \in Orphans}
    /\ scratch' = {r \in scratch : ~\E o \in Orphans : o.number = r.number}
    /\ phase' = "gate"
    /\ UNCHANGED <<job, read, chunk, at, row, parsed, bronze, recorded>>

\* One value the anti-join cannot cast aborts its SELECT, and the transaction.
ReferentialAborts ==
    /\ phase = "referential" /\ RefColumn # 0
    /\ \E r \in scratch : CastFails(r)
    /\ Fail

\* What StagingLoader.load counted, before the referential barrier.
RowsRejected == Cardinality({r \in rejects : ~r.orphan})
RowsRead == parsed + RowsRejected

\* Seeded fault: the breaker sees what the load rejected and no orphan.
BreachedByLoad == 100 * RowsRejected > Threshold * RowsRead
\* RejectionRateCircuitBreaker over the rows read and all the rejects, orphans included.
Breached == 100 * Cardinality(rejects) > Threshold * RowsRead

TripBreaker ==
    /\ phase = "gate" /\ Breached
    /\ Fail

\* Rejects are recorded and the scratch rows appended to bronze, in one commit.
Promote ==
    /\ phase = "gate" /\ ~Breached
    /\ bronze' = scratch
    /\ recorded' = rejects
    /\ phase' = "committed"
    /\ UNCHANGED <<job, read, chunk, at, row, scratch, rejects, parsed>>

RowsNext == ReadChunk \/ ApplyStage \/ EscalateRule \/ CopyChunk \/ LoadDone
            \/ Referential \/ ReferentialAborts \/ TripBreaker \/ Promote

RowsSpec == RowsInit /\ [][RowsNext]_rowVars

-----------------------------------------------------------------------------
Positions(S) == {r.position : r \in S}

\* Type invariant: the counters of the load and the positions of the rows stay
\* within the file.
RowsTypeOK ==
    /\ read \in 0..Size /\ at \in Nat /\ parsed \in Nat
    /\ chunk \subseteq 1..read
    /\ DOMAIN row = 1..Size
    /\ Positions(scratch) \cup Positions(rejects) \cup Positions(bronze) \subseteq 1..read
    /\ phase \in {"load", "referential", "gate", "committed", "failed"}

\* No row is dropped, kept twice or both kept and rejected, at any step of the
\* streaming loop or the barriers; two staged rows never share the row number by
\* which an orphan is deleted.
RowsAccounted ==
    /\ chunk \cup Positions(scratch) \cup Positions(rejects) = 1..read
    /\ Positions(scratch) \cap Positions(rejects) = {}
    /\ chunk \cap (Positions(scratch) \cup Positions(rejects)) = {}
    /\ \A r, s \in scratch : r # s => r.number # s.number /\ r.position # s.position
    /\ \A r, s \in rejects : r # s => r.position # s.position

\* What a field should hold in bronze, read off the raw row alone.
RawField(p, c) == IF c \in DOMAIN Raw[p] THEN Raw[p][c] ELSE Absent
IsAbsent(p, c) ==
    RawField(p, c) = Absent \/ (Columns[c].nullable /\ RawField(p, c) \in NullTokens)
CleanField(p, c, Numbers) ==
    IF IsAbsent(p, c) THEN Absent
    ELSE IF Typed(c) THEN Meaning(Columns[c], RawField(p, c), Numbers)
    ELSE IF RawField(p, c) \in DOMAIN Nfc THEN Nfc[RawField(p, c)]
    ELSE RawField(p, c)
Obeys(v, r) ==
    \/ r.strategy = "WARN_AND_CONTINUE" \/ r.rule = "QUALITY_UNIQUENESS"
    \/ /\ r.rule = "QUALITY_COMPLETENESS" => v \notin {Absent, <<>>}
       /\ r.rule = "QUALITY_PATTERN" => v \in Matching
       /\ r.rule = "QUALITY_VALIDITY_RANGE" => v = NaN \/ (v \notin {Absent, Infinity} /\ Minimum <= v /\ v <= Maximum)
Sound(p, Numbers) ==
    /\ Len(Raw[p]) = job.file.width
    /\ \A c \in DOMAIN Columns : CleanField(p, c, Numbers) # Unparsed
    /\ \A i \in DOMAIN Rules : Obeys(CleanField(p, Rules[i].column, Numbers), Rules[i])
SameChunk(p, q) == (p - 1) \div ChunkSize = (q - 1) \div ChunkSize
Repeats(p, Numbers) ==
    \E i \in DOMAIN Rules, q \in 1..(p - 1) :
        /\ Rules[i].rule = "QUALITY_UNIQUENESS" /\ SameChunk(p, q) /\ Sound(q, Numbers)
        /\ CleanField(q, Rules[i].column, Numbers) = CleanField(p, Rules[i].column, Numbers)
CleanRows(Numbers) ==
    {p \in 1..Size : /\ Sound(p, Numbers) /\ ~Repeats(p, Numbers)
                     /\ RefColumn # 0 => CleanField(p, RefColumn, Numbers) \in Known}

\* What a run commits to bronze is what its file says: every sound row, once, each
\* field with the value its text denotes under the contract's locale, and no row
\* whose text denotes none or that a gate should refuse.  A number may be written
\* as the locale prints it or as Decimal() reads it besides: with underscores, an
\* exponent that the scientific-notation guard does not catch, or as NaN (which
\* passes a range rule) or Infinity.  (Numbers: those the file may
\* hold; a uniqueness rule is declared last, so the rows it sees are sound.)
CleanBronze(Numbers) ==
    phase = "committed" =>
        /\ Positions(bronze) = CleanRows(Numbers)
        /\ \A r \in bronze : r.fields = [c \in 1..Target |-> CleanField(r.position, c, Numbers)]

\* A run that commits has lost no larger share of its file than the dataset's
\* threshold, whichever stage or barrier dropped the rows.
LossBounded ==
    phase = "committed" =>
        100 * Cardinality((1..Size) \ Positions(bronze)) <= Threshold * Size
=============================================================================
