------------------------------ MODULE CsvFile ------------------------------
(* One object of the raw bucket on its way through CsvSource: inspect()'s    *)
(* detectors over a bounded sample, the resolution of its schema, its        *)
(* filename, and the stream of records that open() hands to the loader.      *)
(* A row is a sequence of fields, a field an abstract text; a field and a    *)
(* line end count one unit of size each.                                     *)
EXTENDS Integers, Sequences, FiniteSets, SequencesExt

CONSTANTS
    None,
    Works,       \* [contract, file, start, history]: what a stage pod may be given
    Numeric,     \* texts float() parses
    CaseFold,    \* text -> its casefold, for texts that differ from it
    Trim,        \* text -> its strip(), likewise
    Marked,      \* a first header name that carries the byte-order mark
    Joined,      \* what a row looks like under a delimiter it does not use
    Long,        \* texts over max_field_bytes
    Impossible,  \* digits that are no date
    Sample,      \* _INSPECT_SAMPLE_BYTES, in units
    Ceiling,     \* max_decompressed_bytes
    GuardChunk,  \* _BOUNDED_READ_CHUNK_BYTES
    ChunkSize,   \* records per chunk
    MaxParts,    \* _MAX_MULTIPART_PARTS
    MaxSyncs     \* schema versions other files add meanwhile

VARIABLES
    work,      \* the object, its dataset's contract, the ordinal to resume from
    history,   \* meta.schema_versions of the dataset, each a sequence of names
    phase,
    encoding,  \* CsvProfile.encoding
    split,     \* the delimiter found: "right", "wrong" or None (declined)
    header,    \* HeaderDetection: [index, names], index 0 when none was found
    current,   \* what get_current returned: its number, or 0
    facets,    \* CsvProfile.filename_facets
    part,      \* the part being streamed
    pulled,    \* units its decompressor has produced
    taken,     \* rows consumed from the combined stream
    delivered  \* records handed to the loader

csvVars == <<work, history, phase, encoding, split, header, current, facets, part, pulled,
             taken, delivered>>
profileVars == <<encoding, split, header, current, facets>>
streamVars == <<part, pulled, taken, delivered>>

Contract == work.contract
File == work.file
\* The lines of its parts one after another; part p ends with line ends[p].
Lines == File.lines
LinesBefore(p) == IF p = 1 THEN 0 ELSE File.ends[p - 1]
Parts == [p \in DOMAIN File.ends |-> SubSeq(Lines, LinesBefore(p) + 1, File.ends[p])]
Compressed == File.suffix # ".csv"
Names == [c \in DOMAIN Contract.columns |-> Contract.columns[c].name]
Optional(c) == ~Contract.columns[c].required

Get(f, v) == IF v \in DOMAIN f THEN f[v] ELSE v
Units(rows) == UNION {{i} \X (0..Len(rows[i])) : i \in DOMAIN rows}
SizeOf(rows) == Cardinality(Units(rows))

Fail == phase' = "failed"

-----------------------------------------------------------------------------
(* What a stage pod may be given.                                            *)

ASSUME SizeAssumption ==
    /\ {Sample, Ceiling} \subseteq Nat /\ {GuardChunk, ChunkSize} \subseteq Nat \ {0}
    /\ None \notin Nat

IsSeq(s) == s \in Seq(Range(s))

\* The parts of an object end one behind the other, the last with the last line.
WorkTyped(w) ==
    LET f == w.file IN
    /\ IsSeq(f.head) /\ IsSeq(f.lines) /\ \A i \in DOMAIN f.lines : IsSeq(f.lines[i])
    /\ f.ends \in Seq(Nat) /\ f.ends # <<>> /\ f.ends[Len(f.ends)] = Len(f.lines)
    /\ \A p, q \in DOMAIN f.ends : p <= q => f.ends[p] <= f.ends[q]
    /\ w.contract.headerRow \in {None} \cup (Nat \ {0})
    /\ w.start \in {None} \cup Nat
    /\ IsSeq(w.contract.columns) /\ IsSeq(w.history)

\* What was recorded before has the contract's columns first.
HistorySound(w) ==
    \A i \in DOMAIN w.history :
        IsPrefix([c \in DOMAIN w.contract.columns |-> w.contract.columns[c].name], w.history[i])

\* The marks of the Unicode standard.  A file with one is in the encoding the
\* longest that it begins with stands for.
ByteOrderMarks == {[bytes |-> <<239, 187, 191>>, codec |-> "utf-8-sig"],
                   [bytes |-> <<255, 254, 0, 0>>, codec |-> "utf-32"],
                   [bytes |-> <<0, 0, 254, 255>>, codec |-> "utf-32"],
                   [bytes |-> <<255, 254>>, codec |-> "utf-16"],
                   [bytes |-> <<254, 255>>, codec |-> "utf-16"]}
MarkTold(f) ==
    LET begun == {m \in ByteOrderMarks : IsPrefix(m.bytes, f.head)} IN
    \A m \in begun : (\A n \in begun : Len(n.bytes) <= Len(m.bytes)) => f.codec = m.codec

\* A contract requires a column, and a file names those it requires in one line at
\* most; neither a marked name nor an unsplit line is one of them.
RequiredNames(w) ==
    {w.contract.columns[c].name : c \in {d \in DOMAIN w.contract.columns : w.contract.columns[d].required}}
ReadNames(w, row) == {IF w.contract.trim THEN Get(Trim, v) ELSE v : v \in Range(row)}
NamedOnce(w) ==
    /\ RequiredNames(w) # {}
    /\ RequiredNames(w) \cap (ReadNames(w, <<Marked>>) \cup ReadNames(w, <<Joined>>)) = {}
    /\ \A i \in DOMAIN w.file.lines :
          RequiredNames(w) \subseteq ReadNames(w, w.file.lines[i]) => i = w.file.header

ASSUME WorkAssumption ==
    \A w \in Works : WorkTyped(w) /\ HistorySound(w) /\ MarkTold(w.file) /\ NamedOnce(w)

-----------------------------------------------------------------------------
(* Detectors.                                                                *)

\* Seeded fault: the UTF-16 marks come first: UTF-32LE's begins with UTF-16LE's.
ShortBomFirst == <<[bytes |-> <<255, 254>>, codec |-> "utf-16"],
                   [bytes |-> <<254, 255>>, codec |-> "utf-16"],
                   [bytes |-> <<239, 187, 191>>, codec |-> "utf-8-sig"],
                   [bytes |-> <<255, 254, 0, 0>>, codec |-> "utf-32"],
                   [bytes |-> <<0, 0, 254, 255>>, codec |-> "utf-32"]>>

BomTable == <<[bytes |-> <<239, 187, 191>>, codec |-> "utf-8-sig"],
              [bytes |-> <<255, 254, 0, 0>>, codec |-> "utf-32"],
              [bytes |-> <<0, 0, 254, 255>>, codec |-> "utf-32"],
              [bytes |-> <<255, 254>>, codec |-> "utf-16"],
              [bytes |-> <<254, 255>>, codec |-> "utf-16"]>>

\* Entries of the table the sample starts with; the first of them counts.
Boms(head) == {i \in DOMAIN BomTable : IsPrefix(BomTable[i].bytes, head)}

\* The encodings a sample may be given: by the contract, by its mark, or by
\* two detectors.  One of them ranks its guesses; a guess close to its best is
\* taken if the other detector names it, and their disagreement is not resolved.
Corroborated(best, near, second) ==
    IF second = best \/ second \in near THEN second ELSE "undetermined"

Encodings ==
    IF Contract.encoding # None THEN {Contract.encoding}
    ELSE IF Boms(File.head) # {} THEN {BomTable[Min(Boms(File.head))].codec}
    ELSE {Corroborated(best, near, File.codec) : best \in File.guesses, near \in SUBSET File.guesses}

\* decode_strict over the sample: no such codec, or bytes it does not admit.  A
\* sample ends after so many bytes, in the middle of a character if need be.
Decodes(e) == e # "undetermined" /\ (e = File.codec \/ e \in File.admits)
CutsCharacter == File.straddles /\ SizeOf(Parts[1]) > Sample

\* The text a reader sees: a mark the codec does not know stays in the first field.
Decoded(rows) ==
    IF encoding = "utf-8" /\ Boms(File.head) # {} /\ rows # <<>> /\ rows[1] # <<>>
    THEN [rows EXCEPT ![1] = [@ EXCEPT ![1] = Marked]] ELSE rows

Parsed(rows) == IF split = "right" THEN Decoded(rows) ELSE [i \in DOMAIN rows |-> <<Joined>>]

\* Rows of the sample; its last one may be cut off after some field.
SampledRow(rows, i) ==
    SubSeq(rows[i], 1, Min({Len(rows[i]), Max({0, Sample - SizeOf(SubSeq(rows, 1, i - 1))})}))
SampledRows ==
    LET first == Parsed(Parts[1])
        begun == {i \in DOMAIN first : SizeOf(SubSeq(first, 1, i - 1)) < Sample}
    IN  [i \in 1..Cardinality(begun) |-> SampledRow(first, i)]

\* Counter.most_common: of equally frequent counts, the one seen first.
ModalCount(rows) ==
    LET Times(i) == Cardinality({j \in DOMAIN rows : Len(rows[j]) = Len(rows[i])})
    IN  Len(rows[CHOOSE i \in DOMAIN rows :
                   \A j \in DOMAIN rows : Times(j) < Times(i) \/ (Times(j) = Times(i) /\ i <= j)])

HeaderShaped(rows, i) ==
    /\ rows[i] # <<>>
    /\ \A c \in DOMAIN rows[i] : rows[i][c] # "" /\ rows[i][c] \notin Numeric
    /\ LET following == SubSeq(rows, i + 1, Len(rows))
       IN  following = <<>> \/ Len(rows[i]) = ModalCount(following)

DuplicateNames(row) ==
    \E c, d \in DOMAIN row : c # d /\ Get(CaseFold, row[c]) = Get(CaseFold, row[d])

HeaderCandidates(rows) == {i \in DOMAIN rows : HeaderShaped(rows, i)}
HeaderIndex(rows) ==
    IF Contract.headerRow # None THEN Contract.headerRow
    ELSE IF HeaderCandidates(rows) = {} THEN 0 ELSE Min(HeaderCandidates(rows))

Trimmed(row) == IF Contract.trim THEN [c \in DOMAIN row |-> Get(Trim, row[c])] ELSE row

-----------------------------------------------------------------------------
(* The filename mask: a sequence of tokens, literals, fields and brackets.   *)

Separators == {"_", ".", "/"}
\* Seeded fault: a text field runs over separators.
AnyText(text, i, j) == TRUE
TextField(text, i, j) == \A k \in i..j : text[k] \notin Separators
DigitField(text, i, j) == \A k \in i..j : text[k] \in {"0", "1"}

NoMatch == {<<>>}
Closing(mask, p) == Min({q \in p..Len(mask) : mask[q].kind = "]"})

\* The whole text from position i against the mask from token p on: the fields
\* found, each with where it begins and ends.  A text field is greedy, and a
\* bracketed segment is left out only if the rest does not match with it.
MatchFrom(mask, text) ==
    LET f[p \in 1..(Len(mask) + 1), i \in 1..(Len(text) + 1)] ==
          IF p > Len(mask) THEN IF i > Len(text) THEN {} ELSE NoMatch
          ELSE LET t == mask[p]
                   Ends(ok(_, _, _), lengths) ==
                       {j \in i..Len(text) : /\ j - i + 1 \in lengths /\ ok(text, i, j)
                                             /\ f[p + 1, j + 1] # NoMatch}
                   Found(ends) == IF ends = {} THEN NoMatch
                                  ELSE {<<t.name, i, Max(ends)>>} \cup f[p + 1, Max(ends) + 1]
               IN CASE t.kind = "literal" ->
                         IF i <= Len(text) /\ text[i] = t.name THEN f[p + 1, i + 1] ELSE NoMatch
                    [] t.kind = "[" ->
                         IF f[p + 1, i] # NoMatch THEN f[p + 1, i] ELSE f[Closing(mask, p) + 1, i]
                    [] t.kind = "]" -> f[p + 1, i]
                    [] t.kind = "text" -> Found(Ends(TextField, 1..Len(text)))
                    [] OTHER -> Found(Ends(DigitField, {t.width}))
    IN  f[1, 1]

\* Brackets nest, close unopened or stay open: compile_mask refuses the mask.
Opens(mask, p) == Cardinality({q \in 1..p : mask[q].kind = "["})
Closes(mask, p) == Cardinality({q \in 1..p : mask[q].kind = "]"})
Malformed(mask) ==
    \/ \E p \in DOMAIN mask : Opens(mask, p) - Closes(mask, p) \notin {0, 1}
    \/ Opens(mask, Len(mask)) # Closes(mask, Len(mask))

\* match_filename converts what it captured; no date is found in some digits.
FacetsOf(mask, text) ==
    {<<m[1], SubSeq(text, m[2], m[3])>> : m \in MatchFrom(mask, text)}
DateFields(mask) == {mask[p].name : p \in {q \in DOMAIN mask : mask[q].kind = "date"}}

-----------------------------------------------------------------------------
(* The steps of a stage pod.                                                 *)

CsvInit ==
    /\ work \in Works
    /\ history = work.history
    /\ phase = "new"
    /\ encoding = None /\ split = None /\ current = 0 /\ facets = {}
    /\ header = [index |-> 0, names |-> <<>>]
    /\ part = 1 /\ pulled = 0 /\ taken = 0 /\ delivered = <<>>

Go(next) == phase' = next

\* CsvSource(...), and the sample of the first part.
ReadSample ==
    /\ phase = "new"
    /\ IF Len(Parts) > MaxParts \/ (Compressed /\ File.members # 1) THEN Fail ELSE Go("decode")
    /\ UNCHANGED <<work, history, profileVars, streamVars>>

DetectEncoding ==
    /\ phase = "decode"
    /\ \E e \in Encodings :
        /\ encoding' = e
        /\ IF ~Decodes(e) \/ (CutsCharacter /\ e = File.codec) THEN Fail ELSE Go("dialect")
    /\ UNCHANGED <<work, history, split, header, current, facets, streamVars>>

\* Detection may take another delimiter for the file's, or find none.
DetectDialect ==
    /\ phase = "dialect"
    /\ split' \in (IF Contract.delimiter THEN {"right"} ELSE File.delimiters)
    /\ Go("header")
    /\ UNCHANGED <<work, history, encoding, header, current, facets, streamVars>>

DetectHeader ==
    /\ phase = "header"
    /\ LET rows == IF split = None THEN <<>> ELSE SampledRows
           i == HeaderIndex(rows)
       IN  IF i > Len(rows) \/ (i > 0 /\ DuplicateNames(rows[i])) THEN Fail /\ UNCHANGED header
           ELSE /\ header' = [index |-> i, names |-> IF i = 0 THEN <<>> ELSE Trimmed(rows[i])]
                /\ Go("schema")
    /\ UNCHANGED <<work, history, encoding, split, current, facets, streamVars>>

\* schema_repo.get_current, on a connection of its own.
ReadCurrent ==
    /\ phase = "schema"
    /\ current' = Len(history)
    /\ Go("resolve")
    /\ UNCHANGED <<work, history, encoding, split, header, facets, streamVars>>

\* classify_schema_change of the header against the contract.
Observed == header.names
Carried == Range(Observed)
Disappeared == \E c \in DOMAIN Names : Names[c] \notin Carried /\ ~Optional(c)
Added == Carried \ Range(Names) # {}
ContractFirst == SubSeq(Observed, 1, Min({Len(Observed), Len(Names)})) = Names
OnlyTrailingOptionalMissing ==
    /\ IsPrefix(Observed, Names)
    /\ \A c \in (Len(Observed) + 1)..Len(Names) : Optional(c)

\* Seeded fault: names in any order will do.
LoadableInAnyOrder == ~Disappeared
\* The loader maps values to columns by position, so these files it can load.
Loadable == ~Disappeared /\ (IF Added THEN ContractFirst ELSE OnlyTrailingOptionalMissing)

\* SchemaRepository.sync compares with the version that is current now.
Synced(shape) == IF history # <<>> /\ Last(history) = shape THEN history ELSE Append(history, shape)

\* resolve_by_hash of the contract's own shape: its row, or a StorageError.
ContractRecorded == Names \in Range(history)

ResolveSchema ==
    /\ phase = "resolve"
    /\ \/ current = 0 /\ history' = Synced(Names) /\ Go("filename")
       \/ current > 0 /\ ~Loadable /\ UNCHANGED history /\ Fail
       \/ current > 0 /\ Loadable /\ Added /\ history' = Synced(Observed) /\ Go("filename")
       \/ /\ current > 0 /\ Loadable /\ ~Added /\ Observed # Names
          /\ history' = (IF ContractRecorded THEN history ELSE Synced(Names))
          /\ Go("filename")
       \/ /\ current > 0 /\ Observed = Names
          /\ IF history[current] = Names THEN history' = Synced(Names) /\ Go("filename")
             ELSE UNCHANGED history /\ IF ContractRecorded THEN Go("filename") ELSE Fail
    /\ UNCHANGED <<work, profileVars, streamVars>>

ParseFilename ==
    /\ phase = "filename"
    /\ LET mask == Contract.mask
           found == FacetsOf(mask, File.name)
           dated == {m \in found : m[1] \in DateFields(mask) /\ m[2] \in Impossible}
       IN  IF mask = <<>> THEN UNCHANGED facets /\ Go("open")
           ELSE IF Malformed(mask) \/ MatchFrom(mask, File.name) = NoMatch \/ dated # {}
           THEN UNCHANGED facets /\ Fail
           ELSE facets' = found /\ Go("open")
    /\ UNCHANGED <<work, history, encoding, split, header, current, streamVars>>

\* to_stdlib_dialect refuses a declined detection.
OpenStream ==
    /\ phase = "open"
    /\ IF split = None THEN Fail ELSE Go("stream")
    /\ UNCHANGED <<work, history, profileVars, streamVars>>

\* Seeded fault: the first line of every part is taken for a header.
StreamOfBodies ==
    Parsed(FlattenSeq([p \in DOMAIN Parts |-> SubSeq(Parts[p], IF p = 1 THEN 1 ELSE 2, Len(Parts[p]))]))
\* The parts one after another, as lines of one stream.
Stream == Parsed(Lines)
Preamble == IF header.index = 0 THEN 0 ELSE header.index - 1
Available ==
    LinesBefore(part)
    + Cardinality({i \in DOMAIN Parts[part] : SizeOf(SubSeq(Parts[part], 1, i)) <= pulled})
AtEnd == part = Len(Parts) /\ pulled = SizeOf(Parts[part])
First == IF taken = 0 THEN Preamble + 1 ELSE taken
Wanted == First + ChunkSize

\* Seeded fault: the guard looks before it counts.
TrippedBefore(units) == Compressed /\ pulled > Ceiling
\* _read_one_bounded_chunk: counts what the decompressor gave, then looks.
Tripped(units) == Compressed /\ units > Ceiling

Pull ==
    /\ phase = "stream" /\ Available < Wanted /\ ~AtEnd
    /\ LET left == SizeOf(Parts[part]) - pulled IN
       IF left = 0 THEN part' = part + 1 /\ pulled' = 0 /\ UNCHANGED phase
       ELSE /\ pulled' = pulled + Min({GuardChunk, left})
            /\ UNCHANGED part
            /\ IF Tripped(pulled') THEN Fail ELSE UNCHANGED phase
    /\ UNCHANGED <<work, history, profileVars, taken, delivered>>

\* chunks(start_ordinal) passes over the chunks that end at or before it.
Skipped(first, n) == work.start # None /\ first + n <= work.start

ReadRecords ==
    /\ phase = "stream" /\ (Available >= Wanted \/ AtEnd)
    /\ LET last == Min({Wanted, Len(Stream)})
           rows == SubSeq(Stream, First + 1, last)
       IN  IF \E i \in (taken + 1)..last : Range(Stream[i]) \cap Long # {}
           THEN Fail /\ UNCHANGED <<taken, delivered>>
           ELSE IF rows = <<>> THEN Go("done") /\ UNCHANGED <<taken, delivered>>
           ELSE /\ taken' = last
                /\ delivered' = (IF Skipped(First - Preamble - 1, Len(rows)) THEN delivered
                                 ELSE delivered \o rows)
                /\ UNCHANGED phase
    /\ UNCHANGED <<work, history, profileVars, part, pulled>>

\* Another file of the dataset is resolved by another pod.
OtherFileSyncs ==
    /\ phase \notin {"done", "failed"}
    /\ Len(history) < Len(work.history) + MaxSyncs
    /\ \E extra \in {<<>>, <<"other">>} :
        /\ history = <<>> => extra = <<>>
        /\ Synced(Names \o extra) # history
        /\ history' = Synced(Names \o extra)
    /\ UNCHANGED <<work, phase, profileVars, streamVars>>

CsvNext == ReadSample \/ DetectEncoding \/ DetectDialect \/ DetectHeader \/ ReadCurrent
           \/ ResolveSchema \/ ParseFilename \/ OpenStream \/ Pull \/ ReadRecords
           \/ OtherFileSyncs

CsvSpec == CsvInit /\ [][CsvNext]_csvVars

-----------------------------------------------------------------------------
Inspected == {"filename", "open", "stream", "done"}

\* A file without a contract encoding is read in the encoding it was written in, or not
\* at all: no mark is taken for a shorter one, no guess of one detector is enough.
ReadAsWritten ==
    phase \in Inspected /\ Contract.encoding = None => encoding = File.codec

\* The line read off as the header ends within the sample: of a line that does not,
\* the classifier sees the columns before the cut only.
HeaderWhole == header.index > 0 => SampledRow(Parsed(Parts[1]), header.index) = Stream[header.index]

\* Each contract column is at its place, or an optional one is left out at the end.
AtItsPlace(line) ==
    \A c \in DOMAIN Names : IF c \in DOMAIN line THEN line[c] = Names[c] ELSE Optional(c)

\* The loader maps values to columns by position.  Once its dataset has a recorded
\* schema, a file that gets as far as the stream carries, in the line that is read
\* off as the header, each contract column at its place or leaves out optional ones
\* at the end; and no recorded shape places the contract's columns elsewhere.
ColumnsAligned ==
    /\ phase \in {"stream", "done"} /\ current > 0 /\ HeaderWhole =>
         AtItsPlace(Trimmed(Stream[Preamble + 1]))
    /\ \A i \in DOMAIN history : IsPrefix(Names, history[i])

\* The records of a file that names its columns once, over all its parts, reach the
\* loader in order, none lost and none twice; a resumed stream begins with the
\* chunk that holds the ordinal asked for.
Data == SubSeq(Lines, File.header + 1, Len(Lines))
From == IF work.start = None THEN 0 ELSE Min({work.start, Len(Data)})
RowsDelivered ==
    phase = "done" /\ current > 0 =>
        /\ IsSuffix(delivered, Data)
        /\ Len(Data) - From <= Len(delivered)
        /\ Len(delivered) < Len(Data) - From + ChunkSize

\* What a decompressor may produce of one object is bounded, however small the
\* object: it stops within a read of the ceiling, and what is over is never loaded.
BombBounded ==
    Compressed =>
                  /\ pulled <= Ceiling + GuardChunk
                  /\ phase = "done" => \A p \in DOMAIN Parts : SizeOf(Parts[p]) <= Ceiling

\* A name built from a mask gives back the facets it was built from.
FacetsRead == phase \in {"open", "stream", "done"} => facets = File.facets
=============================================================================
