----------------------------- MODULE MCCsvFile -----------------------------
(* Instances of CsvFile for TLC: plain, compressed and multi-part files of a *)
(* dataset of three columns, the last one optional; marked and unmarked      *)
(* files; names built from masks.                                            *)
EXTENDS CsvFile, TLC

Columns == <<[name |-> "id", required |-> TRUE], [name |-> "city", required |-> TRUE],
             [name |-> "note", required |-> FALSE]>>
Plain == [columns |-> Columns, headerRow |-> None, trim |-> FALSE, encoding |-> None,
          delimiter |-> TRUE, mask |-> <<>>]
Contracts == {Plain, [Plain EXCEPT !.headerRow = 2], [Plain EXCEPT !.trim = TRUE],
              [Plain EXCEPT !.delimiter = FALSE]}

H == <<"id", "city", "note">>
Heads == {H, <<"id", "city">>, <<"id", "note", "city">>, <<"city", "id">>, <<"id", "city", "extra">>,
          <<"id", "city", "note", "extra">>, <<"id", "extra", "city", "note">>, <<"id", " city", "note">>,
          <<"id", "ID", "city", "note">>}
Row(k) == <<k, "Oslo", "7">>
Bodies == {<<>>, <<Row("1")>>, <<Row("1"), Row("2"), Row("3")>>,
           <<<<"1", "Oslo">>, <<"2", "Oslo">>, <<>>, <<"total">>>>,
           <<Row("1"), Row("2"), <<"3", "", "x">>, Row("4"), Row("5")>>,
           <<Row("1"), <<"2", "huge", "x">>>>}

Titles == {<<>>, <<<<"Report">>>>, <<<<"Report", "7", "">>, <<>>>>, <<<<"Orders", "of", "May">>>>,
           <<[w \in 1..11 |-> "word"]>>}

Base == [suffix |-> ".csv", members |-> 1, head |-> <<>>, codec |-> "utf-8",
         guesses |-> {"utf-8"}, admits |-> {}, straddles |-> FALSE, delimiters |-> {"right"},
         name |-> <<>>, facets |-> {}]
WithParts(b, parts, index) ==
    b @@ [lines |-> FlattenSeq(parts),
          ends |-> [p \in DOMAIN parts |-> Len(FlattenSeq(SubSeq(parts, 1, p)))],
          header |-> index]
Texts(b) == {WithParts(b, <<title \o <<h>> \o body>>, Len(title) + 1) :
                title \in Titles, h \in Heads, body \in Bodies}
Headless(b) == {WithParts(b, <<body>>, 0) : body \in Bodies}
Split(b) == {WithParts(b, <<<<h, Row("1")>>, <<Row("2"), Row("3")>>, <<Row("4")>>>>, 1) : h \in Heads}
            \cup {WithParts(b, <<<<Row("2")>>, <<Row("3")>>>>, 0),
                  WithParts(b, <<<<H>>, <<>>, <<>>, <<>>>>, 1)}

Histories == {<<>>, <<H>>, <<H, H \o <<"extra">>>>, <<H \o <<"extra">>>>}
Given(C, F, S, G) == {[contract |-> c, file |-> f, start |-> s, history |-> g] :
                         c \in C, f \in F, s \in S, g \in G}

\* Rows: every head and body under every contract, from every ordinal.
RowWorks ==
    Given(Contracts, Texts([Base EXCEPT !.delimiters = {"right", "wrong", None}]), {None}, Histories)
    \cup Given({Plain}, Texts(Base), {0, 1, 2, 3, 4, 9}, {<<H>>})
    \cup Given({Plain, [Plain EXCEPT !.headerRow = 2]}, Headless(Base) \cup Split(Base), {None, 3}, Histories)

\* Archives: an empty, a broken and a crowded one, one within and some over the ceiling.
Rows(n) == <<H>> \o [i \in 1..n |-> Row("1")]
ArchiveWorks ==
    LET zip == [Base EXCEPT !.suffix = ".zip"] IN
    Given({Plain}, {WithParts(zip, <<Rows(n)>>, 1) : n \in 0..9}
                   \cup {WithParts([zip EXCEPT !.members = m], <<Rows(1)>>, 1) : m \in {0, 2}}
                   \cup {WithParts(zip, <<Rows(2), SubSeq(Rows(n), 2, n + 1)>>, 1) : n \in {2, 9}}
                   \cup {WithParts(Base, <<Rows(9)>>, 1)},
          {None}, {<<H>>})

\* Encodings: each mark, none, a mark the contract does not expect, a cut character.
EncodingWorks ==
    LET Encoded == {[Base EXCEPT !.head = m.bytes, !.codec = m.codec, !.guesses = {"utf-8"},
                                 !.admits = {"utf-16", "cp1250"}] : m \in ByteOrderMarks}
                   \cup {[Base EXCEPT !.codec = c, !.guesses = {"cp1250", "utf-8"}, !.admits = {"cp1250"},
                                      !.straddles = t] : c \in {"cp1250", "utf-8"}, t \in BOOLEAN}
        Decided == {[Plain EXCEPT !.encoding = e] : e \in {None, "utf-8", "cp1250"}}
    IN  Given(Decided, {WithParts(b, <<Rows(n)>>, 1) : b \in Encoded, n \in {2, 6}}, {None}, {<<>>, <<H>>})

\* Names: every mask over every pair of a source and a part number, and other names.
Token(kind, name, width) == [kind |-> kind, name |-> name, width |-> width]
Lit(s) == Token("literal", s, 0)
Source == Token("text", "source", 0)
Seq2 == Token("digits", "seq", 2)
Day == Token("date", "day", 2)
Bracket(b) == Token(b, "", 0)
Numbered == <<Bracket("["), Lit("_"), Seq2, Bracket("]")>>
Masks == {<<Source, Lit("_"), Day>> \o Numbered \o <<Lit(".")>>, <<Source, Seq2>>}
Broken == {<<Bracket("["), Source>>, <<Source, Bracket("]")>>,
           <<Bracket("["), Bracket("["), Source, Bracket("]"), Bracket("]")>>}
Sources == {<<"a">>, <<"a", "1">>, <<"0", "1">>}
Pairs == {<<"0", "1">>, <<"1", "1">>, <<"0", "0">>}
Built ==
    {[name |-> s \o <<"_">> \o d \o <<".">>, facets |-> {<<"source", s>>, <<"day", d>>}] :
        s \in Sources, d \in Pairs}
    \cup {[name |-> s \o <<"_">> \o d \o <<"_">> \o q \o <<".">>,
           facets |-> {<<"source", s>>, <<"day", d>>, <<"seq", q>>}] :
        s \in Sources, d \in Pairs, q \in Pairs}
    \cup {[name |-> s \o q, facets |-> {<<"source", s>>, <<"seq", q>>}] : s \in Sources, q \in Pairs}
    \cup {[name |-> t, facets |-> {}] : t \in {<<>>, <<"_">>, <<"a", "_", "1">>, <<"_", "0", "1", ".">>}}
NameWorks ==
    Given({[Plain EXCEPT !.mask = m] : m \in Masks \cup Broken},
          {WithParts([Base EXCEPT !.name = b.name, !.facets = b.facets], <<Rows(1)>>, 1) : b \in Built},
          {None}, {<<H>>})

AllWorks == RowWorks \cup ArchiveWorks \cup EncodingWorks \cup NameWorks
Figures == {"1", "2", "3", "4", "5", "7"}
Folds == "ID" :> "id"
Strips == " city" :> "city"
Huge == {"huge"}
NoDay == {<<"0", "0">>}
=============================================================================
