--------------------------- MODULE MCStagingRows ---------------------------
(* Instances of StagingRows for TLC.  One dataset has a key, a reference and *)
(* an optional amount, under every set of rules; four one-column datasets    *)
(* meet the texts of the normalizers.                                        *)
EXTENDS StagingRows, TLC

CONSTANT MaxRows

Text(s) == <<s>>
European == [decimal |-> ",", thousands |-> ".", symbols |-> {"$"}, percent |-> TRUE,
             negative |-> "parentheses", scientific |-> TRUE, width |-> 0,
             sentinels |-> {<<"-", "1">>}]
Plain == [decimal |-> ".", thousands |-> Absent, symbols |-> {}, percent |-> FALSE,
          negative |-> "leading-minus", scientific |-> FALSE, width |-> 1, sentinels |-> {}]
Trailing == [decimal |-> ".", thousands |-> ",", symbols |-> {"K"}, percent |-> FALSE,
             negative |-> "trailing-minus", scientific |-> FALSE, width |-> 2, sentinels |-> {}]
Tokens == [true |-> {Text("Y"), Text("T")}, false |-> {Text("N")}]

\* Amounts in hundredths.
Amounts == {0, 5, 50, 700, 9900, -700, 123456, -123456, 100000}

Column(kind, nullable, profile) == [kind |-> kind, nullable |-> nullable, profile |-> profile]
Orders == <<Column("string", FALSE, Absent), Column("string", FALSE, Absent),
            Column("numeric", TRUE, Plain)>>
Row(key, ref, amount) == <<Text(key), Text(ref), amount>>

\* k1, k1 in its decomposed form, an amount out of range, one that is no number, a null
\* token, a short and a wide row, an unknown reference, a blank key.
PlainRow == {Row("k1", "1", <<"7">>), Row("k1d", "1", <<"7", ".", "0">>),
             Row("k2", "1", <<"9", "9">>), Row("k2", "1", <<"x">>),
             Row("k3", "1", <<"N", "A">>), <<Text("k4"), Text("1")>>,
             Row("k5", "1", <<"7">>) \o <<Text("new")>>, Row("k6", "9", <<"7">>),
             <<<<>>, Text("1"), <<"7">>>>}
\* A row whose reference is no number at all, and amounts that are no numbers.
TextRow == {Row("k1", "1", <<"7">>), Row("k7", "text", <<"7">>),
            Row("k5", "1", <<"N", "a", "N">>),
            Row("k4", "1", <<"I", "n", "f", "i", "n", "i", "t", "y">>)}
Files(R, w, most) == {[width |-> w, rows |-> r] : r \in UNION {[1..n -> R] : n \in 0..most}}

Rule(r, c, s) == [rule |-> r, column |-> c, strategy |-> s]
RuleSets == {<<>>,
             <<Rule("QUALITY_COMPLETENESS", 1, "REJECT_RECORD"),
               Rule("QUALITY_UNIQUENESS", 1, "QUARANTINE_RECORD")>>,
             <<Rule("QUALITY_PATTERN", 1, "WARN_AND_CONTINUE"),
               Rule("QUALITY_VALIDITY_RANGE", 3, "REJECT_RECORD")>>,
             <<Rule("QUALITY_PATTERN", 1, "FAIL_FILE")>>}
OrdersJobs ==
    {[dataset |-> [columns |-> Orders, rules |-> r, reference |-> 2], file |-> f] :
        r \in RuleSets, f \in Files(PlainRow, 3, MaxRows) \cup Files(PlainRow, 2, 1)
                            \cup Files(PlainRow, 4, 1) \cup Files(TextRow, 3, MaxRows)}

\* Texts in every way a locale may print the amounts or Decimal() reads
\* them besides, in a spreadsheet's scientific notation, and as nothing reads them.
Junk == {<<>>, <<"N", "A">>, <<"x">>, <<"-">>, <<"(", "7">>, <<"7", "7", "x">>, <<"7", "E">>,
         <<"E", "7">>, <<"7", "-", "7">>} \cup NonFinite
EuropeanJunk == {<<"-", "1">>, <<"1", "E", "+", "1", "4">>, <<"7", ",", "0", ",", "0">>}
\* Exponents only on amounts that no misreading takes out of TLC's integers.
Printed(profile) == UNION {Renderings(profile, n) : n \in Amounts}
                    \cup UNION {Literals(profile, n) : n \in Amounts \cap (-9999)..9999}
                    \cup {<<"1", "_", "0", "0", "0">>}
Spreadsheet == UNION {Exponential(".", n, 1) : n \in Amounts \cap 0..9999}
\* The second row is sound: a file that loses the first one still commits.
ValueJobs(column, texts, sound) ==
    {[dataset |-> [columns |-> <<column>>, rules |-> <<>>, reference |-> 0],
      file |-> [width |-> 1, rows |-> <<<<t>>, <<sound>>>>]] : t \in texts}
NumericJobs ==
    UNION {ValueJobs(Column("numeric", n, European),
                     Printed(European) \cup Spreadsheet \cup Junk \cup EuropeanJunk, <<"9", "9">>)
           \cup ValueJobs(Column("numeric", n, Trailing), Printed(Trailing) \cup Junk, <<"9", "9">>) : n \in BOOLEAN}
TokenJobs == ValueJobs(Column("boolean", TRUE, Tokens), {Text("Y"), Text("N"), Text("maybe"), <<>>}, Text("Y"))

\* Two-digit years as strptime reads them (69 and later in the 1900s), four-digit
\* ones, times of day with and without an offset, serials around the phantom day, and
\* the hours of a year with one gap and one overlap.
Years == [y \in {0, 29, 30, 68, 69, 99} |->
             [year |-> IF y < 69 THEN 2000 + y ELSE 1900 + y, hour |-> 0, zone |-> Absent]]
Aware == [h \in {1, 23} \X {-5, 0, 2, Absent} |-> [year |-> 2069, hour |-> h[1], zone |-> h[2]]]
Serials == {0, 1, 58, 59, 60, 61, 62, 366}
Zone == [u \in 0..9 |-> IF u \in 3..5 THEN 2 ELSE 1]
Hours == 1..9
Read == [y \in {<<"year", k>> : k \in DOMAIN Years} |-> Years[y[2]]]
        @@ [t \in {<<"time", k>> : k \in DOMAIN Aware} |-> Aware[t[2]]]
        @@ [s \in {<<"serial", k>> : k \in Serials} |-> s[2]]
        @@ [h \in {<<"hour", k>> : k \in Hours} |-> h[2]]
Of(tag) == {t \in DOMAIN Read : t[1] = tag} \cup {<<"no", 0>>}
Format(pivoted, timed) == [pivoted |-> pivoted, timed |-> timed]
TimeJobs == UNION {ValueJobs(Column("date", FALSE, Format(b, FALSE)), Of("year"), <<"year", 0>>) : b \in BOOLEAN}
            \cup UNION {ValueJobs(Column("date", FALSE, Format(b, TRUE)), Of("time"), <<"time", <<1, 0>>>>) : b \in BOOLEAN}
            \cup UNION {ValueJobs(Column("serial", FALSE, e), Of("serial"), <<"serial", 1>>) : e \in {1900, 1904}}
            \cup ValueJobs(Column("local", FALSE, Absent), Of("hour"), <<"hour", 1>>)

AllJobs == OrdersJobs \cup NumericJobs \cup TokenJobs \cup TimeJobs
Nulls == {<<>>, <<"N", "A">>}
NfcForm == Text("k1d") :> Text("k1")
Keys == {Text(k) : k \in {"k1", "k2", "k3", "k4", "k5", "k6"}}
Ints == {Text("1"), Text("9")}
Ones == {Text("1")}

\* CleanBronze over the amounts of these files.
BronzeIsClean == CleanBronze(Amounts)
=============================================================================
