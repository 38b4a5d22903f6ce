----------------------------- MODULE Normalize -----------------------------
(* The value normalizers of a staged file: numbers under a locale profile,   *)
(* dates with a two-digit year, spreadsheet serials, naive local times.  A   *)
(* raw text is a sequence of characters where the code looks at characters,  *)
(* and one opaque token where it hands the text to strptime or int.          *)
EXTENDS Integers, Sequences, FiniteSets, SequencesExt

CONSTANTS
    Absent,     \* the value None
    Unparsed,   \* outcome of a text the normalizer rejects
    NaN,        \* Decimal("NaN"), which Decimal() accepts
    Infinity,   \* and the infinite ones; no rule here tells their signs apart
    Places,     \* numbers are integers in units of 10^-Places
    Strptime,   \* token -> what strptime or int reads in it; other tokens raise
    Pivot,      \* normalization.two_digit_year_pivot
    Offset,     \* UTC hour -> hours local time is ahead of it, for the declared zone
    FoldPolicy  \* normalization.ambiguous_time_policy

-----------------------------------------------------------------------------
\* Numbers.  A profile is [decimal, thousands, symbols, percent, negative,
\* scientific, width, sentinels]: separators, currency symbols, whether "%" is a
\* fraction, the negative style, whether scientific notation is rejected, the
\* fixed width (0 without one) and the texts that mean absent.
Digits == <<"0", "1", "2", "3", "4", "5", "6", "7", "8", "9">>
DigitChars == {Digits[i] : i \in DOMAIN Digits}
DigitValue(d) == (CHOOSE i \in DOMAIN Digits : Digits[i] = d) - 1
Number(digits) == FoldLeft(LAMBDA n, d : 10 * n + DigitValue(d), 0, digits)

Without(text, chars) == SelectSeq(text, LAMBDA c : c \notin chars)
Strip(text) ==
    LET ink == {i \in DOMAIN text : text[i] # " "} IN
    IF ink = {} THEN <<>>
    ELSE SubSeq(text, CHOOSE i \in ink : \A j \in ink : i <= j,
                      CHOOSE i \in ink : \A j \in ink : i >= j)
EndsWith(text, c) == text # <<>> /\ Last(text) = c
AllDigits(text) == \A i \in DOMAIN text : text[i] \in DigitChars

\* A text around the first c in it; all of it is up to a c that is not there.
UpTo(text, c) ==
    LET k == SelectInSeq(text, LAMBDA d : d = c) IN
    IF k = 0 THEN text ELSE SubSeq(text, 1, k - 1)
Following(text, c) == SubSeq(text, Len(UpTo(text, c)) + 2, Len(text))

Unsigned(text) == IF text # <<>> /\ text[1] \in {"-", "+"} THEN Tail(text) ELSE text
Sign(text) == IF text # <<>> /\ text[1] = "-" THEN -1 ELSE 1

\* Decimal() ignores case.
Lower == [E |-> "e", N |-> "n", A |-> "a", I |-> "i", F |-> "f", T |-> "t", Y |-> "y"]
Lowercase(text) == [i \in DOMAIN text |-> IF text[i] \in DOMAIN Lower THEN Lower[text[i]] ELSE text[i]]
NotANumber == {<<"n", "a", "n">>}
Infinite == {<<"i", "n", "f">>, <<"i", "n", "f", "i", "n", "i", "t", "y">>}

\* n * 10^k; digits beyond the unit would be lost, and the texts here have none.
Shifted(n, k) == IF k >= 0 THEN n * 10^k ELSE n \div 10^(-k)

\* Decimal(text): underscores are dropped wherever they are; a sign; digits with
\* at most one point, and an exponent; or one of the words.  Signaling NaNs and
\* payloads are left out.
DecimalOf(text) ==
    LET s == Lowercase(Without(Strip(text), {"_"}))
        body == Unsigned(s)
        mantissa == UpTo(body, "e")
        power == Unsigned(Following(body, "e"))
        fraction == Following(mantissa, ".")
        digits == UpTo(mantissa, ".") \o fraction
        exponent == Sign(Following(body, "e")) * Number(power)
    IN  IF body \in NotANumber THEN NaN
        ELSE IF body \in Infinite THEN Infinity
        ELSE IF \/ digits = <<>> \/ ~AllDigits(digits \o power)
                \/ power = <<>> /\ mantissa # body
        THEN Unparsed
        ELSE Sign(s) * Shifted(Number(digits), Places + exponent - Len(fraction))

\* A spreadsheet's rendering of a long identifier, 1.23457E+14: one digit, a point
\* whatever the locale, and only a minus before it.  12E+14, 1,23457E+14 and
\* +1E+14 are not caught.
Scientific(text) ==
    LET body == IF Sign(text) = -1 THEN Tail(text) ELSE text
        mantissa == UpTo(Lowercase(body), "e")
        power == Unsigned(Following(Lowercase(body), "e"))
    IN  /\ power # <<>> /\ AllDigits(power)
        /\ mantissa # <<>> /\ mantissa[1] \in DigitChars
        /\ \/ Len(mantissa) = 1
           \/ /\ Len(mantissa) > 2 /\ mantissa[2] = "."
              /\ AllDigits(SubSeq(mantissa, 3, Len(mantissa)))

\* The declared negative style, rewritten to a leading minus.
StripNegativeStyle(profile, text) ==
    IF profile.negative = "parentheses" /\ text # <<>> /\ text[1] = "(" /\ EndsWith(text, ")")
    THEN <<"-">> \o SubSeq(text, 2, Len(text) - 1)
    ELSE IF profile.negative = "trailing-minus" /\ EndsWith(text, "-")
    THEN <<"-">> \o SubSeq(text, 1, Len(text) - 1)
    ELSE text

WithPoint(profile, text) ==
    [i \in DOMAIN text |-> IF text[i] = profile.decimal THEN "." ELSE text[i]]

\* Seeded fault: the decimal separator becomes a point before grouping goes.
DelocalizedPointFirst(profile, text) == Without(WithPoint(profile, text), {profile.thousands})
\* Grouping goes before the decimal separator becomes a point.
Delocalized(profile, text) == WithPoint(profile, Without(text, {profile.thousands}))

ParseDecimal(profile, text) ==
    LET bare == Strip(Without(text, profile.symbols))
        percent == EndsWith(bare, "%")
        plain == IF percent THEN Strip(SubSeq(bare, 1, Len(bare) - 1)) ELSE bare
        value == DecimalOf(Delocalized(profile, StripNegativeStyle(profile, plain)))
    IN  IF percent /\ profile.percent /\ value \notin {NaN, Infinity, Unparsed}
        THEN value \div 100 ELSE value

NumericNormalized(profile, text) ==
    IF text \in profile.sentinels THEN Absent
    ELSE IF profile.scientific /\ Scientific(text) THEN Unparsed
    ELSE IF Len(text) < profile.width THEN Unparsed
    ELSE ParseDecimal(profile, text)

-----------------------------------------------------------------------------
\* Dates.  A profile is [pivoted, timed]: whether the format has a two-digit year and
\* a time of day.  strptime puts a two-digit year into a century of its own choice;
\* the contract's pivot puts it into the right one.
PivotedYear(year) == (IF year % 100 <= Pivot THEN 2000 ELSE 1900) + (year % 100)

\* An aware time becomes a UTC instant, an hour counted from the start of its year; a
\* naive one is no instant; a date stays one.
DateNormalized(profile, token) ==
    LET read == Strptime[token]
        year == IF profile.pivoted THEN PivotedYear(read.year) ELSE read.year
    IN  IF token \notin DOMAIN Strptime \/ (profile.timed /\ read.zone = Absent) THEN Unparsed
        ELSE IF read.zone = Absent THEN [year |-> year]
        ELSE [year |-> year, hour |-> read.hour - read.zone]

\* A day is counted from 1899-12-31; the 1900 system has a day 60 that never was, and
\* day 0 of the 1904 system is 1904-01-01.
Phantom == 60
SerialDay(epoch, serial) ==
    IF epoch = 1904 THEN serial + 1461 ELSE IF serial < Phantom THEN serial ELSE serial - 1
SerialNormalized(epoch, token) ==
    IF token \notin DOMAIN Strptime \/ (epoch = 1900 /\ Strptime[token] = Phantom) THEN Unparsed
    ELSE SerialDay(epoch, Strptime[token])

\* Zone lookup of a naive local hour (PEP 495): fold picks one of two UTC hours; in a
\* gap, fold 0 keeps the offset from before the transition and fold 1 the one after it.
LocalHour(u) == u + Offset[u]
Preimages(naive) == {u \in DOMAIN Offset : LocalHour(u) = naive}
BeforeGap(naive) == CHOOSE u \in DOMAIN Offset :
    LocalHour(u) < naive /\ (u + 1) \in DOMAIN Offset /\ LocalHour(u + 1) > naive
UtcHour(naive, fold) ==
    LET p == Preimages(naive) IN
    IF p = {} THEN naive - Offset[BeforeGap(naive) + fold]
    ELSE IF fold = 0 THEN CHOOSE u \in p : \A v \in p : u <= v
    ELSE CHOOSE u \in p : \A v \in p : u >= v

ClassifyNaiveLocal(naive) ==
    IF LocalHour(UtcHour(naive, 0)) # naive THEN "nonexistent"
    ELSE IF UtcHour(naive, 0) # UtcHour(naive, 1) THEN "ambiguous"
    ELSE "unambiguous"

LocalNormalized(token) ==
    IF token \notin DOMAIN Strptime THEN Unparsed
    ELSE LET naive == Strptime[token]
             class == ClassifyNaiveLocal(naive)
         IN  IF class = "nonexistent" \/ (class = "ambiguous" /\ FoldPolicy = "reject")
             THEN Unparsed
             ELSE UtcHour(naive, IF class = "ambiguous" /\ FoldPolicy = "latest" THEN 1 ELSE 0)

BooleanNormalized(profile, text) ==
    IF text \in profile.true THEN TRUE
    ELSE IF text \in profile.false THEN FALSE
    ELSE Unparsed

\* The type normalizer of a column on a present value.
Normalized(column, text) ==
    CASE column.kind = "numeric" -> NumericNormalized(column.profile, text)
      [] column.kind = "boolean" -> BooleanNormalized(column.profile, text)
      [] column.kind = "date"    -> DateNormalized(column.profile, text)
      [] column.kind = "serial"  -> SerialNormalized(column.profile, text)
      [] column.kind = "local"   -> LocalNormalized(text)

-----------------------------------------------------------------------------
\* Reference meanings, from the writer's side: what a locale prints for a number.
DigitsOf(n) ==
    LET size == CHOOSE k \in 1..9 : n < 10^k /\ (k = 1 \/ n >= 10^(k - 1))
    IN  [i \in 1..size |-> Digits[((n \div 10^(size - i)) % 10) + 1]]
Grouped(digits, separator) ==
    LET size == Len(digits) + ((Len(digits) - 1) \div 3)
    IN  [i \in 1..size |-> LET right == size - i IN
            IF right % 4 = 3 THEN separator ELSE digits[Len(digits) - right + (right \div 4)]]
Fractions(n) ==
    LET all == [i \in 1..Places |-> Digits[((n \div 10^(Places - i)) % 10) + 1]]
    IN  {SubSeq(all, 1, k) : k \in {k \in 0..Places : \A i \in (k + 1)..Places : all[i] = "0"}}

Magnitudes(profile, n) ==
    LET whole == DigitsOf(n \div 10^Places)
        wholes == {whole} \cup (IF profile.thousands = Absent THEN {}
                                ELSE {Grouped(whole, profile.thousands)})
    IN  {w \o (IF f = <<>> THEN <<>> ELSE <<profile.decimal>> \o f) : w \in wholes, f \in Fractions(n)}
WithCurrency(profile, texts) ==
    texts \cup {<<c>> \o t : c \in profile.symbols, t \in texts}
          \cup {t \o <<" ", c>> : c \in profile.symbols, t \in texts}
Signed(profile, n) ==
    LET size == WithCurrency(profile, Magnitudes(profile, IF n < 0 THEN -n ELSE n)) IN
    IF n >= 0 THEN size
    ELSE CASE profile.negative = "parentheses"    -> {<<"(">> \o t \o <<")">> : t \in size}
           [] profile.negative = "trailing-minus" -> {t \o <<"-">> : t \in size}
           [] OTHER                               -> {<<"-">> \o t : t \in size}
Renderings(profile, n) ==
    WithCurrency(profile, Signed(profile, n))
    \cup {t \o <<"%">> : t \in Signed(profile, IF profile.percent THEN 100 * n ELSE n)}

\* A number of at least one unit with m digits before the point of its mantissa.
Exponential(point, n, m) ==
    LET digits == DigitsOf(n) IN
    IF Len(digits) < Places + m THEN {}
    ELSE {SubSeq(digits, 1, m) \o <<point>> \o SubSeq(digits, m + 1, Len(digits))
             \o <<e, "+">> \o DigitsOf(Len(digits) - Places - m) : e \in {"e", "E"}}
\* What no locale prints and Decimal() reads.
Literals(profile, n) ==
    LET size == IF n < 0 THEN -n ELSE n
        signs == IF n < 0 THEN {<<"-">>} ELSE {<<>>, <<"+">>}
        bodies == Exponential(profile.decimal, size, 1) \cup Exponential(profile.decimal, size, 2)
                  \cup (IF size % 10^Places # 0 THEN {}
                        ELSE {Grouped(DigitsOf(size \div 10^Places), "_")})
    IN  {s \o b : s \in signs, b \in bodies}
\* The damage a column may declare unrecoverable.
Damaged(profile, text, Numbers) ==
    /\ profile.scientific
    /\ \E n \in Numbers : \E s \in IF n < 0 THEN {<<"-">>} ELSE {<<>>} :
          text \in {s \o b : b \in Exponential(".", IF n < 0 THEN -n ELSE n, 1)}
NonFinite == {<<"N", "a", "N">>, <<"I", "n", "f", "i", "n", "i", "t", "y">>}

\* What a text means to whoever wrote it, if it means one of the given numbers.
Meaning(column, text, Numbers) ==
    CASE column.kind = "numeric" ->
            IF text \in column.profile.sentinels THEN Absent
            ELSE IF Damaged(column.profile, text, Numbers) \/ Len(text) < column.profile.width
            THEN Unparsed
            ELSE IF text \in NonFinite THEN IF text[1] = "N" THEN NaN ELSE Infinity
            ELSE LET Spells(n) == text \in Renderings(column.profile, n) \cup Literals(column.profile, n)
                 IN  IF \E n \in Numbers : Spells(n) THEN CHOOSE n \in Numbers : Spells(n)
                     ELSE Unparsed
      [] column.kind = "boolean" ->
            IF text \in column.profile.true \cup column.profile.false
            THEN text \in column.profile.true ELSE Unparsed
      [] column.kind = "date" ->
            IF text \notin DOMAIN Strptime THEN Unparsed
            ELSE LET read == Strptime[text]
                     year == IF column.profile.pivoted
                             THEN CHOOSE y \in (1901 + Pivot)..(2000 + Pivot) : y % 100 = read.year % 100
                             ELSE read.year
                 IN  IF read.zone # Absent
                     THEN [year |-> year, hour |-> CHOOSE h \in (-24)..48 : h + read.zone = read.hour]
                     ELSE IF column.profile.timed THEN Unparsed ELSE [year |-> year]
      [] column.kind = "serial" ->
            IF text \notin DOMAIN Strptime THEN Unparsed
            ELSE IF column.profile = 1904
            THEN 365 + 365 + 365 + 365 + 1 + Strptime[text]
            ELSE IF Strptime[text] = 60 THEN Unparsed
            ELSE Cardinality({d \in 1..Strptime[text] : d # 60})
      [] column.kind = "local" ->
            IF text \notin DOMAIN Strptime THEN Unparsed
            ELSE LET p == Preimages(Strptime[text]) IN
                 IF p = {} \/ (Cardinality(p) = 2 /\ FoldPolicy = "reject") THEN Unparsed
                 ELSE IF FoldPolicy = "latest" THEN CHOOSE u \in p : \A v \in p : u >= v
                 ELSE CHOOSE u \in p : \A v \in p : u <= v
=============================================================================
