--------------------------- MODULE CsvFile_proofs ---------------------------
(***************************************************************************)
(* Proofs about one object on its way through CsvSource, for every object,    *)
(* contract and recorded history that WorkAssumption admits, and every size   *)
(* of sample, read, chunk and ceiling.                                        *)
(***************************************************************************)
EXTENDS CsvFile, Ordering_proofs, SequenceTheorems

-----------------------------------------------------------------------------
(* Sequences, whatever they hold.                                            *)

LEMMA SeqShape ==
  ASSUME NEW s, IsSeq(s)
  PROVE  /\ Len(s) \in Nat /\ DOMAIN s = 1..Len(s)
         /\ s \in Seq(Range(s))
         /\ \A i \in 1..Len(s) : s[i] \in Range(s)
  BY DEF IsSeq, Range

LEMMA SeqIsSeq ==
  ASSUME NEW S, NEW s \in Seq(S)
  PROVE  IsSeq(s)
<1>1. \A i \in 1..Len(s) : s[i] \in Range(s) BY DEF Range
<1>2. s = [i \in 1..Len(s) |-> s[i]] /\ Len(s) \in Nat OBVIOUS
<1> QED BY <1>1, <1>2 DEF IsSeq

\* What SubSeq returns: the elements from m to n, where s has them.
LEMMA SliceShape ==
  ASSUME NEW s, IsSeq(s), NEW m \in Nat \ {0}, NEW n \in Nat, n <= Len(s)
  PROVE  /\ IsSeq(SubSeq(s, m, n))
         /\ Len(SubSeq(s, m, n)) = IF m <= n THEN n - m + 1 ELSE 0
         /\ \A i \in 1..(n - m + 1) : SubSeq(s, m, n)[i] = s[m + i - 1]
<1>1. s \in Seq(Range(s)) /\ Len(s) \in Nat BY SeqShape
<1>2. \A i \in m..n : s[i] \in Range(s) BY <1>1, SeqShape
<1>3. /\ SubSeq(s, m, n) \in Seq(Range(s))
      /\ Len(SubSeq(s, m, n)) = IF m <= n THEN n - m + 1 ELSE 0
      /\ \A i \in 1..(n - m + 1) : SubSeq(s, m, n)[i] = s[m + i - 1]
  BY <1>2, SubSeqProperties
<1> QED BY <1>3, SeqIsSeq

LEMMA AppendShape ==
  ASSUME NEW s, IsSeq(s), NEW e
  PROVE  /\ IsSeq(Append(s, e)) /\ Len(Append(s, e)) = Len(s) + 1
         /\ \A i \in 1..Len(s) : Append(s, e)[i] = s[i]
         /\ Append(s, e)[Len(s) + 1] = e
<1> DEFINE S == Range(s) \cup {e}
<1>1. s \in Seq(S)
  <2>1. Len(s) \in Nat /\ s = [i \in 1..Len(s) |-> s[i]] BY SeqShape DEF IsSeq
  <2>2. \A i \in 1..Len(s) : s[i] \in S BY SeqShape
  <2> HIDE DEF S
  <2> QED BY <2>1, <2>2
<1>2. e \in S OBVIOUS
<1> HIDE DEF S
<1>3. /\ Append(s, e) \in Seq(S) /\ Len(Append(s, e)) = Len(s) + 1
      /\ \A i \in 1..Len(s) : Append(s, e)[i] = s[i]
      /\ Append(s, e)[Len(s) + 1] = e
  BY <1>1, <1>2, AppendProperties
<1> QED BY <1>3, SeqIsSeq

\* Sequences are equal that are equally long and agree everywhere.
LEMMA SameElements ==
  ASSUME NEW s, IsSeq(s), NEW t, IsSeq(t), Len(s) = Len(t),
         \A i \in 1..Len(s) : s[i] = t[i]
  PROVE  s = t
<1>1. s \in Seq(Range(s)) /\ t \in Seq(Range(t)) BY DEF IsSeq
<1> DEFINE S == Range(s) \cup Range(t)
<1>2. s \in Seq(S) /\ t \in Seq(S) BY <1>1, SeqMonotonic
<1> HIDE DEF S
<1> QED BY <1>2, SeqEqual

\* A prefix, element by element.
LEMMA PrefixShape ==
  ASSUME NEW s, IsSeq(s), NEW t, IsSeq(t)
  PROVE  IsPrefix(s, t) <=> Len(s) <= Len(t) /\ \A i \in 1..Len(s) : s[i] = t[i]
<1>0. Len(s) \in Nat /\ Len(t) \in Nat BY SeqShape
<1> SUFFICES ASSUME Len(s) <= Len(t)
             PROVE  SubSeq(s, 1, Len(s)) = SubSeq(t, 1, Len(s))
                      <=> \A i \in 1..Len(s) : s[i] = t[i]
  BY DEF IsPrefix
<1> DEFINE n == Len(s)
           a == SubSeq(s, 1, n)
           b == SubSeq(t, 1, n)
<1>1. IsSeq(a) /\ Len(a) = n /\ \A i \in 1..n : a[i] = s[i]
  BY <1>0, SliceShape
<1>2. IsSeq(b) /\ Len(b) = n /\ \A i \in 1..n : b[i] = t[i]
  BY <1>0, SliceShape
<1> HIDE DEF n, a, b
<1>3. ASSUME a = b PROVE \A i \in 1..n : s[i] = t[i] BY <1>1, <1>2, <1>3
<1>4. ASSUME \A i \in 1..n : s[i] = t[i] PROVE a = b
  <2>1. Len(a) = Len(b) /\ \A i \in 1..Len(a) : a[i] = b[i] BY <1>1, <1>2, <1>4
  <2> QED BY <1>1, <1>2, <2>1, SameElements
<1> QED BY <1>3, <1>4 DEF n, a, b

LEMMA MinPair ==
  ASSUME NEW x \in Int, NEW y \in Int
  PROVE  Min({x, y}) = IF x <= y THEN x ELSE y
  BY DEF Min

\* The size of some rows is a number.
LEMMA SizeIsNat ==
  ASSUME NEW rows, IsSeq(rows), \A i \in DOMAIN rows : IsSeq(rows[i])
  PROVE  SizeOf(rows) \in Nat
<1> DEFINE n == Len(rows)
           U(i) == {i} \X (0..Len(rows[i]))
           f == [i \in 1..n |-> U(i)]
           S == {U(i) : i \in 1..n}
<1>1. n \in Nat /\ DOMAIN rows = 1..n BY SeqShape
<1>2. ASSUME NEW i \in 1..n PROVE IsFiniteSet(U(i))
  <2>1. Len(rows[i]) \in Nat BY <1>1, SeqShape
  <2>2. IsFiniteSet({i}) BY FS_Singleton
  <2>3. \A m \in Nat : IsFiniteSet(0..m) BY FS_Interval
  <2>4. IsFiniteSet(0..Len(rows[i])) BY <2>1, <2>3
  <2> QED BY <2>2, <2>4, FS_Product
<1>3. IsFiniteSet(1..n) BY <1>1, FS_Interval
<1>4. Units(rows) = UNION S BY <1>1 DEF Units
<1> HIDE DEF U
<1>5. f \in Surjection(1..n, S) BY DEF Surjection
<1>6. IsFiniteSet(S) BY <1>3, <1>5, FS_Surjection
<1>7. \A T \in S : IsFiniteSet(T) BY <1>2
<1>8. IsFiniteSet(UNION S) BY <1>6, <1>7, FS_UNION
<1> QED BY <1>4, <1>8, FS_CardinalityType DEF SizeOf

-----------------------------------------------------------------------------
(* The encoding.                                                             *)

\* A mark of two, three or four bytes at the start of a sample.
LEMMA StartsWithTwo ==
  ASSUME NEW a, NEW b, NEW t, IsSeq(t)
  PROVE  IsPrefix(<<a, b>>, t) <=> Len(t) >= 2 /\ t[1] = a /\ t[2] = b
<1> DEFINE s == <<a, b>>
<1>1. s \in Seq({a, b}) /\ Len(s) = 2 /\ s[1] = a /\ s[2] = b
  OBVIOUS
<1>2. Len(t) \in Nat BY SeqShape
<1> HIDE DEF s
<1>3. IsPrefix(s, t) <=> Len(s) <= Len(t) /\ \A i \in 1..Len(s) : s[i] = t[i]
  BY <1>1, SeqIsSeq, PrefixShape
<1>4. IsPrefix(s, t) <=> Len(t) >= 2 /\ t[1] = a /\ t[2] = b
  BY <1>1, <1>2, <1>3
<1> QED BY <1>4 DEF s

LEMMA StartsWithThree ==
  ASSUME NEW a, NEW b, NEW c, NEW t, IsSeq(t)
  PROVE  IsPrefix(<<a, b, c>>, t) <=> Len(t) >= 3 /\ t[1] = a /\ t[2] = b /\ t[3] = c
<1> DEFINE s == <<a, b, c>>
<1>1. s \in Seq({a, b, c}) /\ Len(s) = 3 /\ s[1] = a /\ s[2] = b /\ s[3] = c
  OBVIOUS
<1>2. Len(t) \in Nat BY SeqShape
<1> HIDE DEF s
<1>3. IsPrefix(s, t) <=> Len(s) <= Len(t) /\ \A i \in 1..Len(s) : s[i] = t[i]
  BY <1>1, SeqIsSeq, PrefixShape
<1>4. IsPrefix(s, t) <=> Len(t) >= 3 /\ t[1] = a /\ t[2] = b /\ t[3] = c
  BY <1>1, <1>2, <1>3
<1> QED BY <1>4 DEF s

LEMMA StartsWithFour ==
  ASSUME NEW a, NEW b, NEW c, NEW d, NEW t, IsSeq(t)
  PROVE  IsPrefix(<<a, b, c, d>>, t) <=> Len(t) >= 4 /\ t[1] = a /\ t[2] = b /\ t[3] = c /\ t[4] = d
<1> DEFINE s == <<a, b, c, d>>
<1>1. s \in Seq({a, b, c, d}) /\ Len(s) = 4 /\ s[1] = a /\ s[2] = b /\ s[3] = c /\ s[4] = d
  OBVIOUS
<1>2. Len(t) \in Nat BY SeqShape
<1> HIDE DEF s
<1>3. IsPrefix(s, t) <=> Len(s) <= Len(t) /\ \A i \in 1..Len(s) : s[i] = t[i]
  BY <1>1, SeqIsSeq, PrefixShape
<1>4. IsPrefix(s, t) <=> Len(t) >= 4 /\ t[1] = a /\ t[2] = b /\ t[3] = c /\ t[4] = d
  BY <1>1, <1>2, <1>3
<1> QED BY <1>4 DEF s

\* Two marks begin one sample only if one of them begins the other: UTF-16LE's
\* begins UTF-32LE's, which the table therefore has first.
LEMMA FirstMarkIsLongest ==
  ASSUME NEW head, IsSeq(head), Boms(head) # {}
  PROVE  LET i == Min(Boms(head)) IN
         /\ i \in 1..5 /\ BomTable[i] \in ByteOrderMarks
         /\ IsPrefix(BomTable[i].bytes, head)
         /\ \A n \in ByteOrderMarks :
               IsPrefix(n.bytes, head) => Len(n.bytes) <= Len(BomTable[i].bytes)
<1> DEFINE i == Min(Boms(head))
           At(k, v) == Len(head) >= k /\ head[k] = v
<1>1. /\ IsPrefix(<<239, 187, 191>>, head) <=> At(1, 239) /\ At(2, 187) /\ At(3, 191)
      /\ IsPrefix(<<255, 254, 0, 0>>, head) <=> At(1, 255) /\ At(2, 254) /\ At(3, 0) /\ At(4, 0)
      /\ IsPrefix(<<0, 0, 254, 255>>, head) <=> At(1, 0) /\ At(2, 0) /\ At(3, 254) /\ At(4, 255)
      /\ IsPrefix(<<255, 254>>, head) <=> At(1, 255) /\ At(2, 254)
      /\ IsPrefix(<<254, 255>>, head) <=> At(1, 254) /\ At(2, 255)
  <2>1. Len(head) \in Nat BY SeqShape
  <2> QED BY <2>1, StartsWithTwo, StartsWithThree, StartsWithFour
<1>2. Boms(head) = {m \in 1..5 : IsPrefix(BomTable[m].bytes, head)} BY DEF Boms, BomTable
<1>3. i \in Boms(head) /\ \A j \in Boms(head) : i <= j
  <2>1. \E x \in Boms(head) : \A y \in Boms(head) : x <= y BY <1>2, SmallestExists
  <2> QED BY <2>1 DEF Min
<1>4. /\ i \in 1..5 /\ BomTable[i] \in ByteOrderMarks /\ IsPrefix(BomTable[i].bytes, head)
  BY <1>2, <1>3 DEF BomTable, ByteOrderMarks
<1>5. /\ BomTable[1].bytes = <<239, 187, 191>> /\ BomTable[2].bytes = <<255, 254, 0, 0>>
      /\ BomTable[3].bytes = <<0, 0, 254, 255>> /\ BomTable[4].bytes = <<255, 254>>
      /\ BomTable[5].bytes = <<254, 255>>
  BY DEF BomTable
<1>6. IsPrefix(<<255, 254, 0, 0>>, head) => i <= 2 BY <1>2, <1>3, <1>5
<1> DEFINE H(v) == head[1] = v
<1>7. /\ IsPrefix(<<239, 187, 191>>, head) => H(239)
      /\ IsPrefix(<<255, 254, 0, 0>>, head) => H(255)
      /\ IsPrefix(<<0, 0, 254, 255>>, head) => H(0)
      /\ IsPrefix(<<255, 254>>, head) => H(255)
      /\ IsPrefix(<<254, 255>>, head) => H(254)
      /\ \A v, w : H(v) /\ H(w) => v = w
  BY <1>1
<1> HIDE DEF H
<1>8. ASSUME NEW n \in ByteOrderMarks, IsPrefix(n.bytes, head)
      PROVE  Len(n.bytes) <= Len(BomTable[i].bytes)
  <2>1. \/ n.bytes = <<239, 187, 191>> /\ H(239)
        \/ n.bytes = <<255, 254, 0, 0>> /\ H(255)
        \/ n.bytes = <<0, 0, 254, 255>> /\ H(0)
        \/ n.bytes = <<255, 254>> /\ H(255)
        \/ n.bytes = <<254, 255>> /\ H(254)
    <3>1. n.bytes \in {<<239, 187, 191>>, <<255, 254, 0, 0>>, <<0, 0, 254, 255>>,
                       <<255, 254>>, <<254, 255>>}
      BY DEF ByteOrderMarks
    <3> QED BY <1>7, <1>8, <3>1
  <2>2. Len(n.bytes) <= 4
    <3>1. /\ Len(<<239, 187, 191>>) = 3 /\ Len(<<255, 254, 0, 0>>) = 4
          /\ Len(<<0, 0, 254, 255>>) = 4 /\ Len(<<255, 254>>) = 2 /\ Len(<<254, 255>>) = 2
      OBVIOUS
    <3> DEFINE a == <<239, 187, 191>>
               b == <<255, 254, 0, 0>>
               c == <<0, 0, 254, 255>>
               d == <<255, 254>>
               f == <<254, 255>>
    <3>2. n.bytes \in {a, b, c, d, f} BY <2>1
    <3>3. Len(a) = 3 /\ Len(b) = 4 /\ Len(c) = 4 /\ Len(d) = 2 /\ Len(f) = 2 BY <3>1
    <3>4. \A z \in {a, b, c, d, f} : Len(z) <= 4
      <4> HIDE DEF a, b, c, d, f
      <4> QED BY <3>3
    <3> HIDE DEF a, b, c, d, f
    <3> QED BY <3>2, <3>4, Zenon
  <2>3. CASE i \in {2, 3}
    <3>1. Len(BomTable[2].bytes) = 4 /\ Len(BomTable[3].bytes) = 4 BY <1>5
    <3> QED BY <2>2, <2>3, <3>1
  <2>4. CASE i = 1
    <3>1. H(239) BY <1>4, <1>5, <1>7, <2>4
    <3>2. n.bytes = <<239, 187, 191>> BY <1>7, <2>1, <3>1
    <3> QED BY <2>4, <3>2, <1>5
  <2>5. CASE i = 4
    <3>1. H(255) BY <1>4, <1>5, <1>7, <2>5
    <3>2. n.bytes # <<255, 254, 0, 0>> BY <1>6, <1>8, <2>5
    <3>3. n.bytes = <<255, 254>> BY <1>7, <2>1, <3>1, <3>2
    <3> QED BY <2>5, <3>3, <1>5
  <2>6. CASE i = 5
    <3>1. H(254) BY <1>4, <1>5, <1>7, <2>6
    <3>2. n.bytes = <<254, 255>> BY <1>7, <2>1, <3>1
    <3> QED BY <2>6, <3>2, <1>5
  <2> QED BY <1>4, <2>3, <2>4, <2>5, <2>6
<1> QED BY <1>4, <1>8

\* The encoding a sample is given and admits is the one the file was written in.
LEMMA GivenEncoding ==
  ASSUME work \in Works, Contract.encoding = None, NEW e \in Encodings, Decodes(e)
  PROVE  e = File.codec
<1>1. IsSeq(File.head) /\ MarkTold(File) BY WorkAssumption DEF WorkTyped, File
<1>2. CASE Boms(File.head) # {}
  <2> DEFINE m == BomTable[Min(Boms(File.head))]
  <2>1. e = m.codec BY <1>2 DEF Encodings
  <2>2. /\ m \in ByteOrderMarks /\ IsPrefix(m.bytes, File.head)
        /\ \A n \in ByteOrderMarks : IsPrefix(n.bytes, File.head) => Len(n.bytes) <= Len(m.bytes)
    BY <1>1, <1>2, FirstMarkIsLongest
  <2> HIDE DEF m
  <2> QED BY <1>1, <2>1, <2>2 DEF MarkTold
<1>3. CASE Boms(File.head) = {}
  BY <1>3 DEF Encodings, Corroborated, Decodes
<1> QED BY <1>2, <1>3

\* The object and its contract are what the pod was given; an encoding is settled
\* before the dialect is looked for.
Settled ==
  /\ work \in Works
  /\ phase \notin {"new", "decode", "failed"} /\ Contract.encoding = None => encoding = File.codec

\* A file is read in the encoding it was written in (detect/encoding.py: the table of
\* marks, detect_encoding, decode_strict).
THEOREM CsvReadAsWritten == CsvSpec => []ReadAsWritten
<1>1. CsvInit => Settled BY DEF CsvInit, Settled
<1>2. ASSUME Settled, [CsvNext]_csvVars PROVE Settled'
  <2> USE <1>2 DEF Settled, Contract, File, Fail, Go
  <2>1. CASE ReadSample BY <2>1 DEF ReadSample, profileVars
  <2>2. CASE DetectEncoding BY <2>2, GivenEncoding DEF DetectEncoding
  <2>3. CASE DetectDialect BY <2>3 DEF DetectDialect
  <2>4. CASE DetectHeader BY <2>4 DEF DetectHeader
  <2>5. CASE ReadCurrent BY <2>5 DEF ReadCurrent
  <2>6. CASE ResolveSchema BY <2>6 DEF ResolveSchema, profileVars
  <2>7. CASE ParseFilename BY <2>7 DEF ParseFilename
  <2>8. CASE OpenStream BY <2>8 DEF OpenStream, profileVars
  <2>9. CASE Pull BY <2>9 DEF Pull, profileVars
  <2>10. CASE ReadRecords BY <2>10 DEF ReadRecords, profileVars
  <2>11. CASE OtherFileSyncs BY <2>11 DEF OtherFileSyncs, profileVars
  <2>12. CASE UNCHANGED csvVars BY <2>12 DEF csvVars
  <2> QED BY <2>1, <2>2, <2>3, <2>4, <2>5, <2>6, <2>7, <2>8, <2>9, <2>10, <2>11, <2>12 DEF CsvNext
<1>3. Settled => ReadAsWritten BY DEF Settled, ReadAsWritten, Inspected
<1> QED BY <1>1, <1>2, <1>3, PTL DEF CsvSpec

-----------------------------------------------------------------------------
(* An object's parts and lines.                                              *)

\* What is known of a work, field by field.
LEMMA WorkShape ==
  ASSUME work \in Works
  PROVE  /\ IsSeq(Lines) /\ Len(Lines) \in Nat /\ DOMAIN Lines = 1..Len(Lines)
         /\ \A i \in 1..Len(Lines) : IsSeq(Lines[i])
         /\ Len(File.ends) \in Nat \ {0} /\ DOMAIN File.ends = 1..Len(File.ends)
         /\ \A p \in DOMAIN File.ends : File.ends[p] \in Nat /\ File.ends[p] <= Len(Lines)
         /\ \A p, q \in DOMAIN File.ends : p <= q => File.ends[p] <= File.ends[q]
<1>1. WorkTyped(work) BY WorkAssumption
<1>2. IsSeq(Lines) /\ \A i \in DOMAIN Lines : IsSeq(Lines[i])
  BY <1>1 DEF WorkTyped, Lines, File
<1>3. Len(Lines) \in Nat /\ DOMAIN Lines = 1..Len(Lines) BY <1>2, SeqShape
<1>4. /\ File.ends \in Seq(Nat) /\ File.ends # <<>> /\ File.ends[Len(File.ends)] = Len(Lines)
      /\ \A p, q \in DOMAIN File.ends : p <= q => File.ends[p] <= File.ends[q]
  BY <1>1 DEF WorkTyped, Lines, File
<1> DEFINE e == File.ends
<1> HIDE DEF e
<1>5. e \in Seq(Nat) /\ e # <<>> /\ e[Len(e)] = Len(Lines)
      /\ \A p, q \in DOMAIN e : p <= q => e[p] <= e[q]
  BY <1>4 DEF e
<1>6. Len(e) \in Nat \ {0} /\ DOMAIN e = 1..Len(e) /\ \A p \in DOMAIN e : e[p] \in Nat
  BY <1>5
<1>7. \A p \in DOMAIN e : e[p] <= Len(Lines) BY <1>5, <1>6
<1> QED BY <1>2, <1>3, <1>5, <1>6, <1>7 DEF e

LEMMA PartShape ==
  ASSUME work \in Works, NEW p \in DOMAIN File.ends
  PROVE  /\ Len(Parts) = Len(File.ends) /\ DOMAIN Parts = DOMAIN File.ends
         /\ LinesBefore(p) \in Nat /\ LinesBefore(p) <= File.ends[p]
         /\ IsSeq(Parts[p]) /\ DOMAIN Parts[p] = 1..Len(Parts[p])
         /\ Len(Parts[p]) = File.ends[p] - LinesBefore(p)
         /\ \A i \in 1..Len(Parts[p]) : /\ LinesBefore(p) + i \in 1..Len(Lines)
                                        /\ Parts[p][i] = Lines[LinesBefore(p) + i]
                                        /\ IsSeq(Parts[p][i])
         /\ SizeOf(Parts[p]) \in Nat
<1> DEFINE e == File.ends
           n == LinesBefore(p)
           s == SubSeq(Lines, n + 1, e[p])
<1>1. /\ IsSeq(Lines) /\ Len(Lines) \in Nat /\ \A i \in 1..Len(Lines) : IsSeq(Lines[i])
      /\ Len(e) \in Nat \ {0} /\ DOMAIN e = 1..Len(e)
      /\ \A q \in DOMAIN e : e[q] \in Nat /\ e[q] <= Len(Lines)
      /\ \A q, r \in DOMAIN e : q <= r => e[q] <= e[r]
  BY WorkShape
<1>2. Len(Parts) = Len(e) /\ DOMAIN Parts = DOMAIN e BY <1>1 DEF Parts
<1>3. Parts[p] = s BY DEF Parts
<1>4. n = IF p = 1 THEN 0 ELSE e[p - 1] BY DEF LinesBefore
<1> HIDE DEF e, n
<1>5. n \in Nat /\ n <= e[p] /\ e[p] \in Nat /\ e[p] <= Len(Lines)
  <2>1. p \in 1..Len(e) BY <1>1 DEF e
  <2> QED BY <1>1, <1>4, <2>1
<1>6. /\ IsSeq(s) /\ Len(s) = e[p] - n
      /\ \A i \in 1..(e[p] - n) : s[i] = Lines[n + i]
  <2>1. n + 1 \in Nat \ {0} BY <1>5
  <2>2. /\ IsSeq(s) /\ Len(s) = IF n + 1 <= e[p] THEN e[p] - (n + 1) + 1 ELSE 0
        /\ \A i \in 1..(e[p] - (n + 1) + 1) : s[i] = Lines[(n + 1) + i - 1]
    <3> HIDE DEF s
    <3> QED BY <1>1, <1>5, <2>1, SliceShape DEF s
  <2> HIDE DEF s
  <2> QED BY <1>5, <2>2
<1> HIDE DEF s
<1>7. DOMAIN s = 1..Len(s) BY <1>6, SeqShape
<1>8. \A i \in 1..Len(s) : n + i \in 1..Len(Lines) /\ IsSeq(s[i])
  <2> TAKE i \in 1..Len(s)
  <2>1. n + i \in 1..Len(Lines) BY <1>5, <1>6
  <2> QED BY <1>1, <1>6, <2>1
<1>9. SizeOf(s) \in Nat BY <1>6, <1>7, <1>8, SizeIsNat
<1> QED BY <1>2, <1>3, <1>5, <1>6, <1>7, <1>8, <1>9 DEF e, n

\* What a reader sees of some rows.
LEMMA ParsedShape ==
  ASSUME NEW rows, IsSeq(rows), \A i \in DOMAIN rows : IsSeq(rows[i])
  PROVE  /\ IsSeq(Parsed(rows)) /\ Len(Parsed(rows)) = Len(rows)
         /\ DOMAIN Parsed(rows) = 1..Len(rows)
         /\ \A i \in 1..Len(rows) : IsSeq(Parsed(rows)[i])
         /\ split # "right" => \A i \in 1..Len(rows) : Parsed(rows)[i] = <<Joined>>
         /\ split = "right" =>
              \A i \in 1..Len(rows) :
                 /\ i > 1 => Parsed(rows)[i] = rows[i]
                 /\ Range(Parsed(rows)[i]) \subseteq Range(rows[i]) \cup {Marked}
<1>1. Len(rows) \in Nat /\ DOMAIN rows = 1..Len(rows) BY SeqShape
<1>2. ASSUME NEW t, IsSeq(t), DOMAIN t = 1..Len(rows)
      PROVE  Len(t) = Len(rows)
  <2>1. Len(t) \in Nat /\ DOMAIN t = 1..Len(t) BY <1>2, SeqShape
  <2> QED BY <1>1, <1>2, <2>1
<1>3. CASE split # "right"
  <2> DEFINE t == [i \in 1..Len(rows) |-> <<Joined>>]
  <2>1. Parsed(rows) = t BY <1>1, <1>3 DEF Parsed
  <2>2. t \in Seq({<<Joined>>}) /\ DOMAIN t = 1..Len(rows) /\ \A i \in 1..Len(rows) : t[i] = <<Joined>>
    BY <1>1
  <2>3. IsSeq(<<Joined>>)
    <3>1. <<Joined>> \in Seq({Joined}) OBVIOUS
    <3> QED BY <3>1, SeqIsSeq
  <2> HIDE DEF t
  <2>4. IsSeq(t) BY <2>2, SeqIsSeq
  <2> QED BY <1>2, <1>3, <2>1, <2>2, <2>3, <2>4
<1>4. CASE split = "right" /\ Decoded(rows) = rows
  <2>1. Parsed(rows) = rows BY <1>4 DEF Parsed
  <2> QED BY <1>1, <1>4, <2>1
<1>5. CASE split = "right" /\ Decoded(rows) # rows
  <2> DEFINE u == [rows[1] EXCEPT ![1] = Marked]
             t == [rows EXCEPT ![1] = u]
  <2>1. rows # <<>> /\ rows[1] # <<>> /\ Decoded(rows) = t BY <1>5 DEF Decoded
  <2>2. Len(rows) # 0
    <3>1. Len(rows) = 0 => rows = <<>>
      <4>1. rows \in Seq(Range(rows)) BY DEF IsSeq
      <4> QED BY <4>1, EmptySeq
    <3> QED BY <2>1, <3>1
  <2>3. IsSeq(rows[1]) BY <1>1, <2>2
  <2>4. Len(rows[1]) \in Nat /\ DOMAIN rows[1] = 1..Len(rows[1]) BY <2>3, SeqShape
  <2>5. /\ IsSeq(u) /\ Range(u) \subseteq Range(rows[1]) \cup {Marked}
    <3> DEFINE v == rows[1]
               S == Range(v) \cup {Marked}
    <3>1. DOMAIN u = 1..Len(v) /\ \A i \in 1..Len(v) : u[i] \in S
      <4>1. \A i \in 1..Len(v) : v[i] \in Range(v) BY <2>3, SeqShape
      <4>2. DOMAIN u = DOMAIN v /\ \A i \in DOMAIN v : u[i] = IF i = 1 THEN Marked ELSE v[i] OBVIOUS
      <4> HIDE DEF u, v
      <4> QED BY <2>4, <4>1, <4>2 DEF v
    <3>2. u = [i \in 1..Len(v) |-> u[i]]
      <4>1. u = [i \in DOMAIN v |-> u[i]] OBVIOUS
      <4> QED BY <2>4, <4>1
    <3> HIDE DEF u, S
    <3>3. u \in Seq(S)
      <4> HIDE DEF v
      <4>1. Len(v) \in Nat BY <2>4 DEF v
      <4> QED BY <3>1, <3>2, <4>1
    <3>4. IsSeq(u) BY <3>3, SeqIsSeq
    <3>5. Range(u) \subseteq S
      <4>1. \A i \in DOMAIN u : u[i] \in S BY <3>1
      <4> QED BY <4>1 DEF Range
    <3> QED BY <3>4, <3>5 DEF S
  <2>6. t \in Seq(Range(rows) \cup {u}) /\ DOMAIN t = 1..Len(rows)
        /\ \A i \in 1..Len(rows) : t[i] = IF i = 1 THEN u ELSE rows[i]
    <3> HIDE DEF u
    <3> DEFINE S == Range(rows) \cup {u}
    <3>1. DOMAIN t = 1..Len(rows) /\ \A i \in 1..Len(rows) : t[i] = IF i = 1 THEN u ELSE rows[i]
      BY <1>1
    <3>2. t = [i \in 1..Len(rows) |-> t[i]]
      <4>1. t = [i \in DOMAIN rows |-> t[i]] OBVIOUS
      <4> QED BY <1>1, <4>1
    <3>3. \A i \in 1..Len(rows) : rows[i] \in Range(rows) BY SeqShape
    <3> HIDE DEF t
    <3>4. \A i \in 1..Len(rows) : t[i] \in S BY <3>1, <3>3
    <3> HIDE DEF S
    <3>5. t \in Seq(S) BY <1>1, <3>2, <3>4
    <3> QED BY <3>1, <3>5 DEF S
  <2> HIDE DEF u, t
  <2>7. IsSeq(t) BY <2>6, SeqIsSeq
  <2>8. Parsed(rows) = t BY <1>5, <2>1 DEF Parsed
  <2>9. \A i \in 1..Len(rows) : IsSeq(t[i]) /\ (i > 1 => t[i] = rows[i])
                                /\ Range(t[i]) \subseteq Range(rows[i]) \cup {Marked}
    BY <1>1, <2>5, <2>6
  <2> QED BY <1>2, <1>5, <2>6, <2>7, <2>8, <2>9
<1> QED BY <1>3, <1>4, <1>5

\* The combined stream has as many rows as the object has lines.
LEMMA StreamShape ==
  ASSUME work \in Works
  PROVE  IsSeq(Stream) /\ Len(Stream) = Len(Lines) /\ Len(Lines) \in Nat
  BY WorkShape, ParsedShape DEF Stream

\* No more lines are available than there are.
LEMMA AvailableBound ==
  ASSUME work \in Works, part \in DOMAIN File.ends
  PROVE  Available \in Nat /\ Available <= Len(Lines)
<1> DEFINE n == Len(Parts[part])
           U == {i \in DOMAIN Parts[part] : SizeOf(SubSeq(Parts[part], 1, i)) <= pulled}
<1>1. /\ LinesBefore(part) \in Nat /\ DOMAIN Parts[part] = 1..n
      /\ n = File.ends[part] - LinesBefore(part) /\ LinesBefore(part) <= File.ends[part]
  BY PartShape
<1>2. File.ends[part] \in Nat /\ File.ends[part] <= Len(Lines) /\ Len(Lines) \in Nat BY WorkShape
<1>3. U \subseteq 1..n BY <1>1
<1>4. Available = LinesBefore(part) + Cardinality(U) BY DEF Available
<1> HIDE DEF n, U
<1>5. n \in Nat BY <1>1, <1>2
<1>6. IsFiniteSet(1..n) /\ Cardinality(1..n) = n BY <1>5, FS_Interval
<1>7. Cardinality(U) \in Nat /\ Cardinality(U) <= n
  <2>1. IsFiniteSet(U) BY <1>3, <1>6, FS_Subset
  <2>2. Cardinality(U) <= Cardinality(1..n) BY <1>3, <1>6, FS_Subset
  <2> QED BY <1>6, <2>1, <2>2, FS_CardinalityType
<1> QED BY <1>1, <1>2, <1>4, <1>5, <1>7

\* The sample's rows are the beginnings of the first part's.
LEMMA SampledShape ==
  ASSUME work \in Works
  PROVE  LET rows == SampledRows IN
         /\ Len(rows) \in Nat /\ Len(rows) <= Len(Parts[1]) /\ DOMAIN rows = 1..Len(rows)
         /\ \A i \in 1..Len(rows) : rows[i] = SampledRow(Parsed(Parts[1]), i)
<1> DEFINE first == Parsed(Parts[1])
           begun == {i \in DOMAIN first : SizeOf(SubSeq(first, 1, i - 1)) < Sample}
           k == Cardinality(begun)
           n == Len(Parts[1])
<1>1. 1 \in DOMAIN File.ends BY WorkShape
<1>2. IsSeq(Parts[1]) /\ \A i \in DOMAIN Parts[1] : IsSeq(Parts[1][i]) BY <1>1, PartShape
<1>3. n \in Nat BY <1>2, SeqShape
<1>4. DOMAIN first = 1..n BY <1>2, ParsedShape
<1>5. begun \subseteq 1..n
  <2> HIDE DEF first
  <2> QED BY <1>4
<1>6. SampledRows = [i \in 1..k |-> SampledRow(first, i)] BY DEF SampledRows
<1> HIDE DEF n, begun
<1>7. IsFiniteSet(1..n) /\ Cardinality(1..n) = n BY <1>3, FS_Interval
<1>8. k \in Nat /\ k <= n
  <2>1. IsFiniteSet(begun) BY <1>5, <1>7, FS_Subset
  <2>2. Cardinality(begun) <= Cardinality(1..n) BY <1>5, <1>7, FS_Subset
  <2> QED BY <1>7, <2>1, <2>2, FS_CardinalityType
<1> HIDE DEF k, first
<1>9. Len(SampledRows) = k /\ DOMAIN SampledRows = 1..k
      /\ \A i \in 1..k : SampledRows[i] = SampledRow(first, i)
  BY <1>6, <1>8
<1> QED BY <1>8, <1>9 DEF n, first

\* The rows the header is looked for in: none, when no delimiter was found.
LEMMA HeaderIndexIsNat ==
  ASSUME work \in Works, NEW rows, NEW n \in Nat, DOMAIN rows = 1..n
  PROVE  HeaderIndex(rows) \in Nat
<1>1. Contract.headerRow \in {None} \cup (Nat \ {0})
  BY WorkAssumption DEF WorkTyped, Contract
<1>2. ASSUME HeaderCandidates(rows) # {} PROVE Min(HeaderCandidates(rows)) \in 1..n
  <2>1. HeaderCandidates(rows) \subseteq 1..n BY DEF HeaderCandidates
  <2>2. \E x \in HeaderCandidates(rows) : \A y \in HeaderCandidates(rows) : x <= y
    BY <1>2, <2>1, SmallestExists
  <2>3. Min(HeaderCandidates(rows)) \in HeaderCandidates(rows) BY <2>2 DEF Min
  <2> QED BY <2>1, <2>3
<1> QED BY <1>1, <1>2 DEF HeaderIndex

-----------------------------------------------------------------------------
(* Typing.                                                                   *)

StreamTyped ==
  /\ work \in Works
  /\ IsSeq(history)
  /\ header.index \in Nat
  /\ part \in DOMAIN File.ends
  /\ pulled \in Nat /\ pulled <= SizeOf(Parts[part])
  /\ taken \in Nat

LEMMA RowsTyped ==
  ASSUME work \in Works, NEW rows, rows = IF split = None THEN <<>> ELSE SampledRows
  PROVE  HeaderIndex(rows) \in Nat
<1>1. CASE split = None
  <2>1. DOMAIN rows = 1..0 BY <1>1
  <2> QED BY <2>1, HeaderIndexIsNat
<1>2. CASE split # None BY <1>2, SampledShape, HeaderIndexIsNat
<1> QED BY <1>1, <1>2

LEMMA SyncedTyped ==
  ASSUME IsSeq(history), NEW shape
  PROVE  IsSeq(Synced(shape))
  BY AppendShape DEF Synced

\* Where a reading that takes more records begins and ends.
LEMMA ReadingBounds ==
  ASSUME StreamTyped
  PROVE  /\ First \in Nat /\ Wanted \in Nat /\ First < Wanted /\ Preamble \in Nat
         /\ Min({Wanted, Len(Stream)}) = IF Wanted <= Len(Stream) THEN Wanted ELSE Len(Stream)
         /\ Min({Wanted, Len(Stream)}) \in Nat
<1>1. Len(Stream) \in Nat BY StreamShape DEF StreamTyped
<1>2. Preamble \in Nat BY DEF Preamble, StreamTyped
<1>3. First \in Nat BY <1>2 DEF First, StreamTyped
<1>4. Wanted \in Nat /\ First < Wanted BY <1>3, SizeAssumption DEF Wanted
<1> QED BY <1>1, <1>2, <1>3, <1>4, MinPair

\* No step changes what the pod was given.
LEMMA WorkKept ==
  ASSUME [CsvNext]_csvVars
  PROVE  /\ work' = work /\ File' = File /\ Contract' = Contract /\ Names' = Names
         /\ Lines' = Lines /\ Parts' = Parts /\ Compressed' = Compressed
<1>1. work' = work
  BY DEF CsvNext, csvVars, ReadSample, DetectEncoding, DetectDialect, DetectHeader, ReadCurrent,
         ResolveSchema, ParseFilename, OpenStream, Pull, ReadRecords, OtherFileSyncs
<1>2. File' = File /\ Contract' = Contract BY <1>1 DEF File, Contract
<1>3. Lines' = Lines BY <1>2 DEF Lines
<1>4. Parts' = Parts
  <2>1. \A p : LinesBefore(p)' = LinesBefore(p) BY <1>2 DEF LinesBefore
  <2> QED BY <1>2, <1>3, <2>1 DEF Parts
<1> QED BY <1>1, <1>2, <1>3, <1>4 DEF Names, Compressed

\* What is streamed of an object stays within it (source.py: open, chunked_records;
\* compression.py: _DecompressionBombGuard).
THEOREM CsvTypeCorrect == CsvSpec => []StreamTyped
<1>1. CsvInit => StreamTyped
  <2> SUFFICES ASSUME CsvInit PROVE StreamTyped OBVIOUS
  <2>1. IsSeq(work.history) BY WorkAssumption DEF CsvInit, WorkTyped
  <2>2. 1 \in DOMAIN File.ends BY WorkShape DEF CsvInit
  <2>3. SizeOf(Parts[1]) \in Nat BY <2>2, PartShape DEF CsvInit
  <2> QED BY <2>1, <2>2, <2>3 DEF CsvInit, StreamTyped
<1>2. ASSUME StreamTyped, [CsvNext]_csvVars PROVE StreamTyped'
  <2>0. work' = work /\ File' = File /\ Parts' = Parts BY <1>2, WorkKept
  <2> USE <1>2, <2>0 DEF StreamTyped, Fail, Go
  <2>1. CASE ReadSample BY <2>1 DEF ReadSample, profileVars, streamVars
  <2>2. CASE DetectEncoding BY <2>2 DEF DetectEncoding, streamVars
  <2>3. CASE DetectDialect BY <2>3 DEF DetectDialect, streamVars
  <2>4. CASE DetectHeader
    <3> DEFINE rows == IF split = None THEN <<>> ELSE SampledRows
    <3>1. HeaderIndex(rows) \in Nat BY RowsTyped
    <3> HIDE DEF rows
    <3>2. header'.index \in Nat
      <4>1. \/ UNCHANGED header
            \/ header' = [index |-> HeaderIndex(rows),
                          names |-> IF HeaderIndex(rows) = 0 THEN <<>> ELSE Trimmed(rows[HeaderIndex(rows)])]
        BY <2>4 DEF DetectHeader, rows
      <4> QED BY <3>1, <4>1
    <3> QED BY <2>4, <3>2 DEF DetectHeader, streamVars
  <2>5. CASE ReadCurrent BY <2>5 DEF ReadCurrent, streamVars
  <2>6. CASE ResolveSchema
    <3>1. IsSeq(history') BY <2>6, SyncedTyped DEF ResolveSchema
    <3> QED BY <2>6, <3>1 DEF ResolveSchema, profileVars, streamVars
  <2>7. CASE ParseFilename BY <2>7 DEF ParseFilename, streamVars
  <2>8. CASE OpenStream BY <2>8 DEF OpenStream, profileVars, streamVars
  <2>9. CASE Pull
    <3>0. /\ part' \in DOMAIN File.ends /\ pulled' \in Nat
          /\ pulled' <= SizeOf(Parts[part'])
      <4>1. Len(Parts) = Len(File.ends) /\ SizeOf(Parts[part]) \in Nat BY PartShape
      <4>2. DOMAIN File.ends = 1..Len(File.ends) /\ Len(File.ends) \in Nat BY WorkShape
      <4>3. CASE SizeOf(Parts[part]) - pulled = 0
        <5>1. part # Len(Parts) /\ part' = part + 1 /\ pulled' = 0
          BY <2>9, <4>1, <4>3 DEF Pull, AtEnd
        <5>2. part' \in DOMAIN File.ends BY <4>1, <4>2, <5>1
        <5> QED BY <5>1, <5>2, PartShape
      <4>4. CASE SizeOf(Parts[part]) - pulled # 0
        <5> DEFINE left == SizeOf(Parts[part]) - pulled
        <5>1. part' = part /\ pulled' = pulled + Min({GuardChunk, left})
          BY <2>9, <4>4 DEF Pull
        <5>2. left \in Nat /\ SizeOf(Parts[part]) = pulled + left BY <4>1
        <5> HIDE DEF left
        <5>3. Min({GuardChunk, left}) \in Nat /\ Min({GuardChunk, left}) <= left
          BY <5>2, MinPair, SizeAssumption
        <5> QED BY <5>1, <5>2, <5>3
      <4> QED BY <4>3, <4>4
    <3> QED BY <2>9, <3>0 DEF Pull, profileVars
  <2>10. CASE ReadRecords
    <3>1. taken' \in Nat BY <2>10, ReadingBounds DEF ReadRecords
    <3> QED BY <2>10, <3>1 DEF ReadRecords, profileVars
  <2>11. CASE OtherFileSyncs
    <3>1. IsSeq(history') BY <2>11, SyncedTyped DEF OtherFileSyncs
    <3> QED BY <2>11, <3>1 DEF OtherFileSyncs, profileVars, streamVars
  <2>12. CASE UNCHANGED csvVars BY <2>12 DEF csvVars
  <2> QED BY <2>1, <2>2, <2>3, <2>4, <2>5, <2>6, <2>7, <2>8, <2>9, <2>10, <2>11, <2>12 DEF CsvNext
<1> QED BY <1>1, <1>2, PTL DEF CsvSpec

-----------------------------------------------------------------------------
(* The guard on what a decompressor produces.                                *)

\* Records run out only when the last part has been read to its end.
LEMMA EndOfStream ==
  ASSUME StreamTyped, ReadRecords, phase' = "done"
  PROVE  AtEnd /\ Len(Stream) <= First
<1> DEFINE last == Min({Wanted, Len(Stream)})
           rows == SubSeq(Stream, First + 1, last)
<1>1. /\ IsSeq(Stream) /\ Len(Stream) = Len(Lines) /\ Len(Stream) \in Nat
  BY StreamShape DEF StreamTyped
<1>2. /\ First \in Nat /\ Wanted \in Nat /\ First < Wanted /\ last \in Nat
      /\ last = IF Wanted <= Len(Stream) THEN Wanted ELSE Len(Stream)
  BY ReadingBounds
<1>3. rows = <<>> BY DEF ReadRecords, Fail, Go
<1>4. Len(rows) = IF First + 1 <= last THEN last - (First + 1) + 1 ELSE 0
  <2> HIDE DEF last
  <2>1. First + 1 \in Nat \ {0} /\ last <= Len(Stream) BY <1>1, <1>2
  <2> QED BY <1>1, <1>2, <2>1, SliceShape
<1> HIDE DEF last, rows
<1>5. last <= First
  <2>1. Len(rows) = 0 BY <1>3
  <2> QED BY <1>2, <1>4, <2>1
<1>6. Len(Stream) <= First BY <1>1, <1>2, <1>5
<1>7. ~(Available >= Wanted)
  <2>1. Available \in Nat /\ Available <= Len(Lines) BY AvailableBound DEF StreamTyped
  <2> QED BY <1>1, <1>2, <1>6, <2>1
<1> QED BY <1>6, <1>7 DEF ReadRecords

Guarded ==
  /\ Compressed =>
        /\ pulled <= Ceiling + GuardChunk
        /\ phase # "failed" => pulled <= Ceiling
        /\ \A p \in DOMAIN File.ends : p < part => SizeOf(Parts[p]) <= Ceiling
  /\ phase = "done" => AtEnd

\* However small an object, what its decompressors produce of a part stops within one
\* read of the ceiling, and a part above it is never loaded to the end
\* (compression.py: _read_one_bounded_chunk).
THEOREM CsvBombBounded == CsvSpec => []BombBounded
<1>1. CsvInit => Guarded
  <2> SUFFICES ASSUME CsvInit PROVE Guarded OBVIOUS
  <2>1. \A p \in DOMAIN File.ends : ~(p < part)
    <3>1. DOMAIN File.ends = 1..Len(File.ends) BY WorkShape DEF CsvInit
    <3> QED BY <3>1 DEF CsvInit
  <2> QED BY <2>1, SizeAssumption DEF CsvInit, Guarded
<1>2. ASSUME StreamTyped, Guarded, [CsvNext]_csvVars PROVE Guarded'
  <2>0. /\ File' = File /\ Parts' = Parts /\ Compressed' = Compressed BY <1>2, WorkKept
  <2>1. ASSUME UNCHANGED streamVars, phase' = "done" => phase = "done",
               phase' # "failed" => phase # "failed"
        PROVE  Guarded'
    BY <1>2, <2>0, <2>1 DEF Guarded, AtEnd, streamVars
  <2> USE DEF Fail, Go
  <2>2. CASE ReadSample BY <2>1, <2>2 DEF ReadSample
  <2>3. CASE DetectEncoding BY <2>1, <2>3 DEF DetectEncoding
  <2>4. CASE DetectDialect BY <2>1, <2>4 DEF DetectDialect
  <2>5. CASE DetectHeader BY <2>1, <2>5 DEF DetectHeader
  <2>6. CASE ReadCurrent BY <2>1, <2>6 DEF ReadCurrent
  <2>7. CASE ResolveSchema BY <2>1, <2>7 DEF ResolveSchema
  <2>8. CASE ParseFilename BY <2>1, <2>8 DEF ParseFilename
  <2>9. CASE OpenStream BY <2>1, <2>9 DEF OpenStream
  <2>10. CASE Pull
    <3> DEFINE size == SizeOf(Parts[part])
               left == size - pulled
    <3>1. /\ pulled \in Nat /\ pulled <= size /\ part \in DOMAIN File.ends
      BY <1>2 DEF StreamTyped
    <3>2. size \in Nat /\ Ceiling \in Nat /\ GuardChunk \in Nat \ {0}
      BY <1>2, PartShape, SizeAssumption DEF StreamTyped
    <3>3. Compressed => pulled <= Ceiling BY <1>2, <2>10 DEF Guarded, Pull
    <3>4. DOMAIN File.ends = 1..Len(File.ends) BY <1>2, WorkShape DEF StreamTyped
    <3>5. CASE left = 0
      <4>1. part' = part + 1 /\ pulled' = 0 /\ phase' = "stream"
        BY <2>10, <3>5 DEF Pull
      <4>2. Compressed => \A p \in DOMAIN File.ends : p < part + 1 => SizeOf(Parts[p]) <= Ceiling
        <5> SUFFICES ASSUME Compressed, NEW p \in DOMAIN File.ends, p < part + 1
                     PROVE  SizeOf(Parts[p]) <= Ceiling
          OBVIOUS
        <5>1. CASE p < part BY <1>2, <5>1 DEF Guarded
        <5>2. CASE p = part
          <6>1. size <= Ceiling BY <3>1, <3>2, <3>3, <3>5
          <6> QED BY <5>2, <6>1
        <5> QED BY <3>1, <3>4, <5>1, <5>2
      <4> QED BY <2>0, <3>2, <4>1, <4>2 DEF Guarded
    <3>6. CASE left # 0
      <4>1. /\ part' = part /\ pulled' = pulled + Min({GuardChunk, left})
            /\ phase' = IF Tripped(pulled') THEN "failed" ELSE "stream"
        BY <2>10, <3>6 DEF Pull
      <4>2. left \in Nat BY <3>1, <3>2
      <4> HIDE DEF left
      <4>3. Min({GuardChunk, left}) \in Nat /\ Min({GuardChunk, left}) <= GuardChunk
        BY <3>2, <4>2, MinPair
      <4>4. Compressed => pulled' <= Ceiling + GuardChunk
        BY <3>1, <3>2, <3>3, <4>1, <4>3
      <4>5. Compressed /\ phase' # "failed" => pulled' <= Ceiling
        BY <3>1, <3>2, <4>1, <4>3 DEF Tripped
      <4>6. phase' # "done" BY <4>1
      <4>7. Compressed => \A p \in DOMAIN File.ends : p < part => SizeOf(Parts[p]) <= Ceiling
        BY <1>2 DEF Guarded
      <4> QED BY <2>0, <4>1, <4>4, <4>5, <4>6, <4>7 DEF Guarded
    <3> QED BY <3>5, <3>6
  <2>11. CASE ReadRecords
    <3>1. phase # "failed" /\ UNCHANGED <<part, pulled>> BY <2>11 DEF ReadRecords
    <3>2. phase' = "done" => AtEnd BY <1>2, <2>11, EndOfStream
    <3> QED BY <1>2, <2>0, <3>1, <3>2 DEF Guarded, AtEnd
  <2>12. CASE OtherFileSyncs BY <2>1, <2>12 DEF OtherFileSyncs
  <2>13. CASE UNCHANGED csvVars BY <2>1, <2>13 DEF csvVars, streamVars
  <2> QED BY <1>2, <2>2, <2>3, <2>4, <2>5, <2>6, <2>7, <2>8, <2>9, <2>10, <2>11, <2>12, <2>13
          DEF CsvNext
<1>3. StreamTyped /\ Guarded => BombBounded
  <2> SUFFICES ASSUME StreamTyped, Guarded, Compressed, phase = "done", NEW p \in DOMAIN Parts
               PROVE  SizeOf(Parts[p]) <= Ceiling
    BY DEF BombBounded, Guarded
  <2>1. /\ DOMAIN Parts = DOMAIN File.ends /\ Len(Parts) = Len(File.ends)
    BY PartShape DEF StreamTyped
  <2>2. DOMAIN File.ends = 1..Len(File.ends) /\ Len(File.ends) \in Nat
    BY WorkShape DEF StreamTyped
  <2>3. part = Len(Parts) /\ pulled = SizeOf(Parts[part]) /\ pulled <= Ceiling
    BY DEF Guarded, AtEnd
  <2>4. CASE p < part BY <2>1, <2>4 DEF Guarded
  <2>5. CASE p = part BY <2>3, <2>5
  <2> QED BY <2>1, <2>2, <2>3, <2>4, <2>5
<1> QED BY <1>1, <1>2, <1>3, CsvTypeCorrect, PTL DEF CsvSpec

-----------------------------------------------------------------------------
(* The header and the recorded shapes.                                       *)

LEMMA NamesShape ==
  ASSUME work \in Works
  PROVE  IsSeq(Names) /\ Len(Names) \in Nat /\ DOMAIN Names = 1..Len(Names)
<1> DEFINE c == Contract.columns
<1>1. IsSeq(c) BY WorkAssumption DEF WorkTyped, Contract
<1>2. Len(c) \in Nat /\ DOMAIN c = 1..Len(c) BY <1>1, SeqShape
<1>3. Names = [i \in 1..Len(c) |-> c[i].name] BY <1>2 DEF Names
<1> DEFINE n == Len(c)
           S == {c[i].name : i \in 1..n}
<1>4. Names \in Seq(S)
  <2> HIDE DEF c
  <2> QED BY <1>2, <1>3
<1>5. IsSeq(Names) BY <1>4, SeqIsSeq
<1> QED BY <1>5, SeqShape

\* A row of names after the contract's trimming, and the names read off it.
LEMMA TrimmedShape ==
  ASSUME NEW row, IsSeq(row)
  PROVE  /\ IsSeq(Trimmed(row)) /\ Len(Trimmed(row)) = Len(row)
         /\ Range(Trimmed(row)) \subseteq ReadNames(work, row)
<1>1. Len(row) \in Nat /\ DOMAIN row = 1..Len(row) BY SeqShape
<1>2. CASE ~Contract.trim
  <2>1. Trimmed(row) = row BY <1>2 DEF Trimmed
  <2>2. Range(row) \subseteq ReadNames(work, row) BY <1>2 DEF ReadNames, Contract
  <2> QED BY <2>1, <2>2
<1>3. CASE Contract.trim
  <2> DEFINE g(v) == Get(Trim, v)
             t == [c \in 1..Len(row) |-> g(row[c])]
             S == {g(row[c]) : c \in 1..Len(row)}
  <2>1. Trimmed(row) = t BY <1>1, <1>3 DEF Trimmed
  <2> HIDE DEF g
  <2>2. t \in Seq(S) /\ Len(t) = Len(row) /\ DOMAIN t = 1..Len(row) BY <1>1
  <2>3. Range(t) = S BY <2>2 DEF Range
  <2>4. ReadNames(work, row) = {g(v) : v \in Range(row)} BY <1>3 DEF ReadNames, Contract, g
  <2>5. \A c \in 1..Len(row) : row[c] \in Range(row) BY SeqShape
  <2>6. S \subseteq ReadNames(work, row) BY <2>4, <2>5
  <2> HIDE DEF t, S
  <2>7. IsSeq(t) BY <2>2, SeqIsSeq
  <2> QED BY <2>1, <2>2, <2>3, <2>6, <2>7
<1> QED BY <1>2, <1>3

\* What a sample has of a row is the beginning of the row.
LEMMA SampledRowShape ==
  ASSUME work \in Works, NEW i \in 1..Len(Parts[1])
  PROVE  LET row == Parsed(Parts[1])[i]  cut == SampledRow(Parsed(Parts[1]), i) IN
         IsSeq(row) /\ IsSeq(cut) /\ Range(cut) \subseteq Range(row)
<1> DEFINE first == Parsed(Parts[1])
           row == first[i]
           before == SubSeq(first, 1, i - 1)
           n == Min({Len(row), Max({0, Sample - SizeOf(before)})})
<1>1. 1 \in DOMAIN File.ends BY WorkShape
<1>2. /\ IsSeq(Parts[1]) /\ DOMAIN Parts[1] = 1..Len(Parts[1])
      /\ \A j \in DOMAIN Parts[1] : IsSeq(Parts[1][j])
  BY <1>1, PartShape
<1>3. /\ IsSeq(first) /\ Len(first) = Len(Parts[1])
      /\ \A j \in 1..Len(Parts[1]) : IsSeq(first[j])
  BY <1>2, ParsedShape
<1>4. SampledRow(first, i) = SubSeq(row, 1, n) BY DEF SampledRow
<1> HIDE DEF first
<1>5. SizeOf(before) \in Nat
  <2>0. Len(first) \in Nat BY <1>3, SeqShape
  <2>1. i - 1 \in Nat /\ i - 1 <= Len(first) /\ 1 \in Nat \ {0} BY <1>3, <2>0
  <2>2. /\ IsSeq(before) /\ Len(before) = IF 1 <= i - 1 THEN (i - 1) - 1 + 1 ELSE 0
        /\ \A j \in 1..((i - 1) - 1 + 1) : before[j] = first[1 + j - 1]
    BY <1>3, <2>1, SliceShape
  <2> HIDE DEF before
  <2>3. Len(before) = i - 1 BY <2>2
  <2>4. \A j \in 1..(i - 1) : IsSeq(before[j])
    <3> TAKE j \in 1..(i - 1)
    <3>1. before[j] = first[j] /\ j \in 1..Len(Parts[1]) BY <1>3, <2>0, <2>2
    <3> QED BY <1>3, <3>1
  <2>5. DOMAIN before = 1..(i - 1) BY <2>2, <2>3, SeqShape
  <2> QED BY <2>2, <2>4, <2>5, SizeIsNat
<1>6. IsSeq(row) /\ Len(row) \in Nat BY <1>3, SeqShape
<1> DEFINE z == SizeOf(before)
<1>7. n \in Nat /\ n <= Len(row)
  <2> DEFINE y == Max({0, Sample - z})
  <2>1. y \in Nat
    <3>1. \A x \in Int : Max({0, x}) \in Nat
      <4> TAKE x \in Int
      <4>1. \E w \in {0, x} : \A v \in {0, x} : v <= w OBVIOUS
      <4>2. Max({0, x}) \in {0, x} /\ 0 <= Max({0, x}) BY <4>1 DEF Max
      <4> QED BY <4>2
    <3>2. Sample - z \in Int BY <1>5, SizeAssumption
    <3> QED BY <3>1, <3>2
  <2>2. n = Min({Len(row), y}) OBVIOUS
  <2> HIDE DEF y, n, z, row
  <2> QED BY <1>6, <2>1, <2>2, MinPair
<1> HIDE DEF n, z, before, row
<1>8. /\ IsSeq(SubSeq(row, 1, n)) /\ Len(SubSeq(row, 1, n)) = n
      /\ \A j \in 1..n : SubSeq(row, 1, n)[j] = row[j]
  <2>1. 1 \in Nat \ {0} OBVIOUS
  <2>2. /\ IsSeq(SubSeq(row, 1, n))
        /\ Len(SubSeq(row, 1, n)) = IF 1 <= n THEN n - 1 + 1 ELSE 0
        /\ \A j \in 1..(n - 1 + 1) : SubSeq(row, 1, n)[j] = row[1 + j - 1]
    BY <1>6, <1>7, <2>1, SliceShape
  <2> QED BY <1>7, <2>2
<1> DEFINE cut == SubSeq(row, 1, n)
<1> HIDE DEF cut
<1>9. Range(cut) \subseteq Range(row)
  <2>1. DOMAIN cut = 1..n BY <1>8, SeqShape DEF cut
  <2>2. \A j \in 1..n : cut[j] \in Range(row)
    <3>1. \A j \in 1..n : j \in 1..Len(row) BY <1>6, <1>7
    <3> QED BY <1>6, <1>8, <3>1, SeqShape DEF cut
  <2> QED BY <2>1, <2>2 DEF Range
<1> QED BY <1>4, <1>6, <1>8, <1>9 DEF cut, first, row

\* A header with the contract's names first begins with them.
LEMMA ContractFirstIsPrefix ==
  ASSUME work \in Works, IsSeq(Observed), ContractFirst
  PROVE  IsPrefix(Names, Observed)
<1> DEFINE m == Min({Len(Observed), Len(Names)})
           t == SubSeq(Observed, 1, m)
<1>1. IsSeq(Names) /\ Len(Names) \in Nat /\ Len(Observed) \in Nat BY NamesShape, SeqShape
<1>2. m \in Nat /\ m <= Len(Observed) /\ m <= Len(Names) BY <1>1, MinPair
<1>3. Names = t BY DEF ContractFirst
<1> HIDE DEF m
<1>4. Len(t) = m /\ \A i \in 1..m : t[i] = Observed[i]
  <2>1. 1 \in Nat \ {0} OBVIOUS
  <2>2. /\ Len(t) = IF 1 <= m THEN m - 1 + 1 ELSE 0
        /\ \A i \in 1..(m - 1 + 1) : t[i] = Observed[1 + i - 1]
    BY <1>2, <2>1, SliceShape
  <2> HIDE DEF t
  <2> QED BY <1>2, <2>2
<1> HIDE DEF t
<1>5. Len(Names) <= Len(Observed) /\ \A i \in 1..Len(Names) : Names[i] = Observed[i]
  BY <1>2, <1>3, <1>4
<1> QED BY <1>1, <1>5, PrefixShape

LEMMA NamesFirst ==
  ASSUME work \in Works
  PROVE  /\ IsPrefix(Names, Names)
         /\ \A extra \in {<<>>, <<"other">>} : IsPrefix(Names, Names \o extra)
<1>1. IsSeq(Names) /\ Names \in Seq(Range(Names)) BY NamesShape DEF IsSeq
<1>2. IsPrefix(Names, Names)
  <2>1. Len(Names) <= Len(Names) BY NamesShape
  <2> QED BY <1>1, <2>1, PrefixShape
<1>3. ASSUME NEW extra \in {<<>>, <<"other">>} PROVE IsPrefix(Names, Names \o extra)
  <2> DEFINE S == Range(Names) \cup {"other"}
             t == Names \o extra
  <2>1. Names \in Seq(S) /\ extra \in Seq(S)
    <3>1. Names \in Seq(S) BY <1>1, SeqMonotonic
    <3>2. <<>> \in Seq(S) /\ <<"other">> \in Seq(S) OBVIOUS
    <3> QED BY <3>1, <3>2
  <2> HIDE DEF S
  <2>2. /\ t \in Seq(S) /\ Len(t) = Len(Names) + Len(extra)
        /\ Len(extra) \in Nat /\ Len(Names) \in Nat
        /\ \A i \in 1..Len(t) : t[i] = IF i <= Len(Names) THEN Names[i] ELSE extra[i - Len(Names)]
    BY <2>1, ConcatProperties
  <2> HIDE DEF t
  <2>3. IsSeq(t) BY <2>2, SeqIsSeq
  <2>4. Len(Names) <= Len(t) /\ \A i \in 1..Len(Names) : Names[i] = t[i] BY <2>2
  <2>5. IsPrefix(Names, t) BY <1>1, <2>3, <2>4, PrefixShape
  <2> QED BY <2>5 DEF t
<1> QED BY <1>2, <1>3

\* A shape that begins with the contract's names may be recorded.
LEMMA SyncedAligned ==
  ASSUME IsSeq(history), \A i \in DOMAIN history : IsPrefix(Names, history[i]),
         NEW shape, IsPrefix(Names, shape)
  PROVE  \A i \in DOMAIN Synced(shape) : IsPrefix(Names, Synced(shape)[i])
<1>1. CASE Synced(shape) = history BY <1>1
<1>2. CASE Synced(shape) = Append(history, shape)
  <2> DEFINE t == Append(history, shape)
  <2>1. /\ IsSeq(t) /\ Len(t) = Len(history) + 1
        /\ \A i \in 1..Len(history) : t[i] = history[i]
        /\ t[Len(history) + 1] = shape
    BY AppendShape
  <2> HIDE DEF t
  <2>2. DOMAIN history = 1..Len(history) /\ Len(history) \in Nat BY SeqShape
  <2>3. DOMAIN t = 1..(Len(history) + 1) BY <2>1, SeqShape
  <2>4. \A i \in DOMAIN t : IsPrefix(Names, t[i]) BY <2>1, <2>2, <2>3
  <2> QED BY <1>2, <2>4 DEF t
<1> QED BY <1>1, <1>2 DEF Synced

\* Files the classifier lets pass carry the contract's columns at their places.
LEMMA PassedAtItsPlace ==
  ASSUME work \in Works, IsSeq(Observed), Loadable \/ Observed = Names
  PROVE  AtItsPlace(Observed)
<1>1. IsSeq(Names) /\ Len(Names) \in Nat /\ DOMAIN Names = 1..Len(Names) BY NamesShape
<1>2. Len(Observed) \in Nat /\ DOMAIN Observed = 1..Len(Observed) BY SeqShape
<1>3. CASE Observed = Names BY <1>3 DEF AtItsPlace
<1>4. CASE Loadable /\ Added
  <2>1. IsPrefix(Names, Observed) BY <1>4, ContractFirstIsPrefix DEF Loadable
  <2>2. Len(Names) <= Len(Observed) /\ \A i \in 1..Len(Names) : Names[i] = Observed[i]
    BY <1>1, <2>1, PrefixShape
  <2> QED BY <1>1, <1>2, <2>2 DEF AtItsPlace
<1>5. CASE Loadable /\ ~Added
  <2>1. /\ IsPrefix(Observed, Names)
        /\ \A c \in (Len(Observed) + 1)..Len(Names) : Optional(c)
    BY <1>5 DEF Loadable, OnlyTrailingOptionalMissing
  <2>2. Len(Observed) <= Len(Names) /\ \A i \in 1..Len(Observed) : Observed[i] = Names[i]
    BY <1>1, <2>1, PrefixShape
  <2> QED BY <1>1, <1>2, <2>1, <2>2 DEF AtItsPlace
<1> QED BY <1>3, <1>4, <1>5

\* The names that a row of the sample is taken for.
ReadAs(i) == Trimmed(SampledRow(Parsed(Parts[1]), i))

HeaderRead ==
  /\ phase \in {"new", "decode", "dialect", "header"} => header.index = 0
  /\ header.index = 0 => header.names = <<>>
  /\ header.index > 0 => header.index <= Len(Parts[1])
  /\ \A i \in Nat \ {0} : header.index = i => header.names = ReadAs(i)
  /\ phase \in Inspected => current = 0 \/ AtItsPlace(header.names)
  /\ \A i \in DOMAIN history : IsPrefix(Names, history[i])

LEMMA HeaderNamesShape ==
  ASSUME StreamTyped, HeaderRead
  PROVE  IsSeq(header.names)
<1>1. CASE header.index = 0
  <2>1. <<>> \in Seq({}) OBVIOUS
  <2> QED BY <1>1, <2>1, SeqIsSeq DEF HeaderRead
<1>2. CASE header.index > 0
  <2>1. 1 \in DOMAIN File.ends BY WorkShape DEF StreamTyped
  <2>2. Len(Parts[1]) \in Nat BY <2>1, PartShape, SeqShape DEF StreamTyped
  <2>3. header.index \in 1..Len(Parts[1]) BY <1>2, <2>2 DEF HeaderRead, StreamTyped
  <2>4. header.names = ReadAs(header.index) BY <1>2 DEF HeaderRead, StreamTyped
  <2> QED BY <2>3, <2>4, SampledRowShape, TrimmedShape DEF ReadAs, StreamTyped
<1> QED BY <1>1, <1>2 DEF StreamTyped

\* A header with every contract column at its place is the line that names them.
LEMMA HeaderIsNamed ==
  ASSUME StreamTyped, HeaderRead, AtItsPlace(header.names)
  PROVE  header.index > 0 /\ header.index = File.header /\ split = "right"
<1> DEFINE R == RequiredNames(work)
           k == header.index
<1>1. NamedOnce(work) BY WorkAssumption DEF StreamTyped
<1>2. IsSeq(Names) /\ DOMAIN Names = 1..Len(Names) BY NamesShape DEF StreamTyped
<1>3. R \subseteq Range(header.names)
  <2> SUFFICES ASSUME NEW c \in DOMAIN Contract.columns, Contract.columns[c].required
               PROVE  Contract.columns[c].name \in Range(header.names)
    BY DEF RequiredNames, Contract
  <2>1. c \in DOMAIN Names /\ Names[c] = Contract.columns[c].name BY DEF Names
  <2>2. c \in DOMAIN header.names /\ header.names[c] = Names[c]
    BY <2>1 DEF AtItsPlace, Optional
  <2> QED BY <2>1, <2>2 DEF Range
<1>4. R # {} BY <1>1 DEF NamedOnce
<1>5. k > 0
  <2>1. Range(<<>>) = {} BY DEF Range
  <2> QED BY <1>3, <1>4, <2>1 DEF HeaderRead, StreamTyped
<1>6. 1 \in DOMAIN File.ends /\ LinesBefore(1) = 0 BY WorkShape DEF LinesBefore, StreamTyped
<1>7. /\ IsSeq(Parts[1]) /\ DOMAIN Parts[1] = 1..Len(Parts[1]) /\ Len(Parts[1]) \in Nat
      /\ \A i \in 1..Len(Parts[1]) : i \in 1..Len(Lines) /\ Parts[1][i] = Lines[i] /\ IsSeq(Parts[1][i])
  <2>1. Len(Parts[1]) \in Nat BY <1>6, PartShape, SeqShape DEF StreamTyped
  <2>2. /\ IsSeq(Parts[1]) /\ DOMAIN Parts[1] = 1..Len(Parts[1])
        /\ \A i \in 1..Len(Parts[1]) : /\ LinesBefore(1) + i \in 1..Len(Lines)
                                       /\ Parts[1][i] = Lines[LinesBefore(1) + i]
                                       /\ IsSeq(Parts[1][i])
    BY <1>6, PartShape DEF StreamTyped
  <2>3. \A i \in 1..Len(Parts[1]) : LinesBefore(1) + i = i BY <1>6, <2>1
  <2> QED BY <2>1, <2>2, <2>3
<1>8. k \in 1..Len(Parts[1]) BY <1>5, <1>7 DEF HeaderRead, StreamTyped
<1> DEFINE row == Parsed(Parts[1])[k]
           cut == SampledRow(Parsed(Parts[1]), k)
<1>9. IsSeq(cut) /\ Range(cut) \subseteq Range(row) BY <1>8, SampledRowShape DEF StreamTyped
<1>10. R \subseteq ReadNames(work, cut)
  <2>1. header.names = Trimmed(cut) BY <1>5 DEF HeaderRead, ReadAs, StreamTyped
  <2> HIDE DEF cut
  <2> QED BY <1>3, <1>9, <2>1, TrimmedShape
<1>11. R \subseteq ReadNames(work, row)
  <2> HIDE DEF cut, row
  <2>1. ReadNames(work, cut) \subseteq ReadNames(work, row) BY <1>9 DEF ReadNames
  <2> QED BY <1>10, <2>1
<1>12. split = "right"
  <2> SUFFICES ASSUME split # "right" PROVE FALSE OBVIOUS
  <2>1. row = <<Joined>> BY <1>7, <1>8, ParsedShape
  <2>2. R \cap ReadNames(work, <<Joined>>) = {} BY <1>1 DEF NamedOnce
  <2> QED BY <1>4, <1>11, <2>1, <2>2
<1>13. R \subseteq ReadNames(work, Lines[k])
  <2>1. Range(row) \subseteq Range(Lines[k]) \cup {Marked} BY <1>7, <1>8, <1>12, ParsedShape
  <2>2. Range(<<Marked>>) = {Marked} BY DEF Range
  <2>3. ReadNames(work, row) \subseteq ReadNames(work, Lines[k]) \cup ReadNames(work, <<Marked>>)
    <3> HIDE DEF row
    <3> QED BY <2>1, <2>2 DEF ReadNames
  <2>4. R \cap ReadNames(work, <<Marked>>) = {} BY <1>1 DEF NamedOnce
  <2> QED BY <1>11, <2>3, <2>4
<1>14. k \in DOMAIN work.file.lines /\ work.file.lines[k] = Lines[k]
  BY <1>7, <1>8, WorkShape DEF Lines, File, StreamTyped
<1>15. k = File.header BY <1>1, <1>13, <1>14 DEF NamedOnce, File
<1> QED BY <1>5, <1>12, <1>15

\* What a row of the sample is taken for depends on the encoding and the delimiter.
LEMMA ReadingKept ==
  ASSUME [CsvNext]_csvVars, UNCHANGED <<encoding, split>>
  PROVE  \A i : ReadAs(i)' = ReadAs(i)
<1>1. File' = File /\ Contract' = Contract /\ Parts' = Parts BY WorkKept
<1> QED BY <1>1 DEF ReadAs, Trimmed, SampledRow, Parsed, Decoded

\* A step that reads nothing new keeps what was read.
LEMMA HeaderKept ==
  ASSUME StreamTyped, HeaderRead, [CsvNext]_csvVars,
         UNCHANGED <<header, history>>,
         header.index = 0 \/ UNCHANGED <<encoding, split>>,
         phase' \in {"new", "decode", "dialect", "header"} =>
            phase \in {"new", "decode", "dialect", "header"},
         phase' \in Inspected => phase \in Inspected /\ UNCHANGED current
  PROVE  HeaderRead'
<1>1. Names' = Names /\ Parts' = Parts BY WorkKept
<1>2. AtItsPlace(header.names) => AtItsPlace(header.names)'
  <2>1. File' = File /\ Contract' = Contract BY WorkKept
  <2> QED BY <1>1, <2>1 DEF AtItsPlace, Optional
<1>3. \A i \in Nat \ {0} : header'.index = i => header'.names = ReadAs(i)'
  BY ReadingKept DEF HeaderRead
<1> QED BY <1>1, <1>2, <1>3 DEF HeaderRead

LEMMA HeaderReadInv == CsvSpec => []HeaderRead
<1>1. CsvInit => HeaderRead
  <2> SUFFICES ASSUME CsvInit PROVE HeaderRead OBVIOUS
  <2>1. \A i \in DOMAIN history : IsPrefix(Names, history[i])
    BY WorkAssumption DEF CsvInit, HistorySound, Names, Contract
  <2> QED BY <2>1 DEF CsvInit, HeaderRead, Inspected
<1>2. ASSUME StreamTyped, HeaderRead, [CsvNext]_csvVars PROVE HeaderRead'
  <2>0. /\ File' = File /\ Parts' = Parts /\ Contract' = Contract /\ Names' = Names
    BY <1>2, WorkKept
  <2> USE DEF Fail, Go
  <2>1. CASE ReadSample BY <1>2, <2>1, HeaderKept DEF ReadSample, profileVars, Inspected
  <2>2. CASE DetectEncoding BY <1>2, <2>2, HeaderKept DEF DetectEncoding, Inspected, HeaderRead
  <2>3. CASE DetectDialect BY <1>2, <2>3, HeaderKept DEF DetectDialect, Inspected, HeaderRead
  <2>4. CASE DetectHeader
    <3> DEFINE rows == IF split = None THEN <<>> ELSE SampledRows
               i == HeaderIndex(rows)
    <3>1. i \in Nat BY <1>2, RowsTyped DEF StreamTyped
    <3>2. CASE i > Len(rows) \/ (i > 0 /\ DuplicateNames(rows[i]))
      <4>1. UNCHANGED <<header, history, encoding, split>> /\ phase' = "failed"
        BY <2>4, <3>2 DEF DetectHeader
      <4> QED BY <1>2, <4>1, HeaderKept DEF Inspected
    <3>3. CASE ~(i > Len(rows) \/ (i > 0 /\ DuplicateNames(rows[i])))
      <4>1. /\ header' = [index |-> i, names |-> IF i = 0 THEN <<>> ELSE Trimmed(rows[i])]
            /\ phase' = "schema" /\ UNCHANGED <<history, encoding, split>>
        BY <2>4, <3>3 DEF DetectHeader
      <4>2. i > 0 => /\ i <= Len(Parts[1])
                     /\ rows[i] = SampledRow(Parsed(Parts[1]), i)
        <5>1. CASE split = None
          <6>1. i <= 0 BY <3>1, <3>3, <5>1
          <6> QED BY <3>1, <6>1
        <5>2. CASE split # None
          <6>1. rows = SampledRows BY <5>2
          <6>2. Len(rows) \in Nat /\ i <= Len(rows)
            BY <1>2, <3>1, <3>3, <6>1, SampledShape DEF StreamTyped
          <6>3. 1 \in DOMAIN File.ends BY <1>2, WorkShape DEF StreamTyped
          <6>4. Len(Parts[1]) \in Nat BY <1>2, <6>3, PartShape, SeqShape DEF StreamTyped
          <6>5. /\ Len(rows) <= Len(Parts[1])
                /\ \A j \in 1..Len(rows) : rows[j] = SampledRow(Parsed(Parts[1]), j)
            BY <1>2, <6>1, SampledShape DEF StreamTyped
          <6> HIDE DEF i, rows
          <6> QED BY <3>1, <6>2, <6>4, <6>5
        <5> QED BY <5>1, <5>2
      <4> HIDE DEF i, rows
      <4>4. \A j \in Nat \ {0} : header'.index = j => header'.names = ReadAs(j)'
        <5>1. \A j : ReadAs(j)' = ReadAs(j) BY <1>2, <4>1, ReadingKept
        <5>2. i > 0 => header'.names = ReadAs(i) BY <4>1, <4>2 DEF ReadAs
        <5> QED BY <3>1, <4>1, <5>1, <5>2
      <4> QED BY <1>2, <2>0, <3>1, <4>1, <4>2, <4>4 DEF HeaderRead, Inspected
    <3> QED BY <3>2, <3>3
  <2>5. CASE ReadCurrent BY <1>2, <2>5, HeaderKept DEF ReadCurrent, Inspected
  <2>6. CASE ResolveSchema
    <3>1. IsSeq(history) /\ work \in Works BY <1>2 DEF StreamTyped
    <3>2. IsSeq(Observed) BY <1>2, HeaderNamesShape DEF Observed
    <3>3. IsPrefix(Names, Names) BY <3>1, NamesFirst
    <3>4. \A i \in DOMAIN history : IsPrefix(Names, history[i]) BY <1>2 DEF HeaderRead
    <3>5. \A i \in DOMAIN history' : IsPrefix(Names, history'[i])
      <4>1. CASE history' = history BY <3>4, <4>1
      <4>2. CASE history' = Synced(Names)
        BY <3>1, <3>3, <3>4, <4>2, SyncedAligned
      <4>3. CASE Loadable /\ Added /\ history' = Synced(Observed)
        <5>1. IsPrefix(Names, Observed)
          BY <3>1, <3>2, <4>3, ContractFirstIsPrefix DEF Loadable
        <5> QED BY <3>1, <3>4, <4>3, <5>1, SyncedAligned
      <4> QED BY <2>6, <4>1, <4>2, <4>3 DEF ResolveSchema
    <3>6. phase' \in Inspected => current = 0 \/ Loadable \/ Observed = Names
      BY <2>6 DEF ResolveSchema, Inspected
    <3>7. phase' \in Inspected => current' = 0 \/ AtItsPlace(header.names)'
      <4>1. UNCHANGED <<header, current>> BY <2>6 DEF ResolveSchema, profileVars
      <4>2. AtItsPlace(header.names)' <=> AtItsPlace(Observed)
        BY <2>0, <4>1 DEF AtItsPlace, Optional, Observed
      <4> QED BY <3>1, <3>2, <3>6, <4>1, <4>2, PassedAtItsPlace
    <3>8. UNCHANGED profileVars /\ phase' \in {"filename", "failed"}
      BY <2>6 DEF ResolveSchema
    <3>9. \A i \in Nat \ {0} : header'.index = i => header'.names = ReadAs(i)'
      BY <1>2, <3>8, ReadingKept DEF profileVars, HeaderRead
    <3> QED BY <1>2, <2>0, <3>5, <3>7, <3>8, <3>9 DEF HeaderRead, profileVars
  <2>7. CASE ParseFilename BY <1>2, <2>7, HeaderKept DEF ParseFilename, Inspected
  <2>8. CASE OpenStream BY <1>2, <2>8, HeaderKept DEF OpenStream, profileVars, Inspected
  <2>9. CASE Pull BY <1>2, <2>9, HeaderKept DEF Pull, profileVars, Inspected
  <2>10. CASE ReadRecords BY <1>2, <2>10, HeaderKept DEF ReadRecords, profileVars, Inspected
  <2>11. CASE OtherFileSyncs
    <3>1. \E extra \in {<<>>, <<"other">>} : history' = Synced(Names \o extra)
      BY <2>11 DEF OtherFileSyncs
    <3>2. \A i \in DOMAIN history' : IsPrefix(Names, history'[i])
      BY <1>2, <3>1, NamesFirst, SyncedAligned DEF HeaderRead, StreamTyped
    <3>3. UNCHANGED <<phase, profileVars>> BY <2>11 DEF OtherFileSyncs
    <3>4. AtItsPlace(header.names) => AtItsPlace(header.names)'
      BY <2>0, <3>3 DEF AtItsPlace, Optional, profileVars
    <3>5. \A i \in Nat \ {0} : header'.index = i => header'.names = ReadAs(i)'
      BY <1>2, <3>3, ReadingKept DEF profileVars, HeaderRead
    <3> QED BY <1>2, <2>0, <3>2, <3>3, <3>4, <3>5 DEF HeaderRead, profileVars
  <2>12. CASE UNCHANGED csvVars BY <1>2, <2>12, HeaderKept DEF csvVars, Inspected
  <2> QED BY <1>2, <2>1, <2>2, <2>3, <2>4, <2>5, <2>6, <2>7, <2>8, <2>9, <2>10, <2>11, <2>12
          DEF CsvNext
<1> QED BY <1>1, <1>2, CsvTypeCorrect, PTL DEF CsvSpec

\* The line that is read off as a header has the contract's columns at their places
\* when it ended within the sample, and so does every recorded shape
\* (classify_schema_change of schema/evolution.py; source.py: _resolve_schema).
THEOREM CsvColumnsAligned == CsvSpec => []ColumnsAligned
<1>1. StreamTyped /\ HeaderRead => ColumnsAligned
  <2> SUFFICES ASSUME StreamTyped, HeaderRead, phase \in {"stream", "done"}, current > 0, HeaderWhole
               PROVE  AtItsPlace(Trimmed(Stream[Preamble + 1]))
    BY DEF ColumnsAligned, HeaderRead
  <2>1. AtItsPlace(header.names) BY DEF HeaderRead, Inspected
  <2>2. header.index > 0 BY <2>1, HeaderIsNamed
  <2>3. Preamble + 1 = header.index BY <2>2 DEF Preamble, StreamTyped
  <2>4. header.names = Trimmed(Stream[header.index])
    BY <2>2 DEF HeaderRead, ReadAs, HeaderWhole, StreamTyped
  <2> QED BY <2>1, <2>3, <2>4
<1> QED BY <1>1, CsvTypeCorrect, HeaderReadInv, PTL

-----------------------------------------------------------------------------
(* The records that are handed on.                                           *)

LEMMA ReverseShape ==
  ASSUME NEW s, IsSeq(s)
  PROVE  /\ IsSeq(Reverse(s)) /\ Len(Reverse(s)) = Len(s)
         /\ \A i \in 1..Len(s) : Reverse(s)[i] = s[Len(s) - i + 1]
<1> DEFINE t == Reverse(s)
<1>1. Len(s) \in Nat /\ \A i \in 1..Len(s) : s[i] \in Range(s) BY SeqShape
<1>2. t = [i \in 1..Len(s) |-> s[(Len(s) - i) + 1]] BY DEF Reverse
<1> HIDE DEF t
<1>3. DOMAIN t = 1..Len(s) /\ \A i \in 1..Len(s) : t[i] = s[Len(s) - i + 1] BY <1>2
<1>4. \A i \in 1..Len(s) : Len(s) - i + 1 \in 1..Len(s) BY <1>1
<1>5. \A i \in 1..Len(s) : t[i] \in Range(s) BY <1>1, <1>3, <1>4
<1>6. t = [i \in 1..Len(s) |-> t[i]] BY <1>2
<1>7. t \in Seq(Range(s)) /\ Len(t) = Len(s) BY <1>1, <1>3, <1>5, <1>6
<1>8. IsSeq(t) BY <1>7, SeqIsSeq
<1> QED BY <1>3, <1>7, <1>8 DEF t

\* A sequence whose elements are the last ones of another is a suffix of it.
LEMMA SuffixShape ==
  ASSUME NEW s, IsSeq(s), NEW t, IsSeq(t), Len(s) <= Len(t),
         \A i \in 1..Len(s) : s[i] = t[Len(t) - Len(s) + i]
  PROVE  IsSuffix(s, t)
<1>1. Len(s) \in Nat /\ Len(t) \in Nat BY SeqShape
<1>2. /\ IsSeq(Reverse(s)) /\ Len(Reverse(s)) = Len(s)
      /\ \A i \in 1..Len(s) : Reverse(s)[i] = s[Len(s) - i + 1]
  BY ReverseShape
<1>3. /\ IsSeq(Reverse(t)) /\ Len(Reverse(t)) = Len(t)
      /\ \A i \in 1..Len(t) : Reverse(t)[i] = t[Len(t) - i + 1]
  BY ReverseShape
<1>4. \A i \in 1..Len(s) : Reverse(s)[i] = Reverse(t)[i]
  <2> TAKE i \in 1..Len(s)
  <2>1. Len(s) - i + 1 \in 1..Len(s) /\ i \in 1..Len(t) BY <1>1
  <2>2. s[Len(s) - i + 1] = t[Len(t) - Len(s) + (Len(s) - i + 1)] BY <2>1
  <2>3. Len(t) - Len(s) + (Len(s) - i + 1) = Len(t) - i + 1 BY <1>1
  <2> QED BY <1>2, <1>3, <2>1, <2>2, <2>3
<1>5. IsPrefix(Reverse(s), Reverse(t)) BY <1>2, <1>3, <1>4, PrefixShape
<1> QED BY <1>5 DEF IsSuffix

\* Two slices of a sequence, one behind the other.
LEMMA AdjacentSlices ==
  ASSUME NEW s, IsSeq(s), NEW m \in Nat \ {0}, NEW k \in Nat, NEW n \in Nat,
         m <= k + 1, k <= n, n <= Len(s)
  PROVE  SubSeq(s, m, k) \o SubSeq(s, k + 1, n) = SubSeq(s, m, n)
<1>1. s \in Seq(Range(s)) /\ Len(s) \in Nat BY SeqShape
<1>2. \A i \in m..n : s[i] \in Range(s) BY <1>1, SeqShape
<1> QED BY <1>1, <1>2, ConcatAdjacentSubSeq

\* What was handed on ends where reading stopped, and begins where the chunk with the
\* ordinal asked for does; d records were passed over before it.
HandedOn ==
  \E d \in Nat :
     /\ Preamble + 1 + d < taken
     /\ delivered = SubSeq(Stream, Preamble + 1 + d + 1, taken)
     /\ work.start = None => d = 0
     /\ work.start # None => /\ d <= work.start /\ work.start < d + ChunkSize
                             /\ work.start < taken - (Preamble + 1)

Delivering ==
  /\ phase \notin {"stream", "done", "failed"} => taken = 0
  /\ taken # 0 => Preamble + 1 < taken /\ taken <= Len(Stream)
  /\ \/ delivered = <<>> /\ (taken = 0 \/ (work.start # None /\ taken - (Preamble + 1) <= work.start))
     \/ HandedOn
  /\ phase = "done" => Len(Stream) <= First

\* The stream is settled when it is opened.
LEMMA StreamKept ==
  ASSUME [CsvNext]_csvVars, UNCHANGED <<encoding, split, header>>
  PROVE  Stream' = Stream /\ Preamble' = Preamble
<1>1. File' = File /\ Lines' = Lines BY WorkKept
<1> QED BY <1>1 DEF Stream, Parsed, Decoded, Preamble

\* A chunk is passed over when it ends at or before the ordinal asked for; once one
\* has been handed on, so are all that follow.
LEMMA ChunkRead ==
  ASSUME StreamTyped, Delivering, ReadRecords, phase' = "stream"
  PROVE  Delivering'
<1> DEFINE P == Preamble + 1
           n == Len(Stream)
           last == Min({Wanted, n})
           rows == SubSeq(Stream, First + 1, last)
           start == work.start
<1>0. UNCHANGED <<work, encoding, split, header>> BY DEF ReadRecords, profileVars
<1>1. /\ IsSeq(Stream) /\ n \in Nat /\ Preamble \in Nat /\ P \in Nat
      /\ First \in Nat /\ Wanted \in Nat /\ First < Wanted
      /\ last = IF Wanted <= n THEN Wanted ELSE n
  BY StreamShape, ReadingBounds DEF StreamTyped
<1>2. taken \in Nat /\ start \in {None} \cup Nat /\ ChunkSize \in Nat \ {0} /\ None \notin Nat
  BY WorkAssumption, SizeAssumption DEF StreamTyped, WorkTyped
<1>3. First = (IF taken = 0 THEN P ELSE taken) /\ Wanted = First + ChunkSize
  BY DEF First, Wanted
<1>4. /\ rows # <<>> /\ taken' = last
      /\ delivered' = IF Skipped(First - Preamble - 1, Len(rows)) THEN delivered ELSE delivered \o rows
  BY DEF ReadRecords, Fail, Go
<1>5. (Stream)' = Stream /\ Preamble' = Preamble
  <2>1. [CsvNext]_csvVars BY DEF CsvNext
  <2> QED BY <1>0, <2>1, StreamKept
<1> HIDE DEF last
<1>6. last \in Nat /\ last <= n BY <1>1
<1>7. /\ Len(rows) = IF First + 1 <= last THEN last - (First + 1) + 1 ELSE 0
      /\ IsSeq(rows)
  BY <1>1, <1>6, SliceShape
<1>8. First < last /\ Len(rows) = last - First
  <2> HIDE DEF rows
  <2>1. Len(rows) # 0
    <3>1. rows \in Seq(Range(rows)) BY <1>7 DEF IsSeq
    <3> QED BY <1>4, <3>1, EmptySeq
  <2> QED BY <1>1, <1>6, <1>7, <2>1
<1>9. P <= First /\ last <= First + ChunkSize BY <1>1, <1>2, <1>3, <1>6, <1>8 DEF Delivering
<1>10. taken' # 0 /\ P < taken' /\ taken' <= n BY <1>1, <1>4, <1>6, <1>8, <1>9
<1>11. Skipped(First - Preamble - 1, Len(rows)) <=> start # None /\ last - P <= start
  <2>1. First - Preamble - 1 + Len(rows) = last - P BY <1>1, <1>6, <1>8
  <2> HIDE DEF rows
  <2> QED BY <2>1 DEF Skipped
<1> DEFINE Fresh == delivered = <<>> /\ (taken = 0 \/ (start # None /\ taken - P <= start))
<1>12. Fresh \/ HandedOn BY DEF Delivering
<1> HIDE DEF rows
<1>13. \/ delivered' = <<>> /\ start # None /\ taken' - P <= start
       \/ \E d \in Nat : /\ P + d < taken'
                         /\ delivered' = SubSeq(Stream, P + d + 1, taken')
                         /\ start = None => d = 0
                         /\ start # None => /\ d <= start /\ start < d + ChunkSize
                                            /\ start < taken' - P
  <2>1. CASE Fresh /\ start # None /\ last - P <= start
    BY <1>4, <1>11, <2>1
  <2>2. CASE Fresh /\ ~(start # None /\ last - P <= start)
    <3>1. delivered' = rows
      <4>1. rows \in Seq(Range(rows)) BY <1>7 DEF IsSeq
      <4> QED BY <1>4, <1>11, <2>2, <4>1, ConcatEmptySeq
    <3> DEFINE d == First - P
    <3>2. d \in Nat /\ P + d = First BY <1>1, <1>9
    <3>3. delivered' = SubSeq(Stream, P + d + 1, taken')
      BY <1>4, <3>1, <3>2 DEF rows
    <3>4. start = None => d = 0 BY <1>1, <1>3, <2>2
    <3>5. start # None => d <= start /\ start < d + ChunkSize /\ start < taken' - P
      BY <1>1, <1>2, <1>3, <1>4, <1>6, <1>9, <2>2
    <3>6. P + d < taken' BY <1>4, <1>8, <3>2
    <3> HIDE DEF d, P
    <3> QED BY <3>2, <3>3, <3>4, <3>5, <3>6
  <2>3. CASE HandedOn
    <3>1. PICK d \in Nat :
             /\ P + d < taken
             /\ delivered = SubSeq(Stream, P + d + 1, taken)
             /\ start = None => d = 0
             /\ start # None => d <= start /\ start < d + ChunkSize /\ start < taken - P
      BY <2>3 DEF HandedOn
    <3>2. First = taken BY <1>1, <1>2, <1>3, <3>1
    <3>3. ~(start # None /\ last - P <= start) BY <1>1, <1>2, <1>6, <1>8, <3>1, <3>2
    <3>4. delivered' = SubSeq(Stream, P + d + 1, taken) \o SubSeq(Stream, taken + 1, last)
      BY <1>4, <1>11, <3>1, <3>2, <3>3 DEF rows
    <3>5. SubSeq(Stream, P + d + 1, taken) \o SubSeq(Stream, taken + 1, last)
             = SubSeq(Stream, P + d + 1, last)
      <4>1. /\ P + d + 1 \in Nat \ {0} /\ P + d + 1 <= taken + 1 /\ taken <= last
        BY <1>1, <1>2, <1>6, <1>8, <3>1, <3>2
      <4>2. IsSeq(Stream) /\ taken \in Nat /\ last \in Nat /\ last <= Len(Stream)
        BY <1>1, <1>2, <1>6
      <4> DEFINE b == P + d + 1
      <4> HIDE DEF P, b, n
      <4>3. SubSeq(Stream, b, taken) \o SubSeq(Stream, taken + 1, last) = SubSeq(Stream, b, last)
        BY <4>1, <4>2, AdjacentSlices DEF b
      <4> QED BY <4>3 DEF b
    <3>6. P + d < taken' BY <1>1, <1>2, <1>4, <1>6, <1>8, <3>1, <3>2
    <3>7. start # None => start < taken' - P BY <1>1, <1>2, <1>4, <1>6, <1>8, <3>1, <3>2
    <3> HIDE DEF P, start
    <3> QED BY <1>4, <3>1, <3>4, <3>5, <3>6, <3>7
  <2> QED BY <1>12, <2>1, <2>2, <2>3
<1>14. Delivering'
  <2>1. phase' \notin {"stream", "done", "failed"} => taken' = 0 OBVIOUS
  <2>2. taken' # 0 => Preamble' + 1 < taken' /\ taken' <= Len(Stream') BY <1>5, <1>10
  <2>3. \/ /\ delivered' = <<>>
           /\ (taken' = 0 \/ (work'.start # None /\ taken' - (Preamble' + 1) <= work'.start))
        \/ HandedOn'
    BY <1>0, <1>5, <1>13 DEF HandedOn
  <2> QED BY <2>1, <2>2, <2>3 DEF Delivering
<1> QED BY <1>14

LEMMA DeliveringInv == CsvSpec => []Delivering
<1>1. CsvInit => Delivering BY DEF CsvInit, Delivering
<1>2. ASSUME StreamTyped, Delivering, [CsvNext]_csvVars PROVE Delivering'
  <2>0. work' = work BY <1>2, WorkKept
  <2>1. ASSUME phase \notin {"stream", "done", "failed"}, UNCHANGED <<taken, delivered>>,
               phase' # "done"
        PROVE  Delivering'
    <3>1. taken = 0 BY <1>2, <2>1 DEF Delivering
    <3>2. delivered = <<>> BY <1>2, <3>1 DEF Delivering, HandedOn, StreamTyped, Preamble
    <3> QED BY <2>1, <3>1, <3>2 DEF Delivering
  <2>2. ASSUME UNCHANGED <<profileVars, taken, delivered>>,
               phase' \notin {"stream", "done", "failed"} => phase \notin {"stream", "done", "failed"},
               phase' = "done" => Len(Stream) <= First
        PROVE  Delivering'
    <3>1. Stream' = Stream /\ Preamble' = Preamble BY <1>2, <2>2, StreamKept DEF profileVars
    <3>2. HandedOn => HandedOn' BY <2>0, <2>2, <3>1 DEF HandedOn
    <3>3. First' = First BY <2>2, <3>1 DEF First
    <3> QED BY <1>2, <2>0, <2>2, <3>1, <3>2, <3>3 DEF Delivering
  <2> USE DEF Fail, Go
  <2>3. CASE ReadSample BY <2>1, <2>3 DEF ReadSample, streamVars
  <2>4. CASE DetectEncoding BY <2>1, <2>4 DEF DetectEncoding, streamVars
  <2>5. CASE DetectDialect BY <2>1, <2>5 DEF DetectDialect, streamVars
  <2>6. CASE DetectHeader BY <2>1, <2>6 DEF DetectHeader, streamVars
  <2>7. CASE ReadCurrent BY <2>1, <2>7 DEF ReadCurrent, streamVars
  <2>8. CASE ResolveSchema BY <2>1, <2>8 DEF ResolveSchema, streamVars
  <2>9. CASE ParseFilename BY <2>1, <2>9 DEF ParseFilename, streamVars
  <2>10. CASE OpenStream BY <2>1, <2>10 DEF OpenStream, streamVars
  <2>11. CASE Pull BY <2>2, <2>11 DEF Pull
  <2>12. CASE ReadRecords
    <3>1. CASE phase' = "stream" BY <1>2, <2>12, <3>1, ChunkRead
    <3>2. CASE phase' # "stream"
      <4>1. phase' \in {"failed", "done"} /\ UNCHANGED <<profileVars, taken, delivered>>
        BY <2>12, <3>2 DEF ReadRecords
      <4>2. phase' = "done" => Len(Stream) <= First BY <1>2, <2>12, EndOfStream
      <4> QED BY <2>2, <4>1, <4>2
    <3> QED BY <3>1, <3>2
  <2>13. CASE OtherFileSyncs
    <3>1. UNCHANGED <<profileVars, taken, delivered>> /\ phase' = phase /\ phase # "done"
      BY <2>13 DEF OtherFileSyncs, streamVars
    <3> QED BY <2>2, <3>1
  <2>14. CASE UNCHANGED csvVars
    <3>1. UNCHANGED <<profileVars, taken, delivered>> /\ phase' = phase
      BY <2>14 DEF csvVars, profileVars
    <3> QED BY <1>2, <2>2, <3>1 DEF Delivering
  <2> QED BY <1>2, <2>3, <2>4, <2>5, <2>6, <2>7, <2>8, <2>9, <2>10, <2>11, <2>12, <2>13, <2>14
          DEF CsvNext
<1> QED BY <1>1, <1>2, CsvTypeCorrect, PTL DEF CsvSpec

\* The records behind the header, and a slice of the stream's that begins there.
LEMMA DataShape ==
  ASSUME work \in Works, split = "right", File.header \in 1..Len(Lines)
  PROVE  /\ IsSeq(Data) /\ Len(Data) = Len(Lines) - File.header
         /\ \A d \in Nat : d <= Len(Data) =>
              LET s == SubSeq(Stream, File.header + d + 1, Len(Lines)) IN
              IsSuffix(s, Data) /\ Len(s) = Len(Data) - d
<1> DEFINE h == File.header
           n == Len(Lines)
<1>1. /\ IsSeq(Lines) /\ n \in Nat /\ DOMAIN Lines = 1..n /\ \A i \in 1..n : IsSeq(Lines[i])
  BY WorkShape
<1>2. /\ IsSeq(Stream) /\ Len(Stream) = n /\ \A i \in 1..n : i > 1 => Stream[i] = Lines[i]
  BY <1>1, ParsedShape DEF Stream
<1>3. h \in Nat /\ h >= 1 /\ h <= n BY <1>1
<1> HIDE DEF h, n
<1>4. /\ IsSeq(Data) /\ Len(Data) = n - h
      /\ \A i \in 1..(n - h) : Data[i] = Lines[h + i]
  <2>1. h + 1 \in Nat \ {0} /\ n <= Len(Lines) BY <1>1, <1>3 DEF n
  <2>2. /\ IsSeq(SubSeq(Lines, h + 1, n))
        /\ Len(SubSeq(Lines, h + 1, n)) = IF h + 1 <= n THEN n - (h + 1) + 1 ELSE 0
        /\ \A i \in 1..(n - (h + 1) + 1) : SubSeq(Lines, h + 1, n)[i] = Lines[h + 1 + i - 1]
    BY <1>1, <2>1, SliceShape
  <2>3. Data = SubSeq(Lines, h + 1, n) BY DEF Data, h, n
  <2> QED BY <1>1, <1>3, <2>2, <2>3
<1>5. ASSUME NEW d \in Nat, d <= n - h
      PROVE  /\ IsSuffix(SubSeq(Stream, h + d + 1, n), Data)
             /\ Len(SubSeq(Stream, h + d + 1, n)) = n - h - d
  <2> DEFINE s == SubSeq(Stream, h + d + 1, n)
  <2>1. h + d + 1 \in Nat \ {0} /\ n <= Len(Stream) BY <1>1, <1>2, <1>3
  <2>2. /\ IsSeq(s) /\ Len(s) = IF h + d + 1 <= n THEN n - (h + d + 1) + 1 ELSE 0
        /\ \A i \in 1..(n - (h + d + 1) + 1) : s[i] = Stream[h + d + 1 + i - 1]
    BY <1>1, <1>2, <2>1, SliceShape
  <2> HIDE DEF s
  <2>3. Len(s) = n - h - d BY <1>1, <1>3, <1>5, <2>2
  <2>4. \A i \in 1..Len(s) : s[i] = Data[Len(Data) - Len(s) + i]
    <3> TAKE i \in 1..Len(s)
    <3>1. s[i] = Stream[h + d + i] BY <1>1, <1>3, <2>2, <2>3
    <3>2. h + d + i \in 1..n /\ h + d + i > 1 BY <1>1, <1>3, <2>3
    <3>3. d + i \in 1..(n - h) /\ Len(Data) - Len(s) + i = d + i BY <1>1, <1>3, <1>4, <2>3
    <3>4. Data[d + i] = Lines[h + (d + i)] BY <1>4, <3>3
    <3>5. h + (d + i) = h + d + i BY <1>3
    <3> QED BY <1>2, <3>1, <3>2, <3>3, <3>4, <3>5
  <2>5. Len(s) <= Len(Data) BY <1>1, <1>3, <1>4, <2>3
  <2>6. IsSuffix(s, Data) BY <1>4, <2>2, <2>4, <2>5, SuffixShape
  <2> QED BY <2>3, <2>6 DEF s
<1>6. \A d \in Nat : d <= Len(Data) => d <= n - h BY <1>4
<1> QED BY <1>4, <1>5, <1>6 DEF h, n

\* What the loader has been handed when the stream ends are the records behind the
\* header from the chunk with the ordinal asked for on (source.py: chunks,
\* chunked_records).
THEOREM CsvRowsDelivered == CsvSpec => []RowsDelivered
<1>1. StreamTyped /\ HeaderRead /\ Delivering => RowsDelivered
  <2> SUFFICES ASSUME StreamTyped, HeaderRead, Delivering, phase = "done", current > 0
               PROVE  /\ IsSuffix(delivered, Data)
                      /\ Len(Data) - From <= Len(delivered)
                      /\ Len(delivered) < Len(Data) - From + ChunkSize
    BY DEF RowsDelivered
  <2> DEFINE h == File.header
             n == Len(Lines)
             m == Len(Data)
             start == work.start
  <2>1. AtItsPlace(header.names) BY DEF HeaderRead, Inspected
  <2>2. header.index > 0 /\ header.index = h /\ split = "right" BY <2>1, HeaderIsNamed
  <2>3. Preamble + 1 = h /\ h \in Nat /\ h >= 1 BY <2>2 DEF Preamble, StreamTyped
  <2>4. n \in Nat /\ Len(Stream) = n BY StreamShape DEF StreamTyped
  <2>5. h <= n
    <3>1. 1 \in DOMAIN File.ends BY WorkShape DEF StreamTyped
    <3>2. Len(Parts[1]) \in Nat BY <3>1, PartShape, SeqShape DEF StreamTyped
    <3>3. h \in 1..Len(Parts[1]) BY <2>2, <2>3, <3>2 DEF HeaderRead
    <3>4. LinesBefore(1) = 0 BY DEF LinesBefore
    <3>5. LinesBefore(1) + h \in 1..Len(Lines)
      <4> HIDE DEF h
      <4> QED BY <3>1, <3>3, PartShape DEF StreamTyped
    <3> QED BY <2>3, <2>4, <3>4, <3>5
  <2>6. start \in {None} \cup Nat /\ None \notin Nat /\ ChunkSize \in Nat \ {0} /\ taken \in Nat
    BY WorkAssumption, SizeAssumption DEF StreamTyped, WorkTyped
  <2>7. /\ m = n - h
        /\ \A d \in Nat : d <= m => /\ IsSuffix(SubSeq(Stream, h + d + 1, n), Data)
                                    /\ Len(SubSeq(Stream, h + d + 1, n)) = m - d
    <3>1. h \in 1..Len(Lines) BY <2>3, <2>4, <2>5
    <3> QED BY <2>2, <3>1, DataShape DEF StreamTyped
  <2>8. From = IF start = None THEN 0 ELSE IF start <= m THEN start ELSE m
    <3> HIDE DEF m
    <3>1. m \in Int BY <2>3, <2>4, <2>7
    <3> QED BY <2>6, <3>1, MinPair DEF From, m
  <2>9. taken # 0 => taken = n
    BY <2>3, <2>4, <2>6 DEF Delivering, First
  <2>10. taken = 0 => n = h
    BY <2>3, <2>4, <2>5 DEF Delivering, First
  <2> HIDE DEF h, n, m, start
  <2>11. CASE HandedOn
    <3>1. PICK d \in Nat :
             /\ h + d < taken /\ delivered = SubSeq(Stream, h + d + 1, taken)
             /\ start = None => d = 0
             /\ start # None => d <= start /\ start < d + ChunkSize
      BY <2>3, <2>11 DEF HandedOn, start
    <3>2. taken = n /\ d <= m BY <2>3, <2>4, <2>6, <2>7, <2>9, <3>1
    <3>3. IsSuffix(delivered, Data) /\ Len(delivered) = m - d BY <2>7, <3>1, <3>2
    <3>4. d <= From /\ From < d + ChunkSize /\ From \in Int
      <4>1. m \in Int BY <2>3, <2>4, <2>7
      <4>2. CASE start = None
        <5>1. From = 0 /\ d = 0 BY <2>8, <3>1, <4>2
        <5> QED BY <2>6, <5>1
      <4>3. CASE start # None
        <5>1. start \in Nat /\ From = IF start <= m THEN start ELSE m BY <2>6, <2>8, <4>3
        <5> HIDE DEF From
        <5> QED BY <2>6, <3>1, <3>2, <4>1, <4>3, <5>1
      <4> QED BY <4>2, <4>3
    <3>5. m \in Int BY <2>3, <2>4, <2>7
    <3> QED BY <2>6, <3>3, <3>4, <3>5 DEF m
  <2>12. CASE ~HandedOn
    <3>1. delivered = <<>> /\ (taken = 0 \/ (start # None /\ taken - h <= start))
      BY <2>3, <2>12 DEF Delivering, start
    <3>2. m \in Nat BY <2>3, <2>4, <2>5, <2>7
    <3>3. From = m
      <4>1. CASE taken = 0
        <5>1. m = 0 BY <2>3, <2>4, <2>7, <2>10, <4>1
        <5>2. start # None => start \in Nat BY <2>6
        <5> QED BY <2>8, <5>1, <5>2
      <4>2. CASE taken # 0
        <5>1. start # None /\ n - h <= start BY <2>9, <3>1, <4>2
        <5>2. start \in Nat /\ m <= start BY <2>6, <2>7, <5>1
        <5>3. start <= m => start = m BY <3>2, <5>2
        <5> QED BY <2>8, <5>1, <5>3
      <4> QED BY <4>1, <4>2
    <3>4. Len(delivered) = 0 BY <3>1
    <3>5. IsSuffix(delivered, Data)
      <4>1. IsSeq(delivered)
        <5>1. <<>> \in Seq({}) OBVIOUS
        <5> QED BY <3>1, <5>1, SeqIsSeq
      <4>2. IsSeq(Data)
        <5>1. File.header \in 1..Len(Lines) BY <2>3, <2>4, <2>5 DEF h, n
        <5> QED BY <2>2, <5>1, DataShape DEF StreamTyped
      <4>3. Len(delivered) <= Len(Data) /\ \A i \in 1..Len(delivered) : FALSE
        BY <3>2, <3>4 DEF m
      <4> QED BY <4>1, <4>2, <4>3, SuffixShape
    <3> QED BY <2>6, <3>2, <3>3, <3>4, <3>5 DEF m
  <2> QED BY <2>11, <2>12
<1> QED BY <1>1, CsvTypeCorrect, HeaderReadInv, DeliveringInv, PTL
=============================================================================
