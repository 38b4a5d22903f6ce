----------------------------- MODULE Scd2_proofs -----------------------------
(***************************************************************************)
(* Proofs about the scd publisher: for every set of runs, files and passes,   *)
(* any number of passes that die, and every way of staging and overlapping.   *)
(***************************************************************************)
EXTENDS Scd2, Ordering_proofs

-----------------------------------------------------------------------------
(* Rows.                                                                     *)

AllRows == UNION {Rows[f] : f \in File}

\* There are finitely many rows, and thus keys.
LEMMA RowsFinite == IsFiniteSet(AllRows) /\ IsFiniteSet(Keys)
<1> DEFINE fileOf == [r \in Run |-> FileOf[r]]
           rowsOf == [f \in File |-> Rows[f]]
           keyOf  == [x \in AllRows |-> x.key]
<1>1. IsFiniteSet(File)
  <2>1. fileOf \in Surjection(Run, File) BY DEF Surjection, File
  <2> QED BY <2>1, FS_Surjection, Scd2Assumption DEF Scd2Assumption
<1>2. IsFiniteSet({Rows[f] : f \in File})
  <2>1. rowsOf \in Surjection(File, {Rows[f] : f \in File}) BY DEF Surjection
  <2> QED BY <2>1, <1>1, FS_Surjection
<1>3. IsFiniteSet(AllRows)
  <2>1. \A T \in {Rows[f] : f \in File} : IsFiniteSet(T)
    BY Scd2Assumption DEF Scd2Assumption
  <2> QED BY <2>1, <1>2, FS_UNION DEF AllRows
<1>4. IsFiniteSet(Keys)
  <2>1. keyOf \in Surjection(AllRows, Keys) BY DEF Surjection, Keys, AllRows
  <2> QED BY <2>1, <1>3, FS_Surjection
<1> QED BY <1>3, <1>4

\* The sentinel lies after every timestamp.
LEMMA SentinelLater ==
  \A x \in AllRows : x.ts \in Nat \ {0} /\ Sentinel \in Nat /\ x.ts < Sentinel
<1> DEFINE T == {x.ts : x \in AllRows}
           stamp == [x \in AllRows |-> x.ts]
<1> SUFFICES ASSUME AllRows # {}
             PROVE  \A x \in AllRows : /\ x.ts \in Nat \ {0}
                                       /\ Sentinel \in Nat /\ x.ts < Sentinel
  OBVIOUS
<1>1. T \in SUBSET Nat /\ T # {} /\ \A x \in AllRows : x.ts \in Nat \ {0}
  BY Scd2Assumption DEF Scd2Assumption, AllRows
<1>2. IsFiniteSet(T)
  <2>1. stamp \in Surjection(AllRows, T) BY DEF Surjection
  <2> QED BY <2>1, RowsFinite, FS_Surjection
<1>3. \E t \in T : \A u \in T : u <= t BY <1>1, <1>2, LargestExists
<1>4. \E t \in T : \A f \in File : \A x \in Rows[f] : x.ts <= t
  BY <1>3 DEF AllRows
<1>5. PICK t \in T : Sentinel = 1 + t /\ \A f \in File : \A x \in Rows[f] : x.ts <= t
  BY <1>4 DEF Sentinel, AllRows
<1>6. t \in Nat BY <1>1
<1>7. \A x \in AllRows : x.ts <= t BY <1>5 DEF AllRows
<1> QED BY <1>1, <1>5, <1>6, <1>7

\* A row as bronze holds it.
BronzeRow(x) ==
    /\ x.key \in Keys
    /\ x.ts \in Nat /\ Sentinel \in Nat /\ x.ts < Sentinel
    /\ x.num = <<x.num[1], x.num[2]>> /\ x.num[1] \in Nat /\ x.num[2] \in Nat

\* Rows of a run: as in its file, tagged with the file; none are alike.
LEMMA RowsOfRun ==
  ASSUME NEW r \in Run
  PROVE  /\ \A x \in RowsOf(r) : \E y \in Rows[FileOf[r]] :
               /\ x.key = y.key /\ x.ts = y.ts /\ x.tracked = y.tracked
               /\ x.num = <<FileOf[r], y.num>>
               /\ x = [y EXCEPT !.num = <<FileOf[r], y.num>>]
         /\ \A x \in RowsOf(r) : BronzeRow(x)
         /\ RowsOf(r) # {}
<1>1. FileOf[r] \in File BY DEF File
<1>2. ASSUME NEW x \in RowsOf(r)
      PROVE  /\ \E y \in Rows[FileOf[r]] :
               /\ x.key = y.key /\ x.ts = y.ts /\ x.tracked = y.tracked
               /\ x.num = <<FileOf[r], y.num>>
               /\ x = [y EXCEPT !.num = <<FileOf[r], y.num>>]
             /\ BronzeRow(x)
  <2>1. PICK y \in Rows[FileOf[r]] : x = [y EXCEPT !.num = <<FileOf[r], y.num>>]
    BY DEF RowsOf
  <2>2. y = [key |-> y.key, ts |-> y.ts, num |-> y.num, tracked |-> y.tracked,
             birth |-> y.birth, signup |-> y.signup] /\ y.num \in Nat
    BY <1>1, Scd2Assumption DEF Scd2Assumption
  <2>3. x.key = y.key /\ x.ts = y.ts /\ x.tracked = y.tracked
        /\ x.num = <<FileOf[r], y.num>>
    BY <2>1, <2>2
  <2>4. y \in AllRows BY <1>1 DEF AllRows
  <2>5. y.ts \in Nat /\ Sentinel \in Nat /\ y.ts < Sentinel
    BY <2>4, SentinelLater
  <2>6. y.key \in Keys BY <2>4 DEF Keys, AllRows
  <2>7. FileOf[r] \in Nat BY <1>1, Scd2Assumption DEF Scd2Assumption
  <2> QED BY <2>1, <2>2, <2>3, <2>5, <2>6, <2>7 DEF BronzeRow
<1>3. RowsOf(r) # {}
  <2>1. Rows[FileOf[r]] # {} BY <1>1, Scd2Assumption DEF Scd2Assumption
  <2> QED BY <2>1 DEF RowsOf
<1> QED BY <1>2, <1>3

\* Bronze identifies a row by its file and line, whichever runs delivered it.
LEMMA RowsDiffer ==
  /\ \A x \in RowsOfRuns(Run) : BronzeRow(x)
  /\ \A x, y \in RowsOfRuns(Run) : x.num = y.num => x = y
<1>1. \A x \in RowsOfRuns(Run) : BronzeRow(x) BY RowsOfRun DEF RowsOfRuns
<1>2. ASSUME NEW x \in RowsOfRuns(Run), NEW y \in RowsOfRuns(Run), x.num = y.num
      PROVE  x = y
  <2>1. PICK r \in Run : x \in RowsOf(r) BY DEF RowsOfRuns
  <2>2. PICK s \in Run : y \in RowsOf(s) BY DEF RowsOfRuns
  <2>3. PICK u \in Rows[FileOf[r]] : /\ x.num = <<FileOf[r], u.num>>
                                     /\ x = [u EXCEPT !.num = <<FileOf[r], u.num>>]
    BY <2>1, RowsOfRun
  <2>4. PICK v \in Rows[FileOf[s]] : /\ y.num = <<FileOf[s], v.num>>
                                     /\ y = [v EXCEPT !.num = <<FileOf[s], v.num>>]
    BY <2>2, RowsOfRun
  <2>5. <<FileOf[r], u.num>> = <<FileOf[s], v.num>> BY <1>2, <2>3, <2>4
  <2>6. FileOf[r] = FileOf[s] /\ u.num = v.num BY <2>5
  <2>7. u = v BY <2>6, Scd2Assumption DEF Scd2Assumption, File
  <2> QED BY <2>3, <2>4, <2>6, <2>7
<1> QED BY <1>1, <1>2

\* A set of runs has finitely many rows.
LEMMA BronzeFinite == IsFiniteSet(RowsOfRuns(Run))
<1> DEFINE rowsOf == [r \in Run |-> RowsOf(r)]
<1>1. IsFiniteSet({RowsOf(r) : r \in Run})
  <2>1. rowsOf \in Surjection(Run, {RowsOf(r) : r \in Run}) BY DEF Surjection
  <2> QED BY <2>1, FS_Surjection, Scd2Assumption DEF Scd2Assumption
<1>2. ASSUME NEW r \in Run PROVE IsFiniteSet(RowsOf(r))
  <2> DEFINE tag == [x \in Rows[FileOf[r]] |-> [x EXCEPT !.num = <<FileOf[r], x.num>>]]
  <2>1. tag \in Surjection(Rows[FileOf[r]], RowsOf(r)) BY DEF Surjection, RowsOf
  <2>2. IsFiniteSet(Rows[FileOf[r]]) BY Scd2Assumption DEF Scd2Assumption, File
  <2> HIDE DEF tag
  <2> QED BY <2>1, <2>2, FS_Surjection
<1> QED BY <1>1, <1>2, FS_UNION DEF RowsOfRuns

\* The latest row of some runs has a timestamp, and no other row a later one.
LEMMA LatestRow ==
  ASSUME NEW S \in SUBSET Run, S # {}
  PROVE  LET t == MaxTs(RowsOfRuns(S)) IN
         /\ t \in Nat /\ Sentinel \in Nat /\ t < Sentinel
<1> DEFINE X == RowsOfRuns(S)
           T == {x.ts : x \in X}
           stamp == [x \in X |-> x.ts]
<1>1. X \subseteq RowsOfRuns(Run) BY DEF RowsOfRuns
<1>2. X # {} BY RowsOfRun DEF RowsOfRuns
<1>3. IsFiniteSet(X) BY <1>1, BronzeFinite, FS_Subset
<1> HIDE DEF X
<1>4. T \in SUBSET Nat /\ T # {} BY <1>1, <1>2, RowsDiffer DEF BronzeRow
<1>5. IsFiniteSet(T)
  <2>1. stamp \in Surjection(X, T) BY DEF Surjection
  <2> QED BY <2>1, <1>3, FS_Surjection
<1>6. \E t \in T : \A u \in T : u <= t BY <1>4, <1>5, LargestExists
<1>7. \E t \in {x.ts : x \in X} : \A x \in X : x.ts <= t BY <1>6
<1>8. MaxTs(X) \in T BY <1>7 DEF MaxTs
<1>9. \A u \in T : u \in Nat /\ Sentinel \in Nat /\ u < Sentinel
  BY <1>1, RowsDiffer DEF BronzeRow
<1> QED BY <1>8, <1>9 DEF X

-----------------------------------------------------------------------------
(* Version chains.                                                           *)

VersionFields ==
    {"key", "tracked", "birth", "signup", "from", "to", "current", "lineage"}

\* A version ends at the sentinel exactly if it is the current one.
IsVersion(v) ==
    /\ DOMAIN v = VersionFields
    /\ v.key \in Keys
    /\ v.from \in Nat /\ v.to \in Nat /\ Sentinel \in Nat
    /\ v.from < Sentinel /\ v.to <= Sentinel
    /\ \/ v.current = TRUE /\ v.to = Sentinel
       \/ v.current = FALSE /\ v.to # Sentinel

\* What the exclusion constraint asks of the table.
TableSound(table) ==
    /\ \A v \in table : IsVersion(v)
    /\ \A v, w \in table : v.key = w.key /\ v # w => ~Overlap(v, w)

KeysIn(table) == {v.key : v \in table}

LEMMA CurrentIsOpen ==
  ASSUME NEW v, IsVersion(v) PROVE v.current <=> v.to = Sentinel
<1>1. (v.current = TRUE /\ v.to = Sentinel) \/ (v.current = FALSE /\ v.to # Sentinel)
  BY DEF IsVersion
<1> QED BY <1>1

\* The rows of bronze are in a strict total order.
LEMMA EarlierOrders ==
  ASSUME NEW H \in SUBSET RowsOfRuns(Run)
  PROVE  Orders({e \in H \X H : Earlier(e[1], e[2])}, H)
<1> DEFINE before == {e \in H \X H : Earlier(e[1], e[2])}
<1>1. \A x, y \in H : <<x, y>> \in before <=> Earlier(x, y) OBVIOUS
<1>2. \A x \in H : x.ts \in Nat /\ x.num[1] \in Nat /\ x.num[2] \in Nat
                   /\ x.num = <<x.num[1], x.num[2]>>
  BY RowsDiffer DEF BronzeRow
<1>3. \A x, y \in H : x.num = y.num => x = y BY RowsDiffer
<1> HIDE DEF before
<1>4. \A x \in H : <<x, x>> \notin before BY <1>1, <1>2 DEF Earlier
<1>5. ASSUME NEW x \in H, NEW y \in H, NEW z \in H, Earlier(x, y), Earlier(y, z)
      PROVE  Earlier(x, z)
  <2> DEFINE a == x.num[1] b == y.num[1] c == z.num[1]
             l == x.num[2] m == y.num[2] n == z.num[2]
  <2>1. /\ x.ts \in Nat /\ y.ts \in Nat /\ z.ts \in Nat
        /\ a \in Nat /\ b \in Nat /\ c \in Nat /\ l \in Nat /\ m \in Nat /\ n \in Nat
    BY <1>2
  <2>2. x.ts < y.ts \/ (x.ts = y.ts /\ a < b) \/ (x.ts = y.ts /\ a = b /\ l < m)
    BY <1>5 DEF Earlier
  <2>3. y.ts < z.ts \/ (y.ts = z.ts /\ b < c) \/ (y.ts = z.ts /\ b = c /\ m < n)
    BY <1>5 DEF Earlier
  <2> HIDE DEF a, b, c, l, m, n
  <2>4. x.ts < z.ts \/ (x.ts = z.ts /\ a < c) \/ (x.ts = z.ts /\ a = c /\ l < n)
    BY <2>1, <2>2, <2>3
  <2> QED BY <2>4 DEF Earlier, a, b, c, l, m, n
<1>6. ASSUME NEW x \in H, NEW y \in H, ~Earlier(x, y), ~Earlier(y, x) PROVE x = y
  <2> DEFINE a == x.num[1] b == y.num[1] l == x.num[2] m == y.num[2]
  <2>1. x.ts \in Nat /\ y.ts \in Nat /\ a \in Nat /\ b \in Nat /\ l \in Nat /\ m \in Nat
    BY <1>2
  <2>2. ~(x.ts < y.ts \/ (x.ts = y.ts /\ a < b) \/ (x.ts = y.ts /\ a = b /\ l < m))
    BY <1>6 DEF Earlier
  <2>3. ~(y.ts < x.ts \/ (y.ts = x.ts /\ b < a) \/ (y.ts = x.ts /\ b = a /\ m < l))
    BY <1>6 DEF Earlier
  <2>4. x.num = <<a, l>> /\ y.num = <<b, m>> BY <1>2
  <2> HIDE DEF a, b, l, m
  <2>5. a = b /\ l = m BY <2>1, <2>2, <2>3
  <2> QED BY <2>4, <2>5, <1>3
<1>7. \A x, y, z \in H : <<x, y>> \in before /\ <<y, z>> \in before => <<x, z>> \in before
  BY <1>1, <1>5
<1>8. \A x, y \in H : x = y \/ <<x, y>> \in before \/ <<y, x>> \in before
  BY <1>1, <1>6
<1> QED BY <1>4, <1>7, <1>8 DEF Orders, before

\* A chain's versions follow each other without overlap, and the last is current.
LEMMA ChainSound ==
  ASSUME NEW H \in SUBSET RowsOfRuns(Run), NEW k, \A x \in H : x.key = k
  PROVE  /\ TableSound(Chain(H))
         /\ \A v \in Chain(H) : v.key = k
         /\ H # {} => \E v \in Chain(H) : v.current
<1> DEFINE before == {e \in H \X H : Earlier(e[1], e[2])}
           ordered == InOrder(H, before)
           starts == {i \in 1..Len(ordered) :
                        i = 1 \/ ordered[i].tracked # ordered[i - 1].tracked}
           Later(i) == {j \in starts : j > i}
           Following(i) == CHOOSE j \in Later(i) : \A m \in Later(i) : j <= m
           Version(i) ==
              [key     |-> ordered[i].key,
               tracked |-> ordered[i].tracked,
               birth   |-> Last(ordered).birth,
               signup  |-> ordered[1].signup,
               from    |-> ordered[i].ts,
               to      |-> IF Later(i) = {} THEN Sentinel ELSE ordered[Following(i)].ts,
               current |-> Later(i) = {},
               lineage |-> LineageRow(ordered, starts, i).num]
           n == Cardinality(H)
<1>1. Chain(H) = {Version(i) : i \in starts} BY DEF Chain
<1>2. IsFiniteSet(H) /\ n \in Nat BY BronzeFinite, FS_Subset, FS_CardinalityType
<1>3. /\ ordered \in Seq(H) /\ Len(ordered) = n
      /\ \A i, j \in 1..n : i < j => <<ordered[i], ordered[j]>> \in before
  <2>1. /\ ordered \in Seq(H) /\ Len(ordered) = n
        /\ \A i, j \in 1..Len(ordered) : i < j => <<ordered[i], ordered[j]>> \in before
    <3> HIDE DEF before
    <3> QED BY <1>2, EarlierOrders, InOrderSorts DEF before
  <2> HIDE DEF ordered
  <2> QED BY <2>1
<1>4. \A i \in 1..n : /\ ordered[i] \in H
                      /\ ordered[i].ts \in Nat /\ Sentinel \in Nat /\ ordered[i].ts < Sentinel
                      /\ ordered[i].key = k /\ k \in Keys
  <2> HIDE DEF ordered, n
  <2>1. \A i \in 1..n : ordered[i] \in H BY <1>2, <1>3
  <2> QED BY <2>1, RowsDiffer DEF BronzeRow
<1>5. \A i, j \in 1..n : i < j => ordered[i].ts <= ordered[j].ts
  <2>1. \A i, j \in 1..n : i < j => Earlier(ordered[i], ordered[j]) BY <1>3
  <2> HIDE DEF ordered, n
  <2> QED BY <2>1, <1>4 DEF Earlier
<1>6. /\ \A i \in starts : i \in 1..n /\ i \in Nat
      /\ n # 0 => 1 \in starts
  <2> HIDE DEF ordered, n
  <2> QED BY <1>2, <1>3
<1> HIDE DEF ordered, before, n, starts
<1>7. ASSUME NEW i \in starts, Later(i) # {}
      PROVE  /\ Following(i) \in starts /\ Following(i) > i
             /\ \A m \in Later(i) : Following(i) <= m
  <2>1. Later(i) \in SUBSET Nat BY <1>6
  <2>2. \E j \in Later(i) : \A m \in Later(i) : j <= m
    <3> HIDE DEF Later
    <3> QED BY <2>1, <1>7, SmallestExists
  <2>3. Following(i) \in Later(i) /\ \A m \in Later(i) : Following(i) <= m
    <3> HIDE DEF Later
    <3> QED BY <2>2
  <2> QED BY <2>3
<1>8. ASSUME NEW i \in starts PROVE IsVersion(Version(i)) /\ Version(i).key = k
  <2>1. ordered[i].ts \in Nat /\ Sentinel \in Nat /\ ordered[i].ts < Sentinel
        /\ ordered[i].key = k /\ k \in Keys
    BY <1>4, <1>6
  <2>2. CASE Later(i) = {}
    <3>1. Version(i).to = Sentinel /\ Version(i).current = TRUE BY <2>2
    <3>2. Version(i).key = k /\ Version(i).from = ordered[i].ts BY <2>1
    <3>3. DOMAIN Version(i) = VersionFields BY DEF VersionFields
    <3> HIDE DEF Version
    <3> QED BY <2>1, <3>1, <3>2, <3>3 DEF IsVersion
  <2>3. CASE Later(i) # {}
    <3>1. Following(i) \in 1..n BY <2>3, <1>7, <1>6
    <3>2. ordered[Following(i)].ts \in Nat /\ ordered[Following(i)].ts < Sentinel
      <4> HIDE DEF Following
      <4> QED BY <3>1, <1>4
    <3>3. Version(i).to = ordered[Following(i)].ts /\ Version(i).current = FALSE BY <2>3
    <3>4. Version(i).key = k /\ Version(i).from = ordered[i].ts BY <2>1
    <3>5. DOMAIN Version(i) = VersionFields BY DEF VersionFields
    <3> HIDE DEF Version, Following
    <3> QED BY <2>1, <3>2, <3>3, <3>4, <3>5 DEF IsVersion
  <2> QED BY <2>2, <2>3
<1>9. ASSUME NEW i \in starts, NEW j \in starts, i < j
      PROVE  ~(Version(j).from < Version(i).to)
  <2>1. j \in Later(i) BY <1>9
  <2>2. Following(i) \in 1..n /\ Following(i) <= j /\ j \in 1..n
    BY <2>1, <1>7, <1>6
  <2>3. Version(i).to = ordered[Following(i)].ts BY <2>1
  <2>4. Version(j).from = ordered[j].ts OBVIOUS
  <2> HIDE DEF Version, Following
  <2>5. Following(i) < j \/ Following(i) = j BY <2>2, <1>2
  <2>6. ordered[Following(i)].ts <= ordered[j].ts
        /\ ordered[Following(i)].ts \in Nat /\ ordered[j].ts \in Nat
    BY <2>2, <2>5, <1>4, <1>5
  <2> QED BY <2>3, <2>4, <2>6
<1>10. ASSUME H # {} PROVE \E i \in starts : Later(i) = {}
  <2>1. n # 0 BY <1>10, <1>2, FS_EmptySet DEF n
  <2>2. starts \in SUBSET Nat /\ starts # {} /\ IsFiniteSet(starts)
    <3>1. IsFiniteSet(1..n) BY <1>2, FS_Interval
    <3>2. starts \in SUBSET (1..n) /\ starts # {} /\ starts \in SUBSET Nat
      BY <2>1, <1>6
    <3> QED BY <3>1, <3>2, FS_Subset
  <2>3. PICK i \in starts : \A j \in starts : j <= i BY <2>2, LargestExists
  <2>4. \A j \in starts : ~(j > i) BY <2>3, <1>6
  <2> QED BY <2>4
<1>11. H # {} => \E v \in Chain(H) : v.current
  <2> SUFFICES ASSUME H # {} PROVE \E v \in Chain(H) : v.current OBVIOUS
  <2>1. PICK i \in starts : Later(i) = {} BY <1>10
  <2>2. Version(i).current = TRUE BY <2>1
  <2> HIDE DEF Version
  <2> QED BY <2>2, <1>1
<1>12. ASSUME NEW v \in Chain(H), NEW w \in Chain(H), v # w PROVE ~Overlap(v, w)
  <2>1. PICK i \in starts : v = Version(i) BY <1>1
  <2>2. PICK j \in starts : w = Version(j) BY <1>1
  <2> HIDE DEF Version
  <2>3. i < j \/ j < i BY <2>1, <2>2, <1>12, <1>6, <1>2
  <2> QED BY <2>1, <2>2, <2>3, <1>9 DEF Overlap
<1>13. (\A v \in Chain(H) : IsVersion(v)) /\ (\A v \in Chain(H) : v.key = k)
  <2> HIDE DEF Version
  <2> QED BY <1>1, <1>8
<1> QED BY <1>11, <1>12, <1>13 DEF TableSound

-----------------------------------------------------------------------------
(* Delete detection.                                                         *)

\* What becomes of a version that is closed, and what reopens in its place.
Closed(v, instant) == [v EXCEPT !.to = instant, !.current = FALSE]
Reopened(v, instant) == [v EXCEPT !.from = instant, !.to = Sentinel]

\* What the delete semantics leave: the versions that stay, those that are closed
\* and, with new_record, those that are opened behind them.
LEMMA AfterDeletesIs ==
  ASSUME NEW S, NEW table
  PROVE  LET t == MaxTs(RowsOfRuns(S))
             C == Closing(S, table)
             opened == IF DeleteSemantics = "new_record" THEN {Reopened(v, t) : v \in C} ELSE {}
         IN  AfterDeletes(S, table) = (table \ C) \cup {Closed(v, t) : v \in C} \cup opened
BY DEF AfterDeletes, Closed, Reopened

\* A version of the table afterwards was there, was closed or reopens one that was.
LEMMA DeletesLeave ==
  ASSUME NEW S \in SUBSET Run, S # {}, NEW table, TableSound(table), ~Inverted(S, table)
  PROVE  LET t == MaxTs(RowsOfRuns(S)) IN
         /\ t \in Nat /\ Sentinel \in Nat /\ t < Sentinel
         /\ \A v \in Closing(S, table) :
               /\ v \in table /\ IsVersion(v) /\ v.current = TRUE /\ v.from <= t
               /\ v.key \in Vanished(S, table)
         /\ \A u \in AfterDeletes(S, table) :
               \/ u \in table \ Closing(S, table)
               \/ \E v \in Closing(S, table) : u = Closed(v, t) \/ u = Reopened(v, t)
         /\ \A u \in table \ Closing(S, table) : u \in AfterDeletes(S, table)
         /\ \A v \in Closing(S, table) : Closed(v, t) \in AfterDeletes(S, table)
<1> DEFINE t == MaxTs(RowsOfRuns(S))
<1>1. t \in Nat /\ Sentinel \in Nat /\ t < Sentinel BY LatestRow
<1> HIDE DEF t
<1>2. ASSUME NEW v \in Closing(S, table)
      PROVE  /\ v \in table /\ IsVersion(v) /\ v.current = TRUE /\ v.from <= t
             /\ v.key \in Vanished(S, table)
  <2>1. v \in table /\ v.current /\ v.key \in Vanished(S, table) BY DEF Closing
  <2>2. IsVersion(v) BY <2>1 DEF TableSound
  <2>3. v.current = TRUE BY <2>1, <2>2 DEF IsVersion
  <2>4. ~(t < v.from) BY DEF Inverted, t
  <2>5. v.from <= t BY <2>4, <2>2, <1>1 DEF IsVersion
  <2> QED BY <2>1, <2>2, <2>3, <2>5
<1>3. ASSUME NEW u \in AfterDeletes(S, table)
      PROVE  \/ u \in table \ Closing(S, table)
             \/ \E v \in Closing(S, table) : u = Closed(v, t) \/ u = Reopened(v, t)
  BY AfterDeletesIs DEF t
<1>4. /\ \A u \in table \ Closing(S, table) : u \in AfterDeletes(S, table)
      /\ \A v \in Closing(S, table) : Closed(v, t) \in AfterDeletes(S, table)
  BY AfterDeletesIs DEF t
<1> QED BY <1>1, <1>2, <1>3, <1>4 DEF t

\* Closing what vanished leaves the ranges of a key disjoint.
LEMMA DeletesSound ==
  ASSUME NEW S \in SUBSET Run, S # {}, NEW table, TableSound(table), ~Inverted(S, table)
  PROVE  TableSound(AfterDeletes(S, table))
<1> DEFINE t == MaxTs(RowsOfRuns(S))
           C == Closing(S, table)
<1>1. /\ t \in Nat /\ Sentinel \in Nat /\ t < Sentinel
      /\ \A v \in C : v \in table /\ IsVersion(v) /\ v.current = TRUE /\ v.from <= t
      /\ \A u \in AfterDeletes(S, table) :
            \/ u \in table \ C
            \/ \E v \in C : u = Closed(v, t) \/ u = Reopened(v, t)
  BY DeletesLeave
<1> HIDE DEF t, C
<1>2. \A v \in C : /\ IsVersion(Closed(v, t)) /\ IsVersion(Reopened(v, t))
                   /\ Closed(v, t).key = v.key /\ Closed(v, t).from = v.from
                   /\ Closed(v, t).to = t
                   /\ Reopened(v, t).key = v.key /\ Reopened(v, t).from = t
                   /\ Reopened(v, t).to = Sentinel
                   /\ v.to = Sentinel
  <2> SUFFICES ASSUME NEW v \in C
               PROVE  /\ IsVersion(Closed(v, t)) /\ IsVersion(Reopened(v, t))
                      /\ Closed(v, t).key = v.key /\ Closed(v, t).from = v.from
                      /\ Closed(v, t).to = t
                      /\ Reopened(v, t).key = v.key /\ Reopened(v, t).from = t
                      /\ Reopened(v, t).to = Sentinel
                      /\ v.to = Sentinel
    OBVIOUS
  <2>1. IsVersion(v) /\ v.current = TRUE /\ v.from <= t BY <1>1
  <2>2. v.to = Sentinel BY <2>1 DEF IsVersion
  <2>3. t \in Nat /\ t < Sentinel BY <1>1
  <2>4. /\ IsVersion(Closed(v, t)) /\ IsVersion(Reopened(v, t))
        /\ Closed(v, t).key = v.key /\ Closed(v, t).from = v.from /\ Closed(v, t).to = t
        /\ Reopened(v, t).key = v.key /\ Reopened(v, t).from = t
        /\ Reopened(v, t).to = Sentinel
    BY <2>1, <2>3, SMT DEF IsVersion, VersionFields, Closed, Reopened
  <2> QED BY <2>2, <2>4
<1>3. \A u \in AfterDeletes(S, table) : IsVersion(u) BY <1>1, <1>2 DEF TableSound
<1>4. \A v, w \in table : v.key = w.key /\ v # w => ~Overlap(v, w) BY DEF TableSound
<1>5. \A v \in table : v.from \in Nat /\ v.to \in Nat /\ v.from < Sentinel
                       /\ v.to <= Sentinel
  BY DEF TableSound, IsVersion
<1>6. ASSUME NEW v \in C, NEW w \in C, v.key = w.key PROVE v = w
  <2>1. v.to = Sentinel /\ w.to = Sentinel BY <1>2
  <2>2. v \in table /\ w \in table BY <1>1
  <2>3. Overlap(v, w) BY <2>1, <2>2, <1>5 DEF Overlap
  <2> QED BY <2>2, <2>3, <1>4, <1>6
<1>7. ASSUME NEW v \in C, NEW w \in table \ C, v.key = w.key PROVE w.to <= v.from
  <2>1. v \in table /\ v # w /\ v.to = Sentinel BY <1>1, <1>2
  <2>2. ~Overlap(v, w) BY <2>1, <1>4, <1>7
  <2> QED BY <2>1, <2>2, <1>5 DEF Overlap
<1>8. ASSUME NEW u \in AfterDeletes(S, table), NEW w \in AfterDeletes(S, table),
             u.key = w.key, u # w, u \in table \ C
      PROVE  ~Overlap(u, w) /\ ~Overlap(w, u)
  <2>1. CASE w \in table \ C BY <2>1, <1>8, <1>4
  <2>2. CASE w \notin table \ C
    <3>1. PICK v \in C : w = Closed(v, t) \/ w = Reopened(v, t) BY <2>2, <1>1
    <3>2. v.key = u.key /\ v.from \in Nat /\ v.from <= t BY <3>1, <1>1, <1>2, <1>5, <1>8
    <3>3. u.to <= v.from BY <3>2, <1>7, <1>8
    <3>4. w.from = v.from \/ w.from = t BY <3>1, <1>2
    <3>5. u.to \in Nat BY <1>5, <1>8
    <3>6. ~(w.from < u.to) BY <3>2, <3>3, <3>4, <3>5, <1>1
    <3> QED BY <3>6 DEF Overlap
  <2> QED BY <2>1, <2>2
<1>9. ASSUME NEW u \in AfterDeletes(S, table), NEW w \in AfterDeletes(S, table),
             u.key = w.key, u # w, u \notin table \ C, w \notin table \ C
      PROVE  ~Overlap(u, w)
  <2>1. PICK v \in C : u = Closed(v, t) \/ u = Reopened(v, t) BY <1>9, <1>1
  <2>2. PICK x \in C : w = Closed(x, t) \/ w = Reopened(x, t) BY <1>9, <1>1
  <2>3. v = x BY <2>1, <2>2, <1>2, <1>6, <1>9
  <2>4. \/ u = Closed(v, t) /\ w = Reopened(v, t)
        \/ u = Reopened(v, t) /\ w = Closed(v, t)
    BY <2>1, <2>2, <2>3, <1>9
  <2>5. (u.to = t /\ w.from = t) \/ (w.to = t /\ u.from = t) BY <2>4, <1>2
  <2> QED BY <2>5, <1>1 DEF Overlap
<1> QED BY <1>3, <1>8, <1>9 DEF TableSound

\* No key leaves the table.
LEMMA DeletesKeepKeys ==
  ASSUME NEW S \in SUBSET Run, S # {}, NEW table, TableSound(table), ~Inverted(S, table)
  PROVE  KeysIn(table) \subseteq KeysIn(AfterDeletes(S, table))
<1> DEFINE t == MaxTs(RowsOfRuns(S))
           C == Closing(S, table)
<1>1. /\ t \in Nat /\ Sentinel \in Nat /\ t < Sentinel
      /\ \A v \in C : v \in table /\ IsVersion(v) /\ v.current = TRUE /\ v.from <= t
      /\ \A u \in table \ C : u \in AfterDeletes(S, table)
      /\ \A v \in C : Closed(v, t) \in AfterDeletes(S, table)
  BY DeletesLeave
<1> HIDE DEF t, C
<1>2. \A v \in C : Closed(v, t).key = v.key BY <1>1 DEF IsVersion, VersionFields, Closed
<1> QED BY <1>1, <1>2 DEF KeysIn

\* Only vanished keys stop being current.
LEMMA DeletesLose ==
  ASSUME NEW S \in SUBSET Run, NEW table
  PROVE  CurrentKeys(table) \ CurrentKeys(AfterDeletes(S, table)) \subseteq Vanished(S, table)
<1> SUFFICES ASSUME NEW v \in table, v.current, v.key \notin Vanished(S, table)
             PROVE  v.key \in CurrentKeys(AfterDeletes(S, table))
  BY DEF CurrentKeys
<1>1. v \notin Closing(S, table) BY DEF Closing
<1>2. v \in AfterDeletes(S, table) BY <1>1 DEF AfterDeletes
<1> QED BY <1>2 DEF CurrentKeys

\* Invalidated keys are current no more; the other keys' versions are untouched.
LEMMA DeletesInvalidate ==
  ASSUME NEW S \in SUBSET Run, S # {}, NEW table, TableSound(table), ~Inverted(S, table),
         DeleteSemantics = "invalidate",
         NEW k \in CurrentKeys(AfterDeletes(S, table))
  PROVE  /\ k \notin Vanished(S, table) /\ k \in CurrentKeys(table)
         /\ VersionsOf(k, AfterDeletes(S, table)) = VersionsOf(k, table)
<1> DEFINE t == MaxTs(RowsOfRuns(S))
           C == Closing(S, table)
<1>1. /\ t \in Nat /\ Sentinel \in Nat /\ t < Sentinel
      /\ \A v \in C : /\ v \in table /\ IsVersion(v) /\ v.current = TRUE /\ v.from <= t
                      /\ v.key \in Vanished(S, table)
  BY DeletesLeave
<1>2. AfterDeletes(S, table) = (table \ C) \cup {Closed(v, t) : v \in C}
  BY AfterDeletesIs
<1>3. \A v \in table : v.current /\ v.key \in Vanished(S, table) => v \in C
  BY DEF Closing
<1> HIDE DEF t, C
<1>4. ASSUME NEW v \in C PROVE Closed(v, t).key = v.key /\ Closed(v, t).current = FALSE
  <2>1. IsVersion(v) /\ v.current = TRUE /\ v.from <= t BY <1>1
  <2>2. t \in Nat /\ t < Sentinel BY <1>1
  <2> QED BY <2>1, <2>2, SMT DEF IsVersion, VersionFields, Closed, Reopened
<1>5. PICK w \in AfterDeletes(S, table) : w.current /\ w.key = k BY DEF CurrentKeys
<1>6. w \in table \ C
  <2>1. ASSUME NEW v \in C, w = Closed(v, t) PROVE FALSE
    <3>1. w.current = FALSE BY <2>1, <1>4
    <3> QED BY <3>1, <1>5
  <2> QED BY <2>1, <1>2, <1>5
<1>7. k \notin Vanished(S, table) /\ k \in CurrentKeys(table)
  BY <1>3, <1>5, <1>6 DEF CurrentKeys
<1>8. ASSUME NEW v \in C PROVE v.key # k /\ Closed(v, t).key # k
  <2>1. v.key \in Vanished(S, table) BY <1>1
  <2> QED BY <2>1, <1>4, <1>7
<1> QED BY <1>2, <1>7, <1>8 DEF VersionsOf

-----------------------------------------------------------------------------
(* What a pass holds.                                                        *)

TypeInv ==
    /\ status \in [Run -> {"PENDING", "STAGED", "SUCCEEDED", "QUARANTINED"}]
    /\ at \in [Pass -> {"idle", "wait", "detect", "quarantine", "recompute"}]
    /\ listed \in [Pass -> SUBSET Run] /\ todo \in [Pass -> SUBSET Keys]
    /\ DOMAIN work = Pass
    /\ lock \in Pass \cup {NoPass}

\* The transaction is open exactly under the lock; a list is never empty, and what
\* was listed had been staged.  Nothing of a run that is under way is committed.
PassInv ==
    /\ \A q \in Pass : at[q] \in {"detect", "recompute"} <=> lock = q
    /\ \A q \in Pass : at[q] # "idle" => listed[q] # {}
    /\ \A q \in Pass : \A r \in listed[q] : status[r] # "PENDING"
    /\ \A q \in Pass : at[q] = "detect" => work[q] = gold

LEMMA KeysOfRuns ==
  ASSUME NEW S \in SUBSET Run PROVE KeysOf(S) \subseteq Keys
  BY RowsDiffer DEF KeysOf, RowsOfRuns, BronzeRow

LEMMA Scd2InitInv == Scd2Init => TypeInv /\ PassInv
  BY Scd2Assumption DEF Scd2Init, TypeInv, PassInv, Scd2Assumption

LEMMA Scd2TypeStep == TypeInv /\ [Scd2Next]_scd2Vars => TypeInv'
<1> SUFFICES ASSUME TypeInv, [Scd2Next]_scd2Vars PROVE TypeInv'
  OBVIOUS
<1> USE DEF TypeInv
<1>1. ASSUME NEW r \in Run, Stage(r) PROVE TypeInv'
  BY <1>1 DEF Stage, passVars
<1>2. ASSUME NEW q \in Pass, List(q) PROVE TypeInv'
  BY <1>2 DEF List, PassAt
<1>3. ASSUME NEW q \in Pass, AcquireLock(q) PROVE TypeInv'
  BY <1>3 DEF AcquireLock, PassAt
<1>4. ASSUME NEW q \in Pass, DetectDeletes(q) PROVE TypeInv'
  <2>1. listed[q] \in SUBSET Run OBVIOUS
  <2>2. KeysOf(listed[q]) \subseteq Keys BY <2>1, KeysOfRuns
  <2> QED BY <1>4, <2>2 DEF DetectDeletes, PassAt
<1>5. ASSUME NEW q \in Pass, TripBreaker(q) PROVE TypeInv'
  BY <1>5 DEF TripBreaker, PassAt
<1>6. ASSUME NEW q \in Pass, QuarantineListed(q) PROVE TypeInv'
  BY <1>6 DEF QuarantineListed, EndPass, PassAt
<1>7. ASSUME NEW q \in Pass, DeleteRaises(q) \/ RecomputeRaises(q) \/ Abort(q) PROVE TypeInv'
  BY <1>7 DEF DeleteRaises, RecomputeRaises, Abort, EndPass, PassAt
<1>8. ASSUME NEW q \in Pass, Recompute(q) PROVE TypeInv'
  BY <1>8 DEF Recompute
<1>9. ASSUME NEW q \in Pass, Commit(q) PROVE TypeInv'
  BY <1>9 DEF Commit, EndPass, PassAt
<1>10. CASE UNCHANGED scd2Vars BY <1>10 DEF scd2Vars, passVars
<1> QED BY <1>1, <1>2, <1>3, <1>4, <1>5, <1>6, <1>7, <1>8, <1>9, <1>10 DEF Scd2Next

LEMMA Scd2PassStep == TypeInv /\ PassInv /\ [Scd2Next]_scd2Vars => PassInv'
<1> SUFFICES ASSUME TypeInv, PassInv, [Scd2Next]_scd2Vars PROVE PassInv'
  OBVIOUS
<1>0. NoPass \notin Pass BY Scd2Assumption DEF Scd2Assumption
<1> USE <1>0 DEF TypeInv, PassInv
<1>1. ASSUME NEW r \in Run, Stage(r) PROVE PassInv'
  BY <1>1 DEF Stage, passVars
<1>2. ASSUME NEW q \in Pass, List(q) PROVE PassInv'
  BY <1>2 DEF List, PassAt
<1>3. ASSUME NEW q \in Pass, AcquireLock(q) PROVE PassInv'
  BY <1>3 DEF AcquireLock, PassAt
<1>4. ASSUME NEW q \in Pass, DetectDeletes(q) PROVE PassInv'
  BY <1>4 DEF DetectDeletes, PassAt
<1>5. ASSUME NEW q \in Pass, TripBreaker(q) PROVE PassInv'
  BY <1>5 DEF TripBreaker, PassAt
<1>6. ASSUME NEW q \in Pass, QuarantineListed(q) PROVE PassInv'
  BY <1>6 DEF QuarantineListed, EndPass, PassAt
<1>7. ASSUME NEW q \in Pass, DeleteRaises(q) \/ RecomputeRaises(q) \/ Abort(q) PROVE PassInv'
  BY <1>7 DEF DeleteRaises, RecomputeRaises, Abort, EndPass, PassAt
<1>8. ASSUME NEW q \in Pass, Recompute(q) PROVE PassInv'
  BY <1>8 DEF Recompute
<1>9. ASSUME NEW q \in Pass, Commit(q) PROVE PassInv'
  BY <1>9 DEF Commit, EndPass, PassAt
<1>10. CASE UNCHANGED scd2Vars BY <1>10 DEF scd2Vars, passVars
<1> QED BY <1>1, <1>2, <1>3, <1>4, <1>5, <1>6, <1>7, <1>8, <1>9, <1>10 DEF Scd2Next

\* The committed table and the one each open transaction sees are sound.
SoundInv == TableSound(gold) /\ \A q \in Pass : TableSound(work[q])

LEMMA HistoryRows ==
  ASSUME NEW k
  PROVE  /\ History(k) \in SUBSET RowsOfRuns(Run)
         /\ \A x \in History(k) : x.key = k
  BY DEF History, RowsOfRuns, InBronze

\* The chain of a key beside the versions of the others.
LEMMA RecomputeSound ==
  ASSUME NEW k, NEW table, TableSound(table)
  PROVE  TableSound((table \ VersionsOf(k, table)) \cup Chain(History(k)))
<1> DEFINE C == Chain(History(k))
<1>1. TableSound(C) /\ \A v \in C : v.key = k BY HistoryRows, ChainSound
<1>2. \A v \in table \ VersionsOf(k, table) : v \in table /\ v.key # k BY DEF VersionsOf
<1> HIDE DEF C
<1>3. TableSound((table \ VersionsOf(k, table)) \cup C) BY <1>1, <1>2 DEF TableSound
<1> QED BY <1>3 DEF C

LEMMA Scd2SoundStep ==
  TypeInv /\ PassInv /\ SoundInv /\ [Scd2Next]_scd2Vars => SoundInv'
<1> SUFFICES ASSUME TypeInv, PassInv, SoundInv, [Scd2Next]_scd2Vars PROVE SoundInv'
  OBVIOUS
<1>0. TableSound({}) BY DEF TableSound
<1>a. ASSUME gold' = gold \/ (\E q \in Pass : gold' = work[q]),
             NEW q \in Pass, NEW table, TableSound(table), work' = [work EXCEPT ![q] = table]
      PROVE  SoundInv'
  <2>1. TableSound(gold') BY <1>a DEF SoundInv
  <2>2. \A p \in Pass : work'[p] = IF p = q THEN table ELSE work[p] BY <1>a DEF TypeInv
  <2>3. \A p \in Pass : TableSound(work'[p]) BY <2>2, <1>a DEF SoundInv
  <2> QED BY <2>1, <2>3 DEF SoundInv
<1>b. ASSUME UNCHANGED <<gold, work>> PROVE SoundInv' BY <1>b DEF SoundInv
<1>1. ASSUME NEW r \in Run, Stage(r) PROVE SoundInv'
  BY <1>1, <1>b DEF Stage, passVars
<1>2. ASSUME NEW q \in Pass, List(q) PROVE SoundInv' BY <1>2, <1>b DEF List
<1>3. ASSUME NEW q \in Pass, AcquireLock(q) PROVE SoundInv'
  <2>1. TableSound(gold) BY DEF SoundInv
  <2> QED BY <1>3, <2>1, <1>a DEF AcquireLock
<1>4. ASSUME NEW q \in Pass, DetectDeletes(q) PROVE SoundInv'
  <2>1. listed[q] \in SUBSET Run /\ listed[q] # {} BY <1>4 DEF DetectDeletes, TypeInv, PassInv
  <2>2. TableSound(work[q]) BY DEF SoundInv
  <2>3. ~Inverted(listed[q], work[q]) BY <1>4 DEF DetectDeletes
  <2>4. TableSound(AfterDeletes(listed[q], work[q])) BY <2>1, <2>2, <2>3, DeletesSound
  <2> QED BY <2>4, <1>4, <1>a DEF DetectDeletes
<1>5. ASSUME NEW q \in Pass, TripBreaker(q) PROVE SoundInv'
  BY <1>5, <1>0, <1>a DEF TripBreaker
<1>6. ASSUME NEW q \in Pass, QuarantineListed(q) PROVE SoundInv'
  BY <1>6, <1>0, <1>a DEF QuarantineListed, EndPass
<1>7. ASSUME NEW q \in Pass, DeleteRaises(q) \/ RecomputeRaises(q) \/ Abort(q) PROVE SoundInv'
  BY <1>7, <1>0, <1>a DEF DeleteRaises, RecomputeRaises, Abort, EndPass
<1>8. ASSUME NEW q \in Pass, Recompute(q) PROVE SoundInv'
  <2>1. PICK k \in todo[q] :
          work' = [work EXCEPT ![q] = (work[q] \ VersionsOf(k, work[q])) \cup Chain(History(k))]
    BY <1>8 DEF Recompute
  <2>2. TableSound((work[q] \ VersionsOf(k, work[q])) \cup Chain(History(k)))
    BY RecomputeSound DEF SoundInv
  <2>3. gold' = gold BY <1>8 DEF Recompute
  <2> QED BY <2>1, <2>2, <2>3, <1>a
<1>9. ASSUME NEW q \in Pass, Commit(q) PROVE SoundInv'
  BY <1>9, <1>0, <1>a DEF Commit, EndPass
<1>10. CASE UNCHANGED scd2Vars BY <1>10, <1>b DEF scd2Vars, passVars
<1> QED BY <1>1, <1>2, <1>3, <1>4, <1>5, <1>6, <1>7, <1>8, <1>9, <1>10 DEF Scd2Next

-----------------------------------------------------------------------------
(* What succeeded is in gold.                                                *)

\* A pass has versions of every key in gold, and of each key of its runs that it
\* has recomputed or closed; it quarantines outside the transaction.
DeliveredInv ==
    /\ \A r \in Run : status[r] = "SUCCEEDED" => KeysOf({r}) \subseteq KeysIn(gold)
    /\ \A q \in Pass : lock = q => KeysIn(gold) \subseteq KeysIn(work[q])
    /\ \A q \in Pass : at[q] = "recompute" =>
          KeysOf(listed[q]) \ todo[q] \subseteq KeysIn(work[q])

LEMMA KeysOfOne ==
  ASSUME NEW S, NEW r \in S PROVE KeysOf({r}) \subseteq KeysOf(S)
  BY DEF KeysOf, RowsOfRuns

LEMMA RecomputeKeepsKeys ==
  ASSUME NEW k, History(k) # {}, NEW table
  PROVE  LET after == (table \ VersionsOf(k, table)) \cup Chain(History(k)) IN
         /\ KeysIn(table) \subseteq KeysIn(after) /\ k \in KeysIn(after)
         /\ CurrentKeys(table) \subseteq CurrentKeys(after)
<1> DEFINE C == Chain(History(k))
<1>1. (\A v \in C : v.key = k) /\ \E v \in C : v.current BY HistoryRows, ChainSound
<1>2. \A v \in table \ VersionsOf(k, table) : v \in table /\ v.key # k BY DEF VersionsOf
<1>3. \A v \in table : v.key # k => v \in table \ VersionsOf(k, table) BY DEF VersionsOf
<1> HIDE DEF C
<1>4. k \in KeysIn((table \ VersionsOf(k, table)) \cup C) BY <1>1 DEF KeysIn
<1>5. k \in CurrentKeys((table \ VersionsOf(k, table)) \cup C) BY <1>1 DEF CurrentKeys
<1>6. KeysIn(table) \subseteq KeysIn((table \ VersionsOf(k, table)) \cup C)
  BY <1>3, <1>4 DEF KeysIn
<1>7. CurrentKeys(table) \subseteq CurrentKeys((table \ VersionsOf(k, table)) \cup C)
  BY <1>3, <1>5 DEF CurrentKeys
<1> QED BY <1>4, <1>6, <1>7 DEF C

LEMMA Scd2DeliveredStep ==
  TypeInv /\ PassInv /\ SoundInv /\ DeliveredInv /\ [Scd2Next]_scd2Vars => DeliveredInv'
<1> SUFFICES ASSUME TypeInv, PassInv, SoundInv, DeliveredInv, [Scd2Next]_scd2Vars
             PROVE  DeliveredInv'
  OBVIOUS
<1>0. NoPass \notin Pass BY Scd2Assumption DEF Scd2Assumption
<1>a. \A q \in Pass : at[q] \in {"detect", "recompute"} <=> lock = q BY DEF PassInv
<1>b. ASSUME UNCHANGED gold,
             \A r \in Run : status'[r] = "SUCCEEDED" => status[r] = "SUCCEEDED",
             NEW q \in Pass, at' = [at EXCEPT ![q] = "idle"] \/ at' = [at EXCEPT ![q] = "quarantine"],
             NEW l, NEW d, listed' = [listed EXCEPT ![q] = l], todo' = [todo EXCEPT ![q] = d],
             work' = [work EXCEPT ![q] = {}],
             lock' = IF lock = q THEN NoPass ELSE lock
      PROVE  DeliveredInv'
  BY <1>b, <1>0 DEF DeliveredInv, TypeInv
<1>c. ASSUME UNCHANGED <<gold, todo, work>>,
             \A r \in Run : status'[r] = "SUCCEEDED" => status[r] = "SUCCEEDED",
             lock' = lock,
             \A q \in Pass : at'[q] = "recompute" => at[q] = "recompute" /\ listed'[q] = listed[q]
      PROVE  DeliveredInv'
  BY <1>c DEF DeliveredInv
<1>1. ASSUME NEW r \in Run, Stage(r) PROVE DeliveredInv'
  BY <1>1, <1>c DEF Stage, passVars, TypeInv
<1>2. ASSUME NEW q \in Pass, List(q) PROVE DeliveredInv'
  BY <1>2, <1>c DEF List, PassAt, TypeInv
<1>3. ASSUME NEW q \in Pass, AcquireLock(q) PROVE DeliveredInv'
  <2>1. \A p \in Pass : at'[p] = "recompute" => p # q /\ at[p] = "recompute"
    BY <1>3 DEF AcquireLock, PassAt, TypeInv
  <2>2. work'[q] = gold /\ \A p \in Pass \ {q} : work'[p] = work[p]
    BY <1>3 DEF AcquireLock, TypeInv
  <2> QED BY <1>3, <2>1, <2>2 DEF AcquireLock, DeliveredInv
<1>4. ASSUME NEW q \in Pass, DetectDeletes(q) PROVE DeliveredInv'
  <2> DEFINE after == AfterDeletes(listed[q], work[q])
             gone == Vanished(listed[q], work[q])
  <2>1. listed[q] \in SUBSET Run /\ listed[q] # {} BY <1>4 DEF DetectDeletes, TypeInv, PassInv
  <2>2. TableSound(work[q]) /\ ~Inverted(listed[q], work[q])
    BY <1>4 DEF SoundInv, DetectDeletes
  <2>3. KeysIn(work[q]) \subseteq KeysIn(after) BY <2>1, <2>2, DeletesKeepKeys
  <2>4. gone \subseteq KeysIn(work[q]) BY DEF Vanished, CurrentKeys, KeysIn
  <2>5. lock = q /\ work[q] = gold BY <1>4 DEF DetectDeletes, PassInv
  <2> HIDE DEF after, gone
  <2>6. /\ work'[q] = after /\ \A p \in Pass \ {q} : work'[p] = work[p]
        /\ todo'[q] = KeysOf(listed[q]) \ gone /\ \A p \in Pass \ {q} : todo'[p] = todo[p]
        /\ \A p \in Pass \ {q} : at'[p] = at[p]
    BY <1>4 DEF DetectDeletes, PassAt, TypeInv, after, gone
  <2>7. UNCHANGED <<status, gold, listed, lock>> BY <1>4 DEF DetectDeletes
  <2>8. KeysOf(listed[q]) \ todo'[q] \subseteq KeysIn(work'[q]) BY <2>3, <2>4, <2>6
  <2>9. \A p \in Pass \ {q} : lock # p BY <2>5
  <2> QED BY <2>3, <2>5, <2>6, <2>7, <2>8, <2>9 DEF DeliveredInv
<1>5. ASSUME NEW q \in Pass, TripBreaker(q) PROVE DeliveredInv'
  <2>1. lock = q BY <1>5, <1>a DEF TripBreaker
  <2>2. \A p \in Pass : at'[p] = "recompute" => p # q /\ at[p] = "recompute"
    BY <1>5 DEF TripBreaker, PassAt, TypeInv
  <2>3. \A p \in Pass \ {q} : work'[p] = work[p] BY <1>5 DEF TripBreaker, TypeInv
  <2> QED BY <1>5, <2>1, <2>2, <2>3, <1>0 DEF TripBreaker, DeliveredInv
<1>6. ASSUME NEW q \in Pass, QuarantineListed(q) PROVE DeliveredInv'
  <2>1. \A r \in Run : status'[r] = "SUCCEEDED" => status[r] = "SUCCEEDED"
    BY <1>6 DEF QuarantineListed
  <2> QED BY <1>6, <2>1, <1>b DEF QuarantineListed, EndPass, PassAt
<1>7. ASSUME NEW q \in Pass, DeleteRaises(q) \/ RecomputeRaises(q) \/ Abort(q)
      PROVE  DeliveredInv'
  BY <1>7, <1>b DEF DeleteRaises, RecomputeRaises, Abort, EndPass, PassAt
<1>8. ASSUME NEW q \in Pass, Recompute(q) PROVE DeliveredInv'
  <2>1. PICK k \in todo[q] :
          /\ History(k) # {}
          /\ work' = [work EXCEPT ![q] = (work[q] \ VersionsOf(k, work[q])) \cup Chain(History(k))]
          /\ todo' = [todo EXCEPT ![q] = todo[q] \ {k}]
    BY <1>8 DEF Recompute
  <2> DEFINE after == (work[q] \ VersionsOf(k, work[q])) \cup Chain(History(k))
  <2>2. KeysIn(work[q]) \subseteq KeysIn(after) /\ k \in KeysIn(after)
    BY <2>1, RecomputeKeepsKeys
  <2>3. work' = [work EXCEPT ![q] = after] BY <2>1
  <2> HIDE DEF after
  <2>4. /\ work'[q] = after /\ \A p \in Pass \ {q} : work'[p] = work[p]
        /\ todo'[q] = todo[q] \ {k} /\ \A p \in Pass \ {q} : todo'[p] = todo[p]
    BY <2>1, <2>3 DEF TypeInv
  <2>5. UNCHANGED <<status, gold, at, listed, lock>> BY <1>8 DEF Recompute
  <2> QED BY <2>2, <2>4, <2>5 DEF DeliveredInv
<1>9. ASSUME NEW q \in Pass, Commit(q) PROVE DeliveredInv'
  <2>1. lock = q /\ lock' = NoPass /\ gold' = work[q] /\ todo[q] = {} /\ at[q] = "recompute"
    BY <1>9, <1>a DEF Commit, EndPass
  <2>2. KeysIn(gold) \subseteq KeysIn(work[q]) /\ KeysOf(listed[q]) \subseteq KeysIn(work[q])
    BY <2>1 DEF DeliveredInv
  <2>3. \A r \in Run : status'[r] = "SUCCEEDED" => status[r] = "SUCCEEDED" \/ r \in listed[q]
    BY <1>9 DEF Commit
  <2>4. \A r \in Run : status'[r] = "SUCCEEDED" => KeysOf({r}) \subseteq KeysIn(work[q])
    BY <2>2, <2>3, KeysOfOne DEF DeliveredInv
  <2>5. \A p \in Pass : at'[p] # "recompute"
    BY <1>9, <2>1, <1>a DEF Commit, EndPass, PassAt, TypeInv
  <2> QED BY <2>1, <2>4, <2>5, <1>0 DEF DeliveredInv
<1>10. CASE UNCHANGED scd2Vars BY <1>10, <1>c DEF scd2Vars, passVars
<1> QED BY <1>1, <1>2, <1>3, <1>4, <1>5, <1>6, <1>7, <1>8, <1>9, <1>10 DEF Scd2Next

-----------------------------------------------------------------------------
(* How much a commit may take away.                                          *)

\* Of the keys current in gold, a pass has lost no more than the threshold allows.
LossInv ==
    \A q \in Pass : at[q] = "recompute" =>
        Cardinality(CurrentKeys(gold) \ CurrentKeys(work[q])) * 100
            <= Threshold * Cardinality(CurrentKeys(gold))

LEMMA CurrentFinite ==
  ASSUME NEW table, TableSound(table)
  PROVE  IsFiniteSet(CurrentKeys(table)) /\ Cardinality(CurrentKeys(table)) \in Nat
<1>1. CurrentKeys(table) \in SUBSET Keys BY DEF CurrentKeys, TableSound, IsVersion
<1> QED BY <1>1, RowsFinite, FS_Subset, FS_CardinalityType

\* The less is lost the better.
LEMMA FewerLost ==
  ASSUME NEW G, IsFiniteSet(G), NEW A, NEW B, G \ B \subseteq G \ A,
         Cardinality(G \ A) * 100 <= Threshold * Cardinality(G)
  PROVE  Cardinality(G \ B) * 100 <= Threshold * Cardinality(G)
<1> DEFINE a == Cardinality(G \ A)
           b == Cardinality(G \ B)
           t == Threshold * Cardinality(G)
<1>1. IsFiniteSet(G \ A) BY FS_Difference
<1>2. b <= a /\ a \in Nat /\ b \in Nat
  <2>1. G \ B \in SUBSET (G \ A) OBVIOUS
  <2> QED BY <1>1, <2>1, FS_Subset, FS_CardinalityType
<1>3. t \in Nat
  <2>1. Cardinality(G) \in Nat BY FS_CardinalityType
  <2>2. Threshold \in Nat BY Scd2Assumption DEF Scd2Assumption
  <2> QED BY <2>1, <2>2
<1>4. a * 100 <= t OBVIOUS
<1> HIDE DEF a, b, t
<1>5. b * 100 <= t BY <1>2, <1>3, <1>4
<1> QED BY <1>5 DEF b, t

\* The breaker did not trip, so little enough has vanished.
LEMMA BreakerBounds ==
  ASSUME NEW S \in SUBSET Run, NEW table, TableSound(table), ~TooMany(S, table)
  PROVE  Cardinality(CurrentKeys(table) \ CurrentKeys(AfterDeletes(S, table))) * 100
            <= Threshold * Cardinality(CurrentKeys(table))
<1> DEFINE G == CurrentKeys(table)
           K == G \cap KeysOf(InBronze)
           V == Vanished(S, table)
           L == G \ CurrentKeys(AfterDeletes(S, table))
           g == Cardinality(G)
           k == Cardinality(K)
           v == Cardinality(V)
           l == Cardinality(L)
<1>1. IsFiniteSet(G) /\ g \in Nat BY CurrentFinite
<1>2. L \in SUBSET V BY DeletesLose
<1>3. V \in SUBSET K /\ K \in SUBSET G BY DEF Vanished
<1>4. k # 0 => ~(v * 100 > Threshold * k) BY DEF TooMany
<1> HIDE DEF L, V, K, G
<1>5. IsFiniteSet(K) /\ k <= g /\ k \in Nat BY <1>1, <1>3, FS_Subset, FS_CardinalityType
<1>6. IsFiniteSet(V) /\ v <= k /\ v \in Nat BY <1>3, <1>5, FS_Subset, FS_CardinalityType
<1>7. IsFiniteSet(L) /\ l <= v /\ l \in Nat BY <1>2, <1>6, FS_Subset, FS_CardinalityType
<1>8. Threshold \in Nat BY Scd2Assumption DEF Scd2Assumption
<1> HIDE DEF l, v, k, g
<1>9. Threshold * k \in Nat /\ Threshold * g \in Nat /\ Threshold * k <= Threshold * g
  BY <1>1, <1>5, <1>8
<1>10. l * 100 <= Threshold * g
  <2>1. CASE k = 0 BY <2>1, <1>6, <1>7, <1>9
  <2>2. CASE k # 0 BY <2>2, <1>4, <1>6, <1>7, <1>9
  <2> QED BY <2>1, <2>2
<1> QED BY <1>10 DEF l, g, L, G

LEMMA Scd2LossStep ==
  TypeInv /\ PassInv /\ SoundInv /\ LossInv /\ [Scd2Next]_scd2Vars => LossInv'
<1> SUFFICES ASSUME TypeInv, PassInv, SoundInv, LossInv, [Scd2Next]_scd2Vars
             PROVE  LossInv'
  OBVIOUS
<1>a. ASSUME UNCHANGED gold,
             \A p \in Pass : at'[p] = "recompute" => at[p] = "recompute" /\ work'[p] = work[p]
      PROVE  LossInv'
  BY <1>a DEF LossInv, CurrentKeys
<1>1. ASSUME NEW r \in Run, Stage(r) PROVE LossInv'
  BY <1>1, <1>a DEF Stage, passVars
<1>2. ASSUME NEW q \in Pass, List(q) PROVE LossInv'
  BY <1>2, <1>a DEF List, PassAt, TypeInv
<1>3. ASSUME NEW q \in Pass, AcquireLock(q) PROVE LossInv'
  BY <1>3, <1>a DEF AcquireLock, PassAt, TypeInv
<1>4. ASSUME NEW q \in Pass, DetectDeletes(q) PROVE LossInv'
  <2>1. listed[q] \in SUBSET Run /\ work[q] = gold /\ TableSound(gold)
    BY <1>4 DEF DetectDeletes, TypeInv, PassInv, SoundInv
  <2>2. Cardinality(CurrentKeys(gold) \ CurrentKeys(AfterDeletes(listed[q], gold))) * 100
            <= Threshold * Cardinality(CurrentKeys(gold))
    BY <1>4, <2>1, BreakerBounds DEF DetectDeletes
  <2>3. /\ gold' = gold /\ work'[q] = AfterDeletes(listed[q], gold)
        /\ \A p \in Pass \ {q} : work'[p] = work[p] /\ at'[p] = at[p]
    BY <1>4, <2>1 DEF DetectDeletes, PassAt, TypeInv
  <2> QED BY <2>2, <2>3 DEF LossInv, CurrentKeys
<1>5. ASSUME NEW q \in Pass, TripBreaker(q) PROVE LossInv'
  BY <1>5, <1>a DEF TripBreaker, PassAt, TypeInv
<1>6. ASSUME NEW q \in Pass, QuarantineListed(q) PROVE LossInv'
  BY <1>6, <1>a DEF QuarantineListed, EndPass, PassAt, TypeInv
<1>7. ASSUME NEW q \in Pass, DeleteRaises(q) \/ RecomputeRaises(q) \/ Abort(q) PROVE LossInv'
  BY <1>7, <1>a DEF DeleteRaises, RecomputeRaises, Abort, EndPass, PassAt, TypeInv
<1>8. ASSUME NEW q \in Pass, Recompute(q) PROVE LossInv'
  <2>1. PICK k \in todo[q] :
          /\ History(k) # {}
          /\ work' = [work EXCEPT ![q] = (work[q] \ VersionsOf(k, work[q])) \cup Chain(History(k))]
    BY <1>8 DEF Recompute
  <2> DEFINE after == (work[q] \ VersionsOf(k, work[q])) \cup Chain(History(k))
  <2>2. CurrentKeys(work[q]) \subseteq CurrentKeys(after) BY <2>1, RecomputeKeepsKeys
  <2>3. work'[q] = after /\ \A p \in Pass \ {q} : work'[p] = work[p] BY <2>1 DEF TypeInv
  <2>4. UNCHANGED <<gold, at>> /\ at[q] = "recompute" BY <1>8 DEF Recompute
  <2> HIDE DEF after
  <2>5. IsFiniteSet(CurrentKeys(gold)) BY CurrentFinite DEF SoundInv
  <2>6. Cardinality(CurrentKeys(gold) \ CurrentKeys(after)) * 100
            <= Threshold * Cardinality(CurrentKeys(gold))
    <3>1. Cardinality(CurrentKeys(gold) \ CurrentKeys(work[q])) * 100
            <= Threshold * Cardinality(CurrentKeys(gold))
      BY <2>4 DEF LossInv
    <3>2. CurrentKeys(gold) \ CurrentKeys(after) \subseteq CurrentKeys(gold) \ CurrentKeys(work[q])
      BY <2>2
    <3> QED BY <3>1, <3>2, <2>5, FewerLost
  <2> QED BY <2>3, <2>4, <2>6 DEF LossInv, CurrentKeys
<1>9. ASSUME NEW q \in Pass, Commit(q) PROVE LossInv'
  <2>1. \A p \in Pass : at'[p] # "recompute"
    BY <1>9 DEF Commit, EndPass, PassAt, TypeInv, PassInv
  <2> QED BY <2>1 DEF LossInv
<1>10. CASE UNCHANGED scd2Vars BY <1>10, <1>a DEF scd2Vars, passVars
<1> QED BY <1>1, <1>2, <1>3, <1>4, <1>5, <1>6, <1>7, <1>8, <1>9, <1>10 DEF Scd2Next

-----------------------------------------------------------------------------
(* Gold is what one recomputation over the whole history gives.               *)

\* The runs of a key which are neither unstaged nor published are those of the pass.
Settles(q, k) ==
    \A r \in Run : k \in KeysOf({r}) =>
        \/ status[r] \in {"PENDING", "SUCCEEDED"}
        \/ r \in listed[q] /\ status[r] = "STAGED"

\* A pass has, but for the keys it has still
\* to recompute, what gold will have to be once its runs succeed.
FreshInv ==
    /\ \A k \in CurrentKeys(gold) :
          Unspoilt(k) => VersionsOf(k, gold) = Chain(History(k))
    /\ \A q \in Pass : at[q] = "recompute" =>
          \A k \in CurrentKeys(work[q]) \ todo[q] :
             Settles(q, k) => VersionsOf(k, work[q]) = Chain(History(k))

\* Rows count in a history unless their run is unstaged or quarantined.
LEMMA HistorySame ==
  ASSUME NEW k,
         \A r \in Run : k \in KeysOf({r}) =>
            (status[r] \in {"PENDING", "QUARANTINED"} <=> status'[r] \in {"PENDING", "QUARANTINED"})
  PROVE  History(k)' = History(k)
<1> DEFINE Counted == {r \in InBronze : status[r] # "QUARANTINED"}
<1>1. \A r \in Run : \A x \in RowsOf(r) : x.key \in KeysOf({r}) BY DEF KeysOf, RowsOfRuns
<1>2. \A r : r \in Counted <=> r \in Run /\ status[r] \notin {"PENDING", "QUARANTINED"}
  BY DEF InBronze
<1>3. \A r : r \in Counted' <=> r \in Run /\ status'[r] \notin {"PENDING", "QUARANTINED"}
  BY DEF InBronze
<1>4. \A r \in Run : k \in KeysOf({r}) => (r \in Counted <=> r \in Counted')
  BY <1>2, <1>3
<1>5. History(k) = {x \in RowsOfRuns(Counted) : x.key = k} BY DEF History
<1>6. History(k)' = {x \in RowsOfRuns(Counted') : x.key = k} BY DEF History, RowsOfRuns, RowsOf
<1>7. (\A r \in Counted : r \in Run) /\ \A r \in Counted' : r \in Run BY <1>2, <1>3
<1> DEFINE A == Counted B == Counted'
<1>8. /\ \A r \in A : r \in Run
      /\ \A r \in B : r \in Run
      /\ \A r \in Run : k \in KeysOf({r}) => (r \in A <=> r \in B)
  BY <1>4, <1>7
<1> HIDE DEF A, B
<1>9. {x \in RowsOfRuns(A) : x.key = k} = {x \in RowsOfRuns(B) : x.key = k}
  <2>1. ASSUME NEW x, x.key = k PROVE x \in RowsOfRuns(A) <=> x \in RowsOfRuns(B)
    <3>1. \A r \in Run : x \in RowsOf(r) => (r \in A <=> r \in B) BY <2>1, <1>1, <1>8
    <3> QED BY <3>1, <1>8 DEF RowsOfRuns
  <2> QED BY <2>1
<1> QED BY <1>5, <1>6, <1>9 DEF A, B

\* Staging and quarantining spoil a key; they change no history of an unspoilt one.
LEMMA FreshFrame ==
  ASSUME PassInv, FreshInv, UNCHANGED gold,
         \A r \in Run : \/ status'[r] = status[r]
                        \/ status[r] = "PENDING" /\ status'[r] = "STAGED"
                        \/ status'[r] = "QUARANTINED",
         \A p \in Pass : at'[p] = "recompute" =>
            /\ at[p] = "recompute" /\ work'[p] = work[p]
            /\ todo'[p] = todo[p] /\ listed'[p] = listed[p]
  PROVE  FreshInv'
<1>1. ASSUME NEW k \in CurrentKeys(gold), Unspoilt(k)'
      PROVE  VersionsOf(k, gold) = Chain(History(k)')
  <2>1. \A r \in Run : k \in KeysOf({r}) => status'[r] \in {"PENDING", "SUCCEEDED"}
    BY <1>1 DEF Unspoilt, KeysOf, RowsOfRuns, RowsOf
  <2>2. \A r \in Run : k \in KeysOf({r}) => status'[r] = status[r] BY <2>1
  <2>3. Unspoilt(k) BY <2>1, <2>2 DEF Unspoilt
  <2>4. History(k)' = History(k) BY <2>2, HistorySame
  <2> QED BY <2>3, <2>4 DEF FreshInv
<1>2. ASSUME NEW q \in Pass, at'[q] = "recompute",
             NEW k \in CurrentKeys(work[q]) \ todo[q], Settles(q, k)'
      PROVE  VersionsOf(k, work[q]) = Chain(History(k)')
  <2>1. at[q] = "recompute" /\ listed'[q] = listed[q] BY <1>2
  <2>2. \A r \in Run : k \in KeysOf({r}) =>
            \/ status'[r] \in {"PENDING", "SUCCEEDED"}
            \/ r \in listed[q] /\ status'[r] = "STAGED"
    BY <1>2, <2>1 DEF Settles, KeysOf, RowsOfRuns, RowsOf
  <2>3. \A r \in listed[q] : status[r] # "PENDING" BY DEF PassInv
  <2>4. \A r \in Run : k \in KeysOf({r}) => status'[r] = status[r] BY <2>2, <2>3
  <2>5. Settles(q, k) BY <2>2, <2>4 DEF Settles
  <2>6. History(k)' = History(k) BY <2>4, HistorySame
  <2> QED BY <2>1, <2>5, <2>6, <1>2 DEF FreshInv
<1>3. \A k \in CurrentKeys(gold') : Unspoilt(k)' => VersionsOf(k, gold') = Chain(History(k)')
  BY <1>1
<1>4. \A q \in Pass : at'[q] = "recompute" =>
          \A k \in CurrentKeys(work'[q]) \ todo'[q] :
             Settles(q, k)' => VersionsOf(k, work'[q]) = Chain(History(k)')
  BY <1>2
<1> QED BY <1>3, <1>4 DEF FreshInv

LEMMA Scd2FreshStep ==
  ASSUME DeleteSemantics = "invalidate", TypeInv, PassInv, SoundInv, FreshInv,
         [Scd2Next]_scd2Vars
  PROVE  FreshInv'
<1>a. ASSUME UNCHANGED <<gold, status>>,
             \A p \in Pass : at'[p] = "recompute" =>
                /\ at[p] = "recompute" /\ work'[p] = work[p]
                /\ todo'[p] = todo[p] /\ listed'[p] = listed[p]
      PROVE  FreshInv'
  BY <1>a, FreshFrame
<1>1. ASSUME NEW r \in Run, Stage(r) PROVE FreshInv'
  <2>1. \A s \in Run : status'[s] = status[s] \/ (status[s] = "PENDING" /\ status'[s] = "STAGED")
    BY <1>1 DEF Stage, TypeInv
  <2> QED BY <1>1, <2>1, FreshFrame DEF Stage, passVars
<1>2. ASSUME NEW q \in Pass, List(q) PROVE FreshInv'
  BY <1>2, <1>a DEF List, PassAt, TypeInv
<1>3. ASSUME NEW q \in Pass, AcquireLock(q) PROVE FreshInv'
  BY <1>3, <1>a DEF AcquireLock, PassAt, TypeInv
<1>4. ASSUME NEW q \in Pass, DetectDeletes(q) PROVE FreshInv'
  <2> DEFINE after == AfterDeletes(listed[q], gold)
             gone == Vanished(listed[q], gold)
  <2>1. /\ listed[q] \in SUBSET Run /\ listed[q] # {} /\ work[q] = gold /\ TableSound(gold)
        /\ ~Inverted(listed[q], gold)
    BY <1>4 DEF DetectDeletes, TypeInv, PassInv, SoundInv
  <2>2. \A k \in CurrentKeys(after) :
            k \notin gone /\ k \in CurrentKeys(gold) /\ VersionsOf(k, after) = VersionsOf(k, gold)
    BY <2>1, DeletesInvalidate
  <2>3. /\ UNCHANGED <<gold, status, listed>>
        /\ work'[q] = after /\ todo'[q] = KeysOf(listed[q]) \ gone
        /\ \A p \in Pass \ {q} : /\ work'[p] = work[p] /\ todo'[p] = todo[p]
                                 /\ at'[p] = at[p]
    BY <1>4, <2>1 DEF DetectDeletes, PassAt, TypeInv
  <2> HIDE DEF after, gone
  <2>4. \A k : History(k)' = History(k) /\ (Unspoilt(k)' <=> Unspoilt(k))
               /\ \A p \in Pass : Settles(p, k)' <=> Settles(p, k)
    BY <2>3 DEF History, InBronze, Unspoilt, Settles, RowsOfRuns, RowsOf, KeysOf
  <2>5. ASSUME NEW k \in CurrentKeys(after) \ todo'[q], Settles(q, k)
        PROVE  VersionsOf(k, after) = Chain(History(k))
    <3>1. k \notin KeysOf(listed[q]) BY <2>2, <2>3
    <3>2. Unspoilt(k) BY <3>1, <2>5, KeysOfOne DEF Unspoilt, Settles
    <3> QED BY <3>2, <2>2 DEF FreshInv
  <2>6. \A p \in Pass : at'[p] = "recompute" =>
          \A k \in CurrentKeys(work'[p]) \ todo'[p] :
             Settles(p, k) => VersionsOf(k, work'[p]) = Chain(History(k))
    BY <2>3, <2>5 DEF FreshInv
  <2> QED BY <2>3, <2>4, <2>6 DEF FreshInv
<1>5. ASSUME NEW q \in Pass, TripBreaker(q) PROVE FreshInv'
  BY <1>5, <1>a DEF TripBreaker, PassAt, TypeInv
<1>6. ASSUME NEW q \in Pass, QuarantineListed(q) PROVE FreshInv'
  <2>1. \A r \in Run : status'[r] = status[r] \/ status'[r] = "QUARANTINED"
    BY <1>6 DEF QuarantineListed
  <2>2. gold' = gold BY <1>6 DEF QuarantineListed
  <2>3. \A p \in Pass : at'[p] = "recompute" =>
            /\ at[p] = "recompute" /\ work'[p] = work[p]
            /\ todo'[p] = todo[p] /\ listed'[p] = listed[p]
    BY <1>6 DEF QuarantineListed, EndPass, PassAt, TypeInv
  <2> QED BY <2>1, <2>2, <2>3, FreshFrame
<1>7. ASSUME NEW q \in Pass, DeleteRaises(q) \/ RecomputeRaises(q) \/ Abort(q) PROVE FreshInv'
  BY <1>7, <1>a DEF DeleteRaises, RecomputeRaises, Abort, EndPass, PassAt, TypeInv
<1>8. ASSUME NEW q \in Pass, Recompute(q) PROVE FreshInv'
  <2>1. PICK k \in todo[q] :
          /\ work' = [work EXCEPT ![q] = (work[q] \ VersionsOf(k, work[q])) \cup Chain(History(k))]
          /\ todo' = [todo EXCEPT ![q] = todo[q] \ {k}]
    BY <1>8 DEF Recompute
  <2> DEFINE C == Chain(History(k))
             after == (work[q] \ VersionsOf(k, work[q])) \cup C
  <2>2. \A v \in C : v.key = k BY HistoryRows, ChainSound
  <2>3. /\ UNCHANGED <<gold, status, listed, at>>
        /\ work'[q] = after /\ todo'[q] = todo[q] \ {k}
        /\ \A p \in Pass \ {q} : work'[p] = work[p] /\ todo'[p] = todo[p]
    BY <1>8, <2>1 DEF Recompute, TypeInv
  <2>4. \A j : History(j)' = History(j) /\ (Unspoilt(j)' <=> Unspoilt(j))
               /\ \A p \in Pass : Settles(p, j)' <=> Settles(p, j)
    BY <2>3 DEF History, InBronze, Unspoilt, Settles, RowsOfRuns, RowsOf, KeysOf
  <2> HIDE DEF C
  <2>5. VersionsOf(k, after) = C BY <2>2 DEF VersionsOf
  <2>6. ASSUME NEW j, j # k
        PROVE  /\ VersionsOf(j, after) = VersionsOf(j, work[q])
               /\ j \in CurrentKeys(after) => j \in CurrentKeys(work[q])
    BY <2>2, <2>6 DEF VersionsOf, CurrentKeys
  <2> HIDE DEF after
  <2>7. ASSUME NEW j \in CurrentKeys(after) \ todo'[q], Settles(q, j)
        PROVE  VersionsOf(j, after) = Chain(History(j))
    <3>1. CASE j = k BY <3>1, <2>5 DEF C
    <3>2. CASE j # k
      <4>1. j \in CurrentKeys(work[q]) \ todo[q] BY <3>2, <2>3, <2>6, <2>7
      <4>2. at[q] = "recompute" BY <1>8 DEF Recompute
      <4>3. VersionsOf(j, work[q]) = Chain(History(j)) BY <4>1, <4>2, <2>7 DEF FreshInv
      <4> QED BY <4>3, <3>2, <2>6
    <3> QED BY <3>1, <3>2
  <2>8. \A p \in Pass : at'[p] = "recompute" =>
          \A j \in CurrentKeys(work'[p]) \ todo'[p] :
             Settles(p, j) => VersionsOf(j, work'[p]) = Chain(History(j))
    BY <2>3, <2>7 DEF FreshInv
  <2> QED BY <2>3, <2>4, <2>8 DEF FreshInv
<1>9. ASSUME NEW q \in Pass, Commit(q) PROVE FreshInv'
  <2>1. at[q] = "recompute" /\ todo[q] = {} /\ gold' = work[q] BY <1>9 DEF Commit
  <2>2. \A r \in Run : status'[r] = IF r \in listed[q] /\ status[r] = "STAGED"
                                    THEN "SUCCEEDED" ELSE status[r]
    BY <1>9 DEF Commit
  <2>3. ASSUME NEW k \in CurrentKeys(work[q]), Unspoilt(k)'
        PROVE  VersionsOf(k, work[q]) = Chain(History(k)')
    <3>1. \A r \in Run : k \in KeysOf({r}) => status'[r] \in {"PENDING", "SUCCEEDED"}
      BY <2>3 DEF Unspoilt, KeysOf, RowsOfRuns, RowsOf
    <3>2. Settles(q, k) BY <3>1, <2>2 DEF Settles
    <3>3. History(k)' = History(k) BY <2>2, HistorySame
    <3> QED BY <3>2, <3>3, <2>1 DEF FreshInv
  <2>4. \A p \in Pass : at'[p] # "recompute"
    BY <1>9 DEF Commit, EndPass, PassAt, TypeInv, PassInv
  <2>5. \A k \in CurrentKeys(gold') : Unspoilt(k)' => VersionsOf(k, gold') = Chain(History(k)')
    BY <2>1, <2>3
  <2> QED BY <2>4, <2>5 DEF FreshInv
<1>10. CASE UNCHANGED scd2Vars BY <1>10, <1>a DEF scd2Vars, passVars
<1> QED BY <1>1, <1>2, <1>3, <1>4, <1>5, <1>6, <1>7, <1>8, <1>9, <1>10 DEF Scd2Next

-----------------------------------------------------------------------------
(* The theorems.                                                             *)

Scd2Inv == TypeInv /\ PassInv /\ SoundInv /\ DeliveredInv /\ LossInv

\* The inductive invariant of the scd publisher: what an open transaction has made of
\* the table, and how much of gold it has lost, at every step of a pass.
THEOREM Scd2Invariance == Scd2Spec => []Scd2Inv
<1>1. Scd2Init => Scd2Inv
  <2> SUFFICES ASSUME Scd2Init PROVE Scd2Inv OBVIOUS
  <2>1. TypeInv /\ PassInv BY Scd2InitInv
  <2>2. SoundInv BY DEF Scd2Init, SoundInv, TableSound
  <2>3. DeliveredInv /\ LossInv
    BY Scd2Assumption DEF Scd2Init, DeliveredInv, LossInv, Scd2Assumption
  <2> QED BY <2>1, <2>2, <2>3 DEF Scd2Inv
<1>2. Scd2Inv /\ [Scd2Next]_scd2Vars => Scd2Inv'
  BY Scd2TypeStep, Scd2PassStep, Scd2SoundStep, Scd2DeliveredStep, Scd2LossStep DEF Scd2Inv
<1> QED BY <1>1, <1>2, PTL DEF Scd2Spec

\* No commit runs into the exclusion constraint of migration 0035: the versions of a
\* key are disjoint and one of them at most is current, the open one.
THEOREM Scd2Chains == Scd2Spec => []ChainsSound
<1>1. Scd2Inv => ChainsSound
  <2> SUFFICES ASSUME SoundInv, NEW v \in gold, NEW w \in gold, v.key = w.key, v # w
               PROVE  /\ ~Overlap(v, w) /\ ~(v.current /\ w.current)
                      /\ v.current <=> v.to = Sentinel
    BY DEF Scd2Inv, ChainsSound
  <2>1. IsVersion(v) /\ IsVersion(w) /\ ~Overlap(v, w) BY DEF SoundInv, TableSound
  <2>2. (v.current <=> v.to = Sentinel) /\ (w.current <=> w.to = Sentinel)
    BY <2>1, CurrentIsOpen
  <2>3. ~(v.to = Sentinel /\ w.to = Sentinel) BY <2>1 DEF IsVersion, Overlap
  <2> QED BY <2>1, <2>2, <2>3
<1> QED BY <1>1, Scd2Invariance, PTL

\* What succeeded is in gold: a pass that lists, loses the race for the lock, is
\* killed or raises leaves no run SUCCEEDED whose keys have no version.
THEOREM Scd2SucceededInGold == Scd2Spec => []SucceededKeysInGold
<1>1. Scd2Inv => SucceededKeysInGold
  BY DEF Scd2Inv, DeliveredInv, SucceededKeysInGold, KeysIn, VersionsOf
<1> QED BY <1>1, Scd2Invariance, PTL

\* No commit takes more of the current keys out of gold than the threshold allows.
THEOREM Scd2DeletionsBounded == Scd2Spec => DeletionsBounded
<1>1. Scd2Inv /\ [Scd2Next]_scd2Vars => [LittleLost]_gold
  <2> SUFFICES ASSUME Scd2Inv, Scd2Next, gold' # gold PROVE LittleLost
    BY DEF scd2Vars
  <2>1. PICK q \in Pass : Commit(q)
    BY DEF Scd2Next, Stage, List, AcquireLock, DetectDeletes, TripBreaker, QuarantineListed,
           DeleteRaises, Recompute, RecomputeRaises, Abort
  <2>2. at[q] = "recompute" /\ gold' = work[q] BY <2>1 DEF Commit
  <2> QED BY <2>2 DEF Scd2Inv, LossInv, LittleLost, Lost
<1> QED BY <1>1, Scd2Invariance, PTL DEF Scd2Spec, DeletionsBounded

\* Whatever order files were staged and published in, and however passes overlapped or
\* died, a current key has the versions of one recomputation over its whole history.
\* It rests on the semantics configured for the dataset: to invalidate what vanished.
\* Under the other two a key that a pass omits stays current and is not recomputed.
THEOREM Scd2CurrentIsRecompute ==
  ASSUME DeleteSemantics = "invalidate"
  PROVE  Scd2Spec => []CurrentIsRecompute
<1>1. Scd2Init => FreshInv BY DEF Scd2Init, FreshInv, CurrentKeys
<1>2. Scd2Inv /\ FreshInv /\ [Scd2Next]_scd2Vars => FreshInv'
  BY Scd2FreshStep DEF Scd2Inv
<1>3. FreshInv => CurrentIsRecompute BY DEF FreshInv, CurrentIsRecompute
<1> QED BY <1>1, <1>2, <1>3, Scd2Invariance, PTL DEF Scd2Spec
=============================================================================
