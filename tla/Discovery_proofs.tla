--------------------------- MODULE Discovery_proofs ---------------------------
(***************************************************************************)
(* Proofs about Discovery, for any objects, overlapping discover passes,      *)
(* stage tasks, caps and failures.                                          *)
(***************************************************************************)
EXTENDS Discovery, Ordering_proofs, SequenceTheorems

-----------------------------------------------------------------------------
(* The listing: its units are non-empty sequences of objects.                *)

LEMMA SortedByKey ==
  ASSUME NEW S \in SUBSET Object, IsFiniteSet(S)
  PROVE  ByKey(S) \in Seq(S)
<1> DEFINE before == {e \in S \X S : e[1].key < e[2].key}
<1>1. \A o \in S : o.key \in Nat BY DiscoveryAssumption
<1>2. \A o, p \in S : <<o, p>> \in before <=> o.key < p.key OBVIOUS
<1>3. \A o, p \in S : o.key = p.key => o = p BY DiscoveryAssumption
<1> HIDE DEF before
<1>4. Orders(before, S) BY <1>1, <1>2, <1>3 DEF Orders
<1>5. InOrder(S, before) \in Seq(S) BY <1>4, InOrderSorts
<1> QED BY <1>5 DEF ByKey, before

LEMMA SortedByIndex ==
  ASSUME NEW S \in SUBSET Object, IsFiniteSet(S)
  PROVE  ByIndex(S) \in Seq(S) /\ Len(ByIndex(S)) = Cardinality(S)
<1> DEFINE before == {e \in S \X S : \/ e[1].index < e[2].index
                                     \/ e[1].index = e[2].index /\ e[1].key < e[2].key}
<1>1. \A o \in S : o.key \in Nat /\ o.index \in Nat BY DiscoveryAssumption
<1>2. \A o, p \in S : <<o, p>> \in before <=> \/ o.index < p.index
                                              \/ o.index = p.index /\ o.key < p.key
  OBVIOUS
<1>3. \A o, p \in S : o.key = p.key => o = p BY DiscoveryAssumption
<1> HIDE DEF before
<1>4. Orders(before, S)
  <2>1. \A o \in S : <<o, o>> \notin before BY <1>1, <1>2
  <2>2. \A o, p, q \in S : <<o, p>> \in before /\ <<p, q>> \in before => <<o, q>> \in before
    BY <1>1, <1>2
  <2>3. ASSUME NEW o \in S, NEW p \in S, o # p
        PROVE  <<o, p>> \in before \/ <<p, o>> \in before
    <3>1. o.key # p.key BY <2>3, <1>3
    <3>2. \/ o.index < p.index \/ p.index < o.index
          \/ o.index = p.index /\ (o.key < p.key \/ p.key < o.key)
      BY <3>1, <1>1
    <3> QED BY <3>2, <1>2
  <2> QED BY <2>1, <2>2, <2>3 DEF Orders
<1>5. InOrder(S, before) \in Seq(S) /\ Len(InOrder(S, before)) = Cardinality(S)
  BY <1>4, InOrderSorts
<1> QED BY <1>5 DEF ByIndex, before

LEMMA PartsOfGroup ==
  ASSUME NEW listed \in SUBSET Object, IsFiniteSet(listed), NEW g \in GroupsOf(listed)
  PROVE  PartsOf(g, listed) \in Seq(Object) \ {<<>>}
<1> DEFINE S == {o \in listed : o.group = g}
<1>1. S \in SUBSET Object /\ S \in SUBSET listed OBVIOUS
<1>2. S # {} BY DEF GroupsOf
<1> HIDE DEF S
<1>3. IsFiniteSet(S) BY <1>1, FS_Subset
<1>4. Cardinality(S) # 0 BY <1>2, <1>3, FS_EmptySet
<1>5. ByIndex(S) \in Seq(S) /\ Len(ByIndex(S)) = Cardinality(S) BY <1>1, <1>3, SortedByIndex
<1>6. ByIndex(S) \in Seq(Object) BY <1>1, <1>5, SeqMonotonic
<1>7. ByIndex(S) # <<>> BY <1>4, <1>5, EmptySeq
<1> QED BY <1>6, <1>7 DEF PartsOf, S

LEMMA GroupsSorted ==
  ASSUME NEW listed \in SUBSET Object, IsFiniteSet(listed)
  PROVE  LET keys == GroupsOf(listed)
         IN  InOrder(keys, {e \in keys \X keys : e[1] < e[2]}) \in Seq(keys)
<1> DEFINE keys == GroupsOf(listed)
           before == {e \in keys \X keys : e[1] < e[2]}
           all == {o.group : o \in listed}
           group == [o \in listed |-> o.group]
<1>1. group \in Surjection(listed, all) BY DEF Surjection
<1>2. IsFiniteSet(all)
  <2> HIDE DEF all, group
  <2> QED BY <1>1, FS_Surjection
<1>3. IsFiniteSet(keys)
  <2>1. keys \in SUBSET all BY DEF GroupsOf
  <2> HIDE DEF keys, all
  <2> QED BY <2>1, <1>2, FS_Subset
<1>4. \A g \in keys : g \in Nat BY DiscoveryAssumption DEF GroupsOf
<1>5. \A g, h \in keys : <<g, h>> \in before <=> g < h OBVIOUS
<1> HIDE DEF keys, before
<1>6. Orders(before, keys) BY <1>4, <1>5 DEF Orders
<1>7. InOrder(keys, before) \in Seq(keys) BY <1>3, <1>6, InOrderSorts
<1> QED BY <1>7 DEF keys, before

\* The agenda of a pass consists of units with at least one part each.
LEMMA UnitsOfListing ==
  ASSUME NEW listed \in SUBSET Object, IsFiniteSet(listed)
  PROVE  UnitsOf(listed) \in Seq(Seq(Object) \ {<<>>})
<1> DEFINE keys == GroupsOf(listed)
           groups == InOrder(keys, {e \in keys \X keys : e[1] < e[2]})
           single == {o \in listed \ Fragment : o.group = 0}
           alone == ByKey(single)
           multipart == [i \in 1..Len(groups) |-> PartsOf(groups[i], listed)]
           lone == [i \in 1..Len(alone) |-> <<alone[i]>>]
           Unit1 == Seq(Object) \ {<<>>}
<1>1. groups \in Seq(keys) BY GroupsSorted
<1>2. alone \in Seq(single) /\ single \in SUBSET Object
  <2>1. single \in SUBSET Object /\ single \in SUBSET listed OBVIOUS
  <2>2. IsFiniteSet(single)
    <3> HIDE DEF single
    <3> QED BY <2>1, FS_Subset
  <2> HIDE DEF single
  <2> QED BY <2>1, <2>2, SortedByKey
<1>3. multipart \in Seq(Unit1)
  <2>1. Len(groups) \in Nat /\ \A i \in 1..Len(groups) : groups[i] \in keys
    <3> HIDE DEF groups
    <3> QED BY <1>1
  <2>2. \A i \in 1..Len(groups) : PartsOf(groups[i], listed) \in Unit1
    <3> HIDE DEF groups, Unit1
    <3> QED BY <2>1, PartsOfGroup DEF Unit1
  <2> HIDE DEF groups, Unit1
  <2> QED BY <2>1, <2>2
<1>4. lone \in Seq(Unit1)
  <2>1. Len(alone) \in Nat /\ \A i \in 1..Len(alone) : alone[i] \in Object
    <3> HIDE DEF alone, single
    <3> QED BY <1>2
  <2>2. \A i \in 1..Len(alone) : <<alone[i]>> \in Unit1
    <3> HIDE DEF alone
    <3> QED BY <2>1
  <2> HIDE DEF alone, Unit1
  <2> QED BY <2>1, <2>2
<1>5. multipart \o lone \in Seq(Unit1)
  <2> HIDE DEF multipart, lone, Unit1
  <2> QED BY <1>3, <1>4, ConcatProperties
<1> QED BY <1>5 DEF UnitsOf

-----------------------------------------------------------------------------
(* The inductive invariant.                                                  *)

\* Units have parts, the current part is one of them, and a pass in the middle
\* of a unit has one.
UnitsSound ==
    \A s \in Scan :
        /\ agenda[s] \in Seq(Seq(Object) \ {<<>>})
        /\ agenda[s] # <<>> => part[s] \in 1..Len(Unit(s))
        /\ at[s] \in {"register", "correct", "allocate", "assign"} => agenda[s] # <<>>
        /\ at[s] = "idle" => part[s] = 1

\* o is the first file registered with its content.
IsOriginal(o) ==
    \E i \in 1..Len(files) : /\ files[i] = o
                             /\ \A j \in SameContent(o) : i <= j

\* Between the query and the insert the answer stays the right one: files are
\* only ever appended.
FoundIsOriginal ==
    \A s \in Scan : at[s] = "register" /\ found[s] # None =>
        IsOriginal(found[s]) /\ found[s].content = Part(s).content

MarkedIsOriginal ==
    \A o \in Object : duplicate[o] # None =>
        IsOriginal(duplicate[o]) /\ duplicate[o].content = o.content

\* A run that a pass is about to write the document of exists, and whatever was
\* accepted, offered or picked up has its document.
KeyAllocated == \A s \in Scan : at[s] = "assign" => Key(s) \in DOMAIN status

DocumentsWritten ==
    /\ \A s \in Scan : \A i \in 1..Len(candidates[s]) : document[candidates[s][i]] # <<>>
    /\ \A k \in offered : document[k] # <<>>
    /\ \A w \in Worker : task[w] # None => document[task[w]] # <<>>

DocumentsMatch ==
    \A k \in DOMAIN document : document[k] # <<>> => Contents(document[k]) = k.contents

TypeInv == DiscoveryTypeOK /\ IsFiniteSet(bucket) /\ UnitsSound
FileInv == FoundIsOriginal /\ MarkedIsOriginal
RunInv  == KeyAllocated /\ DocumentsWritten /\ DocumentsMatch

-----------------------------------------------------------------------------
(* The pass through its agenda.                                              *)

AgendaInv ==
    /\ at \in [Scan -> Steps] /\ agenda \in [Scan -> Seq(Seq(Object))]
    /\ part \in [Scan -> Nat \ {0}] /\ withheld \in [Scan -> BOOLEAN]
    /\ UnitsSound

\* The current unit and part are what their names say.
LEMMA CurrentPart ==
  ASSUME AgendaInv, NEW s \in Scan, agenda[s] # <<>>
  PROVE  /\ Unit(s) \in Seq(Object) /\ Unit(s) # <<>>
         /\ Part(s) \in Object
         /\ Tail(agenda[s]) \in Seq(Seq(Object) \ {<<>>})
<1>1. agenda[s] \in Seq(Seq(Object) \ {<<>>}) /\ part[s] \in 1..Len(Unit(s))
  BY DEF AgendaInv, UnitsSound
<1>2. Head(agenda[s]) \in Seq(Object) \ {<<>>} /\ Tail(agenda[s]) \in Seq(Seq(Object) \ {<<>>})
  <2> DEFINE U == Seq(Object) \ {<<>>}
  <2> HIDE DEF U
  <2>1. agenda[s] \in Seq(U) BY <1>1 DEF U
  <2>2. Head(agenda[s]) \in U /\ Tail(agenda[s]) \in Seq(U) BY <2>1, HeadTailProperties
  <2> QED BY <2>2 DEF U
<1>3. Unit(s)[part[s]] \in Object BY <1>1, <1>2, ElementOfSeq DEF Unit
<1> QED BY <1>2, <1>3 DEF Unit, Part

\* A pass that is given a new agenda, or none, starts with its first part.
LEMMA AgendaReplaced ==
  ASSUME AgendaInv, NEW s \in Scan, NEW a \in Seq(Seq(Object) \ {<<>>}),
         agenda' = [agenda EXCEPT ![s] = a],
         part'[s] = 1, \A z \in Scan \ {s} : part'[z] = part[z], part' \in [Scan -> Nat \ {0}],
         withheld' \in [Scan -> BOOLEAN],
         NEW l \in {"idle", "term", "find"}, ScanAt(s, l)
  PROVE  AgendaInv'
<1> USE DEF AgendaInv, ScanAt
<1>1. at' \in [Scan -> Steps] BY DEF Steps
<1>2. a \in Seq(Seq(Object)) BY SeqMonotonic
<1>3. a # <<>> => 1 \in 1..Len(Head(a))
  <2> SUFFICES ASSUME a # <<>> PROVE Head(a) \in Seq(Object) \ {<<>>}
    BY EmptySeq
  <2> DEFINE U == Seq(Object) \ {<<>>}
  <2> HIDE DEF U
  <2>1. a \in Seq(U) BY DEF U
  <2>2. Head(a) \in U BY <2>1, HeadTailProperties
  <2> QED BY <2>2 DEF U
<1>4. agenda' \in [Scan -> Seq(Seq(Object))] BY <1>2
<1>5. UnitsSound'
  <2> SUFFICES ASSUME NEW z \in Scan
               PROVE  /\ agenda'[z] \in Seq(Seq(Object) \ {<<>>})
                      /\ agenda'[z] # <<>> => part'[z] \in 1..Len(Head(agenda'[z]))
                      /\ at'[z] \in {"register", "correct", "allocate", "assign"}
                            => agenda'[z] # <<>>
                      /\ at'[z] = "idle" => part'[z] = 1
    BY DEF UnitsSound, Unit
  <2>1. CASE z = s BY <2>1, <1>3
  <2>2. CASE z # s BY <2>2 DEF UnitsSound, Unit
  <2> QED BY <2>1, <2>2
<1> QED BY <1>1, <1>4, <1>5

\* The next step is reached within the current unit.
LEMMA AgendaKept ==
  ASSUME AgendaInv, NEW s \in Scan, UNCHANGED <<agenda, part, withheld>>,
         NEW l \in Steps \ {"idle"}, ScanAt(s, l),
         l \in {"register", "correct", "allocate", "assign"} => agenda[s] # <<>>
  PROVE  AgendaInv'
BY DEF AgendaInv, ScanAt, UnitsSound, Unit

LEMMA NextUnitKeeps ==
  ASSUME AgendaInv, NEW s \in Scan, agenda[s] # <<>>, NextUnit(s)
  PROVE  AgendaInv'
<1>1. Tail(agenda[s]) \in Seq(Seq(Object) \ {<<>>}) BY CurrentPart
<1>2. part' = [part EXCEPT ![s] = 1] /\ withheld' = [withheld EXCEPT ![s] = FALSE]
      /\ agenda' = [agenda EXCEPT ![s] = Tail(agenda[s])] /\ ScanAt(s, "find")
  BY DEF NextUnit, AgendaInv
<1>3. part'[s] = 1 /\ (\A z \in Scan \ {s} : part'[z] = part[z])
      /\ part' \in [Scan -> Nat \ {0}] /\ withheld' \in [Scan -> BOOLEAN]
  BY <1>2 DEF AgendaInv
<1> QED BY <1>1, <1>2, <1>3, AgendaReplaced

LEMMA PartDoneKeeps ==
  ASSUME AgendaInv, NEW s \in Scan, agenda[s] # <<>>, NEW b \in BOOLEAN, PartDone(s, b)
  PROVE  AgendaInv'
<1>1. CASE part[s] < Len(Unit(s))
  <2>1. /\ part' = [part EXCEPT ![s] = part[s] + 1]
        /\ withheld' = [withheld EXCEPT ![s] = withheld[s] \/ b]
        /\ at' = [at EXCEPT ![s] = "find"] /\ agenda' = agenda
    BY <1>1 DEF PartDone, ScanAt, AgendaInv
  <2>2. at' \in [Scan -> Steps] /\ part' \in [Scan -> Nat \ {0}] BY <2>1 DEF AgendaInv, Steps
  <2>3. withheld' \in [Scan -> BOOLEAN] BY <2>1 DEF AgendaInv
  <2>4. Len(Unit(s)) \in Nat BY CurrentPart
  <2>5. UnitsSound'
    <3> SUFFICES ASSUME NEW z \in Scan
                 PROVE  /\ agenda[z] \in Seq(Seq(Object) \ {<<>>})
                        /\ agenda[z] # <<>> => part'[z] \in 1..Len(Unit(z))
                        /\ at'[z] \in {"register", "correct", "allocate", "assign"}
                              => agenda[z] # <<>>
                        /\ at'[z] = "idle" => part'[z] = 1
      BY <2>1 DEF UnitsSound, Unit
    <3>1. CASE z = s BY <3>1, <1>1, <2>1, <2>4 DEF AgendaInv, UnitsSound
    <3>2. CASE z # s BY <3>2, <2>1 DEF AgendaInv, UnitsSound
    <3> QED BY <3>1, <3>2
  <2> QED BY <2>1, <2>2, <2>3, <2>5 DEF AgendaInv
<1>2. CASE ~(part[s] < Len(Unit(s))) /\ NextUnit(s) BY <1>2, NextUnitKeeps
<1>3. CASE ScanAt(s, "allocate") /\ UNCHANGED <<agenda, part, withheld>>
  BY <1>3, AgendaKept DEF Steps
<1> QED BY <1>1, <1>2, <1>3 DEF PartDone

-----------------------------------------------------------------------------
(* Type correctness.                                                         *)

\* create_file adds a row or none; rows stay distinct.
LEMMA CreateFileTyped ==
  ASSUME FilesTyped, NEW o \in Object, NEW original \in Object \cup {None},
         CreateFile(o, original)
  PROVE  FilesTyped'
<1>0. /\ files \in Seq(Object) /\ Len(files) \in Nat
      /\ Cardinality(ToSet(files)) = Len(files)
  BY DEF FilesTyped
<1>1. duplicate' \in [Object -> Object \cup {None}] BY DEF CreateFile, FilesTyped
<1>2. CASE o \in ToSet(files)
  BY <1>1, <1>2 DEF CreateFile, FilesTyped
<1>3. CASE o \notin ToSet(files)
  <2>1. files' = Append(files, o) BY <1>3 DEF CreateFile
  <2>2. files' \in Seq(Object) /\ Len(files') = Len(files) + 1
        /\ files'[Len(files) + 1] = o /\ \A i \in 1..Len(files) : files'[i] = files[i]
    BY <1>0, <2>1, AppendProperties
  <2>3. ToSet(files') = ToSet(files) \cup {o}
    <3>1. DOMAIN files = 1..Len(files) /\ DOMAIN files' = 1..(Len(files) + 1)
      BY <1>0, <2>2
    <3>2. 1..(Len(files) + 1) = (1..Len(files)) \cup {Len(files) + 1} BY <1>0
    <3> DEFINE n == Len(files)
               I == 1..n
    <3>3. ToSet(files) = {files[i] : i \in I} BY <3>1 DEF ToSet
    <3>4. ToSet(files') = {files'[i] : i \in I \cup {n + 1}} BY <3>1, <3>2 DEF ToSet
    <3>5. files'[n + 1] = o /\ \A i \in I : files'[i] = files[i] BY <2>2
    <3> HIDE DEF n, I
    <3>6. ASSUME NEW x \in ToSet(files) PROVE x \in ToSet(files')
      <4>1. PICK i \in I : x = files[i] BY <3>3
      <4> QED BY <4>1, <3>4, <3>5
    <3>7. ASSUME NEW x \in ToSet(files') PROVE x \in ToSet(files) \/ x = o
      <4>1. PICK i \in I \cup {n + 1} : x = files'[i] BY <3>4
      <4>2. CASE i \in I BY <4>1, <4>2, <3>3, <3>5
      <4>3. CASE i = n + 1 BY <4>1, <4>3, <3>5
      <4> QED BY <4>2, <4>3
    <3>8. o \in ToSet(files') BY <3>4, <3>5
    <3> QED BY <3>6, <3>7, <3>8
  <2>4. IsFiniteSet(ToSet(files))
    <3>1. 1..Len(files) = DOMAIN files /\ Len(files) \in Nat BY <1>0
    <3>2. files \in Surjection(1..Len(files), ToSet(files))
      <4>1. ToSet(files) = {files[i] : i \in 1..Len(files)} BY <3>1 DEF ToSet
      <4>2. files = [i \in 1..Len(files) |-> files[i]] BY <1>0
      <4>3. files \in [1..Len(files) -> ToSet(files)] BY <4>1, <4>2
      <4>4. \A x \in ToSet(files) : \E i \in 1..Len(files) : files[i] = x BY <4>1
      <4> QED BY <4>3, <4>4 DEF Surjection
    <3>3. IsFiniteSet(1..Len(files)) BY <3>1, FS_Interval
    <3> QED BY <3>2, <3>3, FS_Surjection
  <2>5. Cardinality(ToSet(files) \cup {o}) = Cardinality(ToSet(files)) + 1
    <3> DEFINE S == ToSet(files)
    <3> HIDE DEF S
    <3>1. IsFiniteSet(S) /\ o \notin S BY <1>3, <2>4 DEF S
    <3>2. Cardinality(S \cup {o}) = Cardinality(S) + 1 BY <3>1, FS_AddElement
    <3> QED BY <3>2 DEF S
  <2> QED BY <1>0, <1>1, <2>2, <2>3, <2>5 DEF FilesTyped
<1> QED BY <1>2, <1>3

\* Whatever refers to runs stays typed when runs are added.
LEMMA RefsStay ==
  ASSUME RefsTyped, DOMAIN status \subseteq DOMAIN status', UNCHANGED <<offered, candidates, task>>
  PROVE  RefsTyped'
<1> DEFINE D == DOMAIN status
           E == DOMAIN status'
<1> HIDE DEF D, E
<1>1. \A s \in Scan : candidates[s] \in Seq(D) BY DEF RefsTyped, D
<1>2. D \subseteq E BY DEF D, E
<1>3. \A s \in Scan : candidates[s] \in Seq(E) BY <1>1, <1>2, SeqMonotonic
<1>4. candidates \in [Scan -> Seq(E)] BY <1>3 DEF RefsTyped
<1>5. task \in [Worker -> E \cup {None}] BY <1>2 DEF RefsTyped, D
<1>6. offered \subseteq E BY <1>2 DEF RefsTyped, D
<1> QED BY <1>4, <1>5, <1>6 DEF RefsTyped, E

LEMMA KeyTyped ==
  ASSUME AgendaInv, NEW s \in Scan, agenda[s] # <<>>, term[s] \in Nat
  PROVE  Key(s).contents \in Seq({o.content : o \in Object}) /\ Key(s).term \in Nat
         /\ Key(s).contents = Contents(Unit(s))
<1> DEFINE C == {o.content : o \in Object}
<1>1. Unit(s) \in Seq(Object) BY CurrentPart
<1>2. Len(Unit(s)) \in Nat /\ \A i \in 1..Len(Unit(s)) : Unit(s)[i] \in Object
  BY <1>1
<1>3. \A i \in 1..Len(Unit(s)) : Unit(s)[i].content \in C BY <1>2
<1>4. Contents(Unit(s)) \in Seq(C)
  <2> HIDE DEF C
  <2> QED BY <1>2, <1>3 DEF Contents
<1> QED BY <1>4 DEF Key, IdempotencyKey

LEMMA AllocateTyped ==
  ASSUME RunsTyped, RefsTyped, NEW s \in Scan, AllocateRun(s),
         Key(s).contents \in Seq({o.content : o \in Object}), Key(s).term \in Nat
  PROVE  RunsTyped' /\ RefsTyped'
<1> DEFINE k == Key(s)
<1>1. CASE k \in DOMAIN status
  <2>1. UNCHANGED <<status, document, offered, candidates, task>>
    BY <1>1 DEF AllocateRun, stageVars
  <2> QED BY <2>1 DEF RunsTyped, RefsTyped
<1>2. CASE k \notin DOMAIN status
  <2>1. /\ status' = [j \in DOMAIN status \cup {k} |-> IF j = k THEN "PENDING" ELSE status[j]]
        /\ document' = [j \in DOMAIN status \cup {k} |-> IF j = k THEN <<>> ELSE document[j]]
        /\ UNCHANGED <<offered, candidates, task>>
    BY <1>2 DEF AllocateRun, stageVars
  <2>2. k.contents \in Seq({o.content : o \in Object}) /\ k.term \in Nat OBVIOUS
  <2> HIDE DEF k
  <2>3. DOMAIN status' = DOMAIN status \cup {k} /\ DOMAIN document' = DOMAIN status \cup {k}
    BY <2>1
  <2>4. ASSUME NEW j \in DOMAIN status'
        PROVE  /\ j.contents \in Seq({o.content : o \in Object}) /\ j.term \in Nat
               /\ status'[j] \in {"PENDING", "FAILED"} \cup Terminal
               /\ document'[j] \in Seq(Object)
    <3>1. CASE j = k BY <3>1, <2>1, <2>2
    <3>2. CASE j # k
      <4>1. j \in DOMAIN status BY <3>2, <2>3
      <4>2. status'[j] = status[j] /\ document'[j] = document[j] BY <3>2, <4>1, <2>1
      <4> QED BY <4>1, <4>2 DEF RunsTyped
    <3> QED BY <3>1, <3>2
  <2>5. RunsTyped' BY <2>3, <2>4 DEF RunsTyped
  <2>6. RefsTyped' BY <2>1, <2>3, RefsStay
  <2> QED BY <2>5, <2>6
<1> QED BY <1>1, <1>2

LEMMA DiscoveryInitType == DiscoveryInit => TypeInv
<1> SUFFICES ASSUME DiscoveryInit PROVE TypeInv OBVIOUS
<1> USE DiscoveryAssumption DEF DiscoveryInit
<1>1. FilesTyped
  <2>1. ToSet(<<>>) = {} BY DEF ToSet
  <2>2. Cardinality(ToSet(files)) = 0
    <3>1. files = <<>> OBVIOUS
    <3> QED BY <2>1, <3>1, FS_EmptySet
  <2>3. files \in Seq(Object) /\ Len(files) = 0 BY EmptySeq
  <2>4. duplicate \in [Object -> Object \cup {None}] OBVIOUS
  <2> QED BY <2>2, <2>3, <2>4 DEF FilesTyped
<1>2. RunsTyped /\ RefsTyped
  <2>1. DOMAIN status = {} /\ DOMAIN document = {} OBVIOUS
  <2>2. <<>> \in Seq(DOMAIN status) OBVIOUS
  <2> QED BY <2>1, <2>2 DEF RunsTyped, RefsTyped
<1>3. IsFiniteSet(bucket) BY FS_EmptySet
<1>4. UnitsSound
  <2>1. <<>> \in Seq(Seq(Object) \ {<<>>}) OBVIOUS
  <2> QED BY <2>1 DEF UnitsSound
<1>5. history \in Seq({o.shape : o \in Object} \cup {"contract"}) OBVIOUS
<1>6. /\ at \in [Scan -> Steps]
      /\ agenda \in [Scan -> Seq(Seq(Object))] /\ part \in [Scan -> Nat \ {0}]
      /\ found \in [Scan -> Object \cup {None}] /\ withheld \in [Scan -> BOOLEAN]
      /\ term \in [Scan -> Nat] /\ seen \in [Worker -> {o.shape : o \in Object} \cup {"contract", None}]
  BY DEF Steps
<1>7. bucket \subseteq Object /\ lost \subseteq Scan /\ faults \in 0..MaxFaults OBVIOUS
<1> QED BY <1>1, <1>2, <1>3, <1>4, <1>5, <1>6, <1>7 DEF TypeInv, DiscoveryTypeOK

DiscoveryInv == TypeInv /\ FileInv /\ RunInv

LEMMA ResetTyped ==
  ASSUME TypeInv, NEW s \in Scan, ResetScan(s), UNCHANGED status
  PROVE  /\ AgendaInv'
         /\ found' \in [Scan -> Object \cup {None}] /\ term' \in [Scan -> Nat]
         /\ candidates' \in [Scan -> Seq(DOMAIN status)] /\ lost' \subseteq Scan
<1> USE DEF TypeInv, DiscoveryTypeOK, AgendaInv, ResetScan
<1>1. <<>> \in Seq(Seq(Object) \ {<<>>}) /\ <<>> \in Seq(DOMAIN status) BY EmptySeq
<1>2. AgendaInv'
  <2>1. /\ agenda' = [agenda EXCEPT ![s] = <<>>] /\ ScanAt(s, "idle")
        /\ part'[s] = 1 /\ (\A z \in Scan \ {s} : part'[z] = part[z])
        /\ part' \in [Scan -> Nat \ {0}] /\ withheld' \in [Scan -> BOOLEAN]
    OBVIOUS
  <2>2. AgendaInv OBVIOUS
  <2> QED BY <1>1, <2>1, <2>2, AgendaReplaced
<1>3. candidates' \in [Scan -> Seq(DOMAIN status)]
  <2>1. candidates \in [Scan -> Seq(DOMAIN status)] BY DEF RefsTyped
  <2> QED BY <1>1, <2>1
<1> QED BY <1>2, <1>3

LEMMA FindsFile ==
  ASSUME files \in Seq(Object), NEW o \in Object
  PROVE  /\ FindFileByContentHash(o) \in Object \cup {None}
         /\ FindFileByContentHash(o) # None =>
               /\ IsOriginal(FindFileByContentHash(o))
               /\ FindFileByContentHash(o).content = o.content
<1> DEFINE S == SameContent(o)
           f == FindFileByContentHash(o)
<1>1. CASE S = {} BY <1>1 DEF FindFileByContentHash
<1>2. CASE S # {}
  <2> DEFINE m == CHOOSE i \in S : \A j \in S : i <= j
  <2>1. S \in SUBSET Nat BY DEF SameContent
  <2>2. \E i \in S : \A j \in S : i <= j BY <1>2, <2>1, SmallestExists
  <2>3. m \in S /\ \A j \in S : m <= j
    <3> HIDE DEF S
    <3> QED BY <2>2
  <2>4. f = files[m] BY <1>2 DEF FindFileByContentHash
  <2>5. m \in 1..Len(files) /\ files[m].content = o.content BY <2>3 DEF SameContent
  <2>6. f \in Object BY <2>4, <2>5, ElementOfSeq
  <2>7. SameContent(f) = S BY <2>4, <2>5 DEF SameContent
  <2> HIDE DEF m, S, f
  <2>8. IsOriginal(f) BY <2>3, <2>4, <2>5, <2>7 DEF IsOriginal
  <2> QED BY <2>4, <2>5, <2>6, <2>8 DEF f
<1> QED BY <1>1, <1>2

\* What _resolve_schema leaves is a history again.
LEMMA ResolvedTyped ==
  ASSUME NEW h \in {o.shape : o \in Object}, NEW was,
         history \in Seq({o.shape : o \in Object} \cup {"contract"})
  PROVE  Resolved(h, was) \in Seq({o.shape : o \in Object} \cup {"contract"})
<1> DEFINE H == {o.shape : o \in Object} \cup {"contract"}
<1>1. h \in H /\ "contract" \in H OBVIOUS
<1> HIDE DEF H
<1>2. history \in Seq(H) BY DEF H
<1>3. \A x \in H : Synced(x) \in Seq(H) BY <1>2, AppendProperties DEF Synced
<1>4. Resolved(h, was) \in Seq(H) BY <1>1, <1>2, <1>3 DEF Resolved
<1> QED BY <1>4 DEF H

LEMMA DiscoveryTypeStep ==
  ASSUME DiscoveryInv, [DiscoveryNext]_discoveryVars
  PROVE  TypeInv'
<1> USE DiscoveryAssumption
<1>0. TypeInv /\ AgendaInv BY DEF DiscoveryInv, TypeInv, DiscoveryTypeOK, AgendaInv
<1> USE DEF TypeInv, DiscoveryTypeOK
<1>1. ASSUME NEW o \in Object, Land(o) PROVE TypeInv'
  <2>1. /\ UNCHANGED <<fileVars, runVars, history, offered, scanVars, stageVars, faults>>
        /\ bucket' = bucket \cup {o}
    BY <1>1 DEF Land
  <2>2. IsFiniteSet(bucket') BY <2>1, <1>0, FS_AddElement
  <2> QED BY <1>0, <2>1, <2>2 DEF fileVars, runVars, scanVars, stageVars, FilesTyped,
        RunsTyped, RefsTyped, UnitsSound, Unit
<1>2. ASSUME NEW s \in Scan, List(s) PROVE TypeInv'
  <2>1. UnitsOf(bucket) \in Seq(Seq(Object) \ {<<>>}) BY <1>0, UnitsOfListing
  <2>2. part[s] = 1 BY <1>0, <1>2 DEF List, UnitsSound
  <2>3. /\ agenda' = [agenda EXCEPT ![s] = UnitsOf(bucket)] /\ ScanAt(s, "term")
        /\ UNCHANGED <<bucket, fileVars, runVars, history, offered,
                       part, found, withheld, term, candidates, lost, stageVars, faults>>
    BY <1>2 DEF List
  <2>4. AgendaInv'
    <3>1. part'[s] = 1 /\ (\A z \in Scan \ {s} : part'[z] = part[z])
          /\ part' \in [Scan -> Nat \ {0}] /\ withheld' \in [Scan -> BOOLEAN]
      BY <1>0, <2>2, <2>3
    <3> QED BY <1>0, <2>1, <2>3, <3>1, AgendaReplaced
  <2> QED BY <1>0, <2>3, <2>4 DEF AgendaInv, fileVars, runVars, stageVars, FilesTyped,
        RunsTyped, RefsTyped
<1>3. ASSUME NEW s \in Scan, ReadSchemaTerm(s) PROVE TypeInv'
  <2>1. /\ term' = [term EXCEPT ![s] = Len(history)] /\ ScanAt(s, "find")
        /\ UNCHANGED <<bucket, fileVars, runVars, history, offered,
                       agenda, part, found, withheld, candidates, lost, stageVars, faults>>
    BY <1>3 DEF ReadSchemaTerm
  <2>2. AgendaInv' BY <1>0, <2>1, AgendaKept DEF Steps
  <2>3. term' \in [Scan -> Nat] BY <1>0, <2>1
  <2> QED BY <1>0, <2>1, <2>2, <2>3 DEF AgendaInv, fileVars, runVars, stageVars,
        FilesTyped, RunsTyped, RefsTyped
<1>4. ASSUME NEW s \in Scan, Find(s) PROVE TypeInv'
  <2>1. /\ found' = [found EXCEPT ![s] = FindFileByContentHash(Part(s))]
        /\ ScanAt(s, "register") /\ agenda[s] # <<>>
        /\ UNCHANGED <<bucket, fileVars, runVars, history, offered,
                       agenda, part, withheld, term, candidates, lost, stageVars, faults>>
    BY <1>4 DEF Find
  <2>2. AgendaInv' BY <1>0, <2>1, AgendaKept DEF Steps
  <2>3. Part(s) \in Object BY <1>0, <2>1, CurrentPart
  <2>4. FindFileByContentHash(Part(s)) \in Object \cup {None}
    BY <1>0, <2>3, FindsFile DEF FilesTyped
  <2>5. found' \in [Scan -> Object \cup {None}] BY <1>0, <2>1, <2>4
  <2> QED BY <1>0, <2>1, <2>2, <2>5 DEF AgendaInv, fileVars, runVars, stageVars,
        FilesTyped, RunsTyped, RefsTyped
<1>5. ASSUME NEW s \in Scan, Register(s) PROVE TypeInv'
  <2>1. /\ CreateFile(Part(s), found[s]) /\ at[s] = "register"
        /\ UNCHANGED <<bucket, runVars, history, offered,
                       found, term, candidates, lost, stageVars, faults>>
    BY <1>5 DEF Register
  <2>2. agenda[s] # <<>> BY <1>0, <2>1 DEF UnitsSound
  <2>3. FilesTyped'
    <3>1. Part(s) \in Object BY <1>0, <2>2, CurrentPart
    <3>2. found[s] \in Object \cup {None} BY <1>0
    <3> QED BY <1>0, <2>1, <3>1, <3>2, CreateFileTyped
  <2>4. AgendaInv'
    <3>1. CASE ScanAt(s, "correct") /\ UNCHANGED <<agenda, part, withheld>>
      BY <1>0, <3>1, <2>2, AgendaKept DEF Steps
    <3>2. CASE PartDone(s, found[s] # None)
      <4>1. (found[s] # None) \in BOOLEAN OBVIOUS
      <4> QED BY <1>0, <3>2, <4>1, <2>2, PartDoneKeeps
    <3> QED BY <1>5, <3>1, <3>2 DEF Register
  <2> QED BY <1>0, <2>1, <2>3, <2>4 DEF AgendaInv, runVars, stageVars, RunsTyped, RefsTyped
<1>6. ASSUME NEW s \in Scan, Correct(s) PROVE TypeInv'
  <2>1. /\ CreateFile(Part(s), None) /\ at[s] = "correct" /\ PartDone(s, FALSE)
        /\ UNCHANGED <<bucket, runVars, history, offered,
                       found, term, candidates, lost, stageVars, faults>>
    BY <1>6 DEF Correct
  <2>2. agenda[s] # <<>> BY <1>0, <2>1 DEF UnitsSound
  <2>3. FilesTyped' BY <1>0, <2>1, <2>2, CurrentPart, CreateFileTyped
  <2>4. AgendaInv' BY <1>0, <2>1, <2>2, PartDoneKeeps
  <2> QED BY <1>0, <2>1, <2>3, <2>4 DEF AgendaInv, runVars, stageVars, RunsTyped, RefsTyped
<1>7. ASSUME NEW s \in Scan, AllocateRun(s) PROVE TypeInv'
  <2>1. /\ at[s] = "allocate"
        /\ UNCHANGED <<bucket, fileVars, history, offered, found, term, candidates, lost,
                       stageVars, faults>>
    BY <1>7 DEF AllocateRun
  <2>2. agenda[s] # <<>> BY <1>0, <2>1 DEF UnitsSound
  <2>3. RunsTyped' /\ RefsTyped'
    <3>1. Key(s).contents \in Seq({o.content : o \in Object}) /\ Key(s).term \in Nat
      BY <1>0, <2>2, KeyTyped
    <3> QED BY <1>0, <1>7, <3>1, AllocateTyped
  <2>4. AgendaInv'
    <3>1. NextUnit(s) \/ (ScanAt(s, "assign") /\ UNCHANGED <<agenda, part, withheld>>)
      BY <1>7 DEF AllocateRun
    <3>2. CASE NextUnit(s) BY <1>0, <3>2, <2>2, NextUnitKeeps
    <3>3. CASE ScanAt(s, "assign") /\ UNCHANGED <<agenda, part, withheld>>
      BY <1>0, <3>3, <2>2, AgendaKept DEF Steps
    <3> QED BY <3>1, <3>2, <3>3
  <2> QED BY <1>0, <2>1, <2>3, <2>4 DEF AgendaInv, fileVars, stageVars, FilesTyped
<1>8. ASSUME NEW s \in Scan, PutAssignment(s) PROVE TypeInv'
  <2>1. /\ at[s] = "assign" /\ document' = [document EXCEPT ![Key(s)] = Unit(s)]
        /\ candidates' = [candidates EXCEPT ![s] = Append(candidates[s], Key(s))]
        /\ NextUnit(s)
        /\ UNCHANGED <<bucket, fileVars, status, history, offered, found, term, lost,
                       stageVars, faults>>
    BY <1>0, <1>8 DEF PutAssignment, RefsTyped
  <2>2. agenda[s] # <<>> BY <1>0, <2>1 DEF UnitsSound
  <2>3. AgendaInv' BY <1>0, <2>1, <2>2, NextUnitKeeps
  <2>4. Key(s) \in DOMAIN status BY <2>1 DEF DiscoveryInv, RunInv, KeyAllocated
  <2>5. RunsTyped'
    <3>1. Unit(s) \in Seq(Object) BY <1>0, <2>2, CurrentPart
    <3> QED BY <1>0, <2>1, <3>1 DEF RunsTyped
  <2>6. RefsTyped'
    <3> DEFINE D == DOMAIN status
    <3> HIDE DEF D
    <3>1. candidates \in [Scan -> Seq(D)] BY <1>0 DEF RefsTyped, D
    <3>2. Append(candidates[s], Key(s)) \in Seq(D)
      <4>1. candidates[s] \in Seq(D) /\ Key(s) \in D BY <3>1, <2>4 DEF D
      <4> HIDE DEF Key
      <4> QED BY <4>1, AppendProperties
    <3>3. candidates' \in [Scan -> Seq(D)] BY <3>1, <3>2, <2>1
    <3> QED BY <1>0, <2>1, <3>3 DEF RefsTyped, D, stageVars
  <2> QED BY <1>0, <2>1, <2>3, <2>5, <2>6 DEF AgendaInv, fileVars, stageVars, FilesTyped
<1>9. ASSUME NEW s \in Scan, Finish(s) PROVE TypeInv'
  <2>1. /\ ResetScan(s)
        /\ UNCHANGED <<bucket, fileVars, runVars, history, stageVars, faults>>
    BY <1>9 DEF Finish
  <2>2. /\ AgendaInv' /\ found' \in [Scan -> Object \cup {None}] /\ term' \in [Scan -> Nat]
        /\ candidates' \in [Scan -> Seq(DOMAIN status)] /\ lost' \subseteq Scan
    BY <1>0, <2>1, ResetTyped DEF runVars
  <2>3. offered' \subseteq DOMAIN status
    <3>1. candidates[s] \in Seq(DOMAIN status) BY <1>0 DEF RefsTyped
    <3>2. \A i \in 1..Len(candidates[s]) : candidates[s][i] \in DOMAIN status
      BY <3>1, ElementOfSeq
    <3>3. \/ offered' = offered
          \/ offered' = {candidates[s][i] : i \in {j \in 1..Len(candidates[s]) : j <= MaxUnits}}
      BY <1>9 DEF Finish
    <3>4. offered \subseteq DOMAIN status BY <1>0 DEF RefsTyped
    <3>5. {candidates[s][i] : i \in {j \in 1..Len(candidates[s]) : j <= MaxUnits}}
             \subseteq DOMAIN status
      BY ONLY <3>2
    <3> QED BY ONLY <3>3, <3>4, <3>5
  <2> QED BY <1>0, <2>1, <2>2, <2>3 DEF AgendaInv, fileVars, runVars, stageVars,
        FilesTyped, RunsTyped, RefsTyped
<1>10. ASSUME NEW s \in Scan, DiscoverLost(s) PROVE TypeInv'
  <2>1. /\ lost' = lost \cup {s} /\ faults < MaxFaults /\ faults' = faults + 1
        /\ UNCHANGED <<bucket, fileVars, runVars, history, offered,
                       at, agenda, part, found, withheld, term, candidates, stageVars>>
    BY <1>10 DEF DiscoverLost, Fault
  <2>2. faults' \in 0..MaxFaults BY <1>0, <2>1
  <2> QED BY <1>0, <2>1, <2>2 DEF fileVars, runVars, stageVars, FilesTyped, RunsTyped,
        RefsTyped, UnitsSound, Unit
<1>11. ASSUME NEW s \in Scan, DiscoverDies(s) PROVE TypeInv'
  <2>1. /\ ResetScan(s) /\ faults < MaxFaults /\ faults' = faults + 1
        /\ UNCHANGED <<bucket, fileVars, runVars, history, offered, stageVars>>
    BY <1>11 DEF DiscoverDies, Fault
  <2>2. /\ AgendaInv' /\ found' \in [Scan -> Object \cup {None}] /\ term' \in [Scan -> Nat]
        /\ candidates' \in [Scan -> Seq(DOMAIN status)] /\ lost' \subseteq Scan
    BY <1>0, <2>1, ResetTyped DEF runVars
  <2>3. faults' \in 0..MaxFaults BY <1>0, <2>1
  <2> QED BY <1>0, <2>1, <2>2, <2>3 DEF AgendaInv, fileVars, runVars, stageVars,
        FilesTyped, RunsTyped, RefsTyped
<1>12. ASSUME NEW w \in Worker, StageReads(w) \/ StageSkips(w) \/ StageLost(w) PROVE TypeInv'
  <2>1. UNCHANGED <<bucket, fileVars, runVars, history, scanVars>>
    BY <1>12 DEF StageReads, StageSkips, StageLost
  <2>2. offered' \subseteq offered /\ faults' \in 0..MaxFaults
    BY <1>0, <1>12 DEF StageReads, StageSkips, StageLost, Fault
  <2>3. task' \in [Worker -> DOMAIN status \cup {None}]
    <3>1. offered \subseteq DOMAIN status BY <1>0 DEF RefsTyped
    <3>2. task' = task \/ \E k \in offered : task' = [task EXCEPT ![w] = k]
      BY <1>12 DEF StageReads, StageSkips, StageLost, stageVars
    <3> QED BY <1>0, <3>1, <3>2 DEF RefsTyped
  <2>4. seen' \in [Worker -> {o.shape : o \in Object} \cup {"contract", None}]
    <3> DEFINE H == {o.shape : o \in Object} \cup {"contract"}
    <3>1. Current \in H \cup {None}
      <4> HIDE DEF H
      <4>1. history \in Seq(H) BY <1>0 DEF H
      <4>2. CASE history # <<>>
        <5>1. Len(history) \in 1..Len(history) BY <4>1, <4>2, EmptySeq
        <5>2. history[Len(history)] \in H BY <4>1, <5>1, ElementOfSeq
        <5> QED BY <4>2, <5>2 DEF Current, Last
      <4> QED BY <4>2 DEF Current
    <3>2. seen' = seen \/ seen' = [seen EXCEPT ![w] = Current]
      BY <1>12 DEF StageReads, StageSkips, StageLost, stageVars
    <3> QED BY <1>0, <3>1, <3>2
  <2> QED BY <1>0, <2>1, <2>2, <2>3, <2>4 DEF fileVars, runVars, scanVars, FilesTyped,
        RunsTyped, RefsTyped, UnitsSound, Unit
<1>13. ASSUME NEW w \in Worker, StageResolves(w) \/ StageRejects(w) PROVE TypeInv'
  <2>1. /\ task[w] # None /\ StageDone(w)
        /\ UNCHANGED <<bucket, fileVars, document, scanVars, faults>>
        /\ \E v \in {"SUCCEEDED", "FAILED"} : status' = [status EXCEPT ![task[w]] = v]
    BY <1>13 DEF StageResolves, StageRejects
  <2>2. offered' \subseteq offered /\ task' = [task EXCEPT ![w] = None]
        /\ seen' = [seen EXCEPT ![w] = None]
    BY <2>1 DEF StageDone
  <2>3. DOMAIN status' = DOMAIN status BY <2>1
  <2>4. RunsTyped'
    <3>1. \A k \in DOMAIN status : status'[k] \in {"PENDING", "FAILED"} \cup Terminal
      BY <1>0, <2>1 DEF RunsTyped, Terminal
    <3> QED BY <1>0, <2>1, <2>3, <3>1 DEF RunsTyped
  <2>5. RefsTyped' BY <1>0, <2>1, <2>2, <2>3 DEF RefsTyped, scanVars
  <2>6. history' \in Seq({o.shape : o \in Object} \cup {"contract"})
    <3> DEFINE unit == document[task[w]]
    <3>1. task[w] \in DOMAIN document BY <1>0, <2>1 DEF RefsTyped, RunsTyped
    <3>2. unit \in Seq(Object) /\ unit # <<>>
      BY <1>0, <2>1, <3>1 DEF RunsTyped, DiscoveryInv, RunInv, DocumentsWritten
    <3>3. unit[1] \in Object
      <4> HIDE DEF unit
      <4>1. 1 \in 1..Len(unit) BY <3>2, EmptySeq
      <4> QED BY <3>2, <4>1, ElementOfSeq
    <3>4. ShapeOf(unit) \in {o.shape : o \in Object} BY <3>3 DEF ShapeOf
    <3>5. history' = history \/ history' = Resolved(ShapeOf(unit), seen[w])
      BY <1>13 DEF StageResolves, StageRejects
    <3>6. CASE history' = history BY <1>0, <3>6
    <3>7. CASE history' = Resolved(ShapeOf(unit), seen[w])
      <4> DEFINE shape == ShapeOf(unit)
      <4>1. shape \in {o.shape : o \in Object} BY <3>4
      <4>2. history' = Resolved(shape, seen[w]) BY <3>7
      <4> HIDE DEF shape, unit
      <4> QED BY <1>0, <4>1, <4>2, ResolvedTyped
    <3> QED BY <3>5, <3>6, <3>7
  <2>7. seen' \in [Worker -> {o.shape : o \in Object} \cup {"contract", None}]
    BY <1>0, <2>2
  <2> QED BY <1>0, <2>1, <2>4, <2>5, <2>6, <2>7 DEF fileVars, scanVars, FilesTyped, UnitsSound, Unit
<1>14. CASE UNCHANGED discoveryVars
  BY <1>0, <1>14 DEF discoveryVars, fileVars, runVars, scanVars, stageVars, FilesTyped,
     RunsTyped, RefsTyped, UnitsSound, Unit
<1> QED
  BY <1>1, <1>2, <1>3, <1>4, <1>5, <1>6, <1>7, <1>8, <1>9, <1>10, <1>11, <1>12, <1>13, <1>14
     DEF DiscoveryNext, ScanStep, StageStep

-----------------------------------------------------------------------------
(* Files.                                                                    *)

\* An original stays one: rows are only appended, behind all others.
LEMMA OriginalStays ==
  ASSUME FilesTyped, NEW o \in Object, NEW original, CreateFile(o, original),
         NEW x, IsOriginal(x)
  PROVE  IsOriginal(x)'
<1>1. PICK i \in 1..Len(files) : files[i] = x /\ \A j \in SameContent(x) : i <= j
  BY DEF IsOriginal
<1>2. Len(files) \in Nat BY DEF FilesTyped
<1>3. /\ i \in 1..Len(files') /\ files'[i] = x
      /\ \A j \in 1..Len(files') :
            \/ j \in 1..Len(files) /\ files'[j] = files[j]
            \/ j > Len(files)
  <2>1. CASE files' = files BY <2>1, <1>1
  <2>2. CASE files' = Append(files, o)
    <3>1. Len(files') = Len(files) + 1 /\ \A j \in 1..Len(files) : files'[j] = files[j]
      BY <2>2, AppendProperties DEF FilesTyped
    <3> QED BY <3>1, <1>1, <1>2
  <2> QED BY <2>1, <2>2 DEF CreateFile
<1>4. \A j \in 1..Len(files') : files'[j].content = x.content => i <= j
  BY <1>1, <1>2, <1>3 DEF SameContent
<1> QED BY <1>3, <1>4 DEF IsOriginal, SameContent

\* While files are not touched, only a pass that has just asked may be about to
\* register.
LEMMA FileFrame ==
  ASSUME FileInv, UNCHANGED <<files, duplicate>>,
         \A s \in Scan : at'[s] = "register" =>
            \/ at[s] = "register" /\ agenda'[s] = agenda[s] /\ part'[s] = part[s]
                                  /\ found'[s] = found[s]
            \/ found'[s] # None => /\ IsOriginal(found'[s])
                                   /\ found'[s].content = Head(agenda'[s])[part'[s]].content
  PROVE  FileInv'
<1>1. \A x : IsOriginal(x)' <=> IsOriginal(x) BY DEF IsOriginal, SameContent
<1> QED BY <1>1 DEF FileInv, FoundIsOriginal, MarkedIsOriginal, Part, Unit

\* One registration: the other passes' answers stay right, and the mark is one.
LEMMA CreateFileKeeps ==
  ASSUME FileInv, FilesTyped, NEW s \in Scan, NEW o \in Object, NEW original \in Object \cup {None},
         CreateFile(o, original),
         original # None => IsOriginal(original) /\ original.content = o.content,
         at'[s] # "register",
         \A z \in Scan \ {s} : /\ at'[z] = at[z] /\ agenda'[z] = agenda[z]
                               /\ part'[z] = part[z] /\ found'[z] = found[z]
  PROVE  FileInv'
<1>1. \A x : IsOriginal(x) => IsOriginal(x)' BY OriginalStays
<1>2. FoundIsOriginal' BY <1>1 DEF FileInv, FoundIsOriginal, Part, Unit
<1>3. duplicate' = [duplicate EXCEPT ![o] = original] BY DEF CreateFile
<1>4. MarkedIsOriginal'
  <2>1. ASSUME NEW p \in Object, NEW x, x = duplicate'[p], x # None
        PROVE  IsOriginal(x)' /\ x.content = p.content
    <3>1. CASE p = o
      <4>1. x = original BY <1>3, <2>1, <3>1 DEF FilesTyped
      <4> QED BY <1>1, <2>1, <3>1, <4>1
    <3>2. CASE p # o
      <4>1. x = duplicate[p] BY <1>3, <2>1, <3>2 DEF FilesTyped
      <4>2. IsOriginal(x) /\ x.content = p.content BY <2>1, <4>1 DEF FileInv, MarkedIsOriginal
      <4> QED BY <1>1, <4>2
    <3> QED BY <3>1, <3>2
  <2> QED BY <2>1 DEF MarkedIsOriginal, IsOriginal, SameContent
<1> QED BY <1>2, <1>4 DEF FileInv

\* A step within a unit or to the next one never leads to an insert.
LEMMA PartDoneLeaves ==
  ASSUME AgendaInv, NEW s \in Scan, NEW b,
         NextUnit(s) \/ PartDone(s, b)
            \/ \E l \in {"correct", "assign"} : ScanAt(s, l) /\ UNCHANGED <<agenda, part, withheld>>
  PROVE  /\ at'[s] # "register"
         /\ \A z \in Scan \ {s} : /\ at'[z] = at[z] /\ agenda'[z] = agenda[z]
                                  /\ part'[z] = part[z]
BY DEF AgendaInv, PartDone, NextUnit, ScanAt

LEMMA DiscoveryFileStep ==
  ASSUME DiscoveryInv, [DiscoveryNext]_discoveryVars
  PROVE  FileInv'
<1>0. TypeInv /\ FileInv /\ AgendaInv /\ FilesTyped
  BY DEF DiscoveryInv, TypeInv, DiscoveryTypeOK, AgendaInv
<1> USE DEF TypeInv, DiscoveryTypeOK
<1>1. ASSUME NEW s \in Scan, Find(s) PROVE FileInv'
  <2>1. /\ found' = [found EXCEPT ![s] = FindFileByContentHash(Part(s))]
        /\ ScanAt(s, "register") /\ agenda[s] # <<>>
        /\ UNCHANGED <<files, duplicate, agenda, part>>
    BY <1>1 DEF Find, fileVars
  <2>2. Part(s) \in Object BY <1>0, <2>1, CurrentPart
  <2>3. found'[s] = FindFileByContentHash(Part(s)) /\ \A z \in Scan \ {s} : found'[z] = found[z]
    BY <1>0, <2>1
  <2>4. found'[s] # None => IsOriginal(found'[s]) /\ found'[s].content = Part(s).content
    BY <1>0, <2>2, <2>3, FindsFile DEF FilesTyped
  <2>5. \A z \in Scan \ {s} : at'[z] = at[z] BY <2>1 DEF ScanAt
  <2> QED BY <1>0, <2>1, <2>3, <2>4, <2>5, FileFrame DEF Part, Unit
<1>2. ASSUME NEW s \in Scan, Register(s) PROVE FileInv'
  <2>1. CreateFile(Part(s), found[s]) /\ at[s] = "register" /\ found' = found
    BY <1>2 DEF Register
  <2>2. agenda[s] # <<>> BY <1>0, <2>1 DEF UnitsSound
  <2>3. Part(s) \in Object BY <1>0, <2>2, CurrentPart
  <2>4. found[s] \in Object \cup {None} BY <1>0
  <2>5. found[s] # None => IsOriginal(found[s]) /\ found[s].content = Part(s).content
    BY <1>0, <2>1 DEF FileInv, FoundIsOriginal
  <2>6. /\ at'[s] # "register"
        /\ \A z \in Scan \ {s} : at'[z] = at[z] /\ agenda'[z] = agenda[z] /\ part'[z] = part[z]
    BY <1>0, <1>2, PartDoneLeaves DEF Register
  <2> QED BY <1>0, <2>1, <2>3, <2>4, <2>5, <2>6, CreateFileKeeps
<1>3. ASSUME NEW s \in Scan, Correct(s) PROVE FileInv'
  <2>1. CreateFile(Part(s), None) /\ at[s] = "correct" /\ PartDone(s, FALSE) /\ found' = found
    BY <1>3 DEF Correct
  <2>2. agenda[s] # <<>> BY <1>0, <2>1 DEF UnitsSound
  <2>3. Part(s) \in Object BY <1>0, <2>2, CurrentPart
  <2>4. /\ at'[s] # "register"
        /\ \A z \in Scan \ {s} : at'[z] = at[z] /\ agenda'[z] = agenda[z] /\ part'[z] = part[z]
    BY <1>0, <2>1, PartDoneLeaves
  <2> QED BY <1>0, <2>1, <2>3, <2>4, CreateFileKeeps
<1>4. ASSUME NEW s \in Scan, AllocateRun(s) \/ PutAssignment(s) PROVE FileInv'
  <2>1. UNCHANGED <<files, duplicate, found>>
    BY <1>4 DEF AllocateRun, PutAssignment, fileVars
  <2>2. /\ at'[s] # "register"
        /\ \A z \in Scan \ {s} : at'[z] = at[z] /\ agenda'[z] = agenda[z] /\ part'[z] = part[z]
    BY <1>0, <1>4, PartDoneLeaves DEF AllocateRun, PutAssignment
  <2> QED BY <1>0, <2>1, <2>2, FileFrame
<1>5. ASSUME NEW s \in Scan,
             List(s) \/ ReadSchemaTerm(s) \/ Finish(s) \/ DiscoverLost(s) \/ DiscoverDies(s)
      PROVE  FileInv'
  <2>1. UNCHANGED <<files, duplicate>>
    BY <1>5 DEF List, ReadSchemaTerm, Finish, DiscoverLost, DiscoverDies, fileVars
  <2>2. /\ at'[s] # "register" \/ UNCHANGED <<at, agenda, part, found>>
        /\ \A z \in Scan \ {s} : /\ at'[z] = at[z] /\ agenda'[z] = agenda[z]
                                 /\ part'[z] = part[z] /\ found'[z] = found[z]
    BY <1>0, <1>5 DEF List, ReadSchemaTerm, Finish, DiscoverLost, DiscoverDies, ResetScan, ScanAt
  <2> QED BY <1>0, <2>1, <2>2, FileFrame
<1>6. ASSUME UNCHANGED <<files, duplicate, at, agenda, part, found>> PROVE FileInv'
  BY <1>0, <1>6, FileFrame
<1>7. ASSUME NEW o \in Object, Land(o) PROVE FileInv'
  BY <1>6, <1>7 DEF Land, fileVars, scanVars
<1>8. ASSUME NEW w \in Worker, StageStep(w) \/ StageLost(w) PROVE FileInv'
  BY <1>6, <1>8 DEF StageStep, StageReads, StageSkips, StageResolves, StageRejects, StageLost,
     fileVars, scanVars
<1>9. CASE UNCHANGED discoveryVars
  BY <1>6, <1>9 DEF discoveryVars, fileVars, scanVars
<1> QED BY <1>1, <1>2, <1>3, <1>4, <1>5, <1>7, <1>8, <1>9 DEF DiscoveryNext, ScanStep

-----------------------------------------------------------------------------
(* Runs and their documents.                                                 *)

\* While no document is written, references to runs are only taken from those
\* that have one.
LEMMA RunFrame ==
  ASSUME TypeInv, RunInv, UNCHANGED document, DOMAIN status' = DOMAIN status,
         \A k \in offered' : document[k] # <<>>,
         \A s \in Scan : candidates'[s] = candidates[s] \/ candidates'[s] = <<>>,
         \A w \in Worker : task'[w] = task[w] \/ task'[w] = None \/ task'[w] \in offered,
         \A s \in Scan : at'[s] = "assign" =>
            at[s] = "assign" /\ agenda'[s] = agenda[s] /\ term'[s] = term[s]
  PROVE  RunInv'
<1>1. KeyAllocated' BY DEF RunInv, KeyAllocated, Key, IdempotencyKey, Unit
<1>2. DocumentsWritten'
  <2>1. \A s \in Scan : \A i \in 1..Len(candidates'[s]) : document[candidates'[s][i]] # <<>>
    BY DEF RunInv, DocumentsWritten
  <2>2. \A w \in Worker : task'[w] # None => document[task'[w]] # <<>>
    BY DEF RunInv, DocumentsWritten
  <2> QED BY <2>1, <2>2 DEF DocumentsWritten
<1>3. DocumentsMatch' BY DEF RunInv, DocumentsMatch, Contents
<1> QED BY <1>1, <1>2, <1>3 DEF RunInv

LEMMA AllocateKeeps ==
  ASSUME TypeInv, RunInv, NEW s \in Scan, AllocateRun(s)
  PROVE  RunInv'
<1> DEFINE k == Key(s)
<1>0. AgendaInv BY DEF TypeInv, DiscoveryTypeOK, AgendaInv
<1>1. /\ \/ UNCHANGED <<status, document>> /\ k \in DOMAIN status
         \/ /\ k \notin DOMAIN status
            /\ status' = [j \in DOMAIN status \cup {k} |-> IF j = k THEN "PENDING" ELSE status[j]]
            /\ document' = [j \in DOMAIN status \cup {k} |-> IF j = k THEN <<>> ELSE document[j]]
      /\ UNCHANGED <<offered, candidates, task, term>>
  BY DEF AllocateRun, stageVars
<1>2. NextUnit(s) \/ (ScanAt(s, "assign") /\ UNCHANGED <<agenda, part, withheld>>)
  BY DEF AllocateRun
<1>3. DOMAIN document = DOMAIN status BY DEF TypeInv, DiscoveryTypeOK, RunsTyped
<1>4. KeyAllocated'
  <2>1. ASSUME NEW z \in Scan, at'[z] = "assign"
        PROVE  /\ z # s => at[z] = "assign"
               /\ agenda'[z] = agenda[z] /\ term'[z] = term[z]
    <3>1. CASE NextUnit(s) BY <1>0, <1>1, <2>1, <3>1 DEF NextUnit, ScanAt, AgendaInv
    <3>2. CASE ScanAt(s, "assign") /\ UNCHANGED <<agenda, part, withheld>>
      BY <1>0, <1>1, <2>1, <3>2 DEF ScanAt, AgendaInv
    <3> QED BY <1>2, <3>1, <3>2
  <2>2. DOMAIN status \cup {k} = DOMAIN status' BY <1>1
  <2>3. ASSUME NEW z \in Scan, at'[z] = "assign" PROVE Key(z) \in DOMAIN status'
    <3>1. CASE z = s BY <2>2, <3>1
    <3>2. CASE z # s
      <4>1. Key(z) \in DOMAIN status BY <2>1, <2>3, <3>2 DEF RunInv, KeyAllocated
      <4> HIDE DEF k
      <4> QED BY <2>2, <4>1
    <3> QED BY <3>1, <3>2
  <2>4. ASSUME NEW z \in Scan, at'[z] = "assign" PROVE Key(z)' = Key(z)
    BY <2>1, <2>4 DEF Key, IdempotencyKey, Unit
  <2> QED BY <2>3, <2>4 DEF KeyAllocated
<1>5. ASSUME NEW j \in DOMAIN status PROVE j \in DOMAIN status' /\ document'[j] = document[j]
  BY <1>1, <1>5
<1>6. DocumentsWritten'
  <2>1. ASSUME NEW z \in Scan, NEW i \in 1..Len(candidates[z])
        PROVE  candidates[z][i] \in DOMAIN status
    <3>1. candidates[z] \in Seq(DOMAIN status) BY DEF TypeInv, DiscoveryTypeOK, RefsTyped
    <3> QED BY <3>1, ElementOfSeq
  <2>2. offered \subseteq DOMAIN status /\ \A w \in Worker : task[w] # None => task[w] \in DOMAIN status
    BY DEF TypeInv, DiscoveryTypeOK, RefsTyped
  <2> QED BY <1>1, <1>5, <2>1, <2>2 DEF RunInv, DocumentsWritten
<1>7. DocumentsMatch'
  <2>1. ASSUME NEW j \in DOMAIN document', document'[j] # <<>>
        PROVE  j \in DOMAIN document /\ document'[j] = document[j]
    <3>1. CASE document' = document BY <2>1, <3>1
    <3>2. CASE k \notin DOMAIN status
      <4>1. document' = [i \in DOMAIN status \cup {k} |-> IF i = k THEN <<>> ELSE document[i]]
        BY <1>1, <3>2
      <4> HIDE DEF k
      <4>2. j # k /\ j \in DOMAIN status BY <4>1, <2>1
      <4> QED BY <4>1, <4>2, <1>3
    <3> QED BY <1>1, <3>1, <3>2
  <2> QED BY <2>1 DEF RunInv, DocumentsMatch, Contents
<1> QED BY <1>4, <1>6, <1>7 DEF RunInv

LEMMA PutKeeps ==
  ASSUME TypeInv, RunInv, NEW s \in Scan, PutAssignment(s)
  PROVE  RunInv'
<1> DEFINE k == Key(s)
           u == Unit(s)
<1>0. AgendaInv BY DEF TypeInv, DiscoveryTypeOK, AgendaInv
<1>1. /\ at[s] = "assign" /\ document' = [document EXCEPT ![k] = u]
      /\ candidates' = [candidates EXCEPT ![s] = Append(candidates[s], k)]
      /\ NextUnit(s)
      /\ UNCHANGED <<status, offered, task, term>>
  BY DEF PutAssignment, TypeInv, DiscoveryTypeOK, RefsTyped, stageVars
<1>2. agenda[s] # <<>> BY <1>0, <1>1 DEF AgendaInv, UnitsSound
<1>3. u # <<>> /\ k.contents = Contents(u)
  <2>1. u # <<>> BY <1>0, <1>2, CurrentPart
  <2>2. k.contents = Contents(u) BY DEF Key, IdempotencyKey
  <2> QED BY <2>1, <2>2
<1>4. k \in DOMAIN document
  BY <1>1 DEF RunInv, KeyAllocated, TypeInv, DiscoveryTypeOK, RunsTyped
<1>5. ASSUME NEW z \in Scan, at'[z] = "assign"
      PROVE  at[z] = "assign" /\ agenda'[z] = agenda[z]
  BY <1>0, <1>1, <1>5 DEF NextUnit, ScanAt, AgendaInv
<1>6. KeyAllocated'
  <2>1. ASSUME NEW z \in Scan, at'[z] = "assign" PROVE Key(z)' = Key(z)
    BY <1>1, <1>5, <2>1 DEF Key, IdempotencyKey, Unit
  <2>2. ASSUME NEW z \in Scan, at'[z] = "assign" PROVE Key(z) \in DOMAIN status
    BY <1>5, <2>2 DEF RunInv, KeyAllocated
  <2> QED BY <1>1, <2>1, <2>2 DEF KeyAllocated
<1> HIDE DEF k, u
<1>8. ASSUME NEW j \in DOMAIN document, document[j] # <<>> PROVE document'[j] # <<>>
  BY <1>1, <1>3, <1>4, <1>8
<1>9. DocumentsWritten'
  <2> DEFINE D == DOMAIN status
  <2> HIDE DEF D
  <2>0. D = DOMAIN document BY DEF TypeInv, DiscoveryTypeOK, RunsTyped, D
  <2>1. candidates \in [Scan -> Seq(D)] BY DEF TypeInv, DiscoveryTypeOK, RefsTyped, D
  <2>2. ASSUME NEW z \in Scan, NEW i \in 1..Len(candidates'[z])
        PROVE  document'[candidates'[z][i]] # <<>>
    <3>1. candidates[z] \in Seq(D) BY <2>1
    <3>2. \A n \in 1..Len(candidates[z]) : document'[candidates[z][n]] # <<>>
      <4>1. \A n \in 1..Len(candidates[z]) : candidates[z][n] \in D BY <3>1, ElementOfSeq
      <4> QED BY <4>1, <2>0, <1>8 DEF RunInv, DocumentsWritten
    <3>3. CASE z # s
      <4>1. candidates'[z] = candidates[z] BY <1>1, <2>1, <3>3
      <4> QED BY <3>2, <4>1, <2>2
    <3>4. CASE z = s
      <4>1. candidates'[z] = Append(candidates[z], k) BY <1>1, <2>1, <3>4
      <4>2. k \in D BY <1>4, <2>0
      <4>3. /\ Len(candidates'[z]) = Len(candidates[z]) + 1
            /\ \A n \in 1..Len(candidates[z]) : candidates'[z][n] = candidates[z][n]
            /\ candidates'[z][Len(candidates[z]) + 1] = k
        BY <3>1, <4>1, <4>2, AppendProperties
      <4>4. Len(candidates[z]) \in Nat BY <3>1
      <4>5. i \in 1..Len(candidates[z]) \/ i = Len(candidates[z]) + 1 BY <2>2, <4>3, <4>4
      <4>6. document'[k] # <<>> BY <1>1, <1>3, <1>4
      <4> QED BY <3>2, <4>3, <4>5, <4>6
    <3> QED BY <3>3, <3>4
  <2>3. \A j \in offered : document'[j] # <<>>
    BY <1>8, <2>0 DEF RunInv, DocumentsWritten, TypeInv, DiscoveryTypeOK, RefsTyped, D
  <2>4. \A w \in Worker : task[w] # None => document'[task[w]] # <<>>
    BY <1>8, <2>0 DEF RunInv, DocumentsWritten, TypeInv, DiscoveryTypeOK, RefsTyped, D
  <2> QED BY <1>1, <2>2, <2>3, <2>4 DEF DocumentsWritten
<1>10. DocumentsMatch'
  <2>1. ASSUME NEW j \in DOMAIN document', document'[j] # <<>>
        PROVE  Contents(document'[j]) = j.contents
    <3>1. CASE j = k
      <4>1. document'[j] = u BY <1>1, <1>4, <3>1
      <4> QED BY <3>1, <4>1, <1>3
    <3>2. CASE j # k
      <4>1. j \in DOMAIN document /\ document'[j] = document[j] BY <1>1, <2>1, <3>2
      <4> QED BY <4>1, <2>1 DEF RunInv, DocumentsMatch
    <3> QED BY <3>1, <3>2
  <2> QED BY <2>1 DEF DocumentsMatch, Contents
<1> QED BY <1>6, <1>9, <1>10 DEF RunInv

LEMMA DiscoveryRunStep ==
  ASSUME DiscoveryInv, [DiscoveryNext]_discoveryVars
  PROVE  RunInv'
<1>0. TypeInv /\ RunInv /\ AgendaInv BY DEF DiscoveryInv, TypeInv, DiscoveryTypeOK, AgendaInv
<1>1. ASSUME NEW s \in Scan,
             List(s) \/ ReadSchemaTerm(s) \/ Find(s) \/ Register(s) \/ Correct(s)
                \/ Finish(s) \/ DiscoverLost(s) \/ DiscoverDies(s)
      PROVE  RunInv'
  <2>1. UNCHANGED <<status, document, task>>
    BY <1>1 DEF List, ReadSchemaTerm, Find, Register, Correct, Finish, DiscoverLost, DiscoverDies,
       runVars, stageVars
  <2>2. \A z \in Scan : candidates'[z] = candidates[z] \/ candidates'[z] = <<>>
    <3>1. candidates' = candidates \/ candidates' = [candidates EXCEPT ![s] = <<>>]
      BY <1>1 DEF List, ReadSchemaTerm, Find, Register, Correct, Finish, DiscoverLost,
         DiscoverDies, ResetScan
    <3> QED BY <1>0, <3>1 DEF TypeInv, DiscoveryTypeOK, RefsTyped
  <2>3. \A k \in offered' : document[k] # <<>>
    <3>1. offered' = offered \/ offered' \subseteq {candidates[s][i] : i \in 1..Len(candidates[s])}
      BY <1>1 DEF List, ReadSchemaTerm, Find, Register, Correct, Finish, DiscoverLost, DiscoverDies
    <3> QED BY <1>0, <3>1 DEF RunInv, DocumentsWritten
  <2>4. \A z \in Scan : at'[z] = "assign" =>
           at[z] = "assign" /\ agenda'[z] = agenda[z] /\ term'[z] = term[z]
    <3> USE DEF AgendaInv
    <3>1. CASE List(s) BY <1>0, <3>1 DEF List, ScanAt
    <3>2. CASE ReadSchemaTerm(s) BY <1>0, <3>2 DEF ReadSchemaTerm, ScanAt, TypeInv, DiscoveryTypeOK
    <3>3. CASE Find(s) BY <1>0, <3>3 DEF Find, ScanAt
    <3>4. CASE Register(s) BY <1>0, <3>4 DEF Register, PartDone, NextUnit, ScanAt
    <3>5. CASE Correct(s) BY <1>0, <3>5 DEF Correct, PartDone, NextUnit, ScanAt
    <3>6. CASE Finish(s) \/ DiscoverDies(s)
      BY <1>0, <3>6 DEF Finish, DiscoverDies, ResetScan, ScanAt, TypeInv, DiscoveryTypeOK
    <3>7. CASE DiscoverLost(s) BY <3>7 DEF DiscoverLost
    <3> QED BY <1>1, <3>1, <3>2, <3>3, <3>4, <3>5, <3>6, <3>7
  <2> QED BY <1>0, <2>1, <2>2, <2>3, <2>4, RunFrame
<1>2. ASSUME NEW s \in Scan, AllocateRun(s) PROVE RunInv' BY <1>0, <1>2, AllocateKeeps
<1>3. ASSUME NEW s \in Scan, PutAssignment(s) PROVE RunInv' BY <1>0, <1>3, PutKeeps
<1>4. ASSUME UNCHANGED <<document, scanVars>>, DOMAIN status' = DOMAIN status,
             offered' \subseteq offered,
             \A w \in Worker : task'[w] = task[w] \/ task'[w] = None \/ task'[w] \in offered
      PROVE  RunInv'
  <2>1. UNCHANGED <<at, agenda, term, candidates>> BY <1>4 DEF scanVars
  <2>2. \A k \in offered' : document[k] # <<>> BY <1>0, <1>4 DEF RunInv, DocumentsWritten
  <2> QED BY <1>0, <1>4, <2>1, <2>2, RunFrame
<1>5. ASSUME NEW o \in Object, Land(o) PROVE RunInv'
  BY <1>4, <1>5 DEF Land, runVars, stageVars
<1>6. ASSUME NEW w \in Worker, StageReads(w) \/ StageSkips(w) \/ StageLost(w) PROVE RunInv'
  <2>1. UNCHANGED <<document, status, scanVars>> /\ offered' \subseteq offered
    BY <1>6 DEF StageReads, StageSkips, StageLost, runVars
  <2>2. task' = task \/ \E k \in offered : task' = [task EXCEPT ![w] = k]
    BY <1>6 DEF StageReads, StageSkips, StageLost, stageVars
  <2>3. \A v \in Worker : task'[v] = task[v] \/ task'[v] = None \/ task'[v] \in offered
    BY <1>0, <2>2 DEF TypeInv, DiscoveryTypeOK, RefsTyped
  <2> QED BY <1>4, <2>1, <2>3
<1>7. ASSUME NEW w \in Worker, StageResolves(w) \/ StageRejects(w) PROVE RunInv'
  <2>1. UNCHANGED <<document, scanVars>> /\ DOMAIN status' = DOMAIN status /\ StageDone(w)
    BY <1>7 DEF StageResolves, StageRejects
  <2>2. /\ offered' \subseteq offered
        /\ \A v \in Worker : task'[v] = task[v] \/ task'[v] = None
    BY <1>0, <2>1 DEF StageDone, TypeInv, DiscoveryTypeOK, RefsTyped
  <2> QED BY <1>4, <2>1, <2>2
<1>8. CASE UNCHANGED discoveryVars
  BY <1>4, <1>8 DEF discoveryVars, runVars, stageVars
<1> QED BY <1>1, <1>2, <1>3, <1>5, <1>6, <1>7, <1>8 DEF DiscoveryNext, ScanStep, StageStep

-----------------------------------------------------------------------------
(* The theorems.                                                             *)

LEMMA DiscoveryInitInv == DiscoveryInit => DiscoveryInv
<1> SUFFICES ASSUME DiscoveryInit PROVE DiscoveryInv OBVIOUS
<1>1. TypeInv BY DiscoveryInitType
<1>2. FileInv BY DEF DiscoveryInit, FileInv, FoundIsOriginal, MarkedIsOriginal
<1>3. RunInv
  <2>1. DOMAIN document = {} BY DEF DiscoveryInit
  <2>2. \A s \in Scan : Len(candidates[s]) = 0 BY DEF DiscoveryInit
  <2> QED BY <2>1, <2>2 DEF DiscoveryInit, RunInv, KeyAllocated, DocumentsWritten, DocumentsMatch
<1> QED BY <1>1, <1>2, <1>3 DEF DiscoveryInv

\* The inductive invariant holds for any objects landing at any time, any number
\* of overlapping passes and stage tasks, and any failures.
THEOREM DiscoveryInvariance == DiscoverySpec => []DiscoveryInv
<1>1. DiscoveryInit => DiscoveryInv BY DiscoveryInitInv
<1>2. DiscoveryInv /\ [DiscoveryNext]_discoveryVars => DiscoveryInv'
  BY DiscoveryTypeStep, DiscoveryFileStep, DiscoveryRunStep DEF DiscoveryInv
<1> QED BY <1>1, <1>2, PTL DEF DiscoverySpec

\* meta.files, the runs, their documents and the schema history keep their form:
\* a file has one row, a run one key.
THEOREM DiscoveryTypeCorrect == DiscoverySpec => []DiscoveryTypeOK
<1>1. DiscoveryInv => DiscoveryTypeOK BY DEF DiscoveryInv, TypeInv
<1> QED BY <1>1, DiscoveryInvariance, PTL

\* A duplicate is marked as one of the first file registered with its content,
\* however many passes look and register at the same time.
THEOREM DiscoveryDuplicates == DiscoverySpec => []DuplicatesPointAtOriginal
<1>1. DiscoveryInv => DuplicatesPointAtOriginal
  <2> SUFFICES ASSUME DiscoveryInv, NEW o \in Object, duplicate[o] # None
               PROVE  \E i \in 1..Len(files) : /\ files[i] = duplicate[o]
                                               /\ files[i].content = o.content
                                               /\ \A j \in SameContent(o) : i <= j
    BY DEF DuplicatesPointAtOriginal
  <2>1. IsOriginal(duplicate[o]) /\ duplicate[o].content = o.content
    BY DEF DiscoveryInv, FileInv, MarkedIsOriginal
  <2>2. SameContent(duplicate[o]) = SameContent(o) BY <2>1 DEF SameContent
  <2> QED BY <2>1, <2>2 DEF IsOriginal
<1> QED BY <1>1, DiscoveryInvariance, PTL

\* A run that is offered has a document, and a document lists the contents its
\* run is keyed by.
THEOREM DiscoveryAssignments == DiscoverySpec => []AssignmentDescribesRun
<1>1. DiscoveryInv => AssignmentDescribesRun
  BY DEF DiscoveryInv, RunInv, DocumentsWritten, DocumentsMatch, AssignmentDescribesRun
<1> QED BY <1>1, DiscoveryInvariance, PTL

=============================================================================
