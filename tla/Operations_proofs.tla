------------------------- MODULE Operations_proofs --------------------------
(***************************************************************************)
(* That lineage stays true and retention spares what it has to spare,         *)
(* whatever a rebuild, a retention pass, a repair and ingestion do between    *)
(* each other's steps, for every set of objects, datasets and windows and any *)
(* number of rebuilds, passes and faults.                                     *)
(***************************************************************************)
EXTENDS Operations, Ordering_proofs

Fields == [id : Nat \ {0}, object : Object, original : Nat]
RunFields == [id : Nat \ {0}, file : Nat, content : Content,
              status : {"PENDING", "STAGED", "SUCCEEDED"}, day : Nat]
TaskFields == [run : Nat, file : Nat, object : Object]

\* Ids come from the identity columns; an object has one row, a content one run.
TypeInv ==
    /\ day \in 0..MaxDay
    /\ raw \in [Object -> 0..Absent]
    /\ files \subseteq Fields /\ runs \subseteq RunFields
    /\ bronze \subseteq TaskFields /\ tasks \subseteq TaskFields
    /\ next \in [file : Nat \ {0}, run : Nat \ {0}]
    /\ \A f \in files : f.id < next.file
    /\ \A f, g \in files : f.id = g.id \/ f.object = g.object => f = g
    /\ \A r \in runs : r.id < next.run
    /\ \A r, s \in runs : r.id = s.id \/ r.content = s.content => r = s

IsFirst(i, c) ==
    /\ \E g \in files : g.id = i /\ ContentOf[g.object] = c
    /\ \A g \in files : ContentOf[g.object] = c => i <= g.id

\* What LineageKept says of the metadata.
LineageInv ==
    /\ \A f \in files : f.original # None => IsFirst(f.original, ContentOf[f.object])
    /\ \A r \in runs : \E f \in files : f.id = r.file /\ ContentOf[f.object] = r.content

\* What an open pass holds.  What it has listed in raw was over its window and
\* has at most been put again since; a run it has listed is over its window
\* still, or has been published since; a run it has deleted has no rows.
PassInv ==
    /\ DOMAIN pass = {"at", "todo", "over", "gone"}
    /\ pass.at \in {"idle", "list", "objects", "rows"}
    /\ pass.at \in {"idle", "list"} => pass.over = Nothing
    /\ pass.at = "idle" => pass.gone = {}
    /\ pass.over.runs # {} => "enforce" \in allowed
    /\ pass.gone # {} => {"enforce", "delete_rows"} \subseteq allowed
    /\ \A i \in Ids(pass.gone) \cup Ids(pass.over.runs) : i \in Nat /\ i < next.run
    /\ \A b \in bronze : b.run \notin Ids(pass.gone)
    /\ \A r \in runs : r.id \in Ids(pass.over.runs) =>
          r.status = "SUCCEEDED" \/ Over(r.day, MetadataDays)
    /\ pass.at = "objects" => \A c \in pass.over.objects :
          /\ c.id \in Object /\ "enforce" \in allowed
          /\ c.since \in Nat /\ Over(c.since, RawDays) /\ c.since <= raw[c.id]

OpsInv == TypeInv /\ LineageInv /\ PassInv

\* What it says of bronze, and what keeps a run with rows from being deleted: a
\* document in flight agrees with whatever rows its ids have, because they are
\* not taken again while it is; a run past PENDING has its rows in bronze.
DocumentInv ==
    /\ \A b \in bronze : \E r \in runs : r.id = b.run /\ r.content = ContentOf[b.object]
    /\ \A b \in bronze : \E f \in files : f.id = b.file /\ f.object = b.object
    /\ \A t \in tasks : t.run < next.run /\ t.file < next.file
    /\ \A t \in tasks : \A r \in runs : r.id = t.run => r.content = ContentOf[t.object]
    /\ \A t \in tasks : \A f \in files : f.id = t.file => f.object = t.object
    /\ \A r \in runs : r.status # "PENDING" => \E b \in bronze : b.run = r.id
    /\ \A c \in gold : \E r \in runs : r.content = c /\ r.status = "SUCCEEDED"
    /\ \A r \in runs : Locked(r) => Over(r.day, MetadataDays)

-----------------------------------------------------------------------------
(* The first file of a content.                                              *)

\* Of the ids of some files one is the smallest, and Min finds it.
LEMMA MinOfIds ==
  ASSUME TypeInv, NEW S \in SUBSET files, S # {}
  PROVE  \E g \in S : Min(Ids(S)) = g.id /\ \A f \in S : g.id <= f.id
<1> DEFINE I == Ids(S)
<1>1. I \in SUBSET Nat /\ I # {} BY DEF TypeInv, Fields, Ids
<1>2. \E x \in I : \A y \in I : x <= y
  <2> HIDE DEF I
  <2> QED BY <1>1, SmallestExists
<1>3. Min(I) \in I /\ \A y \in I : Min(I) <= y BY <1>2 DEF Min
<1> QED BY <1>3 DEF Ids

LEMMA FirstIsLeast ==
  ASSUME TypeInv, NEW f \in files
  PROVE  IsFirst(FirstOf(ContentOf[f.object]), ContentOf[f.object])
<1> DEFINE c == ContentOf[f.object]
           S == {g \in files : ContentOf[g.object] = c}
<1>1. S \in SUBSET files /\ S # {} OBVIOUS
<1>2. PICK g \in S : Min(Ids(S)) = g.id /\ \A h \in S : g.id <= h.id
  <2> HIDE DEF S
  <2> QED BY <1>1, MinOfIds
<1>3. FirstOf(c) = g.id BY <1>2 DEF FirstOf
<1> QED BY <1>2, <1>3 DEF IsFirst

\* What find_file_by_content_hash returns is the first of the content.
LEMMA ExistingIsFirst ==
  ASSUME TypeInv, NEW o \in Object
  PROVE  Existing(o) \in Nat /\ (Existing(o) # None => IsFirst(Existing(o), ContentOf[o]))
<1>1. CASE Twins(o) = {} BY <1>1 DEF Existing, None
<1>2. CASE Twins(o) # {}
  <2>1. PICK g \in Twins(o) : Min(Ids(Twins(o))) = g.id /\ \A f \in Twins(o) : g.id <= f.id
    <3>1. Twins(o) \in SUBSET files BY DEF Twins
    <3> QED BY <1>2, <3>1, MinOfIds
  <2>2. g \in Fields BY DEF Twins, TypeInv
  <2> QED BY <1>2, <2>1, <2>2 DEF Existing, Twins, IsFirst, Fields
<1> QED BY <1>1, <1>2

\* There is only one.
LEMMA FirstIsOne ==
  ASSUME TypeInv, NEW c, NEW i, NEW j, IsFirst(i, c), IsFirst(j, c)
  PROVE  i = j
<1>1. PICK g \in files : g.id = i /\ ContentOf[g.object] = c BY DEF IsFirst
<1>2. PICK h \in files : h.id = j /\ ContentOf[h.object] = c BY DEF IsFirst
<1>3. g.id <= h.id /\ h.id <= g.id BY <1>1, <1>2 DEF IsFirst
<1>4. g.id \in Nat /\ h.id \in Nat BY DEF TypeInv, Fields
<1> QED BY <1>1, <1>2, <1>3, <1>4

LEMMA InvKeepsLineage == OpsInv /\ DocumentInv => LineageKept
<1> SUFFICES ASSUME OpsInv, DocumentInv PROVE LineageKept OBVIOUS
<1>1. ASSUME NEW f \in files, f.original # None
      PROVE  f.original = FirstOf(ContentOf[f.object])
  <2>1. IsFirst(f.original, ContentOf[f.object]) BY <1>1 DEF OpsInv, LineageInv
  <2> QED BY <2>1, FirstIsLeast, FirstIsOne DEF OpsInv
<1> QED BY <1>1 DEF OpsInv, LineageInv, DocumentInv, LineageKept

-----------------------------------------------------------------------------
(* Init, and the steps that leave files and runs alone.                      *)

LEMMA OpsInitInv == Init => OpsInv /\ DocumentInv
<1> SUFFICES ASSUME Init PROVE OpsInv /\ DocumentInv OBVIOUS
<1> USE DEF Init, FileRow, None, Absent, OpsInv
<1>1. TypeInv BY OperationsAssumption DEF TypeInv, Fields
<1>2. LineageInv
  <2>1. CASE files = {} BY <2>1 DEF LineageInv
  <2>2. CASE \E o, p \in Object :
            /\ o < p /\ ContentOf[o] = ContentOf[p] /\ raw[o] = 0 /\ raw[p] = 0
            /\ files = {FileRow(1, o, None), FileRow(2, p, None)}
            /\ next = [file |-> 3, run |-> 1]
    BY <2>2 DEF LineageInv
  <2> QED BY <2>1, <2>2
<1>3. PassInv BY DEF PassInv, NoPass, Nothing, Ids
<1>4. DocumentInv BY DEF DocumentInv
<1> QED BY <1>1, <1>2, <1>3, <1>4

\* What is over its window stays over it.
LEMMA OverStays ==
  ASSUME day \in Nat, day' = day + 1,
         NEW since \in Nat, NEW window \in Nat, Over(since, window)
  PROVE  Over(since, window)'
<1>1. since # Absent /\ day - since > window BY DEF Over
<1>2. day' - since > window BY <1>1
<1> QED BY <1>1, <1>2 DEF Over, Absent

LEMMA TickStep == OpsInv /\ Tick => OpsInv' /\ (DocumentInv => DocumentInv')
<1> SUFFICES ASSUME OpsInv, Tick PROVE OpsInv' /\ (DocumentInv => DocumentInv')
  OBVIOUS
<1> USE DEF OpsInv, Tick, ingestVars
<1>0. day \in Nat /\ MetadataDays \in Nat /\ RawDays \in Nat /\ MaxDay \in Nat
  BY OperationsAssumption DEF TypeInv
<1>1. TypeInv'
  <2>1. day' \in 0..MaxDay BY <1>0
  <2> QED BY <2>1 DEF TypeInv, Absent
<1>2. LineageInv' BY DEF LineageInv, IsFirst
<1>3. ASSUME NEW r \in runs, Over(r.day, MetadataDays) PROVE Over(r.day, MetadataDays)'
  <2>1. r.day \in Nat BY DEF TypeInv, RunFields
  <2> QED BY <1>0, <1>3, <2>1, OverStays DEF Over, Absent
<1>4. PassInv'
  <2>1. ASSUME NEW since \in Nat, Over(since, RawDays) PROVE Over(since, RawDays)'
    BY <1>0, <2>1, OverStays DEF Over, Absent
  <2>2. \A r \in runs' : r.id \in Ids(pass'.over.runs) =>
          r.status = "SUCCEEDED" \/ Over(r.day, MetadataDays)'
    BY <1>3 DEF PassInv
  <2>3. pass'.at = "objects" => \A c \in pass'.over.objects :
          /\ c.id \in Object /\ "enforce" \in allowed'
          /\ c.since \in Nat /\ Over(c.since, RawDays)' /\ c.since <= raw'[c.id]
    BY <2>1 DEF PassInv
  <2> QED BY <2>2, <2>3 DEF PassInv, Over, Absent
<1>5. DocumentInv => DocumentInv' BY <1>3 DEF DocumentInv, Locked
<1> QED BY <1>1, <1>2, <1>4, <1>5

LEMMA LandStep ==
  ASSUME NEW o \in Object
  PROVE  OpsInv /\ Land(o) => OpsInv' /\ (DocumentInv => DocumentInv')
<1> SUFFICES ASSUME OpsInv, Land(o) PROVE OpsInv' /\ (DocumentInv => DocumentInv')
  OBVIOUS
<1> USE DEF OpsInv, Land, ingestVars
<1>0. day \in Nat /\ RawDays \in Nat /\ MaxDay \in Nat /\ day <= MaxDay
  BY OperationsAssumption DEF TypeInv
<1>1. TypeInv' BY <1>0 DEF TypeInv, Absent
<1>2. LineageInv' BY DEF LineageInv, IsFirst
<1>3. PassInv'
  <2>1. ASSUME pass.at = "objects", NEW c \in pass.over.objects PROVE c.since <= raw'[c.id]
    <3>1. /\ c.id \in Object /\ c.since \in Nat /\ c.since <= raw[c.id]
          /\ day - c.since > RawDays
      BY <2>1 DEF PassInv, Over
    <3>2. c.since <= day BY <3>1, <1>0
    <3> QED BY <3>1, <3>2 DEF TypeInv
  <2> QED BY <2>1 DEF PassInv, Over, Absent
<1>4. DocumentInv => DocumentInv' BY DEF DocumentInv, Locked, Over, Absent
<1> QED BY <1>1, <1>2, <1>3, <1>4

LEMMA ElsewhereStep ==
  ASSUME OpsInv,
         UNCHANGED <<day, raw, allowed, files, runs, next, bronze, gold, tasks>>,
         pass' \in {pass, NoPass}
  PROVE  OpsInv' /\ (DocumentInv => DocumentInv')
<1> USE DEF OpsInv
<1>1. TypeInv' BY DEF TypeInv, Absent
<1>2. LineageInv' BY DEF LineageInv, IsFirst
<1>3. CASE pass' = pass
  <2>1. PassInv' BY <1>3 DEF PassInv, Over, Absent
  <2>2. DocumentInv => DocumentInv' BY <1>3 DEF DocumentInv, Locked, Over, Absent
  <2> QED BY <1>1, <1>2, <2>1, <2>2
<1>4. CASE pass' = NoPass
  <2>1. /\ DOMAIN pass' = {"at", "todo", "over", "gone"}
        /\ pass'.at = "idle" /\ pass'.over = Nothing /\ pass'.gone = {}
        /\ Nothing.runs = {} /\ Ids({}) = {}
    BY <1>4 DEF NoPass, Nothing, Ids
  <2>2. PassInv' BY <2>1 DEF PassInv
  <2>3. DocumentInv => DocumentInv' BY <2>1 DEF DocumentInv, Locked
  <2> QED BY <1>1, <1>2, <2>2, <2>3
<1> QED BY <1>3, <1>4

-----------------------------------------------------------------------------
(* Stage tasks and publications.                                             *)

\* Runs are claimed and marked, and a staged document's rows are tagged with its
\* ids, which the foreign keys hold to rows that are there.  A locked run keeps
\* its day, and so does every other that has one, until it is published.
LEMMA RunsStep ==
  ASSUME OpsInv,
         UNCHANGED <<day, raw, allowed, files, next, pass>>,
         tasks' \subseteq tasks, bronze \subseteq bronze',
         NEW m \in [runs -> RunFields],
         runs' = {m[r] : r \in runs},
         \A r \in runs :
            /\ m[r].id = r.id /\ m[r].file = r.file /\ m[r].content = r.content
            /\ Locked(r) => m[r] = r
            /\ r.status = "SUCCEEDED" => m[r] = r
            /\ r.day = Absent \/ m[r].day = r.day \/ m[r].status = "SUCCEEDED",
         \A b \in bronze' : b \in bronze \/ (b \in tasks /\ Referable(b) /\ ~Waits(b)),
         DocumentInv =>
            /\ \A r \in runs : m[r].status # "PENDING" =>
                  r.status # "PENDING" \/ \E b \in bronze' : b.run = r.id
            /\ \A c \in gold' : c \in gold \/ \E r \in runs :
                  r.content = c /\ m[r].status = "SUCCEEDED"
  PROVE  OpsInv' /\ (DocumentInv => DocumentInv')
<1> USE DEF OpsInv
<1>0. /\ \A s \in runs' : \E r \in runs : s = m[r]
      /\ \A r \in runs : m[r] \in runs' /\ m[r] \in RunFields
  OBVIOUS
<1>1. TypeInv'
  <2>1. runs' \subseteq RunFields BY <1>0
  <2>2. \A s \in runs' : s.id < next'.run BY <1>0 DEF TypeInv
  <2>3. \A s, q \in runs' : s.id = q.id \/ s.content = q.content => s = q
    BY <1>0 DEF TypeInv
  <2> QED BY <2>1, <2>2, <2>3 DEF TypeInv, Absent
<1>2. LineageInv'
  <2>1. \A f \in files' : f.original # None => IsFirst(f.original, ContentOf[f.object])'
    BY DEF LineageInv, IsFirst
  <2>2. \A s \in runs' : \E f \in files' : f.id = s.file /\ ContentOf[f.object] = s.content
    BY <1>0 DEF LineageInv
  <2> QED BY <2>1, <2>2 DEF LineageInv
<1>3. PassInv'
  <2>1. \A b \in bronze' : b.run \notin Ids(pass.gone) BY DEF PassInv, Referable, Waits, Locked
  <2>2. ASSUME NEW r \in runs, r.id \in Ids(pass.over.runs)
        PROVE  m[r].status = "SUCCEEDED" \/ Over(m[r].day, MetadataDays)
    BY <2>2 DEF PassInv, Over
  <2>3. \A s \in runs' : s.id \in Ids(pass.over.runs) =>
          s.status = "SUCCEEDED" \/ Over(s.day, MetadataDays)'
    BY <1>0, <2>2 DEF Over, Absent
  <2> QED BY <2>1, <2>3 DEF PassInv, Over, Absent
<1>4. ASSUME DocumentInv PROVE DocumentInv'
  <2>1. ASSUME NEW b \in bronze'
        PROVE  /\ \E s \in runs' : s.id = b.run /\ s.content = ContentOf[b.object]
               /\ \E f \in files' : f.id = b.file /\ f.object = b.object
    <3>1. \E r \in runs : r.id = b.run /\ r.content = ContentOf[b.object]
      BY <1>4 DEF DocumentInv, Referable
    <3>2. \E f \in files : f.id = b.file /\ f.object = b.object
      BY <1>4 DEF DocumentInv, Referable
    <3> QED BY <1>0, <3>1, <3>2
  <2>2. \A t \in tasks' : t.run < next'.run /\ t.file < next'.file BY <1>4 DEF DocumentInv
  <2>3. \A t \in tasks' : \A s \in runs' : s.id = t.run => s.content = ContentOf[t.object]
    BY <1>0, <1>4 DEF DocumentInv
  <2>4. \A t \in tasks' : \A f \in files' : f.id = t.file => f.object = t.object
    BY <1>4 DEF DocumentInv
  <2>5. \A s \in runs' : s.status # "PENDING" => \E b \in bronze' : b.run = s.id
    BY <1>0, <1>4 DEF DocumentInv
  <2>6. \A c \in gold' : \E s \in runs' : s.content = c /\ s.status = "SUCCEEDED"
    BY <1>0, <1>4 DEF DocumentInv
  <2>7. \A s \in runs' : Locked(s)' => Over(s.day, MetadataDays)'
    BY <1>0, <1>4 DEF DocumentInv, Locked, Over, Absent
  <2> QED BY <2>1, <2>2, <2>3, <2>4, <2>5, <2>6, <2>7 DEF DocumentInv
<1> QED BY <1>1, <1>2, <1>3, <1>4

LEMMA ClaimedKeeps ==
  ASSUME TypeInv, NEW r \in runs
  PROVE  /\ Claimed(r) \in RunFields /\ Claimed(r).id = r.id /\ Claimed(r).file = r.file
         /\ Claimed(r).content = r.content /\ Claimed(r).status = r.status
         /\ r.day = Absent \/ Claimed(r).day = r.day
<1>1. r \in RunFields /\ day \in Nat BY DEF TypeInv
<1>2. [r EXCEPT !.day = day] \in RunFields BY <1>1 DEF RunFields
<1> QED BY <1>1, <1>2 DEF Claimed, RunFields

LEMMA StageStep ==
  ASSUME OpsInv, NEW t \in tasks, Stage(t)
  PROVE  OpsInv' /\ (DocumentInv => DocumentInv')
<1> USE DEF OpsInv, ingestVars
<1>1. PICK r \in ClaimableBy(t) :
         runs' = (runs \ {r}) \cup {[Claimed(r) EXCEPT !.status = "STAGED"]}
  BY DEF Stage
<1>2. r \in runs /\ r.content = ContentOf[t.object] /\ r.status = "PENDING"
  BY DEF ClaimableBy
<1> DEFINE staged == [Claimed(r) EXCEPT !.status = "STAGED"]
           m == [q \in runs |-> IF q = r THEN staged ELSE q]
<1>3. /\ staged \in RunFields /\ staged.id = r.id /\ staged.file = r.file
      /\ staged.content = r.content /\ (r.day = Absent \/ staged.day = r.day)
  BY <1>2, ClaimedKeeps DEF RunFields
<1>4. ~Locked(r) BY <1>2 DEF Stage, Waits
<1>5. DocumentInv => \E b \in bronze' : b.run = r.id
  <2> SUFFICES ASSUME DocumentInv PROVE t \in bronze' /\ t.run = r.id OBVIOUS
  <2>1. PICK q \in runs : q.id = t.run BY DEF Stage, Referable
  <2>2. q.content = ContentOf[t.object] BY <2>1 DEF DocumentInv
  <2>3. q = r BY <1>2, <2>2 DEF TypeInv
  <2> QED BY <2>1, <2>3 DEF Stage
<1> HIDE DEF staged
<1>6. m \in [runs -> RunFields] BY <1>3 DEF TypeInv
<1>7. runs' = {m[q] : q \in runs}
  <2>1. runs' = (runs \ {r}) \cup {staged} BY <1>1 DEF staged
  <2> QED BY <1>2, <2>1
<1>8. \A q \in runs :
         /\ m[q].id = q.id /\ m[q].file = q.file /\ m[q].content = q.content
         /\ Locked(q) => m[q] = q
         /\ q.status = "SUCCEEDED" => m[q] = q
         /\ q.day = Absent \/ m[q].day = q.day \/ m[q].status = "SUCCEEDED"
  BY <1>2, <1>3, <1>4
<1>9. \A q \in runs : m[q].status # "PENDING" => q.status # "PENDING" \/ q = r OBVIOUS
<1> HIDE DEF m
<1>10. /\ UNCHANGED <<day, raw, allowed, files, next, pass, gold>>
       /\ tasks' \subseteq tasks /\ bronze' = bronze \cup {t} /\ Referable(t) /\ ~Waits(t)
  BY DEF Stage
<1> QED BY <1>5, <1>6, <1>7, <1>8, <1>9, <1>10, RunsStep

LEMMA ClaimOnlyStep ==
  ASSUME OpsInv, NEW t \in tasks, ClaimOnly(t), ~Waits(t)
  PROVE  OpsInv' /\ (DocumentInv => DocumentInv')
<1> USE DEF OpsInv
<1> DEFINE m == [q \in runs |-> IF q \in ClaimableBy(t) THEN Claimed(q) ELSE q]
<1>1. \A q \in ClaimableBy(t) : q.status = "PENDING" /\ ~Locked(q)
  BY DEF ClaimableBy, Waits
<1>2. m \in [runs -> RunFields] BY ClaimedKeeps DEF TypeInv
<1>3. runs' = {m[q] : q \in runs} BY DEF ClaimOnly
<1>4. \A q \in runs :
         /\ m[q].id = q.id /\ m[q].file = q.file /\ m[q].content = q.content
         /\ m[q].status = q.status
         /\ Locked(q) => m[q] = q
         /\ q.status = "SUCCEEDED" => m[q] = q
         /\ q.day = Absent \/ m[q].day = q.day
  BY <1>1, ClaimedKeeps
<1> HIDE DEF m
<1>5. UNCHANGED <<day, raw, allowed, files, next, pass, bronze, gold>> /\ tasks' \subseteq tasks
  BY DEF ClaimOnly
<1> QED BY <1>2, <1>3, <1>4, <1>5, RunsStep

LEMMA PublishStep ==
  ASSUME OpsInv, NEW r \in runs, Publish(r)
  PROVE  OpsInv' /\ (DocumentInv => DocumentInv')
<1> USE DEF OpsInv
<1> DEFINE published == [r EXCEPT !.status = "SUCCEEDED", !.day = day]
           m == [q \in runs |-> IF q = r THEN published ELSE q]
<1>1. /\ published \in RunFields /\ published.id = r.id /\ published.file = r.file
      /\ published.content = r.content /\ published.status = "SUCCEEDED"
  <2>1. r \in RunFields /\ day \in Nat BY DEF TypeInv
  <2> QED BY <2>1 DEF RunFields
<1>2. r.status = "STAGED" /\ ~Locked(r) /\ runs' = (runs \ {r}) \cup {published}
  BY DEF Publish
<1> HIDE DEF published
<1>3. m \in [runs -> RunFields] BY <1>1 DEF TypeInv
<1>4. runs' = {m[q] : q \in runs} BY <1>2
<1>5. \A q \in runs :
         /\ m[q].id = q.id /\ m[q].file = q.file /\ m[q].content = q.content
         /\ Locked(q) => m[q] = q
         /\ q.status = "SUCCEEDED" => m[q] = q
         /\ q.day = Absent \/ m[q].day = q.day \/ m[q].status = "SUCCEEDED"
         /\ m[q].status # "PENDING" => q.status # "PENDING"
  BY <1>1, <1>2
<1>6. m[r].status = "SUCCEEDED" BY <1>1
<1> HIDE DEF m
<1>7. /\ UNCHANGED <<day, raw, allowed, files, next, pass, bronze, tasks>>
      /\ gold' = gold \cup {ContentOf[b.object] : b \in {b \in bronze : b.run = r.id}}
  BY DEF Publish
<1>8. DocumentInv => \A c \in gold' : c \in gold \/ c = r.content
  BY <1>7 DEF DocumentInv, TypeInv
<1> QED BY <1>3, <1>4, <1>5, <1>6, <1>7, <1>8, RunsStep

-----------------------------------------------------------------------------
(* Discovery of an object.                                                   *)

LEMMA IdOfObject ==
  ASSUME TypeInv, NEW o \in Object
  PROVE  /\ IdOf(o) \in Nat \ {0}
         /\ RowsOf(o) = {} => IdOf(o) = next.file
         /\ \A f \in files : f.object = o <=> f.id = IdOf(o)
<1>1. next.file \in Nat \ {0} /\ \A f \in files : f.id \in Nat \ {0} /\ f.id < next.file
  BY DEF TypeInv, Fields
<1>2. CASE RowsOf(o) = {}
  <2>1. IdOf(o) = next.file BY <1>2 DEF IdOf
  <2> QED BY <1>1, <1>2, <2>1 DEF RowsOf
<1>3. CASE RowsOf(o) # {}
  <2>1. PICK f \in RowsOf(o) : IdOf(o) = f.id BY <1>3 DEF IdOf
  <2> QED BY <1>1, <1>3, <2>1 DEF RowsOf, TypeInv
<1> QED BY <1>2, <1>3

\* One row per object before and after, the others untouched.
LEMMA CreateFileStep ==
  ASSUME TypeInv, NEW o \in Object, NEW original \in Nat, CreateFile(o, original)
  PROVE  /\ files' \subseteq Fields
         /\ \A g \in files' : \/ g \in files /\ g.object # o
                              \/ g.object = o /\ g.id = IdOf(o) /\ g.original = original
         /\ \A f \in files : \E g \in files' : g.id = f.id /\ g.object = f.object
         /\ \E g \in files' : g.id = IdOf(o) /\ g.object = o
         /\ \A g, h \in files' : g.id = h.id \/ g.object = h.object => g = h
         /\ next'.file \in Nat \ {0} /\ next'.run \in Nat \ {0}
         /\ next' \in [file : Nat \ {0}, run : Nat \ {0}]
         /\ next.file <= next'.file /\ IdOf(o) < next'.file
         /\ next'.run = IF runs' = runs THEN next.run ELSE next.run + 1
<1>1. next' = [file |-> IF RowsOf(o) = {} THEN next.file + 1 ELSE next.file,
               run  |-> IF runs' = runs THEN next.run ELSE next.run + 1]
  BY DEF CreateFile, TypeInv
<1>2. /\ next.file \in Nat \ {0} /\ next.run \in Nat \ {0}
      /\ \A f \in files : f \in Fields /\ f.id < next.file
  BY DEF TypeInv
<1>3. CASE RowsOf(o) = {}
  <2> DEFINE new == [id |-> next.file, object |-> o, original |-> original]
  <2>1. files' = files \cup {new} BY <1>3 DEF CreateFile, FileRow
  <2>2. \A f \in files : f.object # o BY <1>3 DEF RowsOf
  <2>3. new \in Fields /\ new.id = IdOf(o) /\ new.object = o /\ new.original = original
    BY <1>2, <1>3 DEF Fields, IdOf
  <2>4. \A f \in files : f.id # new.id BY <1>2 DEF Fields
  <2> HIDE DEF new
  <2>5. \A g, h \in files' : g.id = h.id \/ g.object = h.object => g = h
    BY <2>1, <2>2, <2>3, <2>4 DEF TypeInv
  <2>6. IdOf(o) = next.file BY <1>3 DEF IdOf
  <2> QED BY <1>1, <1>2, <1>3, <2>1, <2>2, <2>3, <2>5, <2>6
<1>4. CASE RowsOf(o) # {}
  <2> DEFINE new(f) == IF f.object = o THEN [f EXCEPT !.original = original] ELSE f
  <2>1. files' = {new(f) : f \in files} BY <1>4 DEF CreateFile
  <2>2. \A f \in files : /\ new(f) \in Fields /\ new(f).id = f.id /\ new(f).object = f.object
                         /\ f.object = o => new(f).original = original
                         /\ f.object # o => new(f) = f
    BY <1>2 DEF Fields
  <2> HIDE DEF new
  <2>3. \A g \in files' : \E f \in files : g = new(f) BY <2>1
  <2>4. \A f \in files : f.object = o <=> f.id = IdOf(o) BY IdOfObject
  <2>5. PICK f \in files : f.object = o /\ f.id = IdOf(o) BY <1>4, <2>4 DEF RowsOf
  <2>6. new(f) \in files' BY <2>1
  <2>7. \A g, h \in files' : g.id = h.id \/ g.object = h.object => g = h
    BY <2>2, <2>3 DEF TypeInv
  <2>8. \A h \in files : new(h) \in files' BY <2>1
  <2>9. IdOf(o) < next'.file /\ next.file <= next'.file BY <1>1, <1>2, <1>4, <2>5
  <2> QED BY <1>1, <1>2, <1>4, <2>2, <2>3, <2>4, <2>5, <2>6, <2>7, <2>8, <2>9
<1> QED BY <1>3, <1>4

LEMMA RunOfObject ==
  ASSUME TypeInv, NEW o \in Object
  PROVE  /\ RunOf(o) \in RunFields /\ RunOf(o).content = ContentOf[o]
         /\ \/ RunOf(o) \in runs
            \/ /\ RunOf(o).id = next.run /\ RunOf(o).file = IdOf(o)
               /\ RunOf(o).status = "PENDING"
               /\ \A r \in runs : r.content # ContentOf[o]
<1>1. CASE \E r \in runs : r.content = ContentOf[o]
  <2>1. RunOf(o) \in runs /\ RunOf(o).content = ContentOf[o] BY <1>1 DEF RunOf
  <2> QED BY <2>1 DEF TypeInv
<1>2. CASE ~\E r \in runs : r.content = ContentOf[o]
  <2>1. RunOf(o) = [id |-> next.run, file |-> IdOf(o), content |-> ContentOf[o],
                    status |-> "PENDING", day |-> Absent]
    BY <1>2 DEF RunOf, RunRow
  <2>2. MaxDay \in Nat BY OperationsAssumption
  <2>3. /\ next.run \in Nat \ {0} /\ IdOf(o) \in Nat /\ ContentOf[o] \in Content
        /\ Absent \in Nat
    BY <2>2, IdOfObject DEF TypeInv, Content, Absent
  <2> QED BY <1>2, <2>1, <2>3 DEF RunFields
<1> QED BY <1>1, <1>2

\* The row is the object's own, old or new; a new id is taken once.
LEMMA CreateStep ==
  ASSUME OpsInv, NEW o \in Object, NEW original \in Nat, CreateFile(o, original),
         original # None => IsFirst(original, ContentOf[o]),
         UNCHANGED <<day, raw, allowed, bronze, gold, pass>>,
         (runs' = runs /\ tasks' = tasks) \/ OfferRun(o)
  PROVE  OpsInv' /\ (DocumentInv => DocumentInv')
<1> USE DEF OpsInv
<1>1. PICK i : i = IdOf(o) OBVIOUS
<1>2. PICK r : r = RunOf(o) OBVIOUS
<1>3. /\ i \in Nat \ {0}
      /\ \A f \in files : f.object = o <=> f.id = i
      /\ i = next.file \/ \E f \in files : f.object = o
  BY <1>1, IdOfObject DEF RowsOf
<1>4. /\ files' \subseteq Fields
      /\ \A g \in files' : \/ g \in files /\ g.object # o
                           \/ g.object = o /\ g.id = i /\ g.original = original
      /\ \A f \in files : \E g \in files' : g.id = f.id /\ g.object = f.object
      /\ \E g \in files' : g.id = i /\ g.object = o
      /\ \A g, h \in files' : g.id = h.id \/ g.object = h.object => g = h
      /\ next' \in [file : Nat \ {0}, run : Nat \ {0}]
      /\ next.file <= next'.file /\ i < next'.file
      /\ next'.run = IF runs' = runs THEN next.run ELSE next.run + 1
  BY <1>1, CreateFileStep
<1>5. /\ r \in RunFields /\ r.content = ContentOf[o]
      /\ \/ r \in runs
         \/ /\ r.id = next.run /\ r.file = i /\ r.status = "PENDING"
            /\ \A s \in runs : s.content # ContentOf[o]
  BY <1>1, <1>2, RunOfObject
<1>6. /\ runs \subseteq runs'
      /\ \A s \in runs' : s \in runs \/ s = r
      /\ \A t \in tasks' : t \in tasks \/
            (t = [run |-> r.id, file |-> i, object |-> o] /\ r \in runs')
  BY <1>1, <1>2 DEF OfferRun
<1>7. /\ next.run \in Nat \ {0} /\ next.file \in Nat \ {0}
      /\ next'.run \in Nat \ {0} /\ next'.file \in Nat \ {0} /\ next.run <= next'.run
      /\ \A s \in runs' : s \in runs \/ (s = r /\ s \notin runs /\ next'.run = next.run + 1)
  BY <1>4, <1>6 DEF TypeInv
<1>8. /\ \A f \in files : f.id \in Nat /\ f.id < next.file
      /\ \A s \in runs : s \in RunFields /\ s.id \in Nat /\ s.id < next.run
  BY DEF TypeInv, Fields, RunFields
<1>9. TypeInv'
  <2>1. runs' \subseteq RunFields BY <1>5, <1>6, <1>8
  <2>2. ASSUME NEW t \in tasks' PROVE t \in TaskFields
    <3>1. r.id \in Nat /\ i \in Nat BY <1>3, <1>5 DEF RunFields
    <3>2. [run |-> r.id, file |-> i, object |-> o] \in TaskFields BY <3>1 DEF TaskFields
    <3> QED BY <1>6, <3>2 DEF TypeInv
  <2>3. \A g \in files' : g.id < next'.file BY <1>4, <1>7, <1>8
  <2>4. \A s \in runs' : s.id < next'.run BY <1>5, <1>7, <1>8
  <2>5. \A s, q \in runs' : s.id = q.id \/ s.content = q.content => s = q
    BY <1>5, <1>6, <1>8 DEF TypeInv
  <2> QED BY <1>4, <2>1, <2>2, <2>3, <2>4, <2>5 DEF TypeInv, Absent
<1>10. ASSUME NEW j, NEW c, IsFirst(j, c) PROVE IsFirst(j, c)'
  <2>1. PICK f \in files : f.id = j /\ ContentOf[f.object] = c BY <1>10 DEF IsFirst
  <2>2. \E g \in files' : g.id = j /\ ContentOf[g.object] = c BY <1>4, <2>1
  <2>3. ASSUME NEW g \in files', ContentOf[g.object] = c PROVE j <= g.id
    <3>1. CASE g \in files BY <3>1, <2>3, <1>10 DEF IsFirst
    <3>2. CASE g \notin files
      <4>1. g.object = o /\ g.id = i BY <3>2, <1>4
      <4>2. CASE i = next.file BY <4>1, <4>2, <2>1, <1>7, <1>8
      <4>3. CASE \E h \in files : h.object = o
        BY <4>1, <4>3, <2>3, <1>3, <1>10 DEF IsFirst
      <4> QED BY <1>3, <4>2, <4>3
    <3> QED BY <3>1, <3>2
  <2> QED BY <2>2, <2>3 DEF IsFirst
<1>11. LineageInv'
  <2>1. ASSUME NEW g \in files', g.original # None
        PROVE  IsFirst(g.original, ContentOf[g.object])'
    BY <1>4, <1>10, <2>1 DEF LineageInv
  <2>2. ASSUME NEW s \in runs'
        PROVE  \E g \in files' : g.id = s.file /\ ContentOf[g.object] = s.content
    <3>1. CASE s \in runs BY <3>1, <1>4 DEF LineageInv
    <3>2. CASE s \notin runs BY <3>2, <1>4, <1>5, <1>6
    <3> QED BY <3>1, <3>2
  <2> QED BY <2>1, <2>2 DEF LineageInv
<1>12. \A s \in runs' : s.id \in Ids(pass.gone) \cup Ids(pass.over.runs) => s \in runs
  BY <1>5, <1>6, <1>7 DEF PassInv
<1>13. PassInv'
  <2>1. \A j \in Ids(pass.gone) \cup Ids(pass.over.runs) : j \in Nat /\ j < next'.run
    BY <1>7 DEF PassInv
  <2> QED BY <1>12, <2>1 DEF PassInv, Over, Absent
<1>14. ASSUME DocumentInv PROVE DocumentInv'
  <2>1. \A b \in bronze' : \E s \in runs' : s.id = b.run /\ s.content = ContentOf[b.object]
    BY <1>6, <1>14 DEF DocumentInv
  <2>2. \A b \in bronze' : \E g \in files' : g.id = b.file /\ g.object = b.object
    BY <1>4, <1>14 DEF DocumentInv
  <2>3. ASSUME NEW t \in tasks
        PROVE  /\ t.run < next'.run /\ t.file < next'.file
               /\ \A s \in runs' : s.id = t.run => s.content = ContentOf[t.object]
               /\ \A g \in files' : g.id = t.file => g.object = t.object
    <3>1. t.run \in Nat /\ t.file \in Nat BY DEF TypeInv, TaskFields
    <3>2. t.run < next.run /\ t.file < next.file BY <1>14 DEF DocumentInv
    <3>3. \A s \in runs' : s.id = t.run => s.content = ContentOf[t.object]
      BY <1>5, <1>6, <1>14, <3>1, <3>2 DEF DocumentInv
    <3>4. \A g \in files' : g.id = t.file => g.object = t.object
      BY <1>3, <1>4, <1>14, <3>1, <3>2 DEF DocumentInv
    <3> QED BY <1>4, <1>7, <3>1, <3>2, <3>3, <3>4
  <2>4. ASSUME NEW t \in tasks', t \notin tasks
        PROVE  /\ t.run < next'.run /\ t.file < next'.file
               /\ \A s \in runs' : s.id = t.run => s.content = ContentOf[t.object]
               /\ \A g \in files' : g.id = t.file => g.object = t.object
    <3>1. t.run = r.id /\ t.file = i /\ t.object = o /\ r \in runs' BY <1>6, <2>4
    <3> QED BY <3>1, <1>4, <1>5, <1>9 DEF TypeInv
  <2>5. \A s \in runs' : s.status # "PENDING" => \E b \in bronze' : b.run = s.id
    BY <1>5, <1>6, <1>14 DEF DocumentInv
  <2>6. \A c \in gold' : \E s \in runs' : s.content = c /\ s.status = "SUCCEEDED"
    BY <1>6, <1>14 DEF DocumentInv
  <2>7. \A s \in runs' : Locked(s)' => Over(s.day, MetadataDays)'
    BY <1>12, <1>14 DEF DocumentInv, Locked, Over, Absent
  <2> QED BY <2>1, <2>2, <2>3, <2>4, <2>5, <2>6, <2>7 DEF DocumentInv
<1> QED BY <1>9, <1>11, <1>13, <1>14

LEMMA DiscoverStep ==
  ASSUME OpsInv, NEW o \in Object, Discover(o)
  PROVE  OpsInv' /\ (DocumentInv => DocumentInv')
<1>1. None \in Nat BY DEF None
<1>2. Existing(o) \in Nat /\ (Existing(o) # None => IsFirst(Existing(o), ContentOf[o]))
  BY ExistingIsFirst DEF OpsInv
<1>3. CASE DiscoverFirst(o) BY <1>1, <1>3, CreateStep DEF DiscoverFirst
<1>4. CASE DiscoverDuplicate(o) BY <1>2, <1>4, CreateStep DEF DiscoverDuplicate
<1>5. CASE DiscoverAgain(o) BY <1>2, <1>5, CreateStep DEF DiscoverAgain
<1>6. CASE CorrectOriginal(o) BY <1>1, <1>6, CreateStep DEF CorrectOriginal
<1> QED BY <1>3, <1>4, <1>5, <1>6 DEF Discover

-----------------------------------------------------------------------------
(* The repair, and the drop of the schemas.                                  *)

LEMMA RepairStep ==
  ASSUME OpsInv, Repair
  PROVE  OpsInv' /\ (DocumentInv => DocumentInv')
<1> USE DEF OpsInv
<1> DEFINE mended(f) == IF f \in Orphans
                        THEN [f EXCEPT !.original = FirstOf(ContentOf[f.object])] ELSE f
<1>1. /\ files' = {mended(f) : f \in files}
      /\ UNCHANGED <<day, raw, allowed, runs, next, bronze, gold, tasks, pass>>
  BY DEF Repair
<1>2. ASSUME NEW f \in files
      PROVE  /\ mended(f) \in Fields /\ mended(f).id = f.id
             /\ mended(f).object = f.object
             /\ mended(f) = f \/ IsFirst(mended(f).original, ContentOf[f.object])
  <2>1. f \in Fields BY DEF TypeInv
  <2>2. CASE f \in Orphans
    <3> DEFINE c == ContentOf[f.object]
    <3>1. IsFirst(FirstOf(c), c) BY FirstIsLeast
    <3>2. FirstOf(c) \in Nat BY <3>1 DEF TypeInv, Fields, IsFirst
    <3>3. mended(f) = [f EXCEPT !.original = FirstOf(c)] BY <2>2
    <3> HIDE DEF mended
    <3>4. /\ mended(f) \in Fields /\ mended(f).id = f.id
          /\ mended(f).object = f.object /\ mended(f).original = FirstOf(c)
      BY <2>1, <3>2, <3>3 DEF Fields
    <3> QED BY <3>1, <3>4
  <2>3. CASE f \notin Orphans BY <2>1, <2>3
  <2> QED BY <2>2, <2>3
<1> HIDE DEF mended
<1>3. \A g \in files' : \E f \in files : g = mended(f) BY <1>1
<1>4. \A f \in files : mended(f) \in files' BY <1>1
<1>5. TypeInv'
  <2>1. files' \subseteq Fields BY <1>2, <1>3
  <2>2. \A g \in files' : g.id < next.file BY <1>2, <1>3 DEF TypeInv
  <2>3. \A g, h \in files' : g.id = h.id \/ g.object = h.object => g = h
    BY <1>2, <1>3 DEF TypeInv
  <2> QED BY <1>1, <2>1, <2>2, <2>3 DEF TypeInv, Absent
<1>6. ASSUME NEW i, NEW c, IsFirst(i, c) PROVE IsFirst(i, c)'
  <2>1. \E g \in files' : g.id = i /\ ContentOf[g.object] = c
    BY <1>2, <1>4, <1>6 DEF IsFirst
  <2>2. \A g \in files' : ContentOf[g.object] = c => i <= g.id
    BY <1>2, <1>3, <1>6 DEF IsFirst
  <2> QED BY <2>1, <2>2 DEF IsFirst
<1>7. LineageInv'
  <2>1. ASSUME NEW g \in files', g.original # None
        PROVE  IsFirst(g.original, ContentOf[g.object])'
    <3>1. PICK f \in files : g = mended(f) BY <1>3
    <3>2. IsFirst(g.original, ContentOf[f.object])
      BY <1>2, <2>1, <3>1 DEF LineageInv
    <3> QED BY <1>2, <1>6, <3>1, <3>2
  <2>2. \A s \in runs' : \E g \in files' : g.id = s.file /\ ContentOf[g.object] = s.content
    BY <1>1, <1>2, <1>4 DEF LineageInv
  <2> QED BY <1>1, <2>1, <2>2 DEF LineageInv
<1>8. PassInv' BY <1>1 DEF PassInv, Over, Absent
<1>9. ASSUME DocumentInv PROVE DocumentInv'
  <2>1. \A b \in bronze' : \E g \in files' : g.id = b.file /\ g.object = b.object
    BY <1>1, <1>2, <1>4, <1>9 DEF DocumentInv
  <2>2. \A t \in tasks' : \A g \in files' : g.id = t.file => g.object = t.object
    BY <1>1, <1>2, <1>3, <1>9 DEF DocumentInv
  <2> QED BY <1>1, <1>9, <2>1, <2>2 DEF DocumentInv, Locked, Over, Absent
<1> QED BY <1>5, <1>7, <1>8, <1>9

\* With no document in flight none outlives the ids it names.
LEMMA DropStep ==
  ASSUME OpsInv, DropSchemas
  PROVE  OpsInv' /\ (Drained => DocumentInv')
<1> USE DEF OpsInv
<1>1. /\ files' = {} /\ runs' = {} /\ bronze' = {} /\ gold' = {} /\ tasks' = tasks
      /\ next' = [file |-> 1, run |-> 1]
      /\ Drained => tasks = {}
      /\ UNCHANGED <<day, raw, allowed, pass>> /\ pass.at = "idle"
  BY DEF DropSchemas, EtlSchemas
<1>2. TypeInv' BY <1>1 DEF TypeInv, Absent
<1>3. LineageInv' BY <1>1 DEF LineageInv
<1>4. PassInv'
  <2>1. Ids(pass.gone) = {} /\ Ids(pass.over.runs) = {}
    BY <1>1 DEF PassInv, Nothing, Ids
  <2> QED BY <1>1, <2>1 DEF PassInv
<1>5. Drained => DocumentInv' BY <1>1 DEF DocumentInv
<1> QED BY <1>2, <1>3, <1>4, <1>5

LEMMA RebuildStep ==
  ASSUME OpsInv, Rebuild
  PROVE  OpsInv' /\ (Drained /\ DocumentInv => DocumentInv')
<1> USE DEF ingestVars
<1>1. CASE BeginRebuild BY <1>1, ElsewhereStep DEF BeginRebuild
<1>2. CASE DropSchemas BY <1>2, DropStep
<1>3. CASE UpgradeToHead BY <1>3, ElsewhereStep DEF UpgradeToHead
<1>4. CASE WipeLayers BY <1>4, ElsewhereStep DEF WipeLayers, WipeBuckets
<1>5. CASE TriggerBackfill BY <1>5, ElsewhereStep DEF TriggerBackfill
<1>6. CASE EndRebuild BY <1>6, ElsewhereStep DEF EndRebuild
<1>7. CASE RebuildDies BY <1>7, ElsewhereStep DEF RebuildDies
<1> QED BY <1>1, <1>2, <1>3, <1>4, <1>5, <1>6, <1>7 DEF Rebuild
-----------------------------------------------------------------------------
(* A retention pass.                                                         *)

LEMMA BeginPassStep ==
  ASSUME OpsInv, BeginPass
  PROVE  OpsInv' /\ (DocumentInv => DocumentInv')
<1> USE DEF OpsInv, ingestVars
<1>1. /\ DOMAIN pass' = {"at", "todo", "over", "gone"}
      /\ pass'.at = "list" /\ pass'.over = Nothing /\ pass'.gone = {}
      /\ Nothing.runs = {} /\ Ids({}) = {}
  BY DEF BeginPass, NoPass, Nothing, Ids
<1>2. UNCHANGED <<day, raw, allowed, ingestVars>> BY DEF BeginPass
<1>3. TypeInv' BY <1>2 DEF TypeInv, Absent
<1>4. LineageInv' BY <1>2 DEF LineageInv, IsFirst
<1>5. PassInv' BY <1>1 DEF PassInv
<1>6. DocumentInv => DocumentInv' BY <1>1, <1>2 DEF DocumentInv, Locked
<1> QED BY <1>3, <1>4, <1>5, <1>6

LEMMA ListStep ==
  ASSUME OpsInv, ListCandidates
  PROVE  OpsInv' /\ (DocumentInv => DocumentInv')
<1> USE DEF OpsInv, ingestVars
<1>1. UNCHANGED <<day, raw, allowed, ingestVars>> BY DEF ListCandidates
<1>2. TypeInv' BY <1>1 DEF TypeInv, Absent
<1>3. LineageInv' BY <1>1 DEF LineageInv, IsFirst
<1>4. pass'.gone = pass.gone BY DEF ListCandidates, PassInv
<1>5. DocumentInv => DocumentInv' BY <1>1, <1>4 DEF DocumentInv, Locked, Over, Absent
<1>6. CASE "enforce" \notin allowed
  <2>1. pass' = [pass EXCEPT !.todo = Tail(pass.todo)] BY <1>6 DEF ListCandidates
  <2>2. /\ DOMAIN pass' = {"at", "todo", "over", "gone"} /\ pass'.at = pass.at
        /\ pass'.over = pass.over
    BY <2>1 DEF PassInv
  <2>3. PassInv' BY <1>1, <1>4, <2>2 DEF PassInv, Over, Absent
  <2> QED BY <1>2, <1>3, <1>5, <2>3
<1>7. CASE "enforce" \in allowed
  <2> DEFINE d == Head(pass.todo)
             O == {o \in Object : DataOf(o) = d /\ Over(raw[o], RawDays)}
             R == {r \in Left(pass.gone) : DatasetOf[r.content] = d
                                           /\ Over(r.day, MetadataDays)}
             objects == {Candidate(o, raw[o]) : o \in O}
             found == {Candidate(r.id, r.day) : r \in R}
  <2>1. pass' = [pass EXCEPT !.at = "objects", !.over = [objects |-> objects, runs |-> found]]
    BY <1>7 DEF ListCandidates
  <2>2. R \subseteq runs /\ \A r \in R : Over(r.day, MetadataDays) BY DEF Left
  <2>3. \A c \in objects : /\ c.id \in Object /\ c.since = raw[c.id]
                           /\ Over(c.since, RawDays)
    BY DEF Candidate
  <2>4. \A c \in found : \E r \in R : c.id = r.id BY DEF Candidate
  <2> HIDE DEF objects, found, O, R, d
  <2>5. /\ DOMAIN pass' = {"at", "todo", "over", "gone"} /\ pass'.at = "objects"
        /\ pass'.over.objects = objects /\ pass'.over.runs = found
    BY <2>1 DEF PassInv
  <2>6. \A j \in Ids(found) : j \in Nat /\ j < next.run
    BY <2>2, <2>4 DEF Ids, TypeInv, RunFields
  <2>7. \A r \in runs : r.id \in Ids(found) => Over(r.day, MetadataDays)
    BY <2>2, <2>4 DEF Ids, TypeInv
  <2>8. \A c \in objects : c.since \in Nat /\ c.since <= raw[c.id]
    <3>1. MaxDay \in Nat BY OperationsAssumption
    <3> QED BY <2>3, <3>1 DEF TypeInv, Absent
  <2>9. PassInv'
    BY <1>1, <1>4, <1>7, <2>3, <2>5, <2>6, <2>7, <2>8 DEF PassInv, Over, Absent
  <2> QED BY <1>2, <1>3, <1>5, <2>9
<1> QED BY <1>6, <1>7

LEMMA DeleteObjectsStep ==
  ASSUME OpsInv, DeleteObjects
  PROVE  OpsInv' /\ (DocumentInv => DocumentInv')
<1> USE DEF OpsInv, ingestVars, DeleteObjects
<1>1. /\ DOMAIN pass' = {"at", "todo", "over", "gone"} /\ pass'.at = "rows"
      /\ pass'.over = pass.over /\ pass'.gone = pass.gone
  BY DEF PassInv
<1>2. TypeInv'
  <2>1. MaxDay \in Nat BY OperationsAssumption
  <2>2. raw' \in [Object -> 0..Absent] BY <2>1 DEF TypeInv, Absent
  <2> QED BY <2>2 DEF TypeInv, Absent
<1>3. LineageInv' BY DEF LineageInv, IsFirst
<1>4. PassInv' BY <1>1 DEF PassInv, Over, Absent
<1>5. DocumentInv => DocumentInv' BY <1>1 DEF DocumentInv, Locked, Over, Absent
<1> QED BY <1>2, <1>3, <1>4, <1>5

\* The foreign keys let no run with rows go, and any run past PENDING has some.
LEMMA DeleteRowsStep ==
  ASSUME OpsInv, DeleteRows
  PROVE  OpsInv' /\ (DocumentInv => DocumentInv')
<1> USE DEF OpsInv, ingestVars
<1>1. UNCHANGED <<day, raw, allowed, ingestVars>> BY DEF DeleteRows
<1>2. TypeInv' BY <1>1 DEF TypeInv, Absent
<1>3. LineageInv' BY <1>1 DEF LineageInv, IsFirst
<1>4. /\ DOMAIN pass' = {"at", "todo", "over", "gone"} /\ pass'.at = "list"
      /\ pass'.over = Nothing /\ pass'.gone = pass.gone \cup pass.over.runs
      /\ Nothing.runs = {} /\ Ids({}) = {}
      /\ Ids(pass'.gone) = Ids(pass.gone) \cup Ids(pass.over.runs)
  BY DEF DeleteRows, PassInv, Nothing, Ids
<1>5. \A b \in bronze : b.run \notin Ids(pass.over.runs)
  <2>1. CASE pass.over.runs = {} BY <2>1 DEF Ids
  <2>2. CASE Unreferenced(pass.over.runs) BY <2>2 DEF Unreferenced
  <2> QED BY <2>1, <2>2 DEF DeleteRows, MayDelete
<1>6. pass.over.runs # {} => {"enforce", "delete_rows"} \subseteq allowed
  BY DEF DeleteRows, MayDelete, PassInv
<1>7. PassInv' BY <1>1, <1>4, <1>5, <1>6 DEF PassInv
<1>8. ASSUME DocumentInv PROVE DocumentInv'
  <2>1. ASSUME NEW r \in runs, r.id \in Ids(pass.over.runs) PROVE Over(r.day, MetadataDays)
    BY <1>5, <1>8, <2>1 DEF DocumentInv, PassInv
  <2> QED BY <1>1, <1>4, <1>8, <2>1 DEF DocumentInv, Locked, Over, Absent
<1> QED BY <1>2, <1>3, <1>7, <1>8

LEMMA CommitStep ==
  ASSUME OpsInv, CommitPass
  PROVE  OpsInv' /\ (DocumentInv => DocumentInv')
<1> USE DEF OpsInv
<1>1. /\ runs' = {r \in runs : r.id \notin Ids(pass.gone)}
      /\ UNCHANGED <<day, raw, allowed, files, next, bronze, gold, tasks>>
  BY DEF CommitPass, Left
<1>2. TypeInv' BY <1>1 DEF TypeInv, Absent
<1>3. LineageInv' BY <1>1 DEF LineageInv, IsFirst
<1>4. /\ DOMAIN pass' = {"at", "todo", "over", "gone"}
      /\ pass'.at = "idle" /\ pass'.over = Nothing /\ pass'.gone = {}
      /\ Nothing.runs = {} /\ Ids({}) = {}
  BY DEF CommitPass, NoPass, Nothing, Ids
<1>5. PassInv' BY <1>4 DEF PassInv
<1>6. ASSUME DocumentInv PROVE DocumentInv'
  <2>1. \A b \in bronze' : \E r \in runs' : r.id = b.run /\ r.content = ContentOf[b.object]
    BY <1>1, <1>6 DEF DocumentInv, PassInv
  <2>2. \A c \in gold' : \E r \in runs' : r.content = c /\ r.status = "SUCCEEDED"
    BY <1>1, <1>6 DEF DocumentInv, PassInv
  <2> QED BY <1>1, <1>4, <1>6, <2>1, <2>2 DEF DocumentInv, Locked
<1> QED BY <1>2, <1>3, <1>5, <1>6

LEMMA RetainStep ==
  ASSUME OpsInv, Retain
  PROVE  OpsInv' /\ (DocumentInv => DocumentInv')
<1> USE DEF ingestVars
<1>1. CASE PassRaises BY <1>1, ElsewhereStep DEF PassRaises
<1>2. CASE PassDies BY <1>2, ElsewhereStep DEF PassDies
<1> QED
  BY <1>1, <1>2, BeginPassStep, ListStep, DeleteObjectsStep, DeleteRowsStep, CommitStep
  DEF Retain

LEMMA IngestStep ==
  ASSUME OpsInv, Ingest
  PROVE  OpsInv' /\ (DocumentInv => DocumentInv')
<1>1. ASSUME NEW t \in tasks, StageRaises(t) \/ StageDies(t)
      PROVE  OpsInv' /\ (DocumentInv => DocumentInv')
  BY <1>1, ClaimOnlyStep DEF StageRaises, StageDies
<1> QED BY <1>1, DiscoverStep, StageStep, PublishStep DEF Ingest

-----------------------------------------------------------------------------
LEMMA OpsStep ==
  OpsInv /\ [Next]_vars => OpsInv' /\ (Drained /\ DocumentInv => DocumentInv')
<1> SUFFICES ASSUME OpsInv, [Next]_vars
             PROVE  OpsInv' /\ (Drained /\ DocumentInv => DocumentInv')
  OBVIOUS
<1>1. CASE UNCHANGED vars BY <1>1, ElsewhereStep DEF vars, ingestVars
<1> QED BY <1>1, TickStep, LandStep, IngestStep, RepairStep, RebuildStep, RetainStep DEF Next

\* The inductive invariant of operations, stage tasks in flight at a rebuild or not:
\* ids are unique, originals and the files of runs are the right rows, and what an
\* open pass has found or deleted is what it may delete.
THEOREM OpsInvariance == Spec => []OpsInv
<1>1. Init => OpsInv BY OpsInitInv
<1>2. OpsInv /\ [Next]_vars => OpsInv' BY OpsStep
<1> QED BY <1>1, <1>2, PTL DEF Spec

\* Lineage stays true whatever a rebuild, passes, repairs and ingestion do between
\* each other's steps, when no stage task is in flight as the schemas are dropped.
THEOREM OpsLineage ==
  ASSUME Drained
  PROVE  Spec => []LineageKept
<1>1. Init => OpsInv /\ DocumentInv BY OpsInitInv
<1>2. OpsInv /\ DocumentInv /\ [Next]_vars => OpsInv' /\ DocumentInv' BY OpsStep
<1>3. OpsInv /\ DocumentInv => LineageKept BY InvKeepsLineage
<1> QED BY <1>1, <1>2, <1>3, PTL DEF Spec

-----------------------------------------------------------------------------
(* What a step takes away.                                                   *)

\* No other step deletes an object, and a pass deletes what it has listed: as it
\* was then, or put again since.
LEMMA ObjectsSpared ==
  ASSUME OpsInv, Next, NEW o \in Object, raw[o] # Absent, raw'[o] = Absent
  PROVE  "enforce" \in allowed /\ (day - raw[o] > RawDays \/ PutSinceListed(o))
<1>1. raw' # raw OBVIOUS
<1>2. CASE \E p \in Object : Land(p)
  <2>1. PICK p \in Object : Land(p) BY <1>2
  <2>2. day # Absent
    <3>1. day \in 0..MaxDay /\ MaxDay \in Nat BY OperationsAssumption DEF OpsInv, TypeInv
    <3> QED BY <3>1 DEF Absent
  <2> QED BY <2>1, <2>2 DEF Land, OpsInv, TypeInv
<1>3. CASE DeleteObjects
  <2>1. PICK c \in pass.over.objects : c.id = o BY <1>3 DEF DeleteObjects, Ids
  <2>2. /\ "enforce" \in allowed /\ c.since \in Nat /\ c.since <= raw[o]
        /\ day - c.since > RawDays
    BY <1>3, <2>1 DEF DeleteObjects, OpsInv, PassInv, Over
  <2>3. raw[o] \in Nat BY OperationsAssumption DEF OpsInv, TypeInv, Absent
  <2> QED BY <2>1, <2>2, <2>3 DEF PutSinceListed
<1>4. CASE Ingest
  BY <1>1, <1>4 DEF Ingest, Discover, DiscoverFirst, DiscoverDuplicate, DiscoverAgain,
     CorrectOriginal, Stage, StageRaises, StageDies, ClaimOnly, Publish
<1>5. CASE Rebuild
  BY <1>1, <1>5 DEF Rebuild, BeginRebuild, DropSchemas, UpgradeToHead, WipeLayers,
     WipeBuckets, TriggerBackfill, EndRebuild, RebuildDies
<1>6. CASE Retain /\ ~DeleteObjects
  BY <1>1, <1>6 DEF Retain, BeginPass, ListCandidates, DeleteRows, CommitPass,
     PassRaises, PassDies
<1> QED
  BY <1>1, <1>2, <1>3, <1>4, <1>5, <1>6 DEF Next, Tick, Repair

\* Runs leave meta when a pass commits, or with the schemas.
LEMMA OthersKeepRuns ==
  ASSUME OpsInv, Next, migrated', ~CommitPass, NEW r \in runs
  PROVE  ~Gone(r)
<1> USE DEF ingestVars, Gone
<1>0. r \in RunFields BY DEF OpsInv, TypeInv
<1>1. CASE Ingest
  <2>1. CASE \E o \in Object : Discover(o)
    BY <2>1 DEF Discover, DiscoverFirst, DiscoverDuplicate, DiscoverAgain,
       CorrectOriginal, OfferRun
  <2>2. ASSUME NEW t \in tasks, Stage(t) PROVE \E s \in runs' : s.id = r.id
    <3>1. PICK q \in ClaimableBy(t) :
             runs' = (runs \ {q}) \cup {[Claimed(q) EXCEPT !.status = "STAGED"]}
      BY <2>2 DEF Stage
    <3>2. [Claimed(q) EXCEPT !.status = "STAGED"].id = q.id
      BY ClaimedKeeps DEF ClaimableBy, OpsInv, RunFields
    <3> QED BY <3>1, <3>2 DEF ClaimableBy
  <2>3. ASSUME NEW t \in tasks, ClaimOnly(t) PROVE \E s \in runs' : s.id = r.id
    BY <2>3, ClaimedKeeps DEF ClaimOnly, OpsInv
  <2>4. ASSUME NEW q \in runs, Publish(q) PROVE \E s \in runs' : s.id = r.id
    <3>1. [q EXCEPT !.status = "SUCCEEDED", !.day = day].id = q.id
      BY DEF OpsInv, TypeInv, RunFields
    <3> QED BY <2>4, <3>1 DEF Publish
  <2> QED BY <1>1, <2>1, <2>2, <2>3, <2>4 DEF Ingest, StageRaises, StageDies
<1>2. CASE Rebuild
  BY <1>2 DEF Rebuild, BeginRebuild, DropSchemas, UpgradeToHead, WipeLayers,
     TriggerBackfill, EndRebuild, RebuildDies
<1>3. CASE Retain
  BY <1>3 DEF Retain, BeginPass, ListCandidates, DeleteObjects, DeleteRows,
     PassRaises, PassDies
<1> QED BY <1>1, <1>2, <1>3 DEF Next, Tick, Land, Repair

\* A run that a pass takes is over its window; it has no rows, so it is PENDING,
\* and with it the only one of its content.
LEMMA RunsSpared ==
  ASSUME OpsInv, DocumentInv, Next, migrated', NEW r \in runs, Gone(r)
  PROVE  /\ {"enforce", "delete_rows"} \subseteq allowed /\ day - r.day > MetadataDays
         /\ r.status = "PENDING" /\ r.content \notin gold
<1>1. CommitPass BY OthersKeepRuns
<1>2. Locked(r) BY <1>1 DEF CommitPass, Left, Gone, Locked
<1>3. pass.gone # {} BY <1>2 DEF Locked, Ids
<1>4. r.status = "PENDING" BY <1>2 DEF DocumentInv, OpsInv, PassInv, Locked
<1>5. r.content \notin gold BY <1>4 DEF DocumentInv, OpsInv, TypeInv
<1> QED BY <1>2, <1>3, <1>4, <1>5 DEF DocumentInv, OpsInv, PassInv, Over

\* Retention deletes nothing before its time but what is put under a key it has
\* listed, nothing without the opt-in, and no run that has staged or published.
THEOREM OpsRetentionSpares ==
  ASSUME Drained
  PROVE  Spec => RetentionSpares
<1>1. Init => OpsInv /\ DocumentInv BY OpsInitInv
<1>2. OpsInv /\ DocumentInv /\ [Next]_vars => OpsInv' /\ DocumentInv' BY OpsStep
<1>3. OpsInv /\ DocumentInv /\ [Next]_vars => [Spared]_vars
  <2> SUFFICES ASSUME OpsInv, DocumentInv, Next PROVE Spared OBVIOUS
  <2> QED BY ObjectsSpared, RunsSpared DEF Spared
<1> QED BY <1>1, <1>2, <1>3, PTL DEF Spec, RetentionSpares
=============================================================================
