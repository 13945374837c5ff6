---------------------------- MODULE Server_proofs -----------------------------
(***************************************************************************)
(* Proofs about the migration of faces (FaceMigration), for any number of  *)
(* faces, persons and names, of imports at a time, and of recognitions,    *)
(* edits and statements that fail; and about file management, the download *)
(* of the models and the migration together (MCServer), from what is       *)
(* proved of each.                                                         *)
(***************************************************************************)
EXTENDS MCServer, FilesOps_proofs, ModelDownload_proofs

----------------------------------------------------------------------------
(* Tables and maps                                                         *)

Row == Person \cup {Deleted}

\* idMap[p.ID] = newID.
LEMMA MapMore ==
  ASSUME NEW f, NEW p, NEW r
  PROVE  /\ DOMAIN With(f, p, r) = DOMAIN f \cup {p}
         /\ With(f, p, r)[p] = r
         /\ \A x \in DOMAIN f : x # p => With(f, p, r)[x] = f[x]
BY DEF With

\* A row is inserted.
LEMMA Appended ==
  ASSUME NEW S, NEW t \in Seq(S), NEW e \in S
  PROVE  /\ Append(t, e) \in Seq(S) /\ Len(t) \in Nat
         /\ DOMAIN t = 1 .. Len(t) /\ DOMAIN Append(t, e) = 1 .. Len(t) + 1
         /\ Append(t, e)[Len(t) + 1] = e
         /\ \A x \in DOMAIN t : x # Len(t) + 1 /\ Append(t, e)[x] = t[x]
<1>1. Append(t, e) \in Seq(S) /\ Len(t) \in Nat /\ DOMAIN t = 1 .. Len(t)
  OBVIOUS
<1>2. DOMAIN Append(t, e) = 1 .. Len(t) + 1 /\ Append(t, e)[Len(t) + 1] = e
  BY AppendProperties
<1>3. \A x \in 1 .. Len(t) : Append(t, e)[x] = t[x]
  BY AppendProperties
<1> QED
  BY <1>1, <1>2, <1>3

\* A non-empty set of row numbers has a largest one.
LEMMA Largest ==
  ASSUME NEW n \in Nat, NEW S \in SUBSET (1 .. n), S # {}
  PROVE  \E m \in S : \A x \in S : x <= m
<1> DEFINE above == {k \in Nat : \A x \in S : x <= k}
<1>1. n \in above /\ above \subseteq Nat
  OBVIOUS
<1>2. PICK m \in above : \A k \in above : m <= k
  BY <1>1, LeastOf
<1>3. m \in S
  <2>1. m \in Nat /\ \A x \in S : x <= m
    BY <1>2
  <2> SUFFICES ASSUME m \notin S PROVE FALSE
    OBVIOUS
  <2>2. \A x \in S : x \in Nat /\ x < m
    BY <2>1
  <2>3. m - 1 \in above
    <3>0. PICK x \in S : TRUE
      OBVIOUS
    <3>1. x \in Nat /\ x < m
      BY <2>2
    <3> QED
      BY <2>1, <2>2, <3>1
  <2> QED
    BY <1>2, <2>1, <2>3
<1> QED
  BY <1>2, <1>3

\* The rows that are left when one is deleted, and others are.
LEMMA WithoutRows ==
  ASSUME NEW t \in Seq(Row), NEW p, NEW r \in DOMAIN t, r # p, t[r] # Deleted
  PROVE  Without(t, p) \in Seq(Row)
<1> DEFINE left == {x \in DOMAIN t : t[x] # Deleted /\ x # p}
           low == {x \in DOMAIN t : \E s \in left : x <= s}
<1>1. Len(t) \in Nat /\ DOMAIN t = 1 .. Len(t) /\ \A x \in DOMAIN t : t[x] \in Row
  BY LenProperties, ElementOfSeq
<1>2. PICK m \in left : \A x \in left : x <= m
  <2>1. left \in SUBSET (1 .. Len(t)) /\ left # {}
    BY <1>1
  <2> QED
    BY <1>1, <2>1, Largest
<1>3. m \in 1 .. Len(t)
  BY <1>1, <1>2
<1>4. low = 1 .. m
  <2>1. ASSUME NEW x \in low PROVE x \in 1 .. m
    BY <1>1, <1>2, <1>3, <2>1
  <2>2. ASSUME NEW x \in 1 .. m PROVE x \in low
    BY <1>1, <1>2, <1>3, <2>2
  <2> QED
    BY <2>1, <2>2
<1>5. Without(t, p) = [x \in 1 .. m |-> IF x = p THEN Deleted ELSE t[x]]
  BY <1>4 DEF Without
<1>6. \A x \in 1 .. m : (IF x = p THEN Deleted ELSE t[x]) \in Row
  BY <1>1, <1>3 DEF Row
<1> QED
  BY <1>3, <1>5, <1>6, IsASeq

----------------------------------------------------------------------------
(* Type correctness                                                        *)

ImportRequest(map) == [at : ImportPlaces, person : Nat \ {0}, face : Nat \ {0}, map : {map},
                       had : SUBSET FaceKeys, alone : BOOLEAN]
ImportTyped(q) == q \in ImportRequest(q.map) /\ DOMAIN q.map \subseteq Nat /\ Range(q.map) \subseteq Nat

TablesTyped ==
  /\ persons \in [Devices -> Seq(Row)] /\ faces \in [Devices -> Seq(Face)]
  /\ recognized \in [Devices -> SUBSET FaceKeys]
  /\ recognizing \in [Devices -> {NotOne} \cup (FaceKeys \X Nat)]
DataTyped == data \in [persons : Seq(Row), faces : Seq(Face)] /\ exporting \in BOOLEAN
ImportsAreTyped == DOMAIN import = Imports /\ \A i \in Imports : ImportTyped(import[i])
CountsTyped ==
  /\ scanned \in 0 .. MaxScanned /\ edits \in 0 .. MaxEdits /\ breaks \in 0 .. MaxBreaks
  /\ imported \in 0 .. MaxImports

\* The type invariant in four parts.
LEMMA TypeParts == MigrationTypeOK <=> TablesTyped /\ DataTyped /\ ImportsAreTyped /\ CountsTyped
BY DEF MigrationTypeOK, TablesTyped, DataTyped, ImportsAreTyped, CountsTyped, Row, ImportTyped, ImportRequest

\* The same after a step.
LEMMA TypePartsNext == (TablesTyped /\ DataTyped /\ ImportsAreTyped /\ CountsTyped)' => MigrationTypeOK'
BY DEF MigrationTypeOK, TablesTyped, DataTyped, ImportsAreTyped, CountsTyped, Row, ImportTyped, ImportRequest

\* A counter that has not reached its bound may go up.
LEMMA Counted ==
  ASSUME CountsTyped,
         scanned' = scanned \/ (scanned < MaxScanned /\ scanned' = scanned + 1),
         edits' = edits \/ (edits < MaxEdits /\ edits' = edits + 1),
         breaks' = breaks \/ (breaks < MaxBreaks /\ breaks' = breaks + 1),
         imported' = imported \/ (imported < MaxImports /\ imported' = imported + 1)
  PROVE  CountsTyped'
BY MigrationAssumption DEF CountsTyped

\* A goroutine that serves no import.
LEMMA NoImportTyped == ImportTyped(NoImport)
<1>1. DOMAIN NoImport.map = {}
  BY DEF NoImport
<1> QED
  BY <1>1 DEF ImportTyped, ImportRequest, NoImport, ImportPlaces, Range

\* At first all tables are empty.
LEMMA MigrationTypeInit == MigrationInit => MigrationTypeOK
<1> SUFFICES ASSUME MigrationInit PROVE MigrationTypeOK
  OBVIOUS
<1>1. /\ << >> \in Seq(Row) /\ << >> \in Seq(Face)
      /\ {MaxScanned, MaxEdits, MaxBreaks, MaxImports} \subseteq Nat
  BY EmptySeq, MigrationAssumption
<1>2. ImportsAreTyped
  BY NoImportTyped DEF MigrationInit, ImportsAreTyped
<1>3. DataTyped
  BY <1>1 DEF MigrationInit, NoData, DataTyped
<1>4. TablesTyped
  BY <1>1 DEF MigrationInit, TablesTyped
<1>5. CountsTyped
  BY <1>1 DEF MigrationInit, CountsTyped
<1> QED
  BY <1>2, <1>3, <1>4, <1>5, TypeParts

\* A request changes, and what it writes disturbs others.
LEMMA ImportsTyped ==
  ASSUME ImportsAreTyped, NEW i \in Imports, NEW q, ImportTyped(q), Imports1(i, q) \/ Quiet(i, q)
  PROVE  ImportsAreTyped'
<1>1. DOMAIN import = Imports /\ \A j \in Imports : ImportTyped(import[j])
  BY DEF ImportsAreTyped
<1>2. DOMAIN import' = Imports
  BY <1>1 DEF Imports1, Quiet
<1>3. ASSUME NEW j \in Imports
      PROVE  import'[j] \in {q, import[j], [import[j] EXCEPT !.alone = FALSE]}
  BY <1>1 DEF Imports1, Quiet
<1>4. ASSUME NEW j \in Imports PROVE ImportTyped([import[j] EXCEPT !.alone = FALSE])
  BY <1>1 DEF ImportTyped, ImportRequest
<1> QED
  BY <1>1, <1>2, <1>3, <1>4 DEF ImportsAreTyped

\* Requests that are no longer alone keep their types.
LEMMA DisturbsTyped ==
  ASSUME ImportsAreTyped, NEW d, Disturbs(d)
  PROVE  ImportsAreTyped'
<1>1. DOMAIN import = Imports /\ \A j \in Imports : ImportTyped(import[j])
  BY DEF ImportsAreTyped
<1>2. ASSUME NEW j \in Imports PROVE ImportTyped([import[j] EXCEPT !.alone = FALSE])
  BY <1>1 DEF ImportTyped, ImportRequest
<1> QED
  BY <1>1, <1>2 DEF Disturbs, ImportsAreTyped

\* idMap leads from ids to ids.
LEMMA WithNumbers ==
  ASSUME NEW g, DOMAIN g \subseteq Nat, Range(g) \subseteq Nat, NEW x \in Nat, NEW id \in Nat
  PROVE  DOMAIN With(g, x, id) \subseteq Nat /\ Range(With(g, x, id)) \subseteq Nat
<1>1. DOMAIN With(g, x, id) \subseteq Nat
  BY DEF With
<1>2. \A y \in DOMAIN g : g[y] \in Nat
  BY DEF Range
<1>3. \A y \in DOMAIN With(g, x, id) : With(g, x, id)[y] \in Nat
  BY <1>2 DEF With
<1> QED
  BY <1>1, <1>3 DEF Range

\* What an import makes of its request, field by field.
Fields(n, at, p, f, m, had, alone) ==
  n.at = at /\ n.person = p /\ n.face = f /\ n.map = m /\ n.had = had /\ n.alone = alone

\* The request goes to another place.
LEMMA RequestTo ==
  ASSUME NEW q, ImportTyped(q), NEW at \in ImportPlaces, NEW n, n = [q EXCEPT !.at = at]
  PROVE  ImportTyped(n) /\ Fields(n, at, q.person, q.face, q.map, q.had, q.alone)
BY DEF ImportTyped, ImportRequest, ImportPlaces, Fields

\* The request goes past a person.
LEMMA RequestPast ==
  ASSUME NEW q, ImportTyped(q), NEW p \in Nat \ {0}, NEW n, n = [q EXCEPT !.person = p]
  PROVE  ImportTyped(n) /\ Fields(n, q.at, p, q.face, q.map, q.had, q.alone)
BY DEF ImportTyped, ImportRequest, ImportPlaces, Fields

\* The request takes a row for its person.
LEMMA RequestMapped ==
  ASSUME NEW q, ImportTyped(q), NEW p \in Nat \ {0}, NEW id \in Nat, NEW n, n = [q EXCEPT !.person = p, !.map = With(q.map, q.person, id)]
  PROVE  ImportTyped(n) /\ Fields(n, q.at, p, q.face, With(q.map, q.person, id), q.had, q.alone)
<1>1. DOMAIN With(q.map, q.person, id) \subseteq Nat /\ Range(With(q.map, q.person, id)) \subseteq Nat
  <2>1. q.person \in Nat
    BY DEF ImportTyped, ImportRequest
  <2> QED
    BY <2>1, WithNumbers DEF ImportTyped
<1> DEFINE m == With(q.map, q.person, id)
<1> HIDE DEF m
<1>2. n \in ImportRequest(m) /\ Fields(n, q.at, p, q.face, m, q.had, q.alone)
  BY DEF ImportTyped, ImportRequest, ImportPlaces, Fields, m
<1>3. n.map = m
  BY <1>2 DEF Fields
<1> QED
  BY <1>1, <1>2, <1>3 DEF ImportTyped, m

\* The request has added a row for its person.
LEMMA RequestAdded ==
  ASSUME NEW q, ImportTyped(q), NEW p \in Nat \ {0}, NEW id \in Nat, NEW n, n = [q EXCEPT !.at = "persons", !.person = p, !.map = With(q.map, q.person, id)]
  PROVE  ImportTyped(n) /\ Fields(n, "persons", p, q.face, With(q.map, q.person, id), q.had, q.alone)
<1>1. DOMAIN With(q.map, q.person, id) \subseteq Nat /\ Range(With(q.map, q.person, id)) \subseteq Nat
  <2>1. q.person \in Nat
    BY DEF ImportTyped, ImportRequest
  <2> QED
    BY <2>1, WithNumbers DEF ImportTyped
<1> DEFINE m == With(q.map, q.person, id)
<1> HIDE DEF m
<1>2. n \in ImportRequest(m) /\ Fields(n, "persons", p, q.face, m, q.had, q.alone)
  BY DEF ImportTyped, ImportRequest, ImportPlaces, Fields, m
<1>3. n.map = m
  BY <1>2 DEF Fields
<1> QED
  BY <1>1, <1>2, <1>3 DEF ImportTyped, m

\* The request goes past a face.
LEMMA RequestSkipped ==
  ASSUME NEW q, ImportTyped(q), NEW f \in Nat \ {0}, NEW n, n = [q EXCEPT !.face = f]
  PROVE  ImportTyped(n) /\ Fields(n, q.at, q.person, f, q.map, q.had, q.alone)
BY DEF ImportTyped, ImportRequest, ImportPlaces, Fields

\* The request has added a face.
LEMMA RequestBrought ==
  ASSUME NEW q, ImportTyped(q), NEW f \in Nat \ {0}, NEW n, n = [q EXCEPT !.at = "faces", !.face = f]
  PROVE  ImportTyped(n) /\ Fields(n, "faces", q.person, f, q.map, q.had, q.alone)
BY DEF ImportTyped, ImportRequest, ImportPlaces, Fields

\* Something else wrote to the tables.
LEMMA RequestDisturbed ==
  ASSUME NEW q, ImportTyped(q), NEW n, n = [q EXCEPT !.alone = FALSE]
  PROVE  ImportTyped(n) /\ Fields(n, q.at, q.person, q.face, q.map, q.had, FALSE)
BY DEF ImportTyped, ImportRequest, ImportPlaces, Fields

\* While an import runs, the data it was sent stand, and the row it is at is one of them.
AtRow ==
  \A i \in Imports : import[i].at # "idle" =>
    /\ data # NoData /\ ~ exporting
    /\ import[i].at = "adding person" => import[i].person \in DOMAIN data.persons
    /\ import[i].at = "adding face" => import[i].face \in DOMAIN data.faces

\* What request n may be, for the data as they stand.
RowThere(n) ==
  n.at # "idle" =>
    /\ data # NoData /\ ~ exporting
    /\ n.at = "adding person" => n.person \in DOMAIN data.persons
    /\ n.at = "adding face" => n.face \in DOMAIN data.faces

\* The data are replaced while nobody imports: before the export is complete.
LEMMA AtRowKept ==
  ASSUME ImportsAreTyped, AtRow, UNCHANGED <<data, exporting>>,
         \/ \E d : Disturbs(d)
         \/ \E i \in Imports : \E n : RowThere(n) /\ (Imports1(i, n) \/ Quiet(i, n))
  PROVE  AtRow'
<1>1. DOMAIN import = Imports /\ \A j \in Imports : ImportTyped(import[j])
  BY DEF ImportsAreTyped
<1>2. ASSUME NEW j \in Imports
      PROVE  LET n == [import[j] EXCEPT !.alone = FALSE]
             IN n.at = import[j].at /\ n.person = import[j].person /\ n.face = import[j].face
  BY <1>1 DEF ImportTyped, ImportRequest
<1>3. ASSUME NEW j \in Imports
      PROVE  \/ RowThere(import'[j])
             \/ /\ import'[j].at = import[j].at /\ import'[j].person = import[j].person
                /\ import'[j].face = import[j].face
  <2>1. CASE \E d : Disturbs(d)
    BY <1>1, <1>2, <2>1 DEF Disturbs
  <2>2. ASSUME NEW i \in Imports, NEW n, RowThere(n), Imports1(i, n) \/ Quiet(i, n)
        PROVE  \/ RowThere(import'[j])
               \/ /\ import'[j].at = import[j].at /\ import'[j].person = import[j].person
                  /\ import'[j].face = import[j].face
    <3>1. import'[j] \in {n, import[j], [import[j] EXCEPT !.alone = FALSE]}
      BY <1>1, <2>2 DEF Imports1, Quiet
    <3> QED
      BY <1>2, <2>2, <3>1
  <2> QED
    BY <2>1, <2>2
<1> QED
  BY <1>3 DEF AtRow, RowThere

TypeInv == MigrationTypeOK /\ AtRow

\* What is known of the request of an import, and of the rows it reads and writes.
LEMMA RequestTypes ==
  ASSUME ImportsAreTyped, TablesTyped, DataTyped, NEW i \in Imports
  PROVE  /\ ImportTyped(import[i]) /\ "new" \in Devices
         /\ import[i].person \in Nat \ {0} /\ import[i].face \in Nat \ {0}
         /\ import[i].person + 1 \in Nat \ {0} /\ import[i].face + 1 \in Nat \ {0}
         /\ Len(data.persons) \in Nat /\ DOMAIN data.persons = 1 .. Len(data.persons)
         /\ Len(data.faces) \in Nat /\ DOMAIN data.faces = 1 .. Len(data.faces)
         /\ data.persons \in Seq(Row) /\ data.faces \in Seq(Face)
         /\ faces["new"] \in Seq(Face) /\ persons["new"] \in Seq(Row)
         /\ DOMAIN import[i].map \subseteq Nat /\ Range(import[i].map) \subseteq Nat
<1>1. /\ ImportTyped(import[i]) /\ "new" \in Devices
      /\ data.persons \in Seq(Row) /\ data.faces \in Seq(Face)
      /\ faces["new"] \in Seq(Face) /\ persons["new"] \in Seq(Row)
  BY DEF Devices, DataTyped, ImportsAreTyped, TablesTyped
<1>2. /\ import[i].person \in Nat \ {0} /\ import[i].face \in Nat \ {0}
      /\ DOMAIN import[i].map \subseteq Nat /\ Range(import[i].map) \subseteq Nat
  BY <1>1 DEF ImportTyped, ImportRequest
<1>3. import[i].person + 1 \in Nat \ {0} /\ import[i].face + 1 \in Nat \ {0}
  BY <1>2
<1>4. /\ Len(data.persons) \in Nat /\ DOMAIN data.persons = 1 .. Len(data.persons)
      /\ Len(data.faces) \in Nat /\ DOMAIN data.faces = 1 .. Len(data.faces)
  BY <1>1, LenProperties
<1> QED
  BY <1>1, <1>2, <1>3, <1>4

\* The next person of the list: what becomes of the request.
PersonLooked(q, n, N, D) ==
  \/ /\ q.person > Len(D.persons)
     /\ Fields(n, "faces", q.person, q.face, q.map, q.had, q.alone)
  \/ /\ q.person \in DOMAIN D.persons /\ D.persons[q.person] = Deleted
     /\ Fields(n, "persons", q.person + 1, q.face, q.map, q.had, q.alone)
  \/ /\ q.person \in DOMAIN D.persons /\ D.persons[q.person] # Deleted
     /\ \E r \in DOMAIN N :
          /\ N[r] = D.persons[q.person] /\ D.persons[q.person] # <<NoName>>
          /\ \A s \in DOMAIN N : N[s] = D.persons[q.person] => r <= s
          /\ Fields(n, "persons", q.person + 1, q.face, With(q.map, q.person, r), q.had, q.alone)
  \/ /\ q.person \in DOMAIN D.persons /\ D.persons[q.person] # Deleted
     /\ D.persons[q.person] = <<NoName>> \/ \A s \in DOMAIN N : N[s] # D.persons[q.person]
     /\ Fields(n, "adding person", q.person, q.face, q.map, q.had, q.alone)

\* One of these is what a look for the next person does.
LEMMA LookForPersonStep ==
  ASSUME ImportsAreTyped, TablesTyped, DataTyped, NEW i \in Imports, LookForPerson(i)
  PROVE  /\ import[i].at = "persons"
         /\ \E n : /\ Quiet(i, n) /\ ImportTyped(n)
                   /\ PersonLooked(import[i], n, persons["new"], data)
<1> DEFINE q == import[i]
           N == persons["new"]
           same == {r \in DOMAIN N : N[r] = data.persons[q.person]}
<1>1. q.at = "persons"
  BY DEF LookForPerson, ImportAt
<1>2. q.person > Len(data.persons) \/ q.person \in DOMAIN data.persons
  BY RequestTypes
<1>3. CASE q.person > Len(data.persons)
  <2>1. PICK n : n = [q EXCEPT !.at = "faces"]
    OBVIOUS
  <2>2. Quiet(i, n)
    BY <1>3, <2>1 DEF LookForPerson
  <2>3. ImportTyped(n) /\ Fields(n, "faces", q.person, q.face, q.map, q.had, q.alone)
    BY <2>1, RequestTypes, RequestTo DEF ImportPlaces
  <2> QED
    BY <1>1, <1>3, <2>2, <2>3 DEF PersonLooked
<1>4. ASSUME q.person \in DOMAIN data.persons, data.persons[q.person] = Deleted
      PROVE  \E n : Quiet(i, n) /\ ImportTyped(n) /\ PersonLooked(q, n, N, data)
  <2>1. PICK n : n = [q EXCEPT !.person = q.person + 1]
    OBVIOUS
  <2>2. ~ (q.person > Len(data.persons))
    BY <1>4, RequestTypes
  <2>3. Quiet(i, n)
    BY <1>4, <2>1, <2>2 DEF LookForPerson
  <2>4. ImportTyped(n) /\ Fields(n, "persons", q.person + 1, q.face, q.map, q.had, q.alone)
    BY <1>1, <2>1, RequestTypes, RequestPast
  <2> QED
    BY <1>4, <2>3, <2>4 DEF PersonLooked
<1>5. ASSUME q.person \in DOMAIN data.persons, data.persons[q.person] # Deleted,
             data.persons[q.person] # <<NoName>>, same # {}
      PROVE  \E n : Quiet(i, n) /\ ImportTyped(n) /\ PersonLooked(q, n, N, data)
  <2>2. ~ (q.person > Len(data.persons))
    BY <1>5, RequestTypes
  <2>3. PICK r \in same : /\ \A s \in same : r <= s
                          /\ Quiet(i, [q EXCEPT !.person = q.person + 1, !.map = With(q.map, q.person, r)])
    BY <1>5, <2>2 DEF LookForPerson
  <2>1. PICK n : n = [q EXCEPT !.person = q.person + 1, !.map = With(q.map, q.person, r)]
    OBVIOUS
  <2>5. r \in Nat
    BY RequestTypes, LenProperties
  <2>4. ImportTyped(n) /\ Fields(n, "persons", q.person + 1, q.face, With(q.map, q.person, r), q.had, q.alone)
    BY <1>1, <2>1, <2>5, RequestTypes, RequestMapped
  <2>6. /\ r \in DOMAIN N /\ N[r] = data.persons[q.person]
        /\ \A s \in DOMAIN N : N[s] = data.persons[q.person] => r <= s
    BY <2>3
  <2>7. Quiet(i, n)
    BY <2>1, <2>3
  <2> QED
    BY <1>5, <2>4, <2>6, <2>7 DEF PersonLooked
<1>6. ASSUME q.person \in DOMAIN data.persons, data.persons[q.person] # Deleted,
             data.persons[q.person] = <<NoName>> \/ same = {}
      PROVE  \E n : Quiet(i, n) /\ ImportTyped(n) /\ PersonLooked(q, n, N, data)
  <2>1. PICK n : n = [q EXCEPT !.at = "adding person"]
    OBVIOUS
  <2>2. ~ (q.person > Len(data.persons))
    BY <1>6, RequestTypes
  <2>3. Quiet(i, n)
    BY <1>6, <2>1, <2>2 DEF LookForPerson
  <2>4. ImportTyped(n) /\ Fields(n, "adding person", q.person, q.face, q.map, q.had, q.alone)
    BY <2>1, RequestTypes, RequestTo DEF ImportPlaces
  <2>5. data.persons[q.person] = <<NoName>> \/ \A s \in DOMAIN N : N[s] # data.persons[q.person]
    BY <1>6
  <2> QED
    BY <1>6, <2>3, <2>4, <2>5 DEF PersonLooked
<1> QED
  BY <1>1, <1>2, <1>3, <1>4, <1>5, <1>6

\* An import starts at the first person with an empty idMap.
LEMMA StartImportStep ==
  ASSUME ImportsAreTyped, TablesTyped, DataTyped, NEW i \in Imports, StartImport(i)
  PROVE  \E n : /\ Quiet(i, n) /\ ImportTyped(n)
                /\ Fields(n, "persons", 1, 1, << >>, Keys(faces["new"]),
                          ImportBusy = {} /\ recognizing["new"] = NotOne)
<1>1. Keys(faces["new"]) \subseteq FaceKeys
  <2>1. faces["new"] \in Seq(Face)
    BY RequestTypes
  <2>2. \A f \in DOMAIN faces["new"] : faces["new"][f] \in Face
    BY <2>1, LenProperties, ElementOfSeq
  <2> QED
    BY <2>2 DEF Keys, Range, Face
<1>2. PICK n : n = [NoImport EXCEPT !.at = "persons", !.had = Keys(faces["new"]),
                                    !.alone = (ImportBusy = {} /\ recognizing["new"] = NotOne)]
  OBVIOUS
<1>3. Quiet(i, n)
  BY <1>2 DEF StartImport
<1> DEFINE had == Keys(faces["new"])
           alone == ImportBusy = {} /\ recognizing["new"] = NotOne
<1>4. had \in SUBSET FaceKeys /\ alone \in BOOLEAN
      /\ n = [NoImport EXCEPT !.at = "persons", !.had = had, !.alone = alone]
  BY <1>1, <1>2
<1> HIDE DEF had, alone
<1>5. n = [at |-> "persons", person |-> 1, face |-> 1, map |-> << >>, had |-> had, alone |-> alone]
  BY <1>4 DEF NoImport
<1>6. ImportTyped(n)
  BY <1>4, <1>5, NoImportTyped DEF ImportTyped, ImportRequest, ImportPlaces, NoImport
<1>7. Fields(n, "persons", 1, 1, << >>, had, alone)
  BY <1>5 DEF Fields
<1> QED
  BY <1>3, <1>6, <1>7 DEF had, alone

\* A person is added: its row comes last.
LEMMA AddPersonStep ==
  ASSUME ImportsAreTyped, TablesTyped, DataTyped, NEW i \in Imports, AddPerson(i),
         import[i].person \in DOMAIN data.persons
  PROVE  /\ import[i].at = "adding person"
         /\ persons'["new"] = Append(persons["new"], data.persons[import[i].person])
         /\ persons' \in [Devices -> Seq(Row)]
         /\ \E n : /\ Imports1(i, n) /\ ImportTyped(n)
                   /\ Fields(n, "persons", import[i].person + 1, import[i].face,
                             With(import[i].map, import[i].person, Len(persons["new"]) + 1),
                             import[i].had, import[i].alone)
<1> DEFINE q == import[i]
           id == Len(persons["new"]) + 1
<1>1. q.at = "adding person" /\ data.persons[q.person] \in Row
  BY RequestTypes, ElementOfSeq DEF AddPerson, ImportAt
<1>2. /\ persons' = [persons EXCEPT !["new"] = Append(@, data.persons[q.person])]
      /\ persons["new"] \in Seq(Row) /\ persons \in [Devices -> Seq(Row)] /\ "new" \in Devices
  BY RequestTypes DEF AddPerson, TablesTyped
<1>3. /\ persons'["new"] = Append(persons["new"], data.persons[q.person])
      /\ Append(persons["new"], data.persons[q.person]) \in Seq(Row)
      /\ Len(persons["new"]) \in Nat
      /\ Len(Append(persons["new"], data.persons[q.person])) = id
  <2> DEFINE e == data.persons[q.person]
             t == persons["new"]
  <2>0. e \in Row /\ t \in Seq(Row)
    BY <1>1, <1>2
  <2> HIDE DEF e, t
  <2>1. Append(t, e) \in Seq(Row) /\ Len(t) \in Nat
    BY ONLY <2>0, Appended
  <2>2. Len(Append(t, e)) = Len(t) + 1
    BY ONLY <2>0, AppendProperties
  <2>3. persons'["new"] = Append(persons["new"], data.persons[q.person])
    BY <1>2
  <2> QED
    BY <2>1, <2>2, <2>3 DEF e, t
<1>4. persons' \in [Devices -> Seq(Row)]
  BY <1>2, <1>3
<1>5. PICK n : n = [q EXCEPT !.at = "persons", !.person = q.person + 1, !.map = With(q.map, q.person, id)]
  OBVIOUS
<1>6. Imports1(i, n)
  <2>1. Imports1(i, [q EXCEPT !.at = "persons", !.person = @ + 1,
                              !.map = With(@, q.person, Len(persons'["new"]))])
    BY DEF AddPerson
  <2>2. Len(persons'["new"]) = id
    BY <1>3
  <2> QED
    BY <1>5, <2>1, <2>2
<1>7. id \in Nat
  BY <1>3
<1>8. ImportTyped(n) /\ Fields(n, "persons", q.person + 1, q.face, With(q.map, q.person, id), q.had, q.alone)
  BY <1>5, <1>7, RequestTypes, RequestAdded
<1> QED
  BY <1>1, <1>3, <1>4, <1>6, <1>8

\* The next face of the list: what becomes of the request.
FaceLooked(q, n, F, D) ==
  \/ /\ q.face > Len(D.faces)
     /\ Fields(n, "done", q.person, q.face, q.map, q.had, q.alone)
  \/ /\ q.face \in DOMAIN D.faces /\ \E f \in DOMAIN F : F[f].key = D.faces[q.face].key
     /\ Fields(n, "faces", q.person, q.face + 1, q.map, q.had, q.alone)
  \/ /\ q.face \in DOMAIN D.faces /\ \A f \in DOMAIN F : F[f].key # D.faces[q.face].key
     /\ Fields(n, "adding face", q.person, q.face, q.map, q.had, q.alone)

\* One of these is what a look for the next face does.
LEMMA LookForFaceStep ==
  ASSUME ImportsAreTyped, TablesTyped, DataTyped, NEW i \in Imports, LookForFace(i)
  PROVE  /\ import[i].at = "faces"
         /\ \E n : /\ Quiet(i, n) /\ ImportTyped(n)
                   /\ FaceLooked(import[i], n, faces["new"], data)
<1> DEFINE q == import[i]
           F == faces["new"]
<1>1. q.at = "faces"
  BY DEF LookForFace, ImportAt
<1>2. q.face > Len(data.faces) \/ q.face \in DOMAIN data.faces
  BY RequestTypes
<1>3. CASE q.face > Len(data.faces)
  <2>1. PICK n : n = [q EXCEPT !.at = "done"]
    OBVIOUS
  <2>2. Quiet(i, n)
    BY <1>3, <2>1 DEF LookForFace
  <2>3. ImportTyped(n) /\ Fields(n, "done", q.person, q.face, q.map, q.had, q.alone)
    BY <2>1, RequestTypes, RequestTo DEF ImportPlaces
  <2> QED
    BY <1>1, <1>3, <2>2, <2>3 DEF FaceLooked
<1>4. ASSUME q.face \in DOMAIN data.faces, data.faces[q.face].key \in Keys(F)
      PROVE  \E n : Quiet(i, n) /\ ImportTyped(n) /\ FaceLooked(q, n, F, data)
  <2>1. PICK n : n = [q EXCEPT !.face = q.face + 1]
    OBVIOUS
  <2>2. ~ (q.face > Len(data.faces))
    BY <1>4, RequestTypes
  <2>3. Quiet(i, n)
    BY <1>4, <2>1, <2>2 DEF LookForFace
  <2>4. ImportTyped(n) /\ Fields(n, "faces", q.person, q.face + 1, q.map, q.had, q.alone)
    BY <1>1, <2>1, RequestTypes, RequestSkipped
  <2>5. \E f \in DOMAIN F : F[f].key = data.faces[q.face].key
    BY <1>4 DEF Keys, Range
  <2> QED
    BY <1>4, <2>3, <2>4, <2>5 DEF FaceLooked
<1>5. ASSUME q.face \in DOMAIN data.faces, data.faces[q.face].key \notin Keys(F)
      PROVE  \E n : Quiet(i, n) /\ ImportTyped(n) /\ FaceLooked(q, n, F, data)
  <2>1. PICK n : n = [q EXCEPT !.at = "adding face"]
    OBVIOUS
  <2>2. ~ (q.face > Len(data.faces))
    BY <1>5, RequestTypes
  <2>3. Quiet(i, n)
    BY <1>5, <2>1, <2>2 DEF LookForFace
  <2>4. ImportTyped(n) /\ Fields(n, "adding face", q.person, q.face, q.map, q.had, q.alone)
    BY <2>1, RequestTypes, RequestTo DEF ImportPlaces
  <2>5. \A f \in DOMAIN F : F[f].key # data.faces[q.face].key
    BY <1>5 DEF Keys, Range
  <2> QED
    BY <1>5, <2>3, <2>4, <2>5 DEF FaceLooked
<1> QED
  BY <1>1, <1>2, <1>3, <1>4, <1>5

\* A face is added, for the person that its own one became.
LEMMA AddFaceStep ==
  ASSUME ImportsAreTyped, TablesTyped, DataTyped, NEW i \in Imports, AddFace(i),
         import[i].face \in DOMAIN data.faces
  PROVE  /\ import[i].at = "adding face"
         /\ \E row \in Face :
              /\ row.key = data.faces[import[i].face].key
              /\ row.person = PersonOf(i, data.faces[import[i].face].person)
              /\ faces'["new"] = Append(faces["new"], row)
         /\ faces' \in [Devices -> Seq(Face)]
         /\ \E n : /\ Imports1(i, n) /\ ImportTyped(n)
                   /\ Fields(n, "faces", import[i].person, import[i].face + 1, import[i].map,
                             import[i].had, import[i].alone)
<1> DEFINE q == import[i]
           old == data.faces[q.face]
<1>1. q.at = "adding face" /\ old \in Face
  BY RequestTypes, ElementOfSeq DEF AddFace, ImportAt
<1>2. PersonOf(i, old.person) \in Nat
  BY RequestTypes DEF PersonOf, Range
<1>3. PICK row : row = [old EXCEPT !.person = PersonOf(i, old.person)]
  OBVIOUS
<1>4. row \in Face /\ row.key = old.key /\ row.person = PersonOf(i, old.person)
  BY <1>1, <1>2, <1>3 DEF Face
<1>5. /\ faces' = [faces EXCEPT !["new"] = Append(faces["new"], row)]
      /\ faces["new"] \in Seq(Face) /\ faces \in [Devices -> Seq(Face)] /\ "new" \in Devices
  BY <1>3, RequestTypes DEF AddFace, TablesTyped
<1>6. faces'["new"] = Append(faces["new"], row) /\ faces' \in [Devices -> Seq(Face)]
  <2>1. Append(faces["new"], row) \in Seq(Face)
    BY <1>4, <1>5, Appended
  <2> QED
    BY <1>5, <2>1
<1>7. PICK n : n = [q EXCEPT !.at = "faces", !.face = q.face + 1]
  OBVIOUS
<1>8. Imports1(i, n)
  BY <1>7 DEF AddFace
<1>9. ImportTyped(n) /\ Fields(n, "faces", q.person, q.face + 1, q.map, q.had, q.alone)
  BY <1>7, RequestTypes, RequestBrought
<1> QED
  BY <1>1, <1>4, <1>6, <1>8, <1>9

\* What an import step makes of its request.
LEMMA RequestStep ==
  ASSUME ImportsAreTyped, TablesTyped, DataTyped, AtRow, NEW i \in Imports, ImportStep(i)
  PROVE  \E n : ImportTyped(n) /\ RowThere(n) /\ (Imports1(i, n) \/ Quiet(i, n))
<1> DEFINE q == import[i]
<1>1. q.at # "idle" => data # NoData /\ ~ exporting
  BY DEF AtRow
<1>2. CASE StartImport(i)
  BY <1>2, StartImportStep DEF RowThere, Fields, StartImport
<1>3. CASE LookForPerson(i)
  <2>1. PICK n : Quiet(i, n) /\ ImportTyped(n) /\ PersonLooked(q, n, persons["new"], data)
    BY <1>3, LookForPersonStep
  <2>2. data # NoData /\ ~ exporting
    BY <1>1, <1>3, LookForPersonStep
  <2>3. \/ n.at \in {"faces", "persons"}
        \/ n.at = "adding person" /\ n.person = q.person /\ q.person \in DOMAIN data.persons
    BY <2>1 DEF PersonLooked, Fields
  <2> QED
    BY <2>1, <2>2, <2>3 DEF RowThere
<1>4. CASE AddPerson(i)
  <2>1. q.at = "adding person" /\ q.person \in DOMAIN data.persons
    BY <1>4 DEF AddPerson, ImportAt, AtRow
  <2>2. PICK n : Imports1(i, n) /\ ImportTyped(n) /\ n.at = "persons"
    BY <1>4, <2>1, AddPersonStep DEF Fields
  <2> QED
    BY <1>1, <2>1, <2>2 DEF RowThere
<1>5. CASE LookForFace(i)
  <2>1. PICK n : Quiet(i, n) /\ ImportTyped(n) /\ FaceLooked(q, n, faces["new"], data)
    BY <1>5, LookForFaceStep
  <2>2. data # NoData /\ ~ exporting
    BY <1>1, <1>5, LookForFaceStep
  <2>3. \/ n.at \in {"faces", "done"}
        \/ n.at = "adding face" /\ n.face = q.face /\ q.face \in DOMAIN data.faces
    BY <2>1 DEF FaceLooked, Fields
  <2> QED
    BY <2>1, <2>2, <2>3 DEF RowThere
<1>6. CASE AddFace(i)
  <2>1. q.at = "adding face" /\ q.face \in DOMAIN data.faces
    BY <1>6 DEF AddFace, ImportAt, AtRow
  <2>2. PICK n : Imports1(i, n) /\ ImportTyped(n) /\ n.at = "faces"
    BY <1>6, <2>1, AddFaceStep DEF Fields
  <2> QED
    BY <1>1, <2>1, <2>2 DEF RowThere
<1>7. CASE ImportBreaks(i) \/ ImportAnswers(i)
  <2>1. Quiet(i, NoImport) /\ ImportTyped(NoImport) /\ RowThere(NoImport)
    BY <1>7, NoImportTyped DEF ImportBreaks, ImportAnswers, RowThere, NoImport
  <2> QED
    BY <2>1
<1> QED
  BY <1>2, <1>3, <1>4, <1>5, <1>6, <1>7 DEF ImportStep

\* What else an import step touches: one of the two tables of the new device, or neither.
LEMMA ImportStepRest ==
  ASSUME ImportsAreTyped, TablesTyped, DataTyped, AtRow, NEW i \in Imports, ImportStep(i)
  PROVE  /\ UNCHANGED <<recognized, recognizing, data, exporting>>
         /\ persons' \in [Devices -> Seq(Row)] /\ faces' \in [Devices -> Seq(Face)]
         /\ persons'["old"] = persons["old"] /\ faces'["old"] = faces["old"]
         /\ scanned' = scanned /\ edits' = edits
         /\ breaks' = breaks \/ (breaks < MaxBreaks /\ breaks' = breaks + 1)
         /\ imported' = imported \/ (imported < MaxImports /\ imported' = imported + 1)
<1> DEFINE q == import[i]
<1>0. persons \in [Devices -> Seq(Row)] /\ faces \in [Devices -> Seq(Face)]
  BY DEF TablesTyped
<1>1. CASE StartImport(i) \/ LookForPerson(i) \/ LookForFace(i) \/ ImportBreaks(i) \/ ImportAnswers(i)
  <2>1. UNCHANGED <<persons, faces, recognized, recognizing, data, exporting, scanned, edits>>
    BY <1>1 DEF StartImport, LookForPerson, LookForFace, ImportBreaks, ImportAnswers, Stay
  <2>2. CASE StartImport(i)
    BY <1>0, <2>1, <2>2 DEF StartImport
  <2>3. CASE ImportBreaks(i)
    BY <1>0, <2>1, <2>3 DEF ImportBreaks
  <2>4. CASE LookForPerson(i)
    BY <1>0, <2>1, <2>4 DEF LookForPerson
  <2>5. CASE LookForFace(i)
    BY <1>0, <2>1, <2>5 DEF LookForFace
  <2>6. CASE ImportAnswers(i)
    BY <1>0, <2>1, <2>6 DEF ImportAnswers
  <2> QED
    BY <1>1, <2>2, <2>3, <2>4, <2>5, <2>6
<1>2. CASE AddPerson(i)
  <2>1. q.person \in DOMAIN data.persons
    BY <1>2 DEF AddPerson, ImportAt, AtRow
  <2>2. persons' \in [Devices -> Seq(Row)]
    BY <1>2, <2>1, AddPersonStep
  <2>3. /\ UNCHANGED <<faces, recognized, recognizing, breaks, imported, data, exporting, scanned, edits>>
        /\ persons' = [persons EXCEPT !["new"] = Append(@, data.persons[q.person])]
    BY <1>2 DEF AddPerson, Stay
  <2> QED
    BY <1>0, <2>2, <2>3 DEF Devices
<1>3. CASE AddFace(i)
  <2>1. q.face \in DOMAIN data.faces
    BY <1>3 DEF AddFace, ImportAt, AtRow
  <2>2. faces' \in [Devices -> Seq(Face)]
    BY <1>3, <2>1, AddFaceStep
  <2>3. UNCHANGED <<persons, recognized, recognizing, breaks, imported, data, exporting, scanned, edits>>
    BY <1>3 DEF AddFace, Stay
  <2>4. \E s : faces' = [faces EXCEPT !["new"] = s]
    BY <1>3 DEF AddFace
  <2> QED
    BY <1>0, <2>2, <2>3, <2>4 DEF Devices
<1> QED
  BY <1>1, <1>2, <1>3 DEF ImportStep

\* Types and rows hold at first.
LEMMA TypeInvInit == MigrationInit => TypeInv
BY MigrationTypeInit DEF MigrationInit, TypeInv, AtRow, NoImport

\* Types and rows hold after every step.
LEMMA TypeInvNext == TypeInv /\ [MigrationNext]_migrationVars => TypeInv'
<1> SUFFICES ASSUME TypeInv, [MigrationNext]_migrationVars PROVE TypeInv'
  OBVIOUS
<1>0. TablesTyped /\ DataTyped /\ ImportsAreTyped /\ CountsTyped /\ AtRow
  BY TypeParts DEF TypeInv
<1>t. /\ persons \in [Devices -> Seq(Row)] /\ faces \in [Devices -> Seq(Face)]
      /\ recognized \in [Devices -> SUBSET FaceKeys]
      /\ recognizing \in [Devices -> {NotOne} \cup (FaceKeys \X Nat)]
  BY <1>0 DEF TablesTyped
<1>q. TablesTyped' /\ DataTyped' /\ ImportsAreTyped' /\ CountsTyped' /\ AtRow' => TypeInv'
  BY TypePartsNext DEF TypeInv
\* What a client or the queue does on one of the devices.
<1>c. ASSUME NEW d \in Devices, UNCHANGED <<data, exporting>>, Disturbs(d), TablesTyped', CountsTyped'
      PROVE  TypeInv'
  <2>1. ImportsAreTyped' /\ AtRow'
    BY <1>0, <1>c, DisturbsTyped, AtRowKept
  <2>2. DataTyped'
    BY <1>0, <1>c DEF DataTyped
  <2> QED
    BY <1>q, <1>c, <2>1, <2>2
<1>1. ASSUME NEW d \in Devices, NEW k \in FaceKeys, Recognize(d, k) PROVE TypeInv'
  <2>1. UNCHANGED <<faces, data, exporting, edits, breaks, imported>> /\ Disturbs(d)
        /\ scanned < MaxScanned /\ scanned' = scanned + 1
        /\ recognized' = [recognized EXCEPT ![d] = @ \cup {k}]
    BY <1>1 DEF Recognize
  <2>2. persons' \in [Devices -> Seq(Row)]
        /\ recognizing' \in [Devices -> {NotOne} \cup (FaceKeys \X Nat)]
    <3>1. ASSUME NEW p \in DOMAIN persons[d], recognizing' = [recognizing EXCEPT ![d] = <<k, p>>], persons' = persons
          PROVE  /\ persons' \in [Devices -> Seq(Row)]
                 /\ recognizing' \in [Devices -> {NotOne} \cup (FaceKeys \X Nat)]
      <4>1. p \in Nat
        BY <1>t, LenProperties
      <4> QED
        BY <1>t, <3>1, <4>1
    <3>2. ASSUME persons' = [persons EXCEPT ![d] = Append(@, <<NoName>>)],
                 recognizing' = [recognizing EXCEPT ![d] = <<k, Len(persons[d]) + 1>>]
          PROVE  /\ persons' \in [Devices -> Seq(Row)]
                 /\ recognizing' \in [Devices -> {NotOne} \cup (FaceKeys \X Nat)]
      <4>1. <<NoName>> \in Row /\ persons[d] \in Seq(Row)
        BY <1>t DEF Row, Person
      <4>2. Append(persons[d], <<NoName>>) \in Seq(Row) /\ Len(persons[d]) \in Nat
        BY <4>1, Appended
      <4> QED
        BY <1>t, <3>2, <4>2
    <3> QED
      BY <1>1, <3>1, <3>2 DEF Recognize
  <2>3. recognized' \in [Devices -> SUBSET FaceKeys]
    BY <1>t, <2>1
  <2>4. CountsTyped'
    BY <1>0, <2>1, Counted
  <2>5. TablesTyped'
    BY <1>t, <2>1, <2>2, <2>3 DEF TablesTyped
  <2> QED
    BY <1>c, <2>1, <2>4, <2>5
<1>2. ASSUME NEW d \in Devices, InsertRecognized(d) PROVE TypeInv'
  <2>1. /\ UNCHANGED <<persons, recognized, data, exporting, scanned, edits, breaks, imported>> /\ Disturbs(d)
        /\ recognizing[d] # NotOne /\ recognizing' = [recognizing EXCEPT ![d] = NotOne]
        /\ faces' = [faces EXCEPT ![d] = Append(@, [key |-> recognizing[d][1], person |-> recognizing[d][2]])]
    BY <1>2 DEF InsertRecognized, migrationBounds
  <2>2. faces' \in [Devices -> Seq(Face)]
    <3> DEFINE row == [key |-> recognizing[d][1], person |-> recognizing[d][2]]
               t == faces[d]
    <3>1. row \in Face /\ t \in Seq(Face)
      BY <1>t, <2>1 DEF Face
    <3>2. faces' = [faces EXCEPT ![d] = Append(t, row)]
      BY <2>1
    <3> HIDE DEF row, t
    <3>3. Append(t, row) \in Seq(Face)
      BY ONLY <3>1, Appended
    <3> QED
      BY <1>t, <3>2, <3>3
  <2>3. recognizing' \in [Devices -> {NotOne} \cup (FaceKeys \X Nat)]
    BY <1>t, <2>1
  <2>4. CountsTyped' /\ TablesTyped'
    BY <1>0, <1>t, <2>1, <2>2, <2>3 DEF TablesTyped, CountsTyped
  <2> QED
    BY <1>c, <2>1, <2>4
<1>3. ASSUME NEW d \in Devices, NEW p \in DOMAIN persons[d], NEW n \in PersonNames, Rename(d, p, n)
      PROVE  TypeInv'
  <2>1. /\ UNCHANGED <<faces, recognized, recognizing, data, exporting, scanned, breaks, imported>>
        /\ Disturbs(d) /\ edits < MaxEdits /\ edits' = edits + 1
        /\ persons' = [persons EXCEPT ![d][p] = <<n>>]
    BY <1>3 DEF Rename
  <2>2. persons' \in [Devices -> Seq(Row)]
    <3>1. [persons[d] EXCEPT ![p] = <<n>>] \in Seq(Row)
      <4>1. persons[d] \in Seq(Row) /\ <<n>> \in Row /\ p \in 1 .. Len(persons[d])
        BY <1>t, LenProperties DEF Row, Person
      <4> QED
        BY <4>1, ExceptSeq
    <3> QED
      BY <1>t, <2>1, <3>1
  <2>3. CountsTyped'
    BY <1>0, <2>1, Counted
  <2>4. TablesTyped'
    BY <1>t, <2>1, <2>2 DEF TablesTyped
  <2> QED
    BY <1>c, <2>1, <2>3, <2>4
<1>4. ASSUME NEW d \in Devices, NEW p \in DOMAIN persons[d], NEW r \in DOMAIN persons[d], Merge(d, p, r)
      PROVE  TypeInv'
  <2>1. /\ UNCHANGED <<recognized, recognizing, data, exporting, scanned, breaks, imported>>
        /\ Disturbs(d) /\ edits < MaxEdits /\ edits' = edits + 1
        /\ persons' = [persons EXCEPT ![d] = Without(@, p)]
        /\ faces' = [faces EXCEPT ![d] = [f \in DOMAIN @ |->
                       IF @[f].person = p THEN [@[f] EXCEPT !.person = r] ELSE @[f]]]
    BY <1>4 DEF Merge
  <2>2. persons' \in [Devices -> Seq(Row)]
    <3>0. p # r /\ persons[d][r] # Deleted /\ persons[d] \in Seq(Row)
      BY <1>t, <1>4 DEF Merge
    <3>1. Without(persons[d], p) \in Seq(Row)
      BY <3>0, WithoutRows
    <3> QED
      BY <1>t, <2>1, <3>1
  <2>3. faces' \in [Devices -> Seq(Face)]
    <3> DEFINE row(f) == IF faces[d][f].person = p THEN [faces[d][f] EXCEPT !.person = r] ELSE faces[d][f]
    <3>1. Len(faces[d]) \in Nat /\ DOMAIN faces[d] = 1 .. Len(faces[d])
          /\ \A f \in DOMAIN faces[d] : faces[d][f] \in Face
      BY <1>t, LenProperties, ElementOfSeq
    <3>2. r \in Nat
      BY <1>t, LenProperties
    <3>3. \A f \in 1 .. Len(faces[d]) : row(f) \in Face
      BY <3>1, <3>2 DEF Face
    <3>4. [f \in 1 .. Len(faces[d]) |-> row(f)] \in Seq(Face)
      BY <3>1, <3>3, IsASeq
    <3> QED
      BY <1>t, <2>1, <3>1, <3>4
  <2>4. CountsTyped'
    BY <1>0, <2>1, Counted
  <2>5. TablesTyped'
    BY <1>t, <2>1, <2>2, <2>3 DEF TablesTyped
  <2> QED
    BY <1>c, <2>1, <2>4, <2>5
<1>5. CASE ExportPersons \/ ExportFaces
  <2>1. UNCHANGED <<persons, faces, recognized, recognizing, import, scanned, edits, breaks, imported>>
    BY <1>5 DEF ExportPersons, ExportFaces, migrationBounds
  <2>2. data' \in [persons : Seq(Row), faces : Seq(Face)] /\ exporting' \in BOOLEAN
    BY <1>0, <1>t, <1>5 DEF ExportPersons, ExportFaces, NoData, Devices, DataTyped
  <2>3. TablesTyped' /\ DataTyped' /\ ImportsAreTyped' /\ CountsTyped'
    BY <1>0, <2>1, <2>2 DEF TablesTyped, DataTyped, ImportsAreTyped, CountsTyped
  <2>4. AtRow'
    BY <1>0, <1>5, <2>1 DEF AtRow, ExportPersons, ExportFaces
  <2> QED
    BY <1>q, <2>3, <2>4
<1>6. ASSUME NEW i \in Imports, ImportStep(i) PROVE TypeInv'
  <2>1. PICK n : ImportTyped(n) /\ RowThere(n) /\ (Imports1(i, n) \/ Quiet(i, n))
    BY <1>0, <1>6, RequestStep
  <2>2. /\ UNCHANGED <<recognized, recognizing, data, exporting>>
        /\ persons' \in [Devices -> Seq(Row)] /\ faces' \in [Devices -> Seq(Face)]
        /\ scanned' = scanned /\ edits' = edits
        /\ breaks' = breaks \/ (breaks < MaxBreaks /\ breaks' = breaks + 1)
        /\ imported' = imported \/ (imported < MaxImports /\ imported' = imported + 1)
    BY <1>0, <1>6, ImportStepRest
  <2>3. ImportsAreTyped' /\ AtRow'
    BY <1>0, <2>1, <2>2, ImportsTyped, AtRowKept
  <2>4. CountsTyped'
    BY <1>0, <2>2, Counted
  <2>5. TablesTyped' /\ DataTyped'
    BY <1>0, <1>t, <2>2 DEF TablesTyped, DataTyped
  <2> QED
    BY <1>q, <2>3, <2>4, <2>5
<1>7. CASE UNCHANGED migrationVars
  BY <1>0, <1>q, <1>7 DEF migrationVars, migrationBounds, TablesTyped, DataTyped, ImportsAreTyped, CountsTyped, AtRow
<1> QED
  BY <1>1, <1>2, <1>3, <1>4, <1>5, <1>6, <1>7 DEF MigrationNext

----------------------------------------------------------------------------
(* What an import has done so far                                          *)

\* A table holds a face once.
Once(rows) == \A f, g \in DOMAIN rows : rows[f].key = rows[g].key => f = g

\* On the old device recognition inserts every face once, and so does the export.
OldInv ==
  /\ Once(faces["old"]) /\ Once(data.faces)
  /\ \A f \in DOMAIN faces["old"] : faces["old"][f].key \in recognized["old"]
  /\ recognizing["old"] # NotOne =>
       /\ recognizing["old"][1] \in recognized["old"]
       /\ \A f \in DOMAIN faces["old"] : faces["old"][f].key # recognizing["old"][1]

\* idMap so far, for request q, the persons N of the new device and the data D: a person became
\* a row with its name, the first one of that name, and one that has none a row of its own.
Mapped(q, N, D) ==
  /\ \A p \in DOMAIN q.map :
       /\ p \in DOMAIN D.persons /\ D.persons[p] # Deleted
       /\ q.map[p] \in DOMAIN N /\ N[q.map[p]] = D.persons[p]
       /\ D.persons[p] = <<NoName>> \/ \A s \in DOMAIN N : N[s] = D.persons[p] => q.map[p] <= s
  /\ \A p, r \in DOMAIN q.map : q.map[p] = q.map[r] => p = r \/ D.persons[p] # <<NoName>>

\* Every person is in idMap or still to come.
Covered(q, D) ==
  \A p \in DOMAIN D.persons :
    \/ D.persons[p] = Deleted
    \/ p \in DOMAIN q.map
    \/ q.at \in {"persons", "adding person"} /\ p >= q.person

\* A person is added when nobody has its name.
Adding(q, N, D) ==
  q.at = "adding person" =>
    /\ q.person \in DOMAIN D.persons /\ D.persons[q.person] # Deleted
    /\ D.persons[q.person] = <<NoName>> \/ \A s \in DOMAIN N : N[s] # D.persons[q.person]

\* The faces up to the one it is at are there, and the faces F of the new device that were not
\* there before are exported ones, each once and with the person that its own one became.
Brought(q, F, D) ==
  /\ \A j \in DOMAIN D.faces : j < q.face => \E f \in DOMAIN F : F[f].key = D.faces[j].key
  /\ \A f, g \in DOMAIN F : F[f].key = F[g].key => f = g \/ F[f].key \in q.had
  /\ q.at \in {"persons", "adding person"} => \A f \in DOMAIN F : F[f].key \in q.had
  /\ \A f \in DOMAIN F : F[f].key \notin q.had =>
       \E row \in Range(D.faces) :
         /\ F[f].key = row.key
         /\ F[f].person = IF row.person \in DOMAIN q.map THEN q.map[row.person] ELSE 0
  /\ q.at = "adding face" => /\ q.face \in DOMAIN D.faces
                             /\ \A f \in DOMAIN F : F[f].key # D.faces[q.face].key
  /\ q.at = "done" => q.face > Len(D.faces)

Faithful(q, N, F, D) == Mapped(q, N, D) /\ Covered(q, D) /\ Adding(q, N, D) /\ Brought(q, F, D)

ImportsAreFaithful ==
  \A i \in Imports : import[i].at # "idle" /\ import[i].alone =>
    Faithful(import[i], persons["new"], faces["new"], data)

Tables(N, F, D) ==
  /\ N \in Seq(Row) /\ D.persons \in Seq(Row)
  /\ F \in Seq(Face) /\ D.faces \in Seq(Face)
  /\ Len(D.persons) \in Nat /\ DOMAIN D.persons = 1 .. Len(D.persons)
  /\ Len(D.faces) \in Nat /\ DOMAIN D.faces = 1 .. Len(D.faces)
  /\ Len(N) \in Nat /\ DOMAIN N = 1 .. Len(N)
  /\ Len(F) \in Nat /\ DOMAIN F = 1 .. Len(F)
RequestPlaces(q) == q.person \in Nat \ {0} /\ q.face \in Nat \ {0}

\* An import that has done nothing yet is faithful.
LEMMA FaithfulStart ==
  ASSUME NEW n, NEW N, NEW F, NEW D, NEW alone, Tables(N, F, D),
         Fields(n, "persons", 1, 1, << >>, Keys(F), alone)
  PROVE  Faithful(n, N, F, D)
<1>1. n.at = "persons" /\ n.person = 1 /\ n.face = 1 /\ DOMAIN n.map = {} /\ n.had = Keys(F)
  BY DEF Fields
<1>2. Mapped(n, N, D)
  BY <1>1 DEF Mapped
<1>3. Covered(n, D) /\ Adding(n, N, D)
  BY <1>1 DEF Covered, Adding, Tables
<1>4. \A f \in DOMAIN F : F[f].key \in n.had
  BY <1>1 DEF Keys, Range
<1>5. Brought(n, F, D)
  BY <1>1, <1>4 DEF Brought, Tables
<1> QED
  BY <1>2, <1>3, <1>5 DEF Faithful

\* A person enters idMap with the row that it takes or that was added for it.
LEMMA MappedMore ==
  ASSUME NEW q, NEW n, NEW N, NEW M, NEW D, Mapped(q, N, D),
         DOMAIN N \subseteq DOMAIN M, \A x \in DOMAIN N : M[x] = N[x],
         \A x \in DOMAIN N, s \in DOMAIN M \ DOMAIN N : x <= s,
         NEW p \in DOMAIN D.persons, D.persons[p] # Deleted,
         NEW r \in DOMAIN M, M[r] = D.persons[p],
         D.persons[p] = <<NoName>> => r \notin DOMAIN N,
         D.persons[p] = <<NoName>> \/ \A s \in DOMAIN M : M[s] = D.persons[p] => r <= s,
         n.map = With(q.map, p, r)
  PROVE  Mapped(n, M, D)
<1>1. DOMAIN n.map = DOMAIN q.map \cup {p} /\ n.map[p] = r
  BY DEF With
<1>2. \A x \in DOMAIN q.map : x # p => n.map[x] = q.map[x]
  BY DEF With
<1>3. ASSUME NEW x \in DOMAIN n.map
      PROVE  /\ x \in DOMAIN D.persons /\ D.persons[x] # Deleted
             /\ n.map[x] \in DOMAIN M /\ M[n.map[x]] = D.persons[x]
             /\ D.persons[x] = <<NoName>> \/ \A s \in DOMAIN M : M[s] = D.persons[x] => n.map[x] <= s
  <2>1. CASE x = p
    BY <1>1, <2>1
  <2>2. CASE x # p
    <3>1. x \in DOMAIN q.map /\ n.map[x] = q.map[x]
      BY <1>1, <1>2, <2>2
    <3>2. /\ x \in DOMAIN D.persons /\ D.persons[x] # Deleted
          /\ q.map[x] \in DOMAIN N /\ N[q.map[x]] = D.persons[x]
      BY <3>1 DEF Mapped
    <3>3. D.persons[x] = <<NoName>> \/ \A s \in DOMAIN N : N[s] = D.persons[x] => q.map[x] <= s
      BY <3>1 DEF Mapped
    <3>4. D.persons[x] = <<NoName>> \/ \A s \in DOMAIN M : M[s] = D.persons[x] => q.map[x] <= s
      BY <3>2, <3>3
    <3> QED
      BY <3>1, <3>2, <3>4
  <2> QED
    BY <2>1, <2>2
<1>4. ASSUME NEW x \in DOMAIN n.map, NEW y \in DOMAIN n.map, n.map[x] = n.map[y], D.persons[x] = <<NoName>>
      PROVE  x = y
  <2>1. D.persons[y] = <<NoName>>
    BY <1>3, <1>4
  <2>2. ASSUME NEW z \in DOMAIN n.map, z # p PROVE n.map[z] \in DOMAIN N /\ z \in DOMAIN q.map /\ n.map[z] = q.map[z]
    BY <1>1, <1>2, <2>2 DEF Mapped
  <2>3. CASE x = p /\ y # p
    BY <1>1, <1>4, <2>2, <2>3
  <2>4. CASE x # p /\ y = p
    BY <1>1, <1>4, <2>1, <2>2, <2>4
  <2>5. CASE x # p /\ y # p
    BY <1>4, <2>2, <2>5 DEF Mapped
  <2> QED
    BY <2>3, <2>4, <2>5
<1> QED
  BY <1>3, <1>4 DEF Mapped

\* A look for a person keeps the import faithful.
LEMMA FaithfulPersonLooked ==
  ASSUME NEW q, NEW n, NEW N, NEW F, NEW D, Tables(N, F, D), RequestPlaces(q), Faithful(q, N, F, D),
         q.at = "persons", PersonLooked(q, n, N, D)
  PROVE  Faithful(n, N, F, D)
<1>0. Mapped(q, N, D) /\ Covered(q, D) /\ Brought(q, F, D)
  BY DEF Faithful
<1>1. CASE /\ q.person > Len(D.persons)
           /\ Fields(n, "faces", q.person, q.face, q.map, q.had, q.alone)
  <2>1. Mapped(n, N, D)
    BY <1>0, <1>1 DEF Mapped, Fields
  <2>2. Covered(n, D) /\ Adding(n, N, D)
    BY <1>0, <1>1 DEF Covered, Adding, Fields, Tables, RequestPlaces
  <2>3. Brought(n, F, D)
    BY <1>0, <1>1 DEF Brought, Fields
  <2> QED
    BY <2>1, <2>2, <2>3 DEF Faithful
<1>2. CASE /\ q.person \in DOMAIN D.persons /\ D.persons[q.person] = Deleted
           /\ Fields(n, "persons", q.person + 1, q.face, q.map, q.had, q.alone)
  <2>1. Mapped(n, N, D)
    BY <1>0, <1>2 DEF Mapped, Fields
  <2>2. Covered(n, D) /\ Adding(n, N, D)
    BY <1>0, <1>2 DEF Covered, Adding, Fields, Tables, RequestPlaces
  <2>3. Brought(n, F, D)
    BY <1>0, <1>2 DEF Brought, Fields
  <2> QED
    BY <2>1, <2>2, <2>3 DEF Faithful
<1>3. ASSUME q.person \in DOMAIN D.persons, D.persons[q.person] # Deleted,
             NEW r \in DOMAIN N,
             N[r] = D.persons[q.person], D.persons[q.person] # <<NoName>>,
             \A s \in DOMAIN N : N[s] = D.persons[q.person] => r <= s,
             Fields(n, "persons", q.person + 1, q.face, With(q.map, q.person, r), q.had, q.alone)
      PROVE  Faithful(n, N, F, D)
  <2>0. n.at = "persons" /\ n.person = q.person + 1 /\ n.face = q.face /\ n.had = q.had
        /\ n.map = With(q.map, q.person, r)
    BY <1>3 DEF Fields
  <2>1. Mapped(n, N, D)
    BY <1>0, <1>3, <2>0, MappedMore
  <2>2. Covered(n, D) /\ Adding(n, N, D)
    <3>1. DOMAIN n.map = DOMAIN q.map \cup {q.person}
      BY <2>0 DEF With
    <3> QED
      BY <1>0, <2>0, <3>1 DEF Covered, Adding, Tables, RequestPlaces
  <2>3. Brought(n, F, D)
    BY <1>0, <2>0 DEF Brought
  <2> QED
    BY <2>1, <2>2, <2>3 DEF Faithful
<1>4. CASE /\ q.person \in DOMAIN D.persons /\ D.persons[q.person] # Deleted
           /\ D.persons[q.person] = <<NoName>> \/ \A s \in DOMAIN N : N[s] # D.persons[q.person]
           /\ Fields(n, "adding person", q.person, q.face, q.map, q.had, q.alone)
  <2>0. n.at = "adding person" /\ n.person = q.person /\ n.face = q.face /\ n.map = q.map /\ n.had = q.had
    BY <1>4 DEF Fields
  <2>1. Mapped(n, N, D)
    BY <1>0, <2>0 DEF Mapped
  <2>2. Covered(n, D) /\ Adding(n, N, D)
    BY <1>0, <1>4, <2>0 DEF Covered, Adding
  <2>3. Brought(n, F, D)
    BY <1>0, <2>0 DEF Brought
  <2> QED
    BY <2>1, <2>2, <2>3 DEF Faithful
<1> QED
  BY <1>1, <1>2, <1>3, <1>4 DEF PersonLooked

\* A person that is added keeps the import faithful.
LEMMA FaithfulPersonAdded ==
  ASSUME NEW q, NEW n, NEW N, NEW M, NEW F, NEW D, Tables(N, F, D), RequestPlaces(q), Faithful(q, N, F, D),
         q.at = "adding person", M = Append(N, D.persons[q.person]),
         Fields(n, "persons", q.person + 1, q.face, With(q.map, q.person, Len(N) + 1), q.had, q.alone)
  PROVE  Faithful(n, M, F, D)
<1>0. Mapped(q, N, D) /\ Covered(q, D) /\ Adding(q, N, D) /\ Brought(q, F, D)
  BY DEF Faithful
<1>1. n.at = "persons" /\ n.person = q.person + 1 /\ n.face = q.face /\ n.had = q.had
      /\ n.map = With(q.map, q.person, Len(N) + 1)
  BY DEF Fields
<1>2. /\ q.person \in DOMAIN D.persons /\ D.persons[q.person] # Deleted
      /\ D.persons[q.person] = <<NoName>> \/ \A s \in DOMAIN N : N[s] # D.persons[q.person]
  BY <1>0 DEF Adding
<1>3. PICK e : e = D.persons[q.person]
  OBVIOUS
<1>4. N \in Seq(Row) /\ e \in Row /\ M = Append(N, e) /\ DOMAIN N = 1 .. Len(N) /\ Len(N) \in Nat
  BY <1>2, <1>3, ElementOfSeq DEF Tables
<1>5. /\ DOMAIN M = 1 .. Len(N) + 1 /\ M[Len(N) + 1] = e
      /\ \A x \in DOMAIN N : M[x] = N[x]
  BY ONLY <1>4, Appended
<1>6. /\ DOMAIN N \subseteq DOMAIN M /\ Len(N) + 1 \in DOMAIN M /\ Len(N) + 1 \notin DOMAIN N
      /\ \A x \in DOMAIN N, s \in DOMAIN M \ DOMAIN N : x <= s
      /\ \A s \in DOMAIN M : s \in DOMAIN N \/ s = Len(N) + 1
      /\ Len(N) + 1 <= Len(N) + 1
  BY ONLY <1>4, <1>5
<1>7. D.persons[q.person] = <<NoName>> \/ \A s \in DOMAIN M : M[s] = D.persons[q.person] => Len(N) + 1 <= s
  BY <1>2, <1>5, <1>6
<1>8. Mapped(n, M, D)
  <2>1. M[Len(N) + 1] = D.persons[q.person]
    BY <1>3, <1>5
  <2>2. D.persons[q.person] = <<NoName>> => Len(N) + 1 \notin DOMAIN N
    BY <1>6
  <2> QED
    BY ONLY <1>0, <1>1, <1>2, <1>5, <1>6, <1>7, <2>1, <2>2, MappedMore
<1>9. Covered(n, D) /\ Adding(n, M, D)
  <2>1. DOMAIN n.map = DOMAIN q.map \cup {q.person}
    BY <1>1 DEF With
  <2>2. q.person \in Nat /\ \A p \in DOMAIN D.persons : p \in Nat
    BY ONLY Tables(N, F, D), RequestPlaces(q) DEF Tables, RequestPlaces
  <2>3. ASSUME NEW p \in DOMAIN D.persons, D.persons[p] # Deleted, p \notin DOMAIN n.map
        PROVE  p >= n.person
    <3>1. p >= q.person /\ p # q.person
      BY <1>0, <2>1, <2>3 DEF Covered
    <3>2. p \in Nat /\ q.person \in Nat
      BY <2>2
    <3> QED
      BY ONLY <1>1, <3>1, <3>2
  <2> QED
    BY <1>1, <2>3 DEF Covered, Adding
<1>10. Brought(n, F, D)
  BY <1>0, <1>1 DEF Brought
<1> QED
  BY <1>8, <1>9, <1>10 DEF Faithful

\* A look for a face keeps the import faithful.
LEMMA FaithfulFaceLooked ==
  ASSUME NEW q, NEW n, NEW N, NEW F, NEW D, Tables(N, F, D), RequestPlaces(q), Faithful(q, N, F, D),
         q.at = "faces", FaceLooked(q, n, F, D)
  PROVE  Faithful(n, N, F, D)
<1>0. Mapped(q, N, D) /\ Covered(q, D) /\ Brought(q, F, D)
  BY DEF Faithful
<1>1. n.at \in {"faces", "adding face", "done"} /\ n.map = q.map /\ n.had = q.had
  BY DEF FaceLooked, Fields
<1>2. Mapped(n, N, D) /\ Covered(n, D) /\ Adding(n, N, D)
  BY <1>0, <1>1 DEF Mapped, Covered, Adding
<1>3. ASSUME NEW j \in DOMAIN D.faces, j < n.face PROVE \E f \in DOMAIN F : F[f].key = D.faces[j].key
  <2>1. \/ n.face = q.face
        \/ n.face = q.face + 1 /\ \E f \in DOMAIN F : F[f].key = D.faces[q.face].key
    BY DEF FaceLooked, Fields
  <2>2. j \in Nat /\ q.face \in Nat
    BY DEF Tables, RequestPlaces
  <2>3. j < q.face \/ (j = q.face /\ n.face = q.face + 1)
    BY <1>3, <2>1, <2>2
  <2> QED
    BY <1>0, <2>1, <2>2, <2>3 DEF Brought
<1>4. n.at = "adding face" => /\ n.face \in DOMAIN D.faces
                              /\ \A f \in DOMAIN F : F[f].key # D.faces[n.face].key
  BY DEF FaceLooked, Fields
<1>5. n.at = "done" => n.face > Len(D.faces)
  BY DEF FaceLooked, Fields
<1>6. Brought(n, F, D)
  BY <1>0, <1>1, <1>3, <1>4, <1>5 DEF Brought
<1> QED
  BY <1>2, <1>6 DEF Faithful

\* A face that is added keeps the import faithful.
LEMMA FaithfulFaceAdded ==
  ASSUME NEW q, NEW n, NEW N, NEW F, NEW G, NEW D, Tables(N, F, D), RequestPlaces(q), Faithful(q, N, F, D),
         q.at = "adding face", NEW row \in Face, row.key = D.faces[q.face].key,
         row.person = IF D.faces[q.face].person \in DOMAIN q.map
                      THEN q.map[D.faces[q.face].person] ELSE 0,
         G = Append(F, row),
         Fields(n, "faces", q.person, q.face + 1, q.map, q.had, q.alone)
  PROVE  Faithful(n, N, G, D)
<1>0. Mapped(q, N, D) /\ Covered(q, D) /\ Brought(q, F, D)
  BY DEF Faithful
<1>1. n.at = "faces" /\ n.face = q.face + 1 /\ n.map = q.map /\ n.had = q.had
  BY DEF Fields
<1>2. Mapped(n, N, D) /\ Covered(n, D) /\ Adding(n, N, D)
  BY <1>0, <1>1 DEF Mapped, Covered, Adding
<1>3. /\ q.face \in DOMAIN D.faces
      /\ \A f \in DOMAIN F : F[f].key # D.faces[q.face].key
  BY <1>0 DEF Brought
<1>4. F \in Seq(Face) /\ Len(F) \in Nat /\ DOMAIN F = 1 .. Len(F) /\ row \in Face /\ G = Append(F, row)
  BY ONLY Tables(N, F, D), row \in Face, G = Append(F, row) DEF Tables
<1>5. /\ DOMAIN G = 1 .. Len(F) + 1 /\ G[Len(F) + 1] = row
      /\ \A x \in DOMAIN F : G[x] = F[x]
  BY ONLY <1>4, Appended
<1>6. DOMAIN F \subseteq DOMAIN G /\ Len(F) + 1 \in DOMAIN G /\ \A f \in DOMAIN G : f \in DOMAIN F \/ f = Len(F) + 1
  BY ONLY <1>4, <1>5
<1>7. ASSUME NEW j \in DOMAIN D.faces, j < n.face PROVE \E f \in DOMAIN G : G[f].key = D.faces[j].key
  <2>1. j < q.face \/ j = q.face
    <3>1. j \in Nat /\ q.face \in Nat
      BY ONLY Tables(N, F, D), RequestPlaces(q), j \in DOMAIN D.faces DEF Tables, RequestPlaces
    <3> QED
      BY ONLY <1>1, <1>7, <3>1
  <2>2. CASE j < q.face
    BY <1>0, <1>5, <1>6, <2>2 DEF Brought
  <2>3. CASE j = q.face
    BY <1>5, <1>6, <2>3
  <2> QED
    BY <2>1, <2>2, <2>3
<1>8. ASSUME NEW f \in DOMAIN G, NEW g \in DOMAIN G, G[f].key = G[g].key PROVE f = g \/ G[f].key \in n.had
  <2>1. \A x \in DOMAIN F : G[x].key # row.key
    BY <1>3, <1>5
  <2>2. CASE f \in DOMAIN F /\ g \in DOMAIN F
    BY <1>0, <1>1, <1>5, <1>8, <2>2 DEF Brought
  <2> QED
    BY <1>5, <1>6, <1>8, <2>1, <2>2
<1>9. ASSUME NEW f \in DOMAIN G, G[f].key \notin n.had
      PROVE  \E r \in Range(D.faces) :
               /\ G[f].key = r.key
               /\ G[f].person = IF r.person \in DOMAIN n.map THEN n.map[r.person] ELSE 0
  <2>1. CASE f \in DOMAIN F
    BY <1>0, <1>1, <1>5, <1>9, <2>1 DEF Brought
  <2>2. CASE f = Len(F) + 1
    BY <1>1, <1>3, <1>5, <2>2 DEF Range
  <2> QED
    BY <1>6, <2>1, <2>2
<1>10. Brought(n, G, D)
  BY <1>1, <1>7, <1>8, <1>9 DEF Brought
<1> QED
  BY <1>2, <1>10 DEF Faithful

----------------------------------------------------------------------------
(* The inductive invariant                                                 *)

MigrationInv == TypeInv /\ OldInv /\ ImportsAreFaithful

\* The tables that an import reads and writes are sequences of rows.
LEMMA TablesThere ==
  ASSUME TypeInv
  PROVE  Tables(persons["new"], faces["new"], data)
<1>1. TablesTyped /\ DataTyped
  BY TypeParts DEF TypeInv
<1>2. /\ persons["new"] \in Seq(Row) /\ data.persons \in Seq(Row)
      /\ faces["new"] \in Seq(Face) /\ data.faces \in Seq(Face)
  BY <1>1 DEF TablesTyped, DataTyped, Devices
<1> QED
  BY <1>2, LenProperties DEF Tables

\* No step puts a face into the table of the old device, or into the export, twice.
LEMMA OldInvNext ==
  ASSUME TypeInv, OldInv, [MigrationNext]_migrationVars
  PROVE  OldInv'
<1>0. TablesTyped /\ DataTyped /\ ImportsAreTyped /\ AtRow /\ "old" \in Devices
  BY TypeParts DEF TypeInv, Devices
<1>t. /\ persons \in [Devices -> Seq(Row)] /\ faces \in [Devices -> Seq(Face)]
      /\ recognized \in [Devices -> SUBSET FaceKeys]
      /\ recognizing \in [Devices -> {NotOne} \cup (FaceKeys \X Nat)]
      /\ faces["old"] \in Seq(Face) /\ Len(faces["old"]) \in Nat /\ DOMAIN faces["old"] = 1 .. Len(faces["old"])
  BY <1>0, LenProperties DEF TablesTyped
<1>k. ASSUME UNCHANGED data, faces'["old"] = faces["old"], recognized'["old"] = recognized["old"],
             recognizing'["old"] = recognizing["old"]
      PROVE  OldInv'
  BY <1>k DEF OldInv, Once
<1>1. ASSUME NEW d \in Devices, NEW k \in FaceKeys, Recognize(d, k) PROVE OldInv'
  <2>1. /\ UNCHANGED <<faces, data>> /\ recognizing[d] = NotOne /\ k \notin recognized[d]
        /\ recognized' = [recognized EXCEPT ![d] = @ \cup {k}]
        /\ \E p : recognizing' = [recognizing EXCEPT ![d] = <<k, p>>]
    BY <1>1 DEF Recognize
  <2>2. CASE d = "old"
    <3>1. recognized'["old"] = recognized["old"] \cup {k} /\ recognizing'["old"][1] = k
      BY <1>0, <1>t, <2>1, <2>2
    <3> QED
      BY <2>1, <2>2, <3>1 DEF OldInv, Once
  <2>3. CASE d # "old"
    BY <1>k, <1>t, <2>1, <2>3
  <2> QED
    BY <2>2, <2>3
<1>2. ASSUME NEW d \in Devices, InsertRecognized(d) PROVE OldInv'
  <2>1. /\ UNCHANGED <<recognized, data>> /\ recognizing[d] # NotOne
        /\ recognizing' = [recognizing EXCEPT ![d] = NotOne]
    BY <1>2 DEF InsertRecognized
  <2>2. PICK row : row = [key |-> recognizing[d][1], person |-> recognizing[d][2]]
    OBVIOUS
  <2>3. row \in Face /\ row.key = recognizing[d][1]
    BY <1>t, <2>1, <2>2 DEF Face
  <2>4. faces' = [faces EXCEPT ![d] = Append(faces[d], row)]
    BY <1>2, <2>2 DEF InsertRecognized
  <2>5. CASE d = "old"
    <3> DEFINE F == faces["old"]
               G == faces'["old"]
    <3>0. G = Append(F, row) /\ recognizing'["old"] = NotOne
      BY <1>0, <1>t, <2>1, <2>4, <2>5
    <3>1. F \in Seq(Face) /\ DOMAIN F = 1 .. Len(F) /\ Len(F) \in Nat
      BY <1>t
    <3>5. OldInv /\ row.key = recognizing["old"][1] /\ recognizing["old"] # NotOne
      BY <2>1, <2>3, <2>5
    <3>6. /\ \A f \in DOMAIN F : F[f].key # row.key /\ F[f].key \in recognized["old"]
          /\ row.key \in recognized["old"] /\ Once(F) /\ Once(data.faces)
      BY <3>5 DEF OldInv
    <3> HIDE DEF F, G
    <3>2. DOMAIN G = 1 .. Len(F) + 1 /\ G[Len(F) + 1] = row /\ \A x \in DOMAIN F : G[x] = F[x]
      BY ONLY <2>3, <3>0, <3>1, Appended
    <3>3. \A f \in DOMAIN G : f \in DOMAIN F \/ f = Len(F) + 1
      BY ONLY <3>1, <3>2
    <3>4. Once(G) /\ \A f \in DOMAIN G : G[f].key \in recognized["old"]
      BY ONLY <3>2, <3>3, <3>6 DEF Once
    <3> QED
      BY <2>1, <3>0, <3>4, <3>6 DEF OldInv, G
  <2>6. CASE d # "old"
    BY <1>k, <1>0, <1>t, <2>1, <2>4, <2>6
  <2> QED
    BY <2>5, <2>6
<1>3. ASSUME NEW d \in Devices, NEW p \in DOMAIN persons[d], NEW n \in PersonNames, Rename(d, p, n)
      PROVE  OldInv'
  BY <1>3, <1>k DEF Rename
<1>4. ASSUME NEW d \in Devices, NEW p \in DOMAIN persons[d], NEW r \in DOMAIN persons[d], Merge(d, p, r)
      PROVE  OldInv'
  <2> DEFINE row(f) == IF faces[d][f].person = p THEN [faces[d][f] EXCEPT !.person = r] ELSE faces[d][f]
  <2>1. /\ UNCHANGED <<recognized, recognizing, data>>
        /\ faces' = [faces EXCEPT ![d] = [f \in DOMAIN faces[d] |-> row(f)]]
    BY <1>4 DEF Merge
  <2>2. CASE d = "old"
    <3>1. \A f \in DOMAIN faces["old"] : faces["old"][f] \in Face
      BY <1>t, ElementOfSeq
    <3>2. \A f \in DOMAIN faces["old"] : row(f).key = faces["old"][f].key
      BY <2>2, <3>1 DEF Face
    <3>3. DOMAIN faces'["old"] = DOMAIN faces["old"]
          /\ \A f \in DOMAIN faces["old"] : faces'["old"][f].key = faces["old"][f].key
      BY <1>0, <1>t, <2>1, <2>2, <3>2
    <3> QED
      BY <2>1, <3>3 DEF OldInv, Once
  <2>3. CASE d # "old"
    BY <1>k, <1>0, <1>t, <2>1, <2>3
  <2> QED
    BY <2>2, <2>3
<1>5. CASE ExportPersons \/ ExportFaces
  <2>1. UNCHANGED <<faces, recognized, recognizing>>
        /\ data'.faces \in {<< >>, faces["old"]}
    BY <1>0, <1>5 DEF ExportPersons, ExportFaces, NoData, DataTyped
  <2>2. Once(<< >>)
    BY DEF Once
  <2> QED
    BY <2>1, <2>2 DEF OldInv
<1>6. ASSUME NEW i \in Imports, ImportStep(i) PROVE OldInv'
  BY <1>0, <1>6, <1>k, ImportStepRest
<1>7. CASE UNCHANGED migrationVars
  BY <1>k, <1>7 DEF migrationVars
<1> QED
  BY <1>1, <1>2, <1>3, <1>4, <1>5, <1>6, <1>7 DEF MigrationNext

\* A step of an import leaves the others as they are, or they are no longer alone; its own
\* request must be faithful to the new tables.
LEMMA OthersKept ==
  ASSUME ImportsAreTyped, ImportsAreFaithful, NEW i \in Imports, NEW n, UNCHANGED data,
         \/ Imports1(i, n)
         \/ Quiet(i, n) /\ persons'["new"] = persons["new"] /\ faces'["new"] = faces["new"],
         n.at # "idle" /\ n.alone => Faithful(n, persons'["new"], faces'["new"], data)
  PROVE  ImportsAreFaithful'
<1>1. DOMAIN import = Imports /\ \A j \in Imports : ImportTyped(import[j])
  BY DEF ImportsAreTyped
<1>2. ASSUME NEW j \in Imports, import'[j].at # "idle", import'[j].alone
      PROVE  Faithful(import'[j], persons'["new"], faces'["new"], data)
  <2>1. CASE j = i
    <3>1. import'[j] = n
      BY <1>1, <2>1 DEF Imports1, Quiet
    <3> QED
      BY <1>2, <3>1
  <2>2. CASE j # i
    <3>1. ~ Imports1(i, n)
      <4>1. ~ [import[j] EXCEPT !.alone = FALSE].alone
        BY <1>1 DEF ImportTyped, ImportRequest
      <4> QED
        BY <1>2, <2>2, <4>1 DEF Imports1
    <3>2. import'[j] = import[j] /\ persons'["new"] = persons["new"] /\ faces'["new"] = faces["new"]
      BY <1>1, <2>2, <3>1 DEF Quiet
    <3> QED
      BY <1>2, <3>2 DEF ImportsAreFaithful
  <2> QED
    BY <2>1, <2>2
<1> QED
  BY <1>2 DEF ImportsAreFaithful

\* A step of an import keeps every import that is alone faithful.
LEMMA FaithfulStep ==
  ASSUME TypeInv, ImportsAreFaithful, NEW i \in Imports, ImportStep(i)
  PROVE  ImportsAreFaithful'
<1> DEFINE q == import[i]
           N == persons["new"]
           F == faces["new"]
<1>0. TablesTyped /\ DataTyped /\ ImportsAreTyped /\ AtRow
  BY TypeParts DEF TypeInv
<1>1. Tables(N, F, data) /\ RequestPlaces(q)
  BY <1>0, TablesThere, RequestTypes DEF RequestPlaces
<1>2. UNCHANGED data
  BY <1>0, ImportStepRest
<1>3. q.at # "idle" /\ q.alone => Faithful(q, N, F, data)
  BY DEF ImportsAreFaithful
<1>4. CASE StartImport(i)
  <2>1. PICK n : Quiet(i, n) /\ Fields(n, "persons", 1, 1, << >>, Keys(F), ImportBusy = {} /\ recognizing["new"] = NotOne)
    BY <1>0, <1>4, StartImportStep
  <2>2. UNCHANGED <<persons, faces>>
    BY <1>4 DEF StartImport
  <2>3. Faithful(n, N, F, data)
    BY <1>1, <2>1, FaithfulStart
  <2> QED
    BY <1>0, <1>2, <2>1, <2>2, <2>3, OthersKept
<1>5. CASE LookForPerson(i)
  <2>1. PICK n : Quiet(i, n) /\ PersonLooked(q, n, N, data)
    BY <1>0, <1>5, LookForPersonStep
  <2>2. UNCHANGED <<persons, faces>> /\ q.at = "persons"
    BY <1>5 DEF LookForPerson, ImportAt
  <2>3. n.alone = q.alone
    BY <2>1 DEF PersonLooked, Fields
  <2>4. n.alone => Faithful(n, N, F, data)
    BY <1>1, <1>3, <2>1, <2>2, <2>3, FaithfulPersonLooked
  <2> QED
    BY <1>0, <1>2, <2>1, <2>2, <2>4, OthersKept
<1>6. CASE AddPerson(i)
  <2>1. q.at = "adding person" /\ q.person \in DOMAIN data.persons
    BY <1>0, <1>6 DEF AddPerson, ImportAt, AtRow
  <2>2. persons'["new"] = Append(N, data.persons[q.person])
    BY <1>0, <1>6, <2>1, AddPersonStep
  <2>3. PICK n : Imports1(i, n) /\ Fields(n, "persons", q.person + 1, q.face,
                   With(q.map, q.person, Len(N) + 1), q.had, q.alone)
    BY <1>0, <1>6, <2>1, AddPersonStep
  <2>4. UNCHANGED faces /\ n.alone = q.alone
    BY <1>6, <2>3 DEF AddPerson, Fields
  <2>5. n.alone => Faithful(n, persons'["new"], F, data)
    BY <1>1, <1>3, <2>1, <2>2, <2>3, <2>4, FaithfulPersonAdded
  <2> QED
    BY <1>0, <1>2, <2>3, <2>4, <2>5, OthersKept
<1>7. CASE LookForFace(i)
  <2>1. PICK n : Quiet(i, n) /\ FaceLooked(q, n, F, data)
    BY <1>0, <1>7, LookForFaceStep
  <2>2. UNCHANGED <<persons, faces>> /\ q.at = "faces"
    BY <1>7 DEF LookForFace, ImportAt
  <2>3. n.alone = q.alone
    BY <2>1 DEF FaceLooked, Fields
  <2>4. n.alone => Faithful(n, N, F, data)
    BY <1>1, <1>3, <2>1, <2>2, <2>3, FaithfulFaceLooked
  <2> QED
    BY <1>0, <1>2, <2>1, <2>2, <2>4, OthersKept
<1>8. CASE AddFace(i)
  <2>1. q.at = "adding face" /\ q.face \in DOMAIN data.faces
    BY <1>0, <1>8 DEF AddFace, ImportAt, AtRow
  <2>2. PICK row \in Face : /\ row.key = data.faces[q.face].key
                            /\ row.person = PersonOf(i, data.faces[q.face].person)
                            /\ faces'["new"] = Append(F, row)
    BY <1>0, <1>8, <2>1, AddFaceStep
  <2>3. PICK n : Imports1(i, n) /\ Fields(n, "faces", q.person, q.face + 1, q.map, q.had, q.alone)
    BY <1>0, <1>8, <2>1, AddFaceStep
  <2>4. UNCHANGED persons /\ n.alone = q.alone
    BY <1>8, <2>3 DEF AddFace, Fields
  <2>6. row.person = IF data.faces[q.face].person \in DOMAIN q.map
                     THEN q.map[data.faces[q.face].person] ELSE 0
    BY <2>2 DEF PersonOf
  <2>5. n.alone => Faithful(n, N, faces'["new"], data)
    BY <1>1, <1>3, <2>1, <2>2, <2>3, <2>4, <2>6, FaithfulFaceAdded
  <2> QED
    BY <1>0, <1>2, <2>3, <2>4, <2>5, OthersKept
<1>9. CASE ImportBreaks(i) \/ ImportAnswers(i)
  <2>1. Quiet(i, NoImport) /\ UNCHANGED <<persons, faces>> /\ NoImport.at = "idle"
    BY <1>9 DEF ImportBreaks, ImportAnswers, NoImport
  <2> QED
    BY <1>0, <1>2, <2>1, OthersKept
<1> QED
  BY <1>4, <1>5, <1>6, <1>7, <1>8, <1>9 DEF ImportStep

\* Whatever happens on the new device besides, the imports on it are no longer alone.
LEMMA DisturbedKept ==
  ASSUME ImportsAreTyped, ImportsAreFaithful, NEW d \in Devices, Disturbs(d), UNCHANGED data,
         d = "old" => persons'["new"] = persons["new"] /\ faces'["new"] = faces["new"]
  PROVE  ImportsAreFaithful'
<1>1. DOMAIN import = Imports /\ \A j \in Imports : ImportTyped(import[j])
  BY DEF ImportsAreTyped
<1>2. CASE d = "old"
  <2>1. UNCHANGED import
    BY <1>2 DEF Disturbs
  <2> QED
    BY <1>2, <2>1 DEF ImportsAreFaithful
<1>3. CASE d = "new"
  <2>1. ASSUME NEW j \in Imports PROVE ~ import'[j].alone
    <3>1. import'[j] = [import[j] EXCEPT !.alone = FALSE]
      BY <1>3 DEF Disturbs
    <3> QED
      BY <1>1, <3>1 DEF ImportTyped, ImportRequest
  <2> QED
    BY <2>1 DEF ImportsAreFaithful
<1> QED
  BY <1>2, <1>3 DEF Devices

\* So does every other step.
LEMMA FaithfulNext ==
  ASSUME TypeInv, ImportsAreFaithful, [MigrationNext]_migrationVars
  PROVE  ImportsAreFaithful'
<1>0. TablesTyped /\ ImportsAreTyped /\ AtRow
  BY TypeParts DEF TypeInv
<1>t. persons \in [Devices -> Seq(Row)] /\ faces \in [Devices -> Seq(Face)] /\ "new" \in Devices
  BY <1>0 DEF TablesTyped, Devices
<1>1. ASSUME NEW d \in Devices, NEW k \in FaceKeys, Recognize(d, k) PROVE ImportsAreFaithful'
  <2>1. UNCHANGED <<faces, data>> /\ Disturbs(d) /\ (persons' = persons \/ \E s : persons' = [persons EXCEPT ![d] = s])
    BY <1>1 DEF Recognize
  <2> QED
    BY <1>0, <1>t, <2>1, DisturbedKept
<1>2. ASSUME NEW d \in Devices, InsertRecognized(d) PROVE ImportsAreFaithful'
  <2>1. UNCHANGED <<persons, data>> /\ Disturbs(d) /\ \E s : faces' = [faces EXCEPT ![d] = s]
    BY <1>2 DEF InsertRecognized
  <2> QED
    BY <1>0, <1>t, <2>1, DisturbedKept
<1>3. ASSUME NEW d \in Devices, NEW p \in DOMAIN persons[d], NEW n \in PersonNames, Rename(d, p, n)
      PROVE  ImportsAreFaithful'
  <2>1. UNCHANGED <<faces, data>> /\ Disturbs(d) /\ \E s : persons' = [persons EXCEPT ![d] = s]
    BY <1>3 DEF Rename
  <2> QED
    BY <1>0, <1>t, <2>1, DisturbedKept
<1>4. ASSUME NEW d \in Devices, NEW p \in DOMAIN persons[d], NEW r \in DOMAIN persons[d], Merge(d, p, r)
      PROVE  ImportsAreFaithful'
  <2>1. /\ UNCHANGED data /\ Disturbs(d)
        /\ \E s : persons' = [persons EXCEPT ![d] = s]
        /\ \E s : faces' = [faces EXCEPT ![d] = s]
    BY <1>4 DEF Merge
  <2> QED
    BY <1>0, <1>t, <2>1, DisturbedKept
<1>5. CASE ExportPersons \/ ExportFaces
  BY <1>0, <1>5 DEF ExportPersons, ExportFaces, AtRow, ImportsAreFaithful
<1>6. ASSUME NEW i \in Imports, ImportStep(i) PROVE ImportsAreFaithful'
  BY <1>6, FaithfulStep
<1>7. CASE UNCHANGED migrationVars
  BY <1>7 DEF migrationVars, ImportsAreFaithful
<1> QED
  BY <1>1, <1>2, <1>3, <1>4, <1>5, <1>6, <1>7 DEF MigrationNext

\* The tables of both devices, the export and every import keep their types, whatever rows are
\* merged away and added again.
THEOREM MigrationTypeCorrect == MigrationSpec => []MigrationTypeOK
<1>1. TypeInv => MigrationTypeOK
  BY DEF TypeInv
<1> QED
  BY TypeInvInit, TypeInvNext, <1>1, PTL DEF MigrationSpec

\* The invariant holds at first.
LEMMA MigrationInvInit == MigrationInit => MigrationInv
<1> SUFFICES ASSUME MigrationInit PROVE MigrationInv
  OBVIOUS
<1>1. TypeInv
  BY TypeInvInit
<1>2. OldInv /\ ImportsAreFaithful
  <2>1. "old" \in Devices
    BY DEF Devices
  <2> QED
    BY <2>1 DEF MigrationInit, OldInv, Once, NoData, NoImport, ImportsAreFaithful
<1> QED
  BY <1>1, <1>2 DEF MigrationInv

\* The invariant holds after every step.
LEMMA MigrationInvNext == MigrationInv /\ [MigrationNext]_migrationVars => MigrationInv'
BY TypeInvNext, OldInvNext, FaithfulNext DEF MigrationInv

\* A face that an import brought is there once, with the row that its person became.
LEMMA FaceBrought ==
  ASSUME MigrationInv, NEW i \in Imports, ImportAt(i, "done"), import[i].alone, NoOrphans,
         NEW a \in Range(data.faces), a.key \notin import[i].had, RowsOf(a.key) # {}
  PROVE  /\ Cardinality(RowsOf(a.key)) = 1
         /\ a.person \in DOMAIN import[i].map
         /\ NewPerson(a.key) = import[i].map[a.person]
<1> DEFINE q == import[i]
           F == faces["new"]
<1>1. Brought(q, F, data) /\ Covered(q, data) /\ q.at = "done" /\ Once(data.faces)
  BY DEF MigrationInv, ImportsAreFaithful, Faithful, OldInv, ImportAt
<1>2. PICK f \in RowsOf(a.key) : f = CHOOSE g \in RowsOf(a.key) : TRUE
  OBVIOUS
<1>3. f \in DOMAIN F /\ F[f].key = a.key
  BY DEF RowsOf
<1>4. RowsOf(a.key) = {f}
  <2>1. ASSUME NEW g \in RowsOf(a.key) PROVE g = f
    BY <1>1, <1>3 DEF RowsOf, Brought
  <2> QED
    BY <2>1
<1>5. Cardinality(RowsOf(a.key)) = 1
  BY <1>4, FS_Singleton
<1>6. PICK row \in Range(data.faces) :
        /\ F[f].key = row.key
        /\ F[f].person = IF row.person \in DOMAIN q.map THEN q.map[row.person] ELSE 0
  BY <1>1, <1>3 DEF Brought
<1>7. row = a
  <2>1. PICK j \in DOMAIN data.faces, k \in DOMAIN data.faces : row = data.faces[j] /\ a = data.faces[k]
    BY DEF Range
  <2>2. data.faces[j].key = data.faces[k].key
    BY <1>3, <1>6, <2>1
  <2> QED
    BY <1>1, <2>1, <2>2 DEF Once
<1>8. a.person \in DOMAIN q.map
  <2>1. a.person \in DOMAIN data.persons /\ data.persons[a.person] # Deleted
    BY DEF NoOrphans, Name
  <2> QED
    BY <1>1, <2>1 DEF Covered
<1> QED
  BY <1>2, <1>5, <1>6, <1>7, <1>8 DEF NewPerson

\* At the end of a faithful import the relations are those of the export.
LEMMA MigrationInvSurvive == MigrationInv => RelationsSurvive
<1> SUFFICES ASSUME MigrationInv, NEW i \in Imports, ImportAt(i, "done"), import[i].alone, NoOrphans
             PROVE  /\ \A row \in Range(data.faces) : RowsOf(row.key) # {}
                    /\ \A a, b \in {row \in Range(data.faces) : row.key \notin import[i].had} :
                         /\ Cardinality(RowsOf(a.key)) = 1
                         /\ NewPerson(a.key) \in DOMAIN persons["new"]
                         /\ persons["new"][NewPerson(a.key)] # Deleted
                         /\ NewPerson(a.key) = NewPerson(b.key)
                              <=> \/ a.person = b.person
                                  \/ Name(a.person) = Name(b.person) /\ Name(a.person) # <<NoName>>
  BY DEF RelationsSurvive
<1> DEFINE q == import[i]
           N == persons["new"]
<1>1. Brought(q, faces["new"], data) /\ Mapped(q, N, data) /\ q.at = "done" /\ TypeInv
  BY DEF MigrationInv, ImportsAreFaithful, Faithful, ImportAt
<1>2. Tables(N, faces["new"], data) /\ q.face \in Nat
  BY <1>1, TablesThere, TypeParts, RequestTypes DEF TypeInv
<1>3. ASSUME NEW row \in Range(data.faces) PROVE RowsOf(row.key) # {}
  <2>1. PICK j \in DOMAIN data.faces : row = data.faces[j]
    BY DEF Range
  <2>2. q.face > Len(data.faces) /\ j \in 1 .. Len(data.faces) /\ Len(data.faces) \in Nat
    BY <1>1, <1>2 DEF Brought, Tables
  <2>3. j < q.face
    BY <1>2, <2>2
  <2> QED
    BY <1>1, <2>1, <2>3 DEF Brought, RowsOf
<1>4. ASSUME NEW a \in Range(data.faces), a.key \notin q.had
      PROVE  /\ Cardinality(RowsOf(a.key)) = 1
             /\ a.person \in DOMAIN q.map
             /\ NewPerson(a.key) = q.map[a.person]
             /\ Name(a.person) = data.persons[a.person]
             /\ NewPerson(a.key) \in DOMAIN N
             /\ N[NewPerson(a.key)] = data.persons[a.person] /\ data.persons[a.person] # Deleted
  <2>1. /\ Cardinality(RowsOf(a.key)) = 1
        /\ a.person \in DOMAIN q.map
        /\ NewPerson(a.key) = q.map[a.person]
    BY <1>3, <1>4, FaceBrought
  <2> QED
    BY <1>1, <2>1 DEF Mapped, Name
<1>5. ASSUME NEW a \in Range(data.faces), a.key \notin q.had, NEW b \in Range(data.faces), b.key \notin q.had
      PROVE  NewPerson(a.key) = NewPerson(b.key)
               <=> \/ a.person = b.person
                   \/ Name(a.person) = Name(b.person) /\ Name(a.person) # <<NoName>>
  <2> DEFINE x == a.person
             y == b.person
  <2>1. /\ x \in DOMAIN q.map /\ y \in DOMAIN q.map
        /\ NewPerson(a.key) = q.map[x] /\ NewPerson(b.key) = q.map[y]
        /\ Name(x) = data.persons[x] /\ Name(y) = data.persons[y]
        /\ N[q.map[x]] = data.persons[x] /\ N[q.map[y]] = data.persons[y]
        /\ q.map[x] \in DOMAIN N /\ q.map[y] \in DOMAIN N
    BY <1>4, <1>5
  <2>2. ASSUME q.map[x] = q.map[y] PROVE x = y \/ (data.persons[x] = data.persons[y] /\ data.persons[x] # <<NoName>>)
    BY <1>1, <2>1, <2>2 DEF Mapped
  <2>3. ASSUME data.persons[x] = data.persons[y], data.persons[x] # <<NoName>> PROVE q.map[x] = q.map[y]
    <3>1. q.map[x] <= q.map[y] /\ q.map[y] <= q.map[x]
      BY <1>1, <2>1, <2>3 DEF Mapped
    <3>2. q.map[x] \in Nat /\ q.map[y] \in Nat
      BY <1>2, <2>1 DEF Tables
    <3> QED
      BY ONLY <3>1, <3>2
  <2> QED
    BY <2>1, <2>2, <2>3
<1> QED
  BY <1>3, <1>4, <1>5

\* An undisturbed import keeps who is with whom, whatever went on before and beside it.
THEOREM ImportsKeepRelations == MigrationSpec => []RelationsSurvive
BY MigrationInvInit, MigrationInvNext, MigrationInvSurvive, PTL DEF MigrationSpec

----------------------------------------------------------------------------
(* The three together                                                      *)

\* A step of the three is one of each, or a stutter of it.
LEMMA PartsStep ==
  [PartsNext]_partsVars =>
    [ServerNext]_serverVars /\ [DownloadNext]_downloadVars /\ [MigrationNext]_migrationVars
<1>1. CASE PartsNext
  BY <1>1 DEF PartsNext
<1>2. CASE UNCHANGED partsVars
  BY <1>2 DEF partsVars
<1> QED
  BY <1>1, <1>2

\* File management, the download of the models and the migration behave next to each other as
\* each does by itself.
THEOREM PartsAreAll == PartsSpec => ServerSpec /\ DownloadSpec /\ MigrationSpec
<1>1. PartsInit => ServerInit /\ DownloadInit /\ MigrationInit
  BY DEF PartsInit
<1> QED
  BY <1>1, PartsStep, PTL DEF PartsSpec, ServerSpec, DownloadSpec, MigrationSpec

\* Every variable of the three keeps its type; in particular the file system stays a tree in
\* which no two names lead to one file.
THEOREM PartsTypeCorrect == PartsSpec => []PartsTypeOK
<1>1. FilesTypeOK /\ DownloadTypeOK /\ MigrationTypeOK => PartsTypeOK
  BY DEF PartsTypeOK
<1> QED
  BY <1>1, PartsAreAll, FilesTypeCorrect, DownloadTypeCorrect, MigrationTypeCorrect, PTL

\* What holds of each holds of the three together.
THEOREM PartsStaySafe ==
  PartsSpec => [](/\ FileIsWhole /\ SettingsAgree /\ NothingLost /\ MovesLeaveOne
                  /\ OuterSharesStand /\ ListedPathsResolve /\ ModelsWhole
                  /\ EngineFollowsSettings /\ RelationsSurvive)
BY PartsAreAll, StoreStandsInServer, NothingIsLost, MovesKeepOne, SharesStand, ListingsLeadBack,
   ModelsAreWhole, EngineIsChosen, ImportsKeepRelations, PTL

\* Next to the others, too, the settings are a register of two halves, and a download that
\* reported no error opens the engine.
THEOREM PartsActAsSpecified == PartsSpec => ActsAsRegister /\ DownloadMakesAvailable
BY PartsAreAll, ServerIsRegister, DownloadsMakeAvailable, PTL
=============================================================================
