---------------------------- MODULE FaceMigration ----------------------------
(***************************************************************************)
(* Moving recognised faces from an old device to a new one: GET            *)
(* /api/faces/export reads the persons and then the faces of faces.db, and *)
(* POST /api/faces/import adds them to another one, statement by           *)
(* statement and outside any transaction.  On both devices the recognition *)
(* queue inserts faces and clients rename and merge persons meanwhile, and *)
(* an import may be sent twice.                                            *)
(*                                                                         *)
(* A face is known by its file hash and box, here one key.                 *)
(***************************************************************************)
EXTENDS Naturals, Sequences, FiniteSets, Functions

CONSTANTS FaceKeys,     \* (file hash, box) of faces
          PersonNames,  \* names that users give
          NoName,       \* the name of a person without one
          Imports,      \* goroutines that serve imports
          MaxScanned,   \* bound: faces that recognition inserts
          MaxEdits,     \* bound: renames and merges
          MaxBreaks,    \* bound: statements of an import that fail
          MaxImports    \* bound: imports

ASSUME MigrationAssumption ==
  NoName \notin PersonNames /\ {MaxScanned, MaxEdits, MaxBreaks, MaxImports} \subseteq Nat

Devices == {"old", "new"}
NoData == [persons |-> << >>, faces |-> << >>]
NoImport == [at |-> "idle", person |-> 1, face |-> 1, map |-> << >>, had |-> {}, alone |-> TRUE]

VARIABLES
  persons,   \* persons[d]: names by id up to the highest; Deleted where a merge deleted the row
  faces,     \* faces[d]: rows of faces by id: key and person
  recognized, \* recognized[d]: faces whose files the queue of device d has processed
  recognizing, \* recognizing[d]: a face whose person row is inserted, its own row not yet
  data,      \* what an export returned
  exporting, \* Export has read the persons
  import,    \* import[i]: the import that request i serves
  scanned, edits, breaks, imported   \* how often so far

migrationBounds == <<scanned, edits, breaks, imported>>
migrationVars == <<persons, faces, recognized, recognizing, data, exporting, import, migrationBounds>>

Deleted == << >>
NotOne == << >>

Person == {<<n>> : n \in PersonNames \cup {NoName}}
Face == [key : FaceKeys, person : Nat]
ImportPlaces == {"idle", "persons", "adding person", "faces", "adding face", "done"}

MigrationTypeOK ==
  /\ persons \in [Devices -> Seq(Person \cup {Deleted})] /\ faces \in [Devices -> Seq(Face)]
  /\ recognized \in [Devices -> SUBSET FaceKeys]
  /\ recognizing \in [Devices -> {NotOne} \cup (FaceKeys \X Nat)]
  /\ data \in [persons : Seq(Person \cup {Deleted}), faces : Seq(Face)] /\ exporting \in BOOLEAN
  /\ \A i \in Imports :
       /\ import[i] \in [at : ImportPlaces, person : Nat \ {0}, face : Nat \ {0}, map : {import[i].map},
                         had : SUBSET FaceKeys, alone : BOOLEAN]
       /\ DOMAIN import[i].map \subseteq Nat /\ Range(import[i].map) \subseteq Nat
  /\ DOMAIN import = Imports
  /\ scanned \in 0 .. MaxScanned /\ edits \in 0 .. MaxEdits /\ breaks \in 0 .. MaxBreaks
  /\ imported \in 0 .. MaxImports

MigrationInit ==
  /\ persons = [d \in Devices |-> << >>] /\ faces = [d \in Devices |-> << >>]
  /\ recognized = [d \in Devices |-> {}] /\ recognizing = [d \in Devices |-> NotOne]
  /\ data = NoData /\ exporting = FALSE
  /\ import = [i \in Imports |-> NoImport]
  /\ scanned = 0 /\ edits = 0 /\ breaks = 0 /\ imported = 0

Keys(rows) == {row.key : row \in Range(rows)}

\* Something else touches the rows of a device while an import works on them.
Disturbs(d) ==
  import' = IF d = "new" THEN [i \in Imports |-> [import[i] EXCEPT !.alone = FALSE]] ELSE import

\* After its export, what happens on the old device changes nothing that is modelled.
Looked(d) == d = "old" => exporting \/ data = NoData

----------------------------------------------------------------------------
(* Recognition, and requests of clients                                    *)

\* The queue comes to a face, whether an import brought it or not: it joins a person, or
\* CreatePerson makes one for it first.
Recognize(d, k) ==
  /\ Looked(d) /\ recognizing[d] = NotOne /\ k \notin recognized[d] /\ scanned < MaxScanned
  /\ scanned' = scanned + 1
  /\ recognized' = [recognized EXCEPT ![d] = @ \cup {k}]
  /\ \/ \E p \in {q \in DOMAIN persons[d] : persons[d][q] # Deleted} :
          /\ recognizing' = [recognizing EXCEPT ![d] = <<k, p>>]
          /\ UNCHANGED persons
     \/ /\ persons' = [persons EXCEPT ![d] = Append(@, <<NoName>>)]
        /\ recognizing' = [recognizing EXCEPT ![d] = <<k, Len(persons[d]) + 1>>]
  /\ Disturbs(d)
  /\ UNCHANGED <<faces, data, exporting, edits, breaks, imported>>

InsertRecognized(d) ==
  /\ Looked(d) /\ recognizing[d] # NotOne
  /\ faces' = [faces EXCEPT ![d] = Append(@, [key |-> recognizing[d][1], person |-> recognizing[d][2]])]
  /\ recognizing' = [recognizing EXCEPT ![d] = NotOne]
  /\ Disturbs(d)
  /\ UNCHANGED <<persons, recognized, data, exporting, migrationBounds>>

Rename(d, p, name) ==
  /\ Looked(d) /\ persons[d][p] # Deleted /\ edits < MaxEdits
  /\ edits' = edits + 1
  /\ persons' = [persons EXCEPT ![d][p] = <<name>>]
  /\ Disturbs(d)
  /\ UNCHANGED <<faces, recognized, recognizing, data, exporting, scanned, breaks, imported>>

\* A row is deleted. The ids above the highest that is left are free again: the table has no
\* AUTOINCREMENT.
Without(rows, p) ==
  LET left == {r \in DOMAIN rows : rows[r] # Deleted /\ r # p}
  IN [r \in {r \in DOMAIN rows : \E s \in left : r <= s} |-> IF r = p THEN Deleted ELSE rows[r]]

\* MergePersons: the faces move and the row goes, in one transaction.
Merge(d, from, to) ==
  /\ Looked(d) /\ from # to /\ persons[d][from] # Deleted /\ persons[d][to] # Deleted /\ edits < MaxEdits
  /\ edits' = edits + 1
  /\ faces' = [faces EXCEPT ![d] = [f \in DOMAIN @ |->
                 IF @[f].person = from THEN [@[f] EXCEPT !.person = to] ELSE @[f]]]
  /\ persons' = [persons EXCEPT ![d] = Without(@, from)]
  /\ Disturbs(d)
  /\ UNCHANGED <<recognized, recognizing, data, exporting, scanned, breaks, imported>>

----------------------------------------------------------------------------
(* Export on the old device                                                *)

ExportPersons ==
  /\ ~ exporting /\ data = NoData
  /\ data' = [NoData EXCEPT !.persons = persons["old"]]
  /\ exporting' = TRUE
  /\ UNCHANGED <<persons, faces, recognized, recognizing, import, migrationBounds>>

ExportFaces ==
  /\ exporting
  /\ data' = [data EXCEPT !.faces = faces["old"]]
  /\ exporting' = FALSE
  /\ UNCHANGED <<persons, faces, recognized, recognizing, import, migrationBounds>>

----------------------------------------------------------------------------
(* Import on the new device                                                *)

ImportAt(i, place) == import[i].at = place
ImportBusy == {i \in Imports : ~ ImportAt(i, "idle")}
\* What one import writes disturbs the others.
Imports1(i, q) ==
  import' = [j \in Imports |-> IF j = i THEN q ELSE [import[j] EXCEPT !.alone = FALSE]]
Quiet(i, q) == import' = [import EXCEPT ![i] = q]
Stay == UNCHANGED <<data, exporting, scanned, edits>>

StartImport(i) ==
  /\ ImportAt(i, "idle") /\ data # NoData /\ ~ exporting /\ imported < MaxImports
  /\ imported' = imported + 1
  /\ Quiet(i, [NoImport EXCEPT !.at = "persons", !.had = Keys(faces["new"]),
                               !.alone = (ImportBusy = {} /\ recognizing["new"] = NotOne)])
  /\ UNCHANGED <<persons, faces, recognized, recognizing, data, exporting, scanned, edits, breaks>>

\* idMap[p.ID] = newID
With(map, p, id) == [x \in DOMAIN map \cup {p} |-> IF x = p THEN id ELSE map[x]]

\* The next person: the first row of the same name is taken, where the name is not empty.
LookForPerson(i) ==
  LET q == import[i]
      p == q.person
      same == {r \in DOMAIN persons["new"] : persons["new"][r] = data.persons[p]}
  IN /\ ImportAt(i, "persons")
     /\ IF p > Len(data.persons) THEN Quiet(i, [q EXCEPT !.at = "faces"])
        ELSE IF data.persons[p] = Deleted THEN Quiet(i, [q EXCEPT !.person = p + 1])
        ELSE IF data.persons[p] # <<NoName>> /\ same # {}
             THEN \E r \in same : /\ \A s \in same : r <= s
                                   /\ Quiet(i, [q EXCEPT !.person = p + 1, !.map = With(@, p, r)])
             ELSE Quiet(i, [q EXCEPT !.at = "adding person"])
     /\ Stay /\ UNCHANGED <<persons, faces, recognized, recognizing, breaks, imported>>

AddPerson(i) ==
  LET q == import[i]
  IN /\ ImportAt(i, "adding person")
     /\ persons' = [persons EXCEPT !["new"] = Append(@, data.persons[q.person])]
     /\ Imports1(i, [q EXCEPT !.at = "persons", !.person = @ + 1,
                              !.map = With(@, q.person, Len(persons'["new"]))])
     /\ Stay /\ UNCHANGED <<faces, recognized, recognizing, breaks, imported>>

\* The next face: one that is there is skipped.
LookForFace(i) ==
  LET q == import[i]
  IN /\ ImportAt(i, "faces")
     /\ Quiet(i, IF q.face > Len(data.faces) THEN [q EXCEPT !.at = "done"]
                 ELSE IF data.faces[q.face].key \in Keys(faces["new"])
                      THEN [q EXCEPT !.face = @ + 1]
                      ELSE [q EXCEPT !.at = "adding face"])
     /\ Stay /\ UNCHANGED <<persons, faces, recognized, recognizing, breaks, imported>>

\* A face whose person was not in the list belongs to nobody: idMap answers 0.
PersonOf(i, p) == IF p \in DOMAIN import[i].map THEN import[i].map[p] ELSE 0

\* Mutant: the face keeps the person id of the old device.
AddFaceAsIs(i) ==
  LET q == import[i]
  IN /\ ImportAt(i, "adding face")
     /\ faces' = [faces EXCEPT !["new"] = Append(@, data.faces[q.face])]
     /\ Imports1(i, [q EXCEPT !.at = "faces", !.face = @ + 1])
     /\ Stay /\ UNCHANGED <<persons, recognized, recognizing, breaks, imported>>

AddFace(i) ==
  LET q == import[i]
      row == data.faces[q.face]
  IN /\ ImportAt(i, "adding face")
     /\ faces' = [faces EXCEPT !["new"] = Append(@, [row EXCEPT !.person = PersonOf(i, @)])]
     /\ Imports1(i, [q EXCEPT !.at = "faces", !.face = @ + 1])
     /\ Stay /\ UNCHANGED <<persons, recognized, recognizing, breaks, imported>>

\* A statement fails, or the process dies: what was added stays.
ImportBreaks(i) ==
  /\ i \in ImportBusy /\ ~ ImportAt(i, "done") /\ breaks < MaxBreaks
  /\ breaks' = breaks + 1
  /\ Quiet(i, NoImport)
  /\ Stay /\ UNCHANGED <<persons, faces, recognized, recognizing, imported>>

ImportAnswers(i) ==
  /\ ImportAt(i, "done")
  /\ Quiet(i, NoImport)
  /\ Stay /\ UNCHANGED <<persons, faces, recognized, recognizing, breaks, imported>>

ImportStep(i) ==
  \/ StartImport(i) \/ LookForPerson(i) \/ AddPerson(i) \/ LookForFace(i) \/ AddFace(i)
  \/ ImportBreaks(i) \/ ImportAnswers(i)

MigrationNext ==
  \/ \E d \in Devices : \/ \E k \in FaceKeys : Recognize(d, k)
                        \/ InsertRecognized(d)
                        \/ \E p \in DOMAIN persons[d], n \in PersonNames : Rename(d, p, n)
                        \/ \E p, q \in DOMAIN persons[d] : Merge(d, p, q)
  \/ ExportPersons \/ ExportFaces
  \/ \E i \in Imports : ImportStep(i)

MigrationSpec == MigrationInit /\ [][MigrationNext]_migrationVars

----------------------------------------------------------------------------
(* Properties                                                              *)

RowsOf(k) == {f \in DOMAIN faces["new"] : faces["new"][f].key = k}
NewPerson(k) == faces["new"][CHOOSE f \in RowsOf(k) : TRUE].person
Name(p) == data.persons[p]
NoOrphans == \A row \in Range(data.faces) : row.person \in DOMAIN data.persons /\ Name(row.person) # Deleted

\* An import that nothing disturbed, of an export whose faces all have a person in it, ends
\* with every exported face there; those it brought are there once and belong to a person
\* that exists, two of them to one person if they did before, and only then, unless two
\* persons had one name.  The device may have faces of its own, and earlier imports may have
\* broken off.
RelationsSurvive ==
  \A i \in Imports : ImportAt(i, "done") /\ import[i].alone /\ NoOrphans =>
    /\ \A row \in Range(data.faces) : RowsOf(row.key) # {}
    /\ \A a, b \in {row \in Range(data.faces) : row.key \notin import[i].had} :
         /\ Cardinality(RowsOf(a.key)) = 1
         /\ NewPerson(a.key) \in DOMAIN persons["new"]
         /\ persons["new"][NewPerson(a.key)] # Deleted
         /\ NewPerson(a.key) = NewPerson(b.key)
              <=> \/ a.person = b.person
                  \/ Name(a.person) = Name(b.person) /\ Name(a.person) # <<NoName>>
=============================================================================
