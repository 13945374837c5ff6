--------------------------- MODULE FaceScan_proofs ---------------------------
(***************************************************************************)
(* Theorems about the recognition queue: one loop runs at a time, a person *)
(* has a face of its own for a cover, the images that passes skip are      *)
(* recognised, the persons are the individuals until a client merges some, *)
(* a cluster adds up, and a reset that a crash has cut is done again.      *)
(***************************************************************************)
EXTENDS FaceScan, SequenceTheorems, WellFoundedInduction, TLAPS

\* The flag says whether a loop runs, so a call of TriggerScan that finds it up may rely on
\* the loop (service.go, TriggerScan and scanLoop), for any number of callers.
THEOREM OneLoopRuns == Spec => []OneLoop
<1>1. Init => OneLoop
  BY DEF Init, OneLoop
<1>2. OneLoop /\ [Next]_vars => OneLoop'
  <2> SUFFICES ASSUME OneLoop, [Next]_vars
               PROVE  OneLoop'
    OBVIOUS
  <2>1. ASSUME NEW c \in Callers, Ask(c) \/ Enter(c) \/ MarkQueued(c)
        PROVE  OneLoop'
    BY <2>1 DEF OneLoop, Ask, Enter, MarkQueued
  <2>2. CASE StartPass \/ EndPass \/ StopLoop
    BY <2>2 DEF OneLoop, StartPass, EndPass, StopLoop
  <2>3. CASE Images \/ ProcessedMap \/ ReadClusters \/ NextClusterID
    BY <2>3 DEF OneLoop, Images, ProcessedMap, ReadClusters, NextClusterID
  <2>4. ASSUME NEW e \in todo, HashFile(e)
        PROVE  OneLoop'
    BY <2>4 DEF OneLoop, HashFile
  <2>5. CASE Decode \/ Detect
    BY <2>5 DEF OneLoop, Decode, Detect
  <2>6. ASSUME NEW w \in Who, EmbedFails(w) \/ Embed(w)
        PROVE  OneLoop'
    BY <2>6 DEF OneLoop, EmbedFails, Embed
  <2>7. CASE InsertFace \/ SetPersonCover \/ MarkProcessed \/ PutHash
    BY <2>7 DEF OneLoop, InsertFace, SetPersonCover, MarkProcessed, PutHash
  <2>8. ASSUME NEW p, NEW q, FindPersons(p, q) \/ MergePersons(p, q)
        PROVE  OneLoop'
    BY <2>8 DEF OneLoop, FindPersons, MergePersons
  <2>9. CASE ReloadEngine \/ ResetStore \/ StoreDims
    BY <2>9 DEF OneLoop, ReloadEngine, ResetStore, StoreDims
  <2>10. ASSUME NEW p \in Paths, ChangeFile(p) \/ IndexFile(p)
         PROVE  OneLoop'
    BY <2>10 DEF OneLoop, ChangeFile, IndexFile
  <2>11. CASE Crash
    BY <2>11 DEF OneLoop, Crash
  <2>12. CASE UNCHANGED vars
    BY <2>12 DEF OneLoop, vars
  <2>13. CASE JoinCluster \/ OpenCluster
    BY <2>13 DEF OneLoop, JoinCluster, OpenCluster
  <2> QED
    BY <2>1, <2>2, <2>3, <2>4, <2>5, <2>6, <2>7, <2>8, <2>9, <2>10, <2>11, <2>12, <2>13
    DEF Next, LoopStep
<1> QED
  BY <1>1, <1>2, PTL DEF Spec

----------------------------------------------------------------------------
(* Resets                                                                  *)

\* What the first DELETEs of a reset do: faces go first, the dimension goes last, and a reset
\* that is not a half one leaves no row that speaks of faces.
LEMMA DeleteSteps ==
  ASSUME NEW n \in 0 .. 4, Delete(n)
  PROVE  \/ n = 0 /\ UNCHANGED <<faces, persons, processed, dims, halfReset>>
         \/ /\ n # 0
            /\ faces' = << >>
            /\ persons' = persons \/ persons' = << >>
            /\ processed' = processed \/ processed' = [p \in Paths |-> NoImage]
            /\ dims' = IF n = 4 THEN 0 ELSE dims
            /\ n = 4 => ~ halfReset'
            /\ halfReset' = Leftover'
            /\ ~ halfReset' => DOMAIN persons' = {} /\ \A p \in Paths : processed'[p] = NoImage
<1>1. CASE n = 0
  BY <1>1 DEF Delete
<1>2. CASE n # 0
  <2>1. /\ faces' = << >> /\ (persons' = persons \/ persons' = << >>)
        /\ processed' = processed \/ processed' = [p \in Paths |-> NoImage]
        /\ dims' = IF n = 4 THEN 0 ELSE dims
        /\ halfReset' = Leftover'
    BY <1>2 DEF Delete
  <2>2. ~ Leftover' => DOMAIN persons' = {} /\ \A p \in Paths : processed'[p] = NoImage
    BY DEF Leftover
  <2>3. n = 4 => ~ Leftover'
    <3>1. n = 4 => persons' = << >> /\ processed' = [p \in Paths |-> NoImage]
      BY DEF Delete
    <3>2. DOMAIN << >> = {}
      OBVIOUS
    <3> QED
      BY <3>1, <3>2 DEF Leftover
  <2> QED
    BY <1>2, <2>1, <2>2, <2>3
<1> QED
  BY <1>1, <1>2

\* A reload or a crash runs some of them, and only if the index is of another dimension.
LEMMA ResetSteps ==
  ASSUME ResetStore \/ Crash
  PROVE  /\ \E n \in 0 .. 4 : Delete(n) /\ (n # 0 => reloading = "opened" /\ ResetDue)
         /\ UNCHANGED hashes
<1>1. CASE ResetStore
  <2>1. PICK n \in 0 .. 4 : Delete(n) /\ (n # 0 => ResetDue)
    BY <1>1 DEF ResetStore
  <2> QED
    BY <1>1, <2>1 DEF ResetStore
<1>2. CASE Crash
  <2>1. PICK n \in IF reloading = "opened" /\ ResetDue THEN 0 .. 4 ELSE {0} : Delete(n)
    BY <1>2 DEF Crash
  <2> QED
    BY <1>2, <2>1 DEF Crash
<1> QED
  BY <1>1, <1>2

\* Only reloads and crashes touch the engine and the dimension of the index.
LEMMA PowerSteps ==
  [Next]_vars => UNCHANGED power \/ ReloadEngine \/ ResetStore \/ StoreDims \/ Crash
<1> SUFFICES ASSUME [Next]_vars
             PROVE  UNCHANGED power \/ ReloadEngine \/ ResetStore \/ StoreDims \/ Crash
  OBVIOUS
<1>1. ASSUME NEW c \in Callers, Ask(c) \/ Enter(c) \/ MarkQueued(c)
      PROVE  UNCHANGED power
  BY <1>1 DEF Ask, Enter, MarkQueued
<1>2. CASE StartPass \/ EndPass \/ StopLoop \/ UNCHANGED vars
  BY <1>2 DEF StartPass, EndPass, StopLoop, vars
<1>3. CASE Images \/ ProcessedMap \/ ReadClusters \/ NextClusterID
  BY <1>3 DEF Images, ProcessedMap, ReadClusters, NextClusterID
<1>4. ASSUME NEW e, HashFile(e)
      PROVE  UNCHANGED power
  BY <1>4 DEF HashFile
<1>5. CASE Decode \/ Detect \/ JoinCluster \/ OpenCluster
  BY <1>5 DEF Decode, Detect, JoinCluster, OpenCluster
<1>6. ASSUME NEW w, EmbedFails(w) \/ Embed(w)
      PROVE  UNCHANGED power
  BY <1>6 DEF EmbedFails, Embed
<1>7. CASE InsertFace \/ SetPersonCover \/ MarkProcessed \/ PutHash
  BY <1>7 DEF InsertFace, SetPersonCover, MarkProcessed, PutHash
<1>8. ASSUME NEW p, NEW q, FindPersons(p, q) \/ MergePersons(p, q)
      PROVE  UNCHANGED power
  BY <1>8 DEF FindPersons, MergePersons
<1>9. ASSUME NEW p, ChangeFile(p) \/ IndexFile(p)
      PROVE  UNCHANGED power
  BY <1>9 DEF ChangeFile, IndexFile
<1> QED
  BY <1>1, <1>2, <1>3, <1>4, <1>5, <1>6, <1>7, <1>8, <1>9 DEF Next, LoopStep

----------------------------------------------------------------------------
(* Covers                                                                  *)

\* What the proof needs of the shape of a row, and of the image at hand.
RowShape(f) ==
  f = [hash |-> f.hash, who |-> f.who, engine |-> f.engine, person |-> f.person,
       cluster |-> f.cluster]
JobShape ==
  job = [path |-> job.path, mtime |-> job.mtime, hash |-> job.hash, left |-> job.left,
         engine |-> job.engine, who |-> job.who, person |-> job.person,
         cluster |-> job.cluster, face |-> job.face]
FacesShape == (\E S : faces \in Seq(S)) /\ \A i \in DOMAIN faces : RowShape(faces[i])

\* The face that is about to become a cover is of the person, if the person is still there.
FreshCover ==
  at = "covering" /\ job.person \in DOMAIN persons /\ ~ halfReset =>
    job.face \in DOMAIN faces /\ faces[job.face].person = job.person

CoverInv == JobShape /\ FacesShape /\ FreshCover /\ CoverIsOwn

\* What a new row at the end of the table leaves in place.
LEMMA AppendedRow ==
  ASSUME FacesShape, NEW f, RowShape(f), faces' = Append(faces, f)
  PROVE  /\ FacesShape'
         /\ Len(faces) + 1 \in DOMAIN faces' /\ faces'[Len(faces) + 1] = f
         /\ \A i \in DOMAIN faces : i \in DOMAIN faces' /\ faces'[i] = faces[i]
<1>1. PICK S : faces \in Seq(S)
  BY DEF FacesShape
<1>2. faces \in Seq(S \cup {f}) /\ Len(faces) \in Nat /\ DOMAIN faces = 1 .. Len(faces)
  BY <1>1
<1>3. faces' \in Seq(S \cup {f})
  BY <1>2
<1>4. /\ DOMAIN faces' = 1 .. Len(faces) + 1
      /\ faces'[Len(faces) + 1] = f
      /\ \A i \in 1 .. Len(faces) : faces'[i] = faces[i]
  BY <1>2
<1>5. \A i \in DOMAIN faces' : RowShape(faces'[i])
  BY <1>2, <1>4 DEF FacesShape
<1> QED
  BY <1>2, <1>3, <1>4, <1>5 DEF FacesShape

\* What a merge leaves in place.
LEMMA MergedRows ==
  ASSUME FacesShape, NEW from, NEW to, MergePersons(from, to)
  PROVE  /\ FacesShape'
         /\ DOMAIN faces' = DOMAIN faces
         /\ \A i \in DOMAIN faces : faces[i].person # from => faces'[i].person = faces[i].person
<1>1. PICK S : faces \in Seq(S)
  BY DEF FacesShape
<1>2. Len(faces) \in Nat /\ DOMAIN faces = 1 .. Len(faces)
  BY <1>1
<1>3. faces' = [i \in 1 .. Len(faces) |->
                  [faces[i] EXCEPT !.person = IF @ = from THEN to ELSE @]]
  BY <1>2 DEF MergePersons
<1>4. \A i \in 1 .. Len(faces) :
        RowShape(faces'[i]) /\ (faces[i].person # from => faces'[i].person = faces[i].person)
  BY <1>2, <1>3 DEF FacesShape, RowShape
<1> DEFINE T == {faces'[i] : i \in 1 .. Len(faces)}
<1>5. faces' \in [1 .. Len(faces) -> T]
  BY <1>3
<1>6. faces' \in Seq(T)
  BY <1>2, <1>5, SeqDef
<1> QED
  BY <1>2, <1>3, <1>4, <1>6 DEF FacesShape

LEMMA InitCover == Init => CoverInv
<1> SUFFICES ASSUME Init PROVE CoverInv
  OBVIOUS
<1>1. JobShape
  BY DEF Init, JobShape, NoJob
<1>2. faces = << >> /\ persons = << >>
  BY DEF Init
<1>3. faces \in Seq({}) /\ DOMAIN faces = {} /\ DOMAIN persons = {}
  BY <1>2
<1> QED
  BY <1>1, <1>3 DEF CoverInv, FacesShape, FreshCover, CoverIsOwn

\* Most steps touch neither table, and do not come to the cover.
LEMMA CoverStutter ==
  ASSUME CoverInv, UNCHANGED <<faces, persons, halfReset>>, JobShape',
         at' # "covering" \/ UNCHANGED <<at, job>>
  PROVE  CoverInv'
BY DEF CoverInv, FacesShape, FreshCover, CoverIsOwn

LEMMA NextCover == CoverInv /\ [Next]_vars => CoverInv'
<1> SUFFICES ASSUME CoverInv, [Next]_vars
             PROVE  CoverInv'
  OBVIOUS
<1> USE DEF CoverInv, power
<1>1. ASSUME NEW c \in Callers, Ask(c) \/ Enter(c) \/ MarkQueued(c)
      PROVE  CoverInv'
  BY <1>1, CoverStutter DEF Ask, Enter, MarkQueued, store, pass, JobShape
<1>2. CASE StartPass \/ EndPass \/ StopLoop
  BY <1>2, CoverStutter DEF StartPass, EndPass, StopLoop, store, pass, JobShape
<1>3. CASE Images \/ ProcessedMap \/ ReadClusters \/ NextClusterID
  BY <1>3, CoverStutter DEF Images, ProcessedMap, ReadClusters, NextClusterID, store, JobShape
<1>4. ASSUME NEW e \in todo, HashFile(e)
      PROVE  CoverInv'
  BY <1>4, CoverStutter DEF HashFile, store, JobShape, NoJob
<1>5. CASE Decode \/ Detect
  BY <1>5, CoverStutter DEF Decode, Detect, store, JobShape, NoJob
<1>6. ASSUME NEW w \in Who, EmbedFails(w) \/ Embed(w)
      PROVE  CoverInv'
  BY <1>6, CoverStutter DEF EmbedFails, Embed, store, JobShape
<1>7. CASE JoinCluster
  BY <1>7, CoverStutter DEF JoinCluster, store, JobShape
<1>8. CASE OpenCluster
  <2>1. JobShape' /\ at' # "covering" /\ faces' = faces /\ halfReset' = halfReset
    BY <1>8 DEF OpenCluster, JobShape
  <2>2. \A q \in DOMAIN persons' :
          persons'[q] # 0 => (q \in DOMAIN persons /\ persons'[q] = persons[q])
    BY <1>8 DEF OpenCluster, PersonAdded
  <2> QED
    BY <2>1, <2>2 DEF FacesShape, FreshCover, CoverIsOwn
<1>9. CASE InsertFace
  <2>1. CASE faces' = faces
    BY <1>9, <2>1, CoverStutter DEF InsertFace, JobShape
  <2> DEFINE f == [hash |-> job.hash, who |-> job.who, engine |-> job.engine,
                   person |-> job.person, cluster |-> job.cluster]
  <2>2. CASE faces' # faces
    <3>1. /\ faces' = Append(faces, f)
          /\ job' = [job EXCEPT !.face = Len(faces) + 1]
          /\ persons' = persons /\ halfReset' = halfReset
      BY <1>9, <2>2 DEF InsertFace
    <3>2. JobShape' /\ job'.face = Len(faces) + 1 /\ job'.person = job.person
      BY <3>1 DEF JobShape
    <3>3. RowShape(f) /\ f.person = job.person
      BY DEF RowShape
    <3>4. /\ FacesShape'
          /\ Len(faces) + 1 \in DOMAIN faces' /\ faces'[Len(faces) + 1] = f
          /\ \A i \in DOMAIN faces : i \in DOMAIN faces' /\ faces'[i] = faces[i]
      BY <3>1, <3>3, AppendedRow
    <3> QED
      BY <3>1, <3>2, <3>3, <3>4 DEF FreshCover, CoverIsOwn
  <2> QED
    BY <2>1, <2>2
<1>10. CASE SetPersonCover
  <2>1. faces' = faces /\ job' = job /\ at = "covering" /\ at' = "faces" /\ halfReset' = halfReset
    BY <1>10 DEF SetPersonCover, pass
  <2>2. CASE persons' = [persons EXCEPT ![job.person] = job.face]
    <3>1. /\ DOMAIN persons' = DOMAIN persons
          /\ \A q \in DOMAIN persons :
               persons'[q] = IF q = job.person THEN job.face ELSE persons[q]
      BY <2>2
    <3> QED
      BY <2>1, <3>1 DEF JobShape, FacesShape, FreshCover, CoverIsOwn
  <2>3. CASE persons' = persons
    BY <2>1, <2>3, CoverStutter DEF JobShape
  <2> QED
    BY <1>10, <2>2, <2>3 DEF SetPersonCover
<1>11. CASE MarkProcessed \/ PutHash
  BY <1>11, CoverStutter DEF MarkProcessed, PutHash, pass, JobShape, NoJob
<1>12. ASSUME NEW from, NEW to, FindPersons(from, to)
       PROVE  CoverInv'
  BY <1>12, CoverStutter DEF FindPersons, store, pass, JobShape
<1>13. ASSUME NEW from, NEW to, MergePersons(from, to)
       PROVE  CoverInv'
  <2>1. /\ FacesShape'
        /\ DOMAIN faces' = DOMAIN faces
        /\ \A i \in DOMAIN faces : faces[i].person # from => faces'[i].person = faces[i].person
    BY <1>13, MergedRows
  <2>2. /\ DOMAIN persons' = DOMAIN persons \ {from}
        /\ \A q \in DOMAIN persons \ {from} : persons'[q] = persons[q]
    BY <1>13 DEF MergePersons
  <2>3. at' = at /\ job' = job /\ halfReset' = halfReset
    BY <1>13 DEF MergePersons, pass
  <2> QED
    BY <2>1, <2>2, <2>3 DEF JobShape, FreshCover, CoverIsOwn
<1>14. CASE ReloadEngine
  BY <1>14, CoverStutter DEF ReloadEngine, store, pass, JobShape
<1>15. CASE ResetStore \/ Crash
  <2>1. JobShape' /\ (at' # "covering" \/ UNCHANGED <<at, job>>)
    BY <1>15 DEF ResetStore, Crash, pass, JobShape, NoJob
  <2>2. PICK n \in 0 .. 4 : Delete(n)
    BY <1>15, ResetSteps
  <2>3. CASE n = 0
    BY <2>1, <2>2, <2>3, DeleteSteps, CoverStutter
  <2>4. CASE n # 0
    <3>1. /\ faces' = << >> /\ << >> \in Seq({}) /\ DOMAIN << >> = {}
          /\ ~ halfReset' => DOMAIN persons' = {}
      BY <2>2, <2>4, DeleteSteps
    <3> QED
      BY <2>1, <3>1 DEF FacesShape, FreshCover, CoverIsOwn
  <2> QED
    BY <2>3, <2>4
<1>19. CASE StoreDims
  BY <1>19, CoverStutter DEF StoreDims, store, pass, JobShape
<1>16. ASSUME NEW p \in Paths, ChangeFile(p) \/ IndexFile(p)
       PROVE  CoverInv'
  BY <1>16, CoverStutter DEF ChangeFile, IndexFile, store, pass, JobShape
<1>18. CASE UNCHANGED vars
  BY <1>18, CoverStutter DEF vars, store, pass, JobShape
<1> QED
  BY <1>1, <1>2, <1>3, <1>4, <1>5, <1>6, <1>7, <1>8, <1>9, <1>10, <1>11, <1>12, <1>13, <1>14,
     <1>15, <1>16, <1>18, <1>19 DEF Next, LoopStep

\* The picture shown for a person is a face of that person (service.go, scanOnce; store.go,
\* MergePersons and Reset), for any number of photos, individuals, merges, reloads and crashes,
\* unless a reset has deleted the faces and left the persons.
THEOREM CoversAreOwn == Spec => []CoverIsOwn
<1>1. CoverInv => CoverIsOwn
  BY DEF CoverInv
<1> QED
  BY <1>1, InitCover, NextCover, PTL DEF Spec

----------------------------------------------------------------------------
(* Minima and maxima                                                       *)

\* The order of the naturals as the relation that the library's theorem on minima takes.
Less == {e \in Nat \X Nat : e[1] < e[2]}

LEMMA LessIsWellFounded == IsWellFoundedOn(Less, Nat)
<1>1. OpToRel(<, Nat) = Less
  BY DEF OpToRel, Less
<1> QED
  BY <1>1, NatLessThanWellFounded, Zenon

\* A set of naturals has a smallest member, and Min is it.
LEMMA MinIsIt ==
  ASSUME NEW S, S \subseteq Nat, S # {}
  PROVE  Min(S) \in S /\ \A x \in S : Min(S) <= x
<1>1. PICK m \in S : \A y \in S : ~ (<<y, m>> \in Less)
  BY LessIsWellFounded, WFMin
<1>2. ASSUME NEW y \in S
      PROVE  m <= y
  <2>1. y \in Nat /\ m \in Nat
    OBVIOUS
  <2>2. ~ (y < m)
    BY <1>1, <2>1 DEF Less
  <2> QED
    BY <2>1, <2>2
<1> QED
  BY <1>2 DEF Min

\* A bounded set of naturals has a largest one, and Max is it.
LEMMA MaxIsIt ==
  ASSUME NEW S, S \subseteq Nat, S # {}, NEW n \in Nat, \A x \in S : x <= n
  PROVE  Max(S) \in S /\ \A x \in S : x <= Max(S)
<1> DEFINE T == {m \in Nat : \A x \in S : x <= m}
<1>1. T \subseteq Nat /\ T # {}
  OBVIOUS
<1>2. PICK m \in T : \A y \in T : m <= y
  BY <1>1, MinIsIt
<1>3. m \in S
  <2> SUFFICES ASSUME m \notin S PROVE FALSE
    OBVIOUS
  <2>1. PICK x \in S : TRUE
    OBVIOUS
  <2>2. m \in Nat /\ x \in Nat /\ x <= m /\ x # m
    BY <2>1, <1>2
  <2>3. m - 1 \in Nat
    BY <2>2
  <2>4. ASSUME NEW y \in S
        PROVE  y <= m - 1
    <3>1. y \in Nat /\ y <= m /\ y # m
      BY <1>2
    <3> QED
      BY <3>1, <2>2
  <2>5. m - 1 \in T
    BY <2>3, <2>4
  <2> HIDE DEF T
  <2> QED
    BY <1>2, <2>2, <2>5
<1> QED
  BY <1>2, <1>3 DEF Max
----------------------------------------------------------------------------
(* Types                                                                   *)

JobType == [path : Paths \cup {<< >>}, mtime : Mtime \cup {0}, hash : Hashes \cup {NoHash},
            left : SUBSET Who, engine : 0 .. MaxReloads, who : Who \cup {<< >>},
            person : Nat, cluster : Nat, face : Nat]
ClusterType == [id : Nat, person : Nat, who : SUBSET (Who \X (Nat \ {0}))]

\* The engine that is open is the latest, and Reload holds the mutex only for one it opened.
Engines ==
  /\ engine \in {0, reloads}
  /\ reloading # "no" => engine # 0

\* From the hash on a pass has an image at hand, and from the detector on its engine.
JobAtHand ==
  /\ at \in {"hashed", "decoded", "faces", "embedded", "inserting", "covering", "linking"} =>
       job.path \in Paths /\ job.mtime \in Mtime /\ job.hash \in Hashes
  /\ at = "hashed" => job.left = {}
  /\ at = "faces" /\ job.left # {} => job.engine # 0
  /\ at \in {"embedded", "inserting", "covering"} => job.engine # 0 /\ job.who \in Who

\* Ids come from sqlite's tables, which are finite.
Bounded == \E n \in Nat : \A q \in DOMAIN persons : q <= n
FacesBounded == \E n \in Nat : \A i \in DOMAIN faces : faces[i].cluster <= n

\* TypeOK and what it needs, by the parts of the state that actions leave alone together.
WorldTyped ==
  /\ file \in [Paths -> [there : BOOLEAN, mtime : Mtime]]
  /\ changes \in 0 .. MaxChanges
  /\ indexed \in [Paths -> 0 .. MaxMtime]
PowerTyped ==
  /\ engine \in 0 .. MaxReloads
  /\ reloads \in 0 .. MaxReloads
  /\ reloading \in {"no", "opened", "checked"}
  /\ dims \in Nat
  /\ halfReset \in BOOLEAN
  /\ Engines
LoopTyped ==
  /\ scanning \in BOOLEAN
  /\ queued \in BOOLEAN
  /\ caller \in [Callers -> {"idle", "asking", "refused"}]
  /\ triggers \in 0 .. MaxTriggers
PassTyped ==
  /\ todo \subseteq Paths \X Mtime
  /\ clusters \subseteq ClusterType
  /\ nextCluster \in Nat
JobTyped ==
  /\ at \in Phase
  /\ job \in JobType
  /\ JobAtHand
PersonsTyped == Bounded /\ \A q \in DOMAIN persons : q \in Nat \ {0} /\ persons[q] \in Nat
FacesTyped == faces \in Seq(Face) /\ FacesBounded
ImagesTyped == processed \in [Paths -> Image] /\ hashes \in [Paths -> Image]
RestTyped ==
  /\ merging \subseteq Nat \X Nat
  /\ merges \in 0 .. MaxMerges
  /\ crashes \in 0 .. MaxCrashes
  /\ faults \in 0 .. MaxFaults
  /\ faulty \in BOOLEAN

TypeInv == /\ WorldTyped /\ PowerTyped /\ LoopTyped /\ PassTyped /\ JobTyped
           /\ PersonsTyped /\ FacesTyped /\ ImagesTyped /\ RestTyped

LEMMA TypeInvTypes == TypeInv => TypeOK
<1>1. PassTyped => \A c \in clusters : c.id \in Nat /\ c.person \in Nat /\ c.who \subseteq Who \X Nat
  BY DEF PassTyped, ClusterType
<1>2. JobTyped => job.left \subseteq Who
  BY DEF JobTyped, JobType
<1> QED
  BY <1>1, <1>2 DEF TypeInv, TypeOK, WorldTyped, PowerTyped, LoopTyped, PassTyped, JobTyped, PersonsTyped,
     FacesTyped, ImagesTyped, RestTyped, JobAtHand

LEMMA BoundsHold ==
  /\ MaxMtime \in Nat /\ 1 \in Mtime /\ Mtime \subseteq Nat
  /\ MaxChanges \in Nat /\ MaxTriggers \in Nat /\ MaxMerges \in Nat
  /\ MaxReloads \in Nat /\ MaxCrashes \in Nat /\ MaxFaults \in Nat
  /\ \A n \in Nat : 0 \in 0 .. n
BY BoundsAssumption DEF Mtime

LEMMA HashIsTyped ==
  ASSUME TypeInv, NEW p \in Paths
  PROVE  HashOf(p) \in Hashes /\ Shows[HashOf(p)] \subseteq Who
<1>1. file[p].mtime \in Mtime
  BY DEF TypeInv, WorldTyped
<1>2. Content[p] \in [Mtime -> Hashes]
  BY ContentAssumption
<1> QED
  BY <1>1, <1>2, ShowsAssumption DEF HashOf

\* CreatePerson takes an id above all of the table.
LEMMA NewPersonIsNew ==
  ASSUME TypeInv
  PROVE  NewPerson \in Nat \ {0} /\ \A q \in DOMAIN persons : q < NewPerson
<1> DEFINE S == DOMAIN persons \cup {0}
<1>1. PICK n \in Nat : \A q \in DOMAIN persons : q <= n
  BY DEF TypeInv, PersonsTyped, Bounded
<1>2. DOMAIN persons \subseteq Nat
  BY DEF TypeInv, PersonsTyped
<1>3. S \subseteq Nat /\ S # {} /\ \A x \in S : x <= n
  BY <1>1, <1>2
<1>4. Max(S) \in S /\ \A x \in S : x <= Max(S)
  BY <1>3, MaxIsIt
<1>5. Max(S) \in Nat /\ \A q \in DOMAIN persons : q \in Nat /\ q <= Max(S)
  BY <1>3, <1>4
<1>6. NewPerson = Max(S) + 1
  BY DEF NewPerson
<1> HIDE DEF S
<1> QED
  BY <1>5, <1>6

\* NextClusterID gives an id above all of the table.
LEMMA NextIdIsNew ==
  ASSUME TypeInv
  PROVE  /\ Max(ClusterIds \cup {0}) + 1 \in Nat \ {0}
         /\ \A i \in DOMAIN faces : faces[i].cluster < Max(ClusterIds \cup {0}) + 1
<1> DEFINE S == ClusterIds \cup {0}
<1>1. PICK n \in Nat : \A i \in DOMAIN faces : faces[i].cluster <= n
  BY DEF TypeInv, FacesTyped, FacesBounded
<1>2. \A i \in DOMAIN faces : faces[i] \in Face
  BY DEF TypeInv, FacesTyped
<1>3. \A i \in DOMAIN faces : faces[i].cluster \in Nat
  BY <1>2 DEF Face
<1>4. S \subseteq Nat /\ S # {} /\ \A x \in S : x <= n
  BY <1>1, <1>3 DEF ClusterIds
<1>5. Max(S) \in S /\ \A x \in S : x <= Max(S)
  BY <1>4, MaxIsIt
<1>6. \A i \in DOMAIN faces : faces[i].cluster \in S
  BY DEF ClusterIds
<1> HIDE DEF S
<1>7. Max(S) \in Nat /\ \A i \in DOMAIN faces : faces[i].cluster <= Max(S)
  BY <1>4, <1>5, <1>6
<1>8. Max(S) + 1 \in Nat \ {0} /\ \A i \in DOMAIN faces : faces[i].cluster < Max(S) + 1
  BY <1>3, <1>7
<1> QED
  BY <1>8 DEF S

\* A cluster that Clusters reads: the ids, a person and the individuals of its members.
LEMMA ClusterReads ==
  ASSUME TypeInv, NEW id \in ClusterIds
  PROVE  /\ Cluster(id) \in ClusterType
         /\ Cluster(id).id = id
         /\ Cluster(id).who = {<<faces[i].who, DimsOf[faces[i].engine]>> : i \in Members(id)}
         /\ \E i \in DOMAIN faces : faces[i].cluster = id /\ Cluster(id).person = faces[i].person
<1> DEFINE W == {<<faces[i].who, DimsOf[faces[i].engine]>> : i \in Members(id)}
           m == Min(Members(id))
<1>1. faces \in Seq(Face) /\ DOMAIN faces \subseteq Nat
  BY DEF TypeInv, FacesTyped
<1>2. Members(id) \subseteq Nat /\ Members(id) # {}
  BY <1>1 DEF Members, ClusterIds
<1>3. m \in Members(id)
  BY <1>2, MinIsIt
<1>4. m \in DOMAIN faces /\ faces[m].cluster = id
  BY <1>3 DEF Members
<1>5. \A i \in DOMAIN faces : faces[i] \in Face
  BY <1>1
<1>6. /\ faces[m].person \in Nat /\ id \in Nat
      /\ \A i \in Members(id) : faces[i].who \in Who /\ faces[i].engine \in Engine
  BY <1>4, <1>5 DEF Face, Members
<1>7. W \subseteq Who \X (Nat \ {0})
  BY <1>6, DimsAssumption
<1>8. Cluster(id) = [id |-> id, person |-> faces[m].person, who |-> W]
  BY DEF Cluster
<1> HIDE DEF W, m
<1>9. Cluster(id) \in ClusterType /\ Cluster(id).id = id /\ Cluster(id).who = W
      /\ Cluster(id).person = faces[m].person
  BY <1>6, <1>7, <1>8 DEF ClusterType
<1> QED
  BY <1>4, <1>9 DEF W

LEMMA NoJobTyped == NoJob \in JobType
<1>1. 0 \in Nat /\ 0 \in 0 .. MaxReloads /\ {} \in SUBSET Who
  BY BoundsHold
<1> QED
  BY <1>1 DEF NoJob, JobType

LEMMA InitType == Init => TypeInv
<1> SUFFICES ASSUME Init PROVE TypeInv
  OBVIOUS
<1>1. PassTyped /\ LoopTyped
  BY BoundsHold DEF Init, PassTyped, LoopTyped
<1>7. JobTyped
  BY NoJobTyped DEF Init, JobTyped, Phase, JobAtHand
<1>2. faces = << >> /\ persons = << >> /\ faces \in Seq(Face)
  BY DEF Init
<1>3. DOMAIN faces = {} /\ DOMAIN persons = {}
  BY <1>2
<1>4. PersonsTyped /\ FacesTyped
  BY <1>2, <1>3 DEF PersonsTyped, FacesTyped, Bounded, FacesBounded
<1>5. WorldTyped
  BY BoundsHold DEF Init, WorldTyped, Mtime
<1>6. PowerTyped
  BY BoundsHold DEF Init, PowerTyped, Engines
<1>8. ImagesTyped
  BY DEF Init, ImagesTyped, Image
<1>9. RestTyped
  BY BoundsHold DEF Init, RestTyped
<1> QED
  BY <1>1, <1>4, <1>5, <1>6, <1>7, <1>8, <1>9 DEF TypeInv

\* Parts that a step leaves alone.
LEMMA TypedParts ==
  ASSUME TypeInv
  PROVE  /\ UNCHANGED world => WorldTyped'
         /\ UNCHANGED power => PowerTyped'
         /\ UNCHANGED <<scanning, queued, caller, triggers>> => LoopTyped'
         /\ UNCHANGED <<todo, clusters, nextCluster>> => PassTyped'
         /\ UNCHANGED <<at, job>> => JobTyped'
         /\ UNCHANGED persons => PersonsTyped'
         /\ UNCHANGED faces => FacesTyped'
         /\ UNCHANGED <<processed, hashes>> => ImagesTyped'
         /\ UNCHANGED <<merging, merges, crashes, faults, faulty>> => RestTyped'
<1> USE DEF TypeInv
<1>1. UNCHANGED world => WorldTyped'
  BY DEF WorldTyped, world
<1>2. UNCHANGED power => PowerTyped'
  BY DEF PowerTyped, power, Engines
<1>3. UNCHANGED <<scanning, queued, caller, triggers>> => LoopTyped'
  BY DEF LoopTyped
<1>4. UNCHANGED <<todo, clusters, nextCluster>> => PassTyped'
  BY DEF PassTyped
<1>5. UNCHANGED <<at, job>> => JobTyped'
  BY DEF JobTyped, JobAtHand
<1>6. UNCHANGED persons => PersonsTyped'
  BY DEF PersonsTyped, Bounded
<1>7. UNCHANGED faces => FacesTyped'
  BY DEF FacesTyped, FacesBounded
<1>8. UNCHANGED <<processed, hashes>> => ImagesTyped'
  BY DEF ImagesTyped
<1>9. UNCHANGED <<merging, merges, crashes, faults, faulty>> => RestTyped'
  BY DEF RestTyped
<1> QED
  BY <1>1, <1>2, <1>3, <1>4, <1>5, <1>6, <1>7, <1>8, <1>9

\* A statement may fail as often as the bound says.
LEMMA FaultTyped ==
  ASSUME TypeInv, UNCHANGED <<merging, merges, crashes>>, NoFault \/ Ignored \/ Fault
  PROVE  RestTyped'
<1>1. faults' = faults \/ (faults < MaxFaults /\ faults' = faults + 1)
  BY DEF NoFault, Ignored, Fault, mishaps
<1>2. faults' \in 0 .. MaxFaults
  BY <1>1, BoundsHold DEF TypeInv, RestTyped
<1>3. faulty' \in BOOLEAN
  BY DEF NoFault, Ignored, Fault, mishaps, TypeInv, RestTyped
<1> QED
  BY <1>2, <1>3 DEF TypeInv, RestTyped

\* What InsertFace makes of the table.
LEMMA AppendedFace ==
  ASSUME faces \in Seq(Face), NEW f \in Face, faces' = Append(faces, f)
  PROVE  /\ faces' \in Seq(Face) /\ DOMAIN faces' = 1 .. Len(faces) + 1
         /\ faces'[Len(faces) + 1] = f
         /\ \A i \in 1 .. Len(faces) : faces'[i] = faces[i]
<1>1. Len(faces) \in Nat /\ DOMAIN faces = 1 .. Len(faces)
  OBVIOUS
<1>2. faces' \in Seq(Face)
  OBVIOUS
<1> QED
  BY <1>1, <1>2

\* What a reset leaves of the tables.
LEMMA ResetTyped ==
  ASSUME TypeInv, ResetStore \/ Crash
  PROVE  /\ PersonsTyped' /\ FacesTyped' /\ ImagesTyped'
         /\ dims' \in Nat /\ halfReset' \in BOOLEAN
<1>1. PICK n \in 0 .. 4 : Delete(n)
  BY ResetSteps
<1>2. hashes' = hashes
  BY ResetSteps
<1>3. CASE n = 0
  BY <1>1, <1>2, <1>3, DeleteSteps, TypedParts DEF TypeInv, PowerTyped
<1>4. CASE n # 0
  <2>1. /\ faces' = << >>
        /\ persons' = persons \/ persons' = << >>
        /\ processed' = processed \/ processed' = [p \in Paths |-> NoImage]
        /\ dims' = IF n = 4 THEN 0 ELSE dims
        /\ halfReset' = Leftover'
    BY <1>1, <1>4, DeleteSteps
  <2>2. faces' \in Seq(Face) /\ DOMAIN faces' = {}
    BY <2>1
  <2>3. PersonsTyped'
    <3>1. CASE persons' = << >>
      <4>1. DOMAIN persons' = {}
        BY <3>1
      <4> QED
        BY <4>1 DEF PersonsTyped, Bounded
    <3> QED
      BY <2>1, <3>1, TypedParts
  <2>4. FacesTyped'
    BY <2>2 DEF FacesTyped, FacesBounded
  <2>5. ImagesTyped'
    BY <1>2, <2>1 DEF TypeInv, ImagesTyped, Image
  <2>6. dims' \in Nat /\ halfReset' \in BOOLEAN
    BY <2>1 DEF TypeInv, PowerTyped, Leftover
  <2> QED
    BY <2>3, <2>4, <2>5, <2>6
<1> QED
  BY <1>3, <1>4

LEMMA NextType == TypeInv /\ [Next]_vars => TypeInv'
<1> SUFFICES ASSUME TypeInv, [Next]_vars
             PROVE  TypeInv'
  OBVIOUS
<1>0. JobTyped /\ PassTyped /\ PersonsTyped /\ FacesTyped /\ ImagesTyped /\ LoopTyped /\ PowerTyped
      /\ WorldTyped /\ RestTyped
  BY DEF TypeInv
<1> USE TypedParts DEF TypeInv
<1>1. ASSUME NEW c \in Callers, Ask(c) \/ Enter(c) \/ MarkQueued(c)
      PROVE  TypeInv'
  <2>0. triggers' \in 0 .. MaxTriggers
    BY <1>0, <1>1, BoundsHold DEF Ask, Enter, MarkQueued, LoopTyped
  <2>1. LoopTyped'
    BY <1>0, <1>1, <2>0 DEF Ask, Enter, MarkQueued, LoopTyped
  <2>2. JobTyped'
    BY <1>0, <1>1 DEF Ask, Enter, MarkQueued, JobTyped, JobAtHand, Phase, pass
  <2> QED
    BY <1>1, <2>1, <2>2 DEF Ask, Enter, MarkQueued, pass, store, requests, mishaps
<1>2. CASE StartPass \/ EndPass \/ StopLoop
  <2>1. LoopTyped'
    BY <1>0, <1>2 DEF StartPass, EndPass, StopLoop, LoopTyped, asking
  <2>2. JobTyped'
    BY <1>0, <1>2 DEF StartPass, EndPass, StopLoop, JobTyped, JobAtHand, Phase, pass
  <2> QED
    BY <1>2, <2>1, <2>2 DEF StartPass, EndPass, StopLoop, pass, store, requests, mishaps
<1>3. CASE Images \/ ProcessedMap
  <2>1. PassTyped'
    BY <1>0, <1>3 DEF Images, ProcessedMap, PassTyped, WorldTyped, Mtime
  <2>2. JobTyped'
    BY <1>0, <1>3 DEF Images, ProcessedMap, JobTyped, JobAtHand, Phase
  <2>3. RestTyped'
    BY <1>3, FaultTyped DEF Images, ProcessedMap, requests
  <2> QED
    BY <1>3, <2>1, <2>2, <2>3 DEF Images, ProcessedMap, asking, store
<1>4. CASE ReadClusters
  <2>1. PassTyped'
    BY <1>0, <1>4, ClusterReads DEF ReadClusters, PassTyped
  <2>2. JobTyped'
    BY <1>0, <1>4 DEF ReadClusters, JobTyped, JobAtHand, Phase
  <2>3. RestTyped'
    BY <1>4, FaultTyped DEF ReadClusters, requests
  <2> QED
    BY <1>4, <2>1, <2>2, <2>3 DEF ReadClusters, asking, store
<1>5. CASE NextClusterID
  <2>1. PassTyped'
    BY <1>0, <1>5, NextIdIsNew DEF NextClusterID, PassTyped
  <2>2. JobTyped'
    BY <1>0, <1>5 DEF NextClusterID, JobTyped, JobAtHand, Phase
  <2>3. RestTyped'
    BY <1>5, FaultTyped DEF NextClusterID, requests
  <2> QED
    BY <1>5, <2>1, <2>2, <2>3 DEF NextClusterID, asking, store
<1>6. ASSUME NEW e \in todo, HashFile(e)
      PROVE  TypeInv'
  <2>1. e[1] \in Paths /\ e[2] \in Mtime /\ HashOf(e[1]) \in Hashes
    BY <1>0, HashIsTyped DEF PassTyped
  <2>2. JobTyped'
    <3>1. CASE file[e[1]].there
      <4>1. LET j == [NoJob EXCEPT !.path = e[1], !.mtime = e[2], !.hash = HashOf(e[1])] IN
              /\ j \in JobType
              /\ j.path = e[1] /\ j.mtime = e[2] /\ j.hash = HashOf(e[1]) /\ j.left = {}
        BY <2>1, NoJobTyped DEF JobType, NoJob
      <4> QED
        BY <1>6, <2>1, <3>1, <4>1 DEF HashFile, JobTyped, JobAtHand, Phase
    <3>2. CASE ~ file[e[1]].there
      BY <1>6, <3>2 DEF HashFile
    <3> QED
      BY <3>1, <3>2
  <2>3. PassTyped'
    BY <1>0, <1>6 DEF HashFile, PassTyped
  <2> QED
    BY <1>6, <2>2, <2>3 DEF HashFile, asking, store, requests, mishaps
<1>7. CASE Decode
  <2>1. Shows[HashOf(job.path)] \subseteq Who
    BY <1>0, <1>7, HashIsTyped DEF Decode, JobTyped, JobAtHand
  <2>2. JobTyped'
    BY <1>0, <1>7, <2>1 DEF Decode, JobTyped, JobType, JobAtHand, Phase
  <2>3. RestTyped'
    BY <1>0, <1>7 DEF Decode, RestTyped, NoFault, mishaps, requests
  <2> QED
    BY <1>7, <2>2, <2>3 DEF Decode, asking, store
<1>8. CASE Detect
  <2>1. JobTyped'
    <3>1. CASE job' = NoJob /\ at' = "next"
      BY <3>1, BoundsHold DEF JobTyped, JobType, JobAtHand, NoJob, Phase
    <3>2. CASE engine # 0 /\ job' = [job EXCEPT !.engine = engine] /\ at' = "faces"
      BY <1>0, <1>8, <3>2 DEF Detect, JobTyped, JobType, JobAtHand, PowerTyped, Phase
    <3> QED
      BY <1>8, <3>1, <3>2 DEF Detect
  <2> QED
    BY <1>8, <2>1 DEF Detect, asking, store, requests, mishaps
<1>9. ASSUME NEW w \in Who, EmbedFails(w) \/ Embed(w)
      PROVE  TypeInv'
  <2>1. JobTyped'
    BY <1>0, <1>9 DEF EmbedFails, Embed, JobTyped, JobType, JobAtHand, Phase
  <2>2. RestTyped'
    BY <1>0, <1>9 DEF EmbedFails, Embed, RestTyped, mishaps, requests
  <2> QED
    BY <1>9, <2>1, <2>2 DEF EmbedFails, Embed, asking, store
<1>10. CASE JoinCluster
  <2>1. JobTyped'
    BY <1>0, <1>10 DEF JoinCluster, Matching, JobTyped, JobType, PassTyped, ClusterType, JobAtHand,
       Phase
  <2> QED
    BY <1>10, <2>1 DEF JoinCluster, asking, store, requests, mishaps
<1>11. CASE OpenCluster
  <2>1. NewPerson \in Nat \ {0} /\ \A q \in DOMAIN persons : q < NewPerson
    BY NewPersonIsNew
  <2>2. PersonsTyped'
    <3>1. CASE PersonAdded
      <4>1. /\ DOMAIN persons' = DOMAIN persons \cup {NewPerson}
            /\ \A q \in DOMAIN persons' :
                 persons'[q] = IF q = NewPerson THEN 0 ELSE persons[q]
        BY <3>1 DEF PersonAdded
      <4>2. \A q \in DOMAIN persons' : q <= NewPerson
        BY <1>0, <2>1, <4>1 DEF PersonsTyped
      <4>3. Bounded'
        BY <2>1, <4>2 DEF Bounded
      <4>4. \A q \in DOMAIN persons' : q \in Nat \ {0} /\ persons'[q] \in Nat
        BY <1>0, <2>1, <4>1 DEF PersonsTyped
      <4> QED
        BY <4>3, <4>4 DEF PersonsTyped
    <3>2. CASE UNCHANGED persons
      BY <3>2
    <3> QED
      BY <1>11, <3>1, <3>2 DEF OpenCluster
  <2>3. JobTyped'
    BY <1>0, <1>11, <2>1 DEF OpenCluster, JobTyped, JobType, JobAtHand, Phase, PassTyped
  <2>4. Embedding \in Who \X (Nat \ {0})
    BY <1>0, <1>11, DimsAssumption DEF OpenCluster, Embedding, JobTyped, JobAtHand, JobType, Engine
  <2>5. [id |-> nextCluster, person |-> NewPerson, who |-> {Embedding}] \in ClusterType
    BY <1>0, <2>1, <2>4 DEF ClusterType, PassTyped
  <2>6. PassTyped'
    <3>1. nextCluster' \in Nat /\ todo' = todo
      BY <1>0, <1>11 DEF OpenCluster, PassTyped
    <3>2. clusters' \subseteq ClusterType
      BY <1>0, <1>11, <2>5 DEF OpenCluster, PassTyped
    <3> QED
      BY <1>0, <3>1, <3>2 DEF PassTyped
  <2>7. RestTyped'
    BY <1>11, FaultTyped DEF OpenCluster, requests
  <2> QED
    BY <1>11, <2>2, <2>3, <2>6, <2>7 DEF OpenCluster, asking
<1>12. CASE InsertFace
  <2> DEFINE f == [hash |-> job.hash, who |-> job.who, engine |-> job.engine,
                   person |-> job.person, cluster |-> job.cluster]
  <2>1. f \in Face
    BY <1>0, <1>12 DEF InsertFace, Face, JobTyped, JobType, JobAtHand, Engine
  <2>2. faces \in Seq(Face) /\ Len(faces) \in Nat /\ DOMAIN faces = 1 .. Len(faces)
    BY <1>0 DEF FacesTyped
  <2>3. FacesTyped'
    <3>1. CASE faces' = Append(faces, f)
      <4>1. /\ faces' \in Seq(Face) /\ DOMAIN faces' = 1 .. Len(faces) + 1
            /\ faces'[Len(faces) + 1] = f
            /\ \A i \in 1 .. Len(faces) : faces'[i] = faces[i]
        BY <2>1, <2>2, <3>1, AppendedFace
      <4>2. PICK n \in Nat : \A i \in DOMAIN faces : faces[i].cluster <= n
        BY <1>0 DEF FacesTyped, FacesBounded
      <4>3. f.cluster \in Nat
        BY <2>1 DEF Face
      <4> HIDE DEF f
      <4>4. ASSUME NEW i \in DOMAIN faces
            PROVE  faces[i].cluster \in Nat
        <5>1. faces[i] \in Face
          BY <2>2
        <5> QED
          BY <5>1 DEF Face
      <4>5. \A i \in DOMAIN faces' : i = Len(faces) + 1 \/ i \in 1 .. Len(faces)
        BY <2>2, <4>1
      <4>6. \A i \in DOMAIN faces' : faces'[i].cluster <= f.cluster + n
        BY <2>2, <4>1, <4>2, <4>3, <4>4, <4>5
      <4>7. f.cluster + n \in Nat
        BY <4>3
      <4> QED
        BY <4>1, <4>6, <4>7 DEF FacesTyped, FacesBounded
    <3>2. CASE UNCHANGED faces
      BY <3>2
    <3> QED
      BY <1>12, <3>1, <3>2 DEF InsertFace
  <2>4. JobTyped'
    <3>1. CASE job' = [job EXCEPT !.face = Len(faces) + 1] /\ at' = "covering"
      <4>1. Len(faces) + 1 \in Nat
        BY <2>2
      <4> QED
        BY <1>0, <1>12, <3>1, <4>1 DEF InsertFace, JobTyped, JobType, JobAtHand, Phase
    <3>2. CASE job' = job /\ at' = "faces"
      BY <1>0, <1>12, <3>2 DEF InsertFace, JobTyped, JobAtHand, Phase
    <3> QED
      BY <1>12, <3>1, <3>2 DEF InsertFace
  <2>5. RestTyped'
    BY <1>12, FaultTyped DEF InsertFace, requests
  <2> QED
    BY <1>12, <2>3, <2>4, <2>5 DEF InsertFace, asking
<1>13. CASE SetPersonCover
  <2>1. /\ DOMAIN persons' = DOMAIN persons
        /\ \A q \in DOMAIN persons : persons'[q] = persons[q] \/ persons'[q] = job.face
    BY <1>13 DEF SetPersonCover
  <2>2. PersonsTyped'
    BY <1>0, <2>1 DEF PersonsTyped, JobTyped, JobType, Bounded
  <2>3. JobTyped'
    <3>1. at = "covering" /\ at' = "faces" /\ job' = job
      BY <1>13 DEF SetPersonCover, pass
    <3> QED
      BY <1>0, <3>1 DEF JobTyped, JobAtHand, Phase
  <2>4. RestTyped'
    BY <1>13, FaultTyped DEF SetPersonCover, requests
  <2> QED
    BY <1>13, <2>2, <2>3, <2>4 DEF SetPersonCover, asking, pass
<1>14. CASE MarkProcessed \/ PutHash
  <2>1. [mtime |-> job.mtime, hash |-> job.hash] \in Image
    BY <1>0, <1>14 DEF MarkProcessed, PutHash, JobTyped, JobAtHand, Image
  <2>2. ImagesTyped'
    BY <1>0, <1>14, <2>1 DEF MarkProcessed, PutHash, ImagesTyped
  <2>3. JobTyped'
    BY <1>0, <1>14, BoundsHold DEF MarkProcessed, PutHash, JobTyped, JobType, JobAtHand, NoJob, pass, Phase
  <2>4. RestTyped'
    BY <1>14, FaultTyped DEF MarkProcessed, PutHash, requests
  <2> QED
    BY <1>14, <2>2, <2>3, <2>4 DEF MarkProcessed, PutHash, asking, pass
<1>15. ASSUME NEW from \in DOMAIN persons, NEW to \in DOMAIN persons, FindPersons(from, to)
       PROVE  TypeInv'
  <2>1. RestTyped'
    BY <1>0, <1>15, BoundsHold DEF FindPersons, RestTyped, PersonsTyped, mishaps
  <2> QED
    BY <1>15, <2>1 DEF FindPersons, asking, pass, store
<1>16. ASSUME NEW m \in merging, MergePersons(m[1], m[2])
       PROVE  TypeInv'
  <2>1. m[1] \in Nat /\ m[2] \in Nat
    BY <1>0 DEF RestTyped
  <2>2. faces \in Seq(Face) /\ Len(faces) \in Nat /\ DOMAIN faces = 1 .. Len(faces)
    BY <1>0 DEF FacesTyped
  <2>3. ASSUME NEW i \in DOMAIN faces
        PROVE  LET f == [faces[i] EXCEPT !.person = IF @ = m[1] THEN m[2] ELSE @] IN
               f \in Face /\ f.cluster = faces[i].cluster
    <3>1. faces[i] \in Face
      BY <2>2
    <3> QED
      BY <2>1, <3>1 DEF Face
  <2>4. /\ DOMAIN faces' = DOMAIN faces
        /\ \A i \in DOMAIN faces : faces'[i] \in Face /\ faces'[i].cluster = faces[i].cluster
    BY <1>16, <2>3 DEF MergePersons
  <2>5. faces' \in [1 .. Len(faces) -> Face]
    BY <1>16, <2>2, <2>4 DEF MergePersons
  <2>6. faces' \in Seq(Face)
    BY <2>2, <2>5, SeqDef
  <2>7. FacesTyped'
    BY <1>0, <2>4, <2>6 DEF FacesTyped, FacesBounded
  <2>8. /\ DOMAIN persons' = DOMAIN persons \ {m[1]}
        /\ \A q \in DOMAIN persons' : persons'[q] = persons[q]
    BY <1>16 DEF MergePersons
  <2>9. PersonsTyped'
    BY <1>0, <2>8 DEF PersonsTyped, Bounded
  <2>10. RestTyped'
    BY <1>0, <1>16 DEF MergePersons, RestTyped, mishaps
  <2> QED
    BY <1>16, <2>7, <2>9, <2>10 DEF MergePersons, asking, pass
<1>17. CASE ReloadEngine
  <2>1. /\ reloads' \in 1 .. MaxReloads /\ reloads' = reloads + 1
        /\ dims' = dims /\ halfReset' = halfReset
    BY <1>0, <1>17, BoundsHold DEF ReloadEngine, PowerTyped
  <2>2. PowerTyped'
    <3>1. engine' \in {0, reloads'} /\ (reloading' # "no" => engine' # 0)
      BY <1>0, <1>17, <2>1 DEF ReloadEngine, PowerTyped, MutexFree
    <3>2. reloading' \in {"no", "opened", "checked"}
      BY <1>0, <1>17 DEF ReloadEngine, PowerTyped
    <3>3. engine' \in 0 .. MaxReloads /\ reloads' \in 0 .. MaxReloads
      BY <2>1, <3>1, BoundsHold
    <3> QED
      BY <1>0, <2>1, <3>1, <3>2, <3>3 DEF PowerTyped, Engines
  <2>3. RestTyped'
    BY <1>0, <1>17 DEF ReloadEngine, RestTyped, requests
  <2> QED
    BY <1>17, <2>2, <2>3 DEF ReloadEngine, asking, pass, store
<1>18. CASE ResetStore \/ StoreDims
  <2>1. /\ PersonsTyped' /\ FacesTyped' /\ ImagesTyped'
        /\ dims' \in Nat /\ halfReset' \in BOOLEAN
    <3>1. CASE ResetStore
      BY <3>1, ResetTyped
    <3>2. CASE StoreDims
      <4>1. DimsOf[engine] \in Nat
        BY <1>0, <3>2, DimsAssumption DEF StoreDims, Engines, PowerTyped, Engine
      <4> QED
        BY <1>0, <3>2, <4>1 DEF StoreDims, PowerTyped, store
    <3> QED
      BY <1>18, <3>1, <3>2
  <2>2. engine' = engine /\ reloads' = reloads /\ reloading' \in {"no", "checked"}
        /\ reloading # "no"
    BY <1>18 DEF ResetStore, StoreDims
  <2>3. PowerTyped'
    BY <1>0, <2>1, <2>2 DEF PowerTyped, Engines
  <2>4. RestTyped'
    <3>1. CASE Fault
      BY <1>18, <3>1, FaultTyped DEF ResetStore, StoreDims, requests
    <3>2. CASE ~ Fault
      BY <1>0, <1>18, <3>2 DEF ResetStore, StoreDims, RestTyped, requests
    <3> QED
      BY <3>1, <3>2
  <2> QED
    BY <1>18, <2>1, <2>3, <2>4 DEF ResetStore, StoreDims, asking, pass
<1>19. ASSUME NEW p \in Paths, ChangeFile(p) \/ IndexFile(p)
       PROVE  TypeInv'
  <2>1. file[p] \in [there : BOOLEAN, mtime : Mtime] /\ file[p].mtime \in 0 .. MaxMtime
    BY <1>0, BoundsHold DEF WorldTyped, Mtime
  <2>2. CASE ChangeFile(p)
    <3>1. /\ [file[p] EXCEPT !.there = ~ @] \in [there : BOOLEAN, mtime : Mtime]
          /\ file[p].mtime < MaxMtime =>
               [there |-> TRUE, mtime |-> file[p].mtime + 1] \in [there : BOOLEAN, mtime : Mtime]
      <4>1. [file[p] EXCEPT !.there = ~ @] \in [there : BOOLEAN, mtime : Mtime]
        BY <2>1
      <4>2. file[p].mtime < MaxMtime => file[p].mtime + 1 \in Mtime
        BY <2>1, BoundsHold DEF Mtime
      <4> QED
        BY <4>1, <4>2
    <3>2. file' \in [Paths -> [there : BOOLEAN, mtime : Mtime]]
      BY <1>0, <2>2, <3>1 DEF ChangeFile, WorldTyped
    <3>3. WorldTyped'
      BY <1>0, <2>2, <3>2, BoundsHold DEF ChangeFile, WorldTyped
    <3> QED
      BY <2>2, <3>3 DEF ChangeFile, asking, pass, store, requests, mishaps
  <2>3. CASE IndexFile(p)
    <3>1. (IF file[p].there THEN file[p].mtime ELSE 0) \in 0 .. MaxMtime
      BY <2>1, BoundsHold
    <3>2. WorldTyped'
      BY <1>0, <2>3, <3>1 DEF IndexFile, WorldTyped
    <3> QED
      BY <2>3, <3>2 DEF IndexFile, asking, pass, store, requests, mishaps
  <2> QED
    BY <1>19, <2>2, <2>3
<1>20. CASE Crash
  <2>1. JobTyped'
    BY <1>20, BoundsHold DEF Crash, JobTyped, JobType, JobAtHand, NoJob, Phase
  <2>6. /\ PersonsTyped' /\ FacesTyped' /\ ImagesTyped'
        /\ dims' \in Nat /\ halfReset' \in BOOLEAN
    BY <1>20, ResetTyped
  <2>2. PowerTyped' /\ PassTyped'
    BY <1>0, <1>20, <2>6, BoundsHold DEF Crash, PowerTyped, PassTyped, Engines
  <2>3. LoopTyped'
    BY <1>0, <1>20 DEF Crash, LoopTyped
  <2>4. crashes' \in 0 .. MaxCrashes
    BY <1>0, <1>20, BoundsHold DEF Crash, RestTyped
  <2>5. RestTyped'
    BY <1>0, <1>20, <2>4 DEF Crash, RestTyped, mishaps
  <2> QED
    BY <1>20, <2>1, <2>2, <2>3, <2>5, <2>6 DEF Crash
<1>21. CASE UNCHANGED vars
  BY <1>21 DEF vars, asking, pass, store, requests, mishaps
<1> QED
  BY <1>1, <1>2, <1>3, <1>4, <1>5, <1>6, <1>7, <1>8, <1>9, <1>10, <1>11, <1>12, <1>13, <1>14,
     <1>15, <1>16, <1>17, <1>18, <1>19, <1>20, <1>21 DEF Next, LoopStep

\* The types of the queue and its tables (service.go, store.go), for any photos, engines,
\* merges and crashes.
THEOREM ScanTypeCorrect == Spec => []TypeOK
BY TypeInvTypes, InitType, NextType, PTL DEF Spec

----------------------------------------------------------------------------
(* Skipped images                                                          *)

AtHand == {"hashed", "decoded", "faces", "embedded", "inserting", "covering", "linking"}

\* No list of versions is ahead of the files: versions only grow.
Behind ==
  /\ \A p \in Paths : indexed[p] <= file[p].mtime /\ processed[p].mtime <= file[p].mtime
  /\ \A e \in todo : e[2] <= file[e[1]].mtime
  /\ at \in AtHand => job.mtime <= file[job.path].mtime

Recorded(h, w) == \E i \in DOMAIN faces : faces[i].hash = h /\ faces[i].who = w

\* An image that did not change since it was listed: the hash at hand is that of its content,
\* and who is on it is left to do, at hand, or in the table.
InHand ==
  at \in AtHand /\ job.mtime = file[job.path].mtime =>
    /\ job.hash = HashOf(job.path)
    /\ at = "decoded" => job.left = Shows[job.hash]
    /\ at \notin {"hashed", "decoded"} =>
         \A w \in Shows[job.hash] :
           \/ Recorded(job.hash, w)
           \/ at # "linking" /\ w \in job.left
           \/ at \in {"embedded", "inserting"} /\ job.who = w

SkipInv == Behind /\ (~ faulty => InHand) /\ SkippedAreRecognised

\* What the proofs use of the types.
LEMMA TypedUse ==
  ASSUME TypeInv
  PROVE  /\ \A p \in Paths : file[p].mtime \in Nat /\ file[p].there \in BOOLEAN
         /\ \A p \in Paths : indexed[p] \in Nat /\ processed[p].mtime \in Nat
         /\ \A e \in todo : e[1] \in Paths /\ e[2] \in Nat
         /\ at \in AtHand => job.path \in Paths /\ job.mtime \in Nat /\ job.hash \in Hashes
<1>1. \A p \in Paths : file[p] \in [there : BOOLEAN, mtime : Mtime] /\ indexed[p] \in 0 .. MaxMtime
  BY DEF TypeInv, WorldTyped
<1>2. \A p \in Paths : processed[p] \in Image
  BY DEF TypeInv, ImagesTyped
<1>3. \A x \in Image : x.mtime \in Nat
  BY BoundsHold DEF Image, NoImage
<1>4. \A e \in todo : e[1] \in Paths /\ e[2] \in Nat
  BY BoundsHold DEF TypeInv, PassTyped
<1>5. at \in AtHand => job.path \in Paths /\ job.mtime \in Nat /\ job.hash \in Hashes
  BY BoundsHold DEF TypeInv, JobTyped, JobAtHand, AtHand
<1>6. \A p \in Paths : file[p].mtime \in Nat /\ file[p].there \in BOOLEAN
  BY <1>1, BoundsHold
<1>7. \A p \in Paths : indexed[p] \in Nat /\ processed[p].mtime \in Nat
  BY <1>1, <1>2, <1>3
<1> QED
  BY <1>4, <1>5, <1>6, <1>7

LEMMA NextBehind == TypeInv /\ TypeInv' /\ Behind /\ [Next]_vars => Behind'
<1> SUFFICES ASSUME TypeInv, TypeInv', Behind, [Next]_vars
             PROVE  Behind'
  OBVIOUS
<1>0. /\ \A p \in Paths : file[p].mtime \in Nat /\ file[p].there \in BOOLEAN
      /\ \A p \in Paths : indexed[p] \in Nat /\ processed[p].mtime \in Nat
      /\ \A e \in todo : e[1] \in Paths /\ e[2] \in Nat
      /\ at \in AtHand => job.path \in Paths /\ job.mtime \in Nat /\ job.hash \in Hashes
  BY TypedUse
<1> DEFINE Lists == \A p \in Paths : indexed[p] <= file[p].mtime /\ processed[p].mtime <= file[p].mtime
           Todo == \A e \in todo : e[2] <= file[e[1]].mtime
           Hand == at \in AtHand => job.mtime <= file[job.path].mtime
<1>a. Lists /\ Todo /\ Hand
  BY DEF Behind
<1>b. UNCHANGED <<file, indexed, processed>> => Lists'
  BY <1>a
<1>c. file' = file /\ todo' \subseteq todo => Todo'
  BY <1>a
<1>d. file' = file /\ (UNCHANGED job \/ at' \notin AtHand) /\ (at' \in AtHand => at \in AtHand) => Hand'
  BY <1>a
<1>e. Lists' /\ Todo' /\ Hand' => Behind'
  BY DEF Behind
<1> HIDE DEF Lists, Todo, Hand
<1>1. ASSUME NEW c \in Callers, Ask(c) \/ Enter(c) \/ MarkQueued(c)
      PROVE  Behind'
  BY <1>1, <1>b, <1>c, <1>d, <1>e DEF Ask, Enter, MarkQueued, world, pass, store, AtHand
<1>2. CASE StartPass \/ EndPass \/ StopLoop
  BY <1>2, <1>b, <1>c, <1>d, <1>e DEF StartPass, EndPass, StopLoop, world, pass, store, AtHand
<1>3. CASE Images
  <2>1. Todo'
    BY <1>0, <1>3, <1>a DEF Images, Lists, Todo, world
  <2> QED
    BY <1>3, <2>1, <1>b, <1>d, <1>e DEF Images, world, store, AtHand
<1>4. CASE ProcessedMap \/ ReadClusters \/ NextClusterID
  BY <1>4, <1>b, <1>c, <1>d, <1>e DEF ProcessedMap, ReadClusters, NextClusterID, world, store, AtHand
<1>5. ASSUME NEW e \in todo, HashFile(e)
      PROVE  Behind'
  <2>1. Hand'
    BY <1>0, <1>5, <1>a DEF HashFile, Hand, Todo, world, AtHand, NoJob
  <2> QED
    BY <1>5, <2>1, <1>b, <1>c, <1>e DEF HashFile, world, store
<1>6. CASE Decode \/ Detect \/ JoinCluster \/ OpenCluster \/ InsertFace
  <2>1. at' \in AtHand => job'.path = job.path /\ job'.mtime = job.mtime /\ at \in AtHand
    BY <1>6 DEF Decode, Detect, JoinCluster, OpenCluster, InsertFace, AtHand, TypeInv, JobTyped, JobType
  <2>2. Hand'
    BY <1>6, <1>a, <2>1 DEF Hand, Decode, Detect, JoinCluster, OpenCluster, InsertFace, world
  <2> QED
    BY <1>6, <2>2, <1>b, <1>c, <1>e DEF Decode, Detect, JoinCluster, OpenCluster, InsertFace, world, store
<1>7. ASSUME NEW w \in Who, EmbedFails(w) \/ Embed(w)
      PROVE  Behind'
  <2>1. at \in AtHand /\ job'.path = job.path /\ job'.mtime = job.mtime
    BY <1>7 DEF EmbedFails, Embed, AtHand, TypeInv, JobTyped, JobType
  <2>2. Hand'
    BY <1>7, <1>a, <2>1 DEF Hand, EmbedFails, Embed, world
  <2> QED
    BY <1>7, <2>2, <1>b, <1>c, <1>e DEF EmbedFails, Embed, world, store
<1>8. CASE SetPersonCover
  BY <1>8, <1>b, <1>c, <1>d, <1>e DEF SetPersonCover, world, pass, AtHand
<1>9. CASE MarkProcessed
  <2>1. \A p \in Paths : processed'[p] = processed[p]
                         \/ (p = job.path /\ processed'[p] = [mtime |-> job.mtime, hash |-> job.hash])
    BY <1>9 DEF MarkProcessed, TypeInv, ImagesTyped
  <2>2. at \in AtHand /\ UNCHANGED <<file, indexed>>
    BY <1>9 DEF MarkProcessed, AtHand, world
  <2>3. Lists'
    BY <1>a, <2>1, <2>2 DEF Lists, Hand
  <2> QED
    BY <1>9, <2>2, <2>3, <1>c, <1>d, <1>e DEF MarkProcessed, pass, AtHand
<1>10. CASE PutHash
  BY <1>10, <1>b, <1>c, <1>d, <1>e DEF PutHash, world, AtHand
<1>11. ASSUME NEW from, NEW to, FindPersons(from, to) \/ MergePersons(from, to)
       PROVE  Behind'
  BY <1>11, <1>b, <1>c, <1>d, <1>e DEF FindPersons, MergePersons, world, pass, store
<1>12. CASE ReloadEngine
  BY <1>12, <1>b, <1>c, <1>d, <1>e DEF ReloadEngine, world, pass, store
<1>13. CASE ResetStore \/ Crash
  <2>1. \A p \in Paths : processed'[p] = processed[p] \/ processed'[p].mtime = 0
    <3>1. PICK n \in 0 .. 4 : Delete(n)
      BY <1>13, ResetSteps
    <3>2. processed' = processed \/ processed' = [p \in Paths |-> NoImage]
      BY <3>1, DeleteSteps
    <3> QED
      BY <3>2 DEF NoImage
  <2>2. UNCHANGED world
    BY <1>13 DEF ResetStore, Crash
  <2>3. Lists'
    BY <1>0, <1>a, <2>1, <2>2 DEF Lists, world
  <2>4. UNCHANGED <<todo, at, job>> \/ (todo' = {} /\ at' \notin AtHand)
    BY <1>13 DEF ResetStore, Crash, pass, AtHand
  <2> QED
    BY <2>2, <2>3, <2>4, <1>c, <1>d, <1>e DEF world
<1>18. CASE StoreDims
  BY <1>18, <1>b, <1>c, <1>d, <1>e DEF StoreDims, world, pass, store
<1>14. ASSUME NEW p \in Paths, ChangeFile(p)
       PROVE  Behind'
  <2>1. \A q \in Paths : file'[q].mtime \in Nat /\ file[q].mtime <= file'[q].mtime
    BY <1>0, <1>14 DEF ChangeFile, TypeInv, WorldTyped
  <2>2. Lists' /\ Todo' /\ Hand'
    BY <1>0, <1>14, <1>a, <2>1 DEF ChangeFile, Lists, Todo, Hand, pass, store
  <2> QED
    BY <2>2, <1>e
<1>15. ASSUME NEW p \in Paths, IndexFile(p)
       PROVE  Behind'
  <2>1. \A q \in Paths : indexed'[q] = indexed[q] \/ indexed'[q] = file[q].mtime \/ indexed'[q] = 0
    BY <1>15 DEF IndexFile, TypeInv, WorldTyped
  <2>2. Lists'
    BY <1>0, <1>15, <1>a, <2>1 DEF IndexFile, Lists, store
  <2> QED
    BY <1>15, <2>2, <1>c, <1>d, <1>e DEF IndexFile, pass
<1>16. CASE UNCHANGED vars
  BY <1>16, <1>b, <1>c, <1>d, <1>e DEF vars, world, pass, store
<1> QED
  BY <1>1, <1>2, <1>3, <1>4, <1>5, <1>6, <1>7, <1>8, <1>9, <1>10, <1>11, <1>12, <1>13, <1>14,
     <1>15, <1>16, <1>18 DEF Next, LoopStep

LEMMA RecordedStays ==
  ASSUME \A i \in DOMAIN faces :
           i \in DOMAIN faces' /\ faces'[i].hash = faces[i].hash /\ faces'[i].who = faces[i].who
  PROVE  \A h, w : Recorded(h, w) => Recorded(h, w)'
BY DEF Recorded

\* The history variable stays up.
LEMMA FaultyStays == [Next]_vars /\ ~ faulty' /\ TypeInv => ~ faulty
<1> SUFFICES ASSUME [Next]_vars, ~ faulty', TypeInv
             PROVE  ~ faulty
  OBVIOUS
<1>1. ASSUME NEW c \in Callers, Ask(c) \/ Enter(c) \/ MarkQueued(c)
      PROVE  ~ faulty
  BY <1>1 DEF Ask, Enter, MarkQueued, mishaps
<1>2. CASE StartPass \/ EndPass \/ StopLoop \/ Detect \/ JoinCluster \/ UNCHANGED vars \/ Crash
  BY <1>2 DEF StartPass, EndPass, StopLoop, Detect, JoinCluster, vars, Crash, mishaps
<1>3. CASE Images \/ ProcessedMap \/ ReadClusters \/ NextClusterID
  BY <1>3 DEF Images, ProcessedMap, ReadClusters, NextClusterID, NoFault, Ignored, Fault, mishaps
<1>4. ASSUME NEW e, HashFile(e)
      PROVE  ~ faulty
  BY <1>4 DEF HashFile, mishaps
<1>5. CASE Decode \/ OpenCluster \/ InsertFace \/ SetPersonCover \/ MarkProcessed \/ PutHash
  BY <1>5 DEF Decode, OpenCluster, InsertFace, SetPersonCover, MarkProcessed, PutHash, NoFault,
     Ignored, Fault, mishaps
<1>6. ASSUME NEW w, EmbedFails(w) \/ Embed(w)
      PROVE  ~ faulty
  BY <1>6 DEF EmbedFails, Embed, mishaps
<1>7. ASSUME NEW p, NEW q, FindPersons(p, q) \/ MergePersons(p, q)
      PROVE  ~ faulty
  BY <1>7 DEF FindPersons, MergePersons, mishaps
<1>8. CASE ReloadEngine \/ ResetStore \/ StoreDims
  BY <1>8 DEF ReloadEngine, ResetStore, StoreDims, Fault
<1>9. ASSUME NEW p, ChangeFile(p) \/ IndexFile(p)
      PROVE  ~ faulty
  BY <1>9 DEF ChangeFile, IndexFile, mishaps
<1> QED
  BY <1>1, <1>2, <1>3, <1>4, <1>5, <1>6, <1>7, <1>8, <1>9 DEF Next, LoopStep

LEMMA NextSkip ==
  TypeInv /\ TypeInv' /\ SkipInv /\ Behind' /\ [Next]_vars => SkipInv'
<1> SUFFICES ASSUME TypeInv, TypeInv', SkipInv, Behind', [Next]_vars, ~ faulty'
             PROVE  InHand' /\ SkippedAreRecognised'
  BY DEF SkipInv, SkippedAreRecognised
<1>0. /\ \A p \in Paths : file[p].mtime \in Nat /\ file[p].there \in BOOLEAN
      /\ \A p \in Paths : indexed[p] \in Nat /\ processed[p].mtime \in Nat
      /\ \A e \in todo : e[1] \in Paths /\ e[2] \in Nat
      /\ at \in AtHand => job.path \in Paths /\ job.mtime \in Nat /\ job.hash \in Hashes
  BY TypedUse
<1>i. ~ faulty /\ Behind /\ InHand /\ SkippedAreRecognised
  BY FaultyStays DEF SkipInv
<1> DEFINE Goal == InHand' /\ SkippedAreRecognised'
           Keeps == \A h, w : Recorded(h, w) => Recorded(h, w)'
<1>k. CASE ResetStore \/ Crash
  <2>1. at' \notin AtHand /\ UNCHANGED file
    BY <1>k DEF ResetStore, Crash, Fault, world, AtHand
  <2>2. PICK n \in 0 .. 4 : Delete(n)
    BY <1>k, ResetSteps
  <2>3. CASE n = 0
    BY <1>i, <2>1, <2>2, <2>3, DeleteSteps DEF SkippedAreRecognised, RecognisedWhenSkipped, InHand,
       HashOf
  <2>4. CASE n # 0
    <3>1. ~ halfReset' => \A p \in Paths : processed'[p] = NoImage
      BY <2>2, <2>4, DeleteSteps
    <3>2. ASSUME NEW p \in Paths
          PROVE  file'[p].mtime # NoImage.mtime
      <4>1. file[p] \in [there : BOOLEAN, mtime : Mtime]
        BY DEF TypeInv, WorldTyped
      <4>2. \A m \in Mtime : m # 0
        BY BoundsHold DEF Mtime
      <4> QED
        BY <2>1, <4>1, <4>2 DEF NoImage
    <3>3. SkippedAreRecognised'
      BY <3>1, <3>2 DEF SkippedAreRecognised, RecognisedWhenSkipped
    <3> QED
      BY <2>1, <3>3 DEF InHand
  <2> QED
    BY <2>3, <2>4
<1> SUFFICES ASSUME UNCHANGED halfReset
             PROVE  Goal
  <2>1. UNCHANGED halfReset \/ ResetStore \/ Crash
    BY PowerSteps DEF power, ReloadEngine, StoreDims
  <2> QED
    BY <1>k, <2>1
<1>a. UNCHANGED faces => Keeps
  BY RecordedStays
<1>b. Keeps /\ UNCHANGED <<file, processed>> => SkippedAreRecognised'
  BY <1>i DEF SkippedAreRecognised, RecognisedWhenSkipped, Recorded, HashOf
<1>c. Keeps /\ UNCHANGED <<file, at, job>> => InHand'
  BY <1>i DEF InHand, HashOf
<1>d. at' \notin AtHand => InHand'
  BY DEF InHand
<1>j. job \in JobType
  BY DEF TypeInv, JobTyped
<1>1. ASSUME NEW c \in Callers, Ask(c) \/ Enter(c) \/ MarkQueued(c)
      PROVE  Goal
  <2>1. UNCHANGED <<at, job>> \/ at' \notin AtHand
    BY <1>1 DEF Ask, Enter, MarkQueued, pass, AtHand
  <2>2. UNCHANGED <<file, faces, processed>>
    BY <1>1 DEF Ask, Enter, MarkQueued, world, store
  <2> QED
    BY <2>1, <2>2, <1>a, <1>b, <1>c, <1>d
<1>2. CASE StartPass \/ EndPass \/ StopLoop
  <2>1. UNCHANGED <<file, faces, processed>> /\ at' \notin AtHand
    BY <1>2 DEF StartPass, EndPass, StopLoop, AtHand, world, store
  <2> QED
    BY <2>1, <1>a, <1>b, <1>d
<1>3. CASE Images \/ ProcessedMap \/ ReadClusters \/ NextClusterID
  <2>1. UNCHANGED <<file, faces, processed>> /\ at' \notin AtHand
    BY <1>3 DEF Images, ProcessedMap, ReadClusters, NextClusterID, AtHand, world, store
  <2> QED
    BY <2>1, <1>a, <1>b, <1>d
<1>4. ASSUME NEW e \in todo, HashFile(e)
      PROVE  Goal
  <2>1. UNCHANGED <<file, faces, processed>>
    BY <1>4 DEF HashFile, world, store
  <2>2. CASE file[e[1]].there
    <3>1. at' = "hashed" /\ job'.path = e[1] /\ job'.hash = HashOf(e[1])
      BY <1>4, <2>2 DEF HashFile, NoJob
    <3>2. InHand'
      BY <2>1, <3>1 DEF InHand, HashOf
    <3> QED
      BY <2>1, <3>2, <1>a, <1>b
  <2>3. CASE ~ file[e[1]].there
    <3>1. UNCHANGED <<at, job>>
      BY <1>4, <2>3 DEF HashFile
    <3> QED
      BY <2>1, <3>1, <1>a, <1>b, <1>c
  <2> QED
    BY <2>2, <2>3
<1>5. CASE Decode
  <2>1. UNCHANGED <<file, faces, processed>>
    BY <1>5 DEF Decode, world, store
  <2>2. /\ at = "hashed" /\ at' = "decoded"
        /\ job' = [job EXCEPT !.left = Shows[HashOf(job.path)]]
    BY <1>5 DEF Decode
  <2>3. /\ job'.path = job.path /\ job'.mtime = job.mtime /\ job'.hash = job.hash
        /\ job'.left = Shows[HashOf(job.path)]
    BY <1>j, <2>2 DEF JobType
  <2>4. InHand'
    BY <1>i, <2>1, <2>2, <2>3 DEF InHand, HashOf, AtHand
  <2> QED
    BY <2>1, <2>4, <1>a, <1>b
<1>6. CASE Detect
  <2>1. UNCHANGED <<file, faces, processed>>
    BY <1>6 DEF Detect, world, store
  <2>2. CASE at' = "next"
    BY <2>1, <2>2, <1>a, <1>b, <1>d DEF AtHand
  <2>3. CASE at' = "faces"
    <3>1. at = "decoded" /\ job' = [job EXCEPT !.engine = engine]
      BY <1>6, <2>3 DEF Detect
    <3>2. /\ job'.path = job.path /\ job'.mtime = job.mtime /\ job'.hash = job.hash
          /\ job'.left = job.left
      BY <1>j, <3>1 DEF JobType
    <3>3. InHand'
      BY <1>i, <2>1, <2>3, <3>1, <3>2 DEF InHand, HashOf, AtHand
    <3> QED
      BY <2>1, <3>3, <1>a, <1>b
  <2> QED
    BY <1>6, <2>2, <2>3 DEF Detect
<1>7. ASSUME NEW w \in Who, Embed(w) \/ EmbedFails(w)
      PROVE  Goal
  <2>1. UNCHANGED <<file, faces, processed>> /\ at = "faces" /\ at' = "embedded"
    BY <1>7 DEF Embed, EmbedFails, world, store
  <2>2. /\ job'.path = job.path /\ job'.mtime = job.mtime /\ job'.hash = job.hash
        /\ job'.left = job.left \ {w} /\ job'.who = w
    BY <1>7, <1>j DEF Embed, EmbedFails, JobType
  <2>3. Keeps
    BY <2>1, <1>a
  <2>4. InHand'
    BY <1>i, <2>1, <2>2, <2>3 DEF InHand, HashOf, AtHand
  <2> QED
    BY <2>1, <2>3, <2>4, <1>b
<1>8. CASE JoinCluster \/ OpenCluster
  <2>1. UNCHANGED <<file, faces, processed>> /\ at = "embedded" /\ at' = "inserting"
    BY <1>8 DEF JoinCluster, OpenCluster, world, store, Fault
  <2>2. /\ job'.path = job.path /\ job'.mtime = job.mtime /\ job'.hash = job.hash
        /\ job'.left = job.left /\ job'.who = job.who
    BY <1>8, <1>j, <2>1 DEF JoinCluster, OpenCluster, JobType
  <2>3. Keeps
    BY <2>1, <1>a
  <2>4. InHand'
    BY <1>i, <2>1, <2>2, <2>3 DEF InHand, HashOf, AtHand
  <2> QED
    BY <2>1, <2>3, <2>4, <1>b
<1>9. CASE InsertFace
  <2> DEFINE f == [hash |-> job.hash, who |-> job.who, engine |-> job.engine,
                   person |-> job.person, cluster |-> job.cluster]
  <2>1. /\ UNCHANGED <<file, processed>> /\ at = "inserting" /\ at' = "covering"
        /\ faces' = Append(faces, f) /\ job' = [job EXCEPT !.face = Len(faces) + 1]
    BY <1>9 DEF InsertFace, world, Fault
  <2>2. /\ job'.path = job.path /\ job'.mtime = job.mtime /\ job'.hash = job.hash
        /\ job'.left = job.left
    BY <1>j, <2>1 DEF JobType
  <2>3. f \in Face /\ faces \in Seq(Face) /\ f.hash = job.hash /\ f.who = job.who
    BY <2>1 DEF Face, TypeInv, FacesTyped, JobTyped, JobType, JobAtHand, Engine
  <2>4. /\ DOMAIN faces' = 1 .. Len(faces) + 1
        /\ faces'[Len(faces) + 1] = f
        /\ \A i \in 1 .. Len(faces) : faces'[i] = faces[i]
    BY <2>1, <2>3, AppendedFace
  <2> HIDE DEF f
  <2>5. Len(faces) \in Nat /\ DOMAIN faces = 1 .. Len(faces)
    BY <2>3
  <2>6. /\ Keeps
        /\ Len(faces) + 1 \in DOMAIN faces'
    BY <2>4, <2>5, RecordedStays
  <2>7. Recorded(job.hash, job.who)'
    <3>1. faces'[Len(faces) + 1].hash = job'.hash /\ faces'[Len(faces) + 1].who = job'.who
      BY <2>1, <2>2, <2>3, <2>4, <1>j DEF JobType
    <3> QED
      BY <2>6, <3>1 DEF Recorded
  <2>8. job'.who = job.who
    BY <1>j, <2>1 DEF JobType
  <2>9. InHand'
    BY <1>i, <2>1, <2>2, <2>6, <2>7, <2>8 DEF InHand, HashOf, AtHand
  <2> QED
    BY <2>1, <2>6, <2>9, <1>b
<1>10. CASE SetPersonCover
  <2>1. UNCHANGED <<file, faces, processed, job>> /\ at = "covering" /\ at' = "faces"
    BY <1>10 DEF SetPersonCover, world, pass
  <2>2. Keeps
    BY <2>1, <1>a
  <2>3. InHand'
    BY <1>i, <2>1, <2>2 DEF InHand, HashOf, AtHand
  <2> QED
    BY <2>1, <2>2, <2>3, <1>b
<1>11. CASE MarkProcessed
  <2>1. UNCHANGED <<file, faces, job>> /\ at = "faces" /\ job.left = {} /\ at' = "linking"
    BY <1>11 DEF MarkProcessed, world, pass
  <2>2. Keeps
    BY <2>1, <1>a
  <2>3. InHand'
    BY <1>i, <2>1, <2>2 DEF InHand, HashOf, AtHand
  <2>4. \A p \in Paths : processed'[p] = processed[p]
                         \/ (p = job.path /\ processed'[p] = [mtime |-> job.mtime, hash |-> job.hash])
    BY <1>11 DEF MarkProcessed, TypeInv, ImagesTyped
  <2>5. ASSUME NEW p \in Paths, processed'[p].mtime = file'[p].mtime, ~ halfReset
        PROVE  /\ processed'[p].hash = HashOf(p)'
               /\ \A w \in Shows[HashOf(p)'] : Recorded(HashOf(p), w)'
    <3>1. HashOf(p)' = HashOf(p)
      BY <2>1 DEF HashOf
    <3>2. CASE processed'[p] = processed[p]
      BY <1>i, <2>1, <2>2, <2>5, <3>1, <3>2 DEF SkippedAreRecognised, RecognisedWhenSkipped, Recorded
    <3>3. CASE p = job.path /\ processed'[p] = [mtime |-> job.mtime, hash |-> job.hash]
      <4>1. job.mtime = file[job.path].mtime
        BY <2>1, <2>5, <3>3
      <4>2. job.hash = HashOf(p) /\ \A w \in Shows[job.hash] : Recorded(job.hash, w)
        BY <1>i, <2>1, <3>3, <4>1 DEF InHand, AtHand
      <4> QED
        BY <2>2, <3>1, <3>3, <4>2
    <3> QED
      BY <2>4, <3>2, <3>3
  <2>6. SkippedAreRecognised'
    BY <2>5 DEF SkippedAreRecognised, RecognisedWhenSkipped, Recorded
  <2> QED
    BY <2>3, <2>6
<1>12. CASE PutHash
  <2>1. UNCHANGED <<file, faces, processed>> /\ at' \notin AtHand
    BY <1>12 DEF PutHash, world, AtHand
  <2> QED
    BY <2>1, <1>a, <1>b, <1>d
<1>13. ASSUME NEW from, NEW to, FindPersons(from, to)
       PROVE  Goal
  <2>1. UNCHANGED <<file, faces, processed, at, job>>
    BY <1>13 DEF FindPersons, world, pass, store
  <2> QED
    BY <2>1, <1>a, <1>b, <1>c
<1>14. ASSUME NEW from, NEW to, MergePersons(from, to)
       PROVE  Goal
  <2>1. UNCHANGED <<file, processed, at, job>>
    BY <1>14 DEF MergePersons, world, pass
  <2>2. \A i \in DOMAIN faces : faces[i] \in Face
    BY DEF TypeInv, FacesTyped
  <2>3. \A i \in DOMAIN faces : i \in DOMAIN faces' /\ faces'[i].hash = faces[i].hash
                                /\ faces'[i].who = faces[i].who
    BY <1>14, <2>2 DEF MergePersons, Face
  <2> QED
    BY <2>1, <2>3, <1>b, <1>c, RecordedStays
<1>15. CASE ReloadEngine
  <2>1. UNCHANGED <<file, faces, processed, at, job>>
    BY <1>15 DEF ReloadEngine, world, pass, store
  <2> QED
    BY <2>1, <1>a, <1>b, <1>c
<1>16. CASE StoreDims
  <2>1. UNCHANGED <<file, faces, processed, at, job>>
    BY <1>16 DEF StoreDims, world, pass, store
  <2> QED
    BY <2>1, <1>a, <1>b, <1>c
<1>17. ASSUME NEW p \in Paths, ChangeFile(p)
       PROVE  Goal
  <2>1. UNCHANGED <<faces, processed, at, job>>
    BY <1>17 DEF ChangeFile, pass, store
  <2>2. ASSUME NEW q \in Paths
        PROVE  \/ file'[q].mtime = file[q].mtime /\ HashOf(q)' = HashOf(q)
               \/ file'[q].mtime = file[q].mtime + 1
    <3>1. file'[q] = file[q] \/ file'[q].mtime = file[q].mtime \/ file'[q].mtime = file[q].mtime + 1
      BY <1>17 DEF ChangeFile, TypeInv, WorldTyped
    <3> QED
      BY <3>1 DEF HashOf
  <2>3. Keeps
    BY <2>1, <1>a
  <2>4. InHand'
    BY <1>0, <1>i, <2>1, <2>2, <2>3 DEF InHand, Behind
  <2>5. SkippedAreRecognised'
    <3>1. ASSUME NEW q \in Paths, processed'[q].mtime = file'[q].mtime
          PROVE  HashOf(q)' = HashOf(q) /\ processed[q].mtime = file[q].mtime
      BY <1>0, <1>i, <2>1, <2>2, <3>1 DEF Behind
    <3> QED
      BY <1>i, <2>1, <3>1 DEF SkippedAreRecognised, RecognisedWhenSkipped
  <2> QED
    BY <2>4, <2>5
<1>18. ASSUME NEW p \in Paths, IndexFile(p)
       PROVE  Goal
  <2>1. UNCHANGED <<file, faces, processed, at, job>>
    BY <1>18 DEF IndexFile, pass, store
  <2> QED
    BY <2>1, <1>a, <1>b, <1>c
<1>20. CASE UNCHANGED vars
  <2>1. UNCHANGED <<file, faces, processed, at, job>>
    BY <1>20 DEF vars, world, pass, store
  <2> QED
    BY <2>1, <1>a, <1>b, <1>c
<1> QED
  BY <1>1, <1>2, <1>3, <1>4, <1>5, <1>6, <1>7, <1>8, <1>9, <1>10, <1>11, <1>12, <1>13, <1>14,
     <1>15, <1>16, <1>17, <1>18, <1>20, <1>k DEF Next, LoopStep

LEMMA InitSkip == Init => SkipInv
<1> SUFFICES ASSUME Init PROVE SkipInv
  OBVIOUS
<1>1. \A p \in Paths : indexed[p] = 0 /\ processed[p].mtime = 0 /\ file[p].mtime = 1
  BY DEF Init, NoImage
<1>2. at \notin AtHand /\ todo = {}
  BY DEF Init, AtHand
<1>3. SkippedAreRecognised
  BY <1>1 DEF SkippedAreRecognised, RecognisedWhenSkipped
<1> QED
  BY <1>1, <1>2, <1>3 DEF SkipInv, Behind, InHand

\* An image that later passes skip was recognised (service.go, scanOnce), however the files
\* change, the index lags, clients merge and the process crashes, unless something failed or a
\* reset broke off before it came to the processed images (store.go, Reset).
THEOREM SkippedImagesAreDone == Spec => []SkippedAreRecognised
<1>1. TypeInv /\ SkipInv /\ [Next]_vars => SkipInv'
  BY NextType, NextBehind, NextSkip DEF SkipInv
<1>2. SkipInv => SkippedAreRecognised
  BY DEF SkipInv
<1> QED
  BY <1>1, <1>2, InitType, NextType, InitSkip, PTL DEF Spec

----------------------------------------------------------------------------
(* Persons                                                                 *)

Working == {"faces", "embedded", "inserting", "covering", "linking"}
\* The pass has its own copy of the clusters, and goes on with it.
InPass ==
  at \in Working \cup {"numbering", "hashed", "decoded"} \/ (at = "next" /\ todo # {})
Dim(i) == DimsOf[faces[i].engine]

\* The table meta knows the engine that Reload has finished with, and no other one from
\* where Reload has reset the index, as long as no statement of it failed.
StoreFits ==
  /\ MutexFree /\ engine # 0 => dims = DimsOf[engine]
  /\ reloading = "checked" => dims \in {0, DimsOf[engine]}

\* The index has one dimension, which is that of the pass's engine.
OneDim ==
  /\ \A i \in DOMAIN faces : Dim(i) = dims
  /\ at \in Working => MutexFree /\ job.engine = engine /\ engine # 0
  /\ at \in {"off", "starting", "listing", "stopping"} => todo = {}

\* A cluster is a person is an individual.
Grouped ==
  /\ merging = {}
  /\ \A i, j \in DOMAIN faces :
       /\ faces[i].cluster = faces[j].cluster <=> faces[i].who = faces[j].who
       /\ faces[i].person = faces[j].person <=> faces[i].who = faces[j].who
  /\ \A i \in DOMAIN faces : faces[i].cluster # 0 /\ faces[i].person \in DOMAIN persons

\* The copy c is of the cluster id with this person and individual.
Fits(c, id, person, who) == c.id = id /\ c.person = person /\ c.who = {<<who, dims>>}

\* The pass's copy has every face and the face at hand, and tells individuals apart.
Copied ==
  /\ \A i \in DOMAIN faces :
       \E c \in clusters : Fits(c, faces[i].cluster, faces[i].person, faces[i].who)
  /\ \A c \in clusters :
       /\ c.person \in DOMAIN persons /\ c.id # 0
       /\ \E w \in Who : c.who = {<<w, dims>>}
       /\ at = "numbering" => c.id \in ClusterIds
       /\ at # "numbering" => c.id < nextCluster
  /\ \A c, d \in clusters : c.id = d.id \/ c.person = d.person \/ c.who = d.who => c = d
  /\ at # "numbering" => nextCluster # 0
  /\ at = "inserting" => \E c \in clusters : Fits(c, job.cluster, job.person, job.who)

PersonsInv ==
  /\ ~ faulty => StoreFits /\ OneDim
  /\ ~ faulty /\ merges = 0 => Grouped /\ (InPass => Copied)

LEMMA NextFits ==
  TypeInv /\ StoreFits /\ [Next]_vars /\ (~ faulty' \/ faults' = 0) => StoreFits'
<1> SUFFICES ASSUME TypeInv, StoreFits, [Next]_vars, ~ faulty' \/ faults' = 0
             PROVE  StoreFits'
  OBVIOUS
<1>a. UNCHANGED power => StoreFits'
  BY DEF power, StoreFits, MutexFree
<1>b. ~ Fault
  <2>1. faults \in Nat
    BY BoundsHold DEF TypeInv, RestTyped
  <2> QED
    BY <2>1 DEF Fault
<1>1. CASE ReloadEngine
  BY <1>1 DEF ReloadEngine, StoreFits, MutexFree
<1>2. CASE ResetStore
  BY <1>2, <1>b DEF ResetStore, StoreFits, MutexFree, Delete, ResetDue
<1>3. CASE StoreDims
  BY <1>3, <1>b DEF StoreDims, StoreFits, MutexFree
<1>4. CASE Crash
  BY <1>4 DEF Crash, StoreFits, MutexFree
<1> QED
  BY <1>a, <1>1, <1>2, <1>3, <1>4, PowerSteps

\* A row of the table, for a proof that looks at one.
LEMMA Rows ==
  ASSUME TypeInv
  PROVE  /\ faces \in Seq(Face) /\ Len(faces) \in Nat /\ DOMAIN faces = 1 .. Len(faces)
         /\ \A i \in DOMAIN faces :
              /\ faces[i] \in Face
              /\ faces[i].who \in Who /\ faces[i].engine \in Engine
              /\ faces[i].person \in Nat /\ faces[i].cluster \in Nat
              /\ Dim(i) \in Nat \ {0}
<1>1. faces \in Seq(Face) /\ Len(faces) \in Nat /\ DOMAIN faces = 1 .. Len(faces)
  BY DEF TypeInv, FacesTyped
<1>2. \A i \in DOMAIN faces : faces[i] \in Face
  BY <1>1
<1>3. \A f \in Face : f.who \in Who /\ f.engine \in Engine /\ f.person \in Nat /\ f.cluster \in Nat
  BY DEF Face
<1> QED
  BY <1>1, <1>2, <1>3, DimsAssumption DEF Dim

LEMMA NextOneDim ==
  TypeInv /\ OneLoop /\ (~ faulty => StoreFits /\ OneDim) /\ [Next]_vars => (~ faulty' => OneDim')
<1> SUFFICES ASSUME TypeInv, OneLoop, StoreFits, OneDim, ~ faulty, [Next]_vars, ~ faulty'
             PROVE  OneDim'
  BY FaultyStays
<1> DEFINE D == \A i \in DOMAIN faces : Dim(i) = dims
           W == at \in Working => MutexFree /\ job.engine = engine /\ engine # 0
           T == at \in {"off", "starting", "listing", "stopping"} => todo = {}
<1>a. D /\ W /\ T /\ job \in JobType
  BY DEF OneDim, TypeInv, JobTyped
<1>b. UNCHANGED <<faces, dims>> => D'
  BY <1>a DEF Dim
<1>c. /\ UNCHANGED <<reloading, engine>>
      /\ at' \notin Working \/ (at \in Working /\ job'.engine = job.engine)
      => W'
  BY <1>a DEF MutexFree
<1>d. (at \in {"off", "starting", "listing", "stopping"} \/ todo = {}) /\ UNCHANGED todo => T'
  BY <1>a
<1>e. D' /\ W' /\ T' => OneDim'
  BY DEF OneDim
<1>f. at' \notin {"off", "starting", "listing", "stopping"} => T'
  OBVIOUS
<1> HIDE DEF D, W, T
<1>1. ASSUME NEW c \in Callers, Ask(c) \/ Enter(c) \/ MarkQueued(c)
      PROVE  OneDim'
  <2>1. UNCHANGED <<faces, dims, reloading, engine, todo, job>>
    BY <1>1 DEF Ask, Enter, MarkQueued, pass, store, power
  <2>2. CASE UNCHANGED at
    BY <2>1, <2>2, <1>a, <1>b, <1>c, <1>e DEF T
  <2>3. CASE at = "off" /\ at' = "starting"
    BY <2>1, <2>3, <1>b, <1>c, <1>d, <1>e DEF Working
  <2> QED
    BY <1>1, <2>2, <2>3 DEF Ask, Enter, MarkQueued, OneLoop
<1>2. CASE StartPass \/ EndPass \/ StopLoop
  <2>1. UNCHANGED <<faces, dims, reloading, engine, todo>> /\ at' \notin Working
    BY <1>2 DEF StartPass, EndPass, StopLoop, pass, store, power, Working
  <2>2. at \in {"off", "starting", "listing", "stopping"} \/ todo = {}
    BY <1>2 DEF StartPass, EndPass, StopLoop
  <2> QED
    BY <2>1, <2>2, <1>b, <1>c, <1>d, <1>e
<1>3. CASE Images \/ ProcessedMap \/ ReadClusters \/ NextClusterID
  BY <1>3, <1>b, <1>c, <1>e, <1>f DEF Images, ProcessedMap, ReadClusters, NextClusterID, store,
     power, Working
<1>4. ASSUME NEW e \in todo, HashFile(e)
      PROVE  OneDim'
  BY <1>4, <1>b, <1>c, <1>e, <1>f DEF HashFile, store, power, Working
<1>5. CASE Decode
  BY <1>5, <1>b, <1>c, <1>e, <1>f DEF Decode, store, power, Working
<1>6. CASE Detect
  <2>1. UNCHANGED <<faces, dims, reloading, engine>> /\ MutexFree
    BY <1>6 DEF Detect, store, power
  <2>2. CASE at' = "next"
    BY <2>1, <2>2, <1>b, <1>c, <1>e, <1>f DEF Working
  <2>3. CASE at' = "faces"
    <3>1. job'.engine = engine /\ engine # 0
      BY <1>6, <1>a, <2>3 DEF Detect, JobType
    <3> QED
      BY <2>1, <2>3, <3>1, <1>b, <1>e, <1>f DEF W, MutexFree
  <2> QED
    BY <1>6, <2>2, <2>3 DEF Detect
<1>7. ASSUME NEW w \in Who, Embed(w) \/ EmbedFails(w)
      PROVE  OneDim'
  <2>1. job'.engine = job.engine /\ at \in Working /\ at' = "embedded"
    BY <1>7, <1>a DEF Embed, EmbedFails, JobType, Working
  <2> QED
    BY <1>7, <2>1, <1>b, <1>c, <1>e, <1>f DEF Embed, EmbedFails, store, power
<1>8. CASE JoinCluster \/ OpenCluster
  <2>1. job'.engine = job.engine /\ at \in Working /\ at' = "inserting"
    BY <1>8, <1>a DEF JoinCluster, OpenCluster, Fault, JobType, Working
  <2> QED
    BY <1>8, <2>1, <1>b, <1>c, <1>e, <1>f DEF JoinCluster, OpenCluster, store, power
<1>9. CASE InsertFace
  <2> DEFINE f == [hash |-> job.hash, who |-> job.who, engine |-> job.engine,
                   person |-> job.person, cluster |-> job.cluster]
  <2>1. /\ UNCHANGED <<dims, reloading, engine>> /\ at = "inserting" /\ at' = "covering"
        /\ faces' = Append(faces, f) /\ job' = [job EXCEPT !.face = Len(faces) + 1]
    BY <1>9 DEF InsertFace, power, Fault
  <2>2. f \in Face /\ f.engine = job.engine
    BY <2>1 DEF Face, TypeInv, JobTyped, JobType, JobAtHand, Engine
  <2> HIDE DEF f
  <2>3. faces \in Seq(Face) /\ Len(faces) \in Nat /\ DOMAIN faces = 1 .. Len(faces)
    BY Rows
  <2>4. /\ DOMAIN faces' = 1 .. Len(faces) + 1
        /\ faces'[Len(faces) + 1] = f
        /\ \A i \in 1 .. Len(faces) : faces'[i] = faces[i]
    BY <2>1, <2>2, <2>3, AppendedFace
  <2>5. DimsOf[job.engine] = dims
    BY <2>1, <1>a DEF StoreFits, W, Working
  <2>6. D'
    BY <1>a, <2>1, <2>2, <2>3, <2>4, <2>5 DEF D, Dim
  <2>7. job'.engine = job.engine
    BY <2>1, <1>a DEF JobType
  <2> QED
    BY <2>1, <2>6, <2>7, <1>c, <1>e, <1>f DEF Working
<1>10. CASE SetPersonCover \/ MarkProcessed
  BY <1>10, <1>b, <1>c, <1>e, <1>f DEF SetPersonCover, MarkProcessed, pass, power, Working
<1>11. CASE PutHash
  BY <1>11, <1>b, <1>c, <1>e, <1>f DEF PutHash, power, Working
<1>12. ASSUME NEW from, NEW to, FindPersons(from, to)
       PROVE  OneDim'
  <2>1. UNCHANGED <<faces, dims, reloading, engine, todo, job, at>>
    BY <1>12 DEF FindPersons, pass, store, power
  <2> QED
    BY <2>1, <1>a, <1>b, <1>c, <1>e DEF T
<1>13. ASSUME NEW from, NEW to, MergePersons(from, to)
       PROVE  OneDim'
  <2>1. UNCHANGED <<dims, reloading, engine, todo, job, at>>
    BY <1>13 DEF MergePersons, pass, power
  <2>2. \A i \in DOMAIN faces' : i \in DOMAIN faces /\ faces'[i].engine = faces[i].engine
    BY <1>13, Rows DEF MergePersons, Face
  <2>3. D'
    BY <1>a, <2>1, <2>2 DEF D, Dim
  <2> QED
    BY <2>1, <2>3, <1>a, <1>c, <1>e DEF T
<1>14. CASE ReloadEngine
  <2>1. UNCHANGED <<faces, dims, todo, at>> /\ at = "off"
    BY <1>14 DEF ReloadEngine, pass, store
  <2> QED
    BY <2>1, <1>a, <1>b, <1>e DEF T, W, Working
<1>15. CASE ResetStore \/ Crash
  <2>1. at' = "off" /\ todo' = {}
    BY <1>15, <1>a DEF ResetStore, Crash, Fault, pass, T
  <2>2. PICK n \in 0 .. 4 : Delete(n)
    BY <1>15, ResetSteps
  <2>3. (faces' = faces /\ dims' = dims) \/ faces' = << >>
    BY <2>2, DeleteSteps
  <2>4. D'
    BY <2>3, <1>b DEF D
  <2> QED
    BY <2>1, <2>4, <1>e DEF T, W, Working
<1>17. CASE StoreDims
  <2>1. /\ UNCHANGED <<todo, at, faces>> /\ at = "off" /\ dims' = DimsOf[engine]
        /\ dims \in {0, DimsOf[engine]}
    BY <1>17 DEF StoreDims, StoreFits, Fault, pass, store
  <2>2. D'
    <3>1. CASE dims = 0
      BY <2>1, <3>1, <1>a, Rows DEF D
    <3> QED
      BY <2>1, <3>1, <1>b
  <2> QED
    BY <2>1, <2>2, <1>a, <1>e DEF T, W, Working
<1>16. ASSUME NEW p \in Paths, ChangeFile(p) \/ IndexFile(p)
       PROVE  OneDim'
  <2>1. UNCHANGED <<faces, dims, reloading, engine, todo, job, at>>
    BY <1>16 DEF ChangeFile, IndexFile, pass, store, power
  <2> QED
    BY <2>1, <1>a, <1>b, <1>c, <1>e DEF T
<1>18. CASE UNCHANGED vars
  <2>1. UNCHANGED <<faces, dims, reloading, engine, todo, job, at>>
    BY <1>18 DEF vars, pass, store, power
  <2> QED
    BY <2>1, <1>a, <1>b, <1>c, <1>e DEF T
<1> QED
  BY <1>1, <1>2, <1>3, <1>4, <1>5, <1>6, <1>7, <1>8, <1>9, <1>10, <1>11, <1>12, <1>13, <1>14,
     <1>15, <1>16, <1>17, <1>18 DEF Next, LoopStep

\* Two copies, by what they fit, are one or differ in everything.
LEMMA CopiesDiffer ==
  ASSUME Copied, NEW c \in clusters, NEW d \in clusters,
         NEW k, NEW p, NEW u, NEW l, NEW q, NEW v,
         Fits(c, k, p, u), Fits(d, l, q, v)
  PROVE  (k = l <=> u = v) /\ (p = q <=> u = v)
<1>1. c.id = k /\ c.person = p /\ c.who = {<<u, dims>>}
      /\ d.id = l /\ d.person = q /\ d.who = {<<v, dims>>}
  BY DEF Fits
<1>2. c.id = d.id \/ c.person = d.person \/ c.who = d.who => c = d
  BY DEF Copied
<1>3. u = v <=> c.who = d.who
  <2>1. {<<u, dims>>} = {<<v, dims>>} => u = v
    <3>1. {<<u, dims>>} = {<<v, dims>>} => <<u, dims>> = <<v, dims>>
      OBVIOUS
    <3> QED
      BY <3>1
  <2> QED
    BY <1>1, <2>1
<1> QED
  BY <1>1, <1>2, <1>3

\* What Clusters reads from the table fits every face, and only faces.
LEMMA CopyIsFresh ==
  ASSUME TypeInv, OneDim, Grouped, clusters' = {Cluster(id) : id \in ClusterIds \ {0}}
  PROVE  /\ \A i \in DOMAIN faces :
              \E c \in clusters' : Fits(c, faces[i].cluster, faces[i].person, faces[i].who)
         /\ \A c \in clusters' : c \in ClusterType /\
              \E i \in DOMAIN faces : Fits(c, faces[i].cluster, faces[i].person, faces[i].who)
<1>1. ASSUME NEW i \in DOMAIN faces
      PROVE  /\ Fits(Cluster(faces[i].cluster), faces[i].cluster, faces[i].person, faces[i].who)
             /\ faces[i].cluster \in ClusterIds \ {0}
  <2> DEFINE id == faces[i].cluster
  <2>1. id \in ClusterIds /\ id # 0
    BY DEF ClusterIds, Grouped
  <2>2. /\ Cluster(id).id = id
        /\ Cluster(id).who = {<<faces[j].who, DimsOf[faces[j].engine]>> : j \in Members(id)}
        /\ \E j \in DOMAIN faces : faces[j].cluster = id /\ Cluster(id).person = faces[j].person
    BY <2>1, ClusterReads
  <2>3. \A j \in Members(id) :
          j \in DOMAIN faces /\ faces[j].who = faces[i].who /\ DimsOf[faces[j].engine] = dims
    BY DEF Members, Grouped, OneDim, Dim
  <2>4. i \in Members(id)
    BY DEF Members
  <2>5. Cluster(id).who = {<<faces[i].who, dims>>}
    BY <2>2, <2>3, <2>4
  <2>6. Cluster(id).person = faces[i].person
    BY <2>2 DEF Grouped
  <2> QED
    BY <2>1, <2>2, <2>5, <2>6 DEF Fits
<1>2. ASSUME NEW c \in clusters'
      PROVE  c \in ClusterType /\
             \E i \in DOMAIN faces : Fits(c, faces[i].cluster, faces[i].person, faces[i].who)
  <2>1. PICK id \in ClusterIds \ {0} : c = Cluster(id)
    OBVIOUS
  <2>2. PICK i \in DOMAIN faces : faces[i].cluster = id
    BY DEF ClusterIds
  <2> QED
    BY <1>1, <2>1, <2>2, ClusterReads
<1> QED
  BY <1>1, <1>2

LEMMA MergesCount == TypeInv /\ [Next]_vars /\ merges' = 0 => merges = 0 /\ UNCHANGED merges
<1> SUFFICES ASSUME TypeInv, [Next]_vars, merges' = 0
             PROVE  merges = 0
  OBVIOUS
<1>a. merges \in Nat
  BY DEF TypeInv, RestTyped
<1>1. ASSUME NEW c \in Callers, Ask(c) \/ Enter(c) \/ MarkQueued(c)
      PROVE  merges = 0
  BY <1>1 DEF Ask, Enter, MarkQueued, requests
<1>2. CASE LoopStep
  BY <1>2 DEF LoopStep, StartPass, EndPass, StopLoop, Images, ProcessedMap, ReadClusters,
     NextClusterID, HashFile, Decode, Detect, EmbedFails, Embed, JoinCluster, OpenCluster,
     InsertFace, SetPersonCover, MarkProcessed, PutHash, requests
<1>3. ASSUME NEW p, NEW q, FindPersons(p, q) \/ MergePersons(p, q)
      PROVE  merges = 0
  BY <1>3, <1>a DEF FindPersons, MergePersons
<1>4. CASE ReloadEngine \/ ResetStore \/ StoreDims \/ Crash \/ UNCHANGED vars
  BY <1>4 DEF ReloadEngine, ResetStore, StoreDims, Crash, vars, requests
<1>5. ASSUME NEW p, ChangeFile(p) \/ IndexFile(p)
      PROVE  merges = 0
  BY <1>5 DEF ChangeFile, IndexFile, requests
<1> QED
  BY <1>1, <1>2, <1>3, <1>4, <1>5 DEF Next

LEMMA NextPersons ==
  TypeInv /\ TypeInv' /\ OneLoop /\ PersonsInv /\ [Next]_vars =>
    (~ faulty' /\ merges' = 0 => Grouped' /\ (InPass' => Copied'))
<1> SUFFICES ASSUME TypeInv, TypeInv', OneLoop, StoreFits, OneDim, ~ faulty, merges = 0,
                    Grouped, InPass => Copied, [Next]_vars, ~ faulty'
             PROVE  merges' = 0 => Grouped' /\ (InPass' => Copied')
  BY FaultyStays, MergesCount DEF PersonsInv
<1> DEFINE Goal == Grouped' /\ (InPass' => Copied')
           Ids == DOMAIN persons
<1>a. UNCHANGED <<faces, merging>> /\ Ids \subseteq Ids' => Grouped'
  BY DEF Grouped
<1>b. /\ InPass' => InPass
      /\ UNCHANGED <<faces, clusters, nextCluster, dims>> /\ Ids \subseteq Ids'
      /\ at' = "numbering" <=> at = "numbering"
      /\ at' # "inserting" \/ (at = "inserting" /\ UNCHANGED job)
      => (InPass' => Copied')
  BY DEF Copied, Fits, ClusterIds
<1>c. job \in JobType /\ nextCluster \in Nat
  BY DEF TypeInv, JobTyped, PassTyped
<1>1. ASSUME NEW c \in Callers, Ask(c) \/ Enter(c) \/ MarkQueued(c)
      PROVE  Goal
  <2>1. UNCHANGED <<faces, merging, persons, clusters, nextCluster, dims, todo, job>>
    BY <1>1 DEF Ask, Enter, MarkQueued, pass, store, power, requests
  <2>2. UNCHANGED at \/ (at' = "starting" /\ at = "off")
    BY <1>1 DEF Ask, Enter, MarkQueued, OneLoop
  <2>3. (InPass' => InPass)
    BY <2>1, <2>2 DEF InPass, Working
  <2> QED
    BY <2>1, <2>2, <2>3, <1>a, <1>b
<1>2. CASE StartPass \/ EndPass \/ StopLoop
  <2>1. UNCHANGED <<faces, merging, persons>> /\ at' \in {"listing", "starting", "stopping", "off"}
    BY <1>2 DEF StartPass, EndPass, StopLoop, store, requests
  <2> QED
    BY <2>1, <1>a DEF InPass, Working
<1>3. CASE Images \/ ProcessedMap
  <2>1. UNCHANGED <<faces, merging, persons>>
    BY <1>3 DEF Images, ProcessedMap, store, requests
  <2>2. at' \in {"comparing", "clustering"} \/ (at' = "next" /\ todo' = {})
    BY <1>3 DEF Images, ProcessedMap, OneDim
  <2> QED
    BY <2>1, <2>2, <1>a DEF InPass, Working
<1>4. CASE ReadClusters
  <2>1. /\ UNCHANGED <<faces, merging, persons, dims>> /\ at' = "numbering"
        /\ clusters' = {Cluster(id) : id \in ClusterIds \ {0}}
    BY <1>4 DEF ReadClusters, store, requests, power, Fault
  <2>2. /\ \A i \in DOMAIN faces :
             \E c \in clusters' : Fits(c, faces[i].cluster, faces[i].person, faces[i].who)
        /\ \A c \in clusters' : c \in ClusterType /\
             \E i \in DOMAIN faces : Fits(c, faces[i].cluster, faces[i].person, faces[i].who)
    BY <2>1, CopyIsFresh
  <2>3. ASSUME NEW c \in clusters'
        PROVE  /\ c.person \in DOMAIN persons /\ c.id # 0
               /\ \E w \in Who : c.who = {<<w, dims>>}
               /\ c.id \in ClusterIds
    <3>1. PICK i \in DOMAIN faces : Fits(c, faces[i].cluster, faces[i].person, faces[i].who)
      BY <2>2
    <3> QED
      BY <3>1, Rows DEF Fits, Grouped, ClusterIds
  <2>4. ASSUME NEW c \in clusters', NEW d \in clusters',
               c.id = d.id \/ c.person = d.person \/ c.who = d.who
        PROVE  c = d
    <3>1. PICK i \in DOMAIN faces : Fits(c, faces[i].cluster, faces[i].person, faces[i].who)
      BY <2>2
    <3>2. PICK j \in DOMAIN faces : Fits(d, faces[j].cluster, faces[j].person, faces[j].who)
      BY <2>2
    <3>3. {<<faces[i].who, dims>>} = {<<faces[j].who, dims>>} => faces[i].who = faces[j].who
      <4>1. {<<faces[i].who, dims>>} = {<<faces[j].who, dims>>} =>
              <<faces[i].who, dims>> = <<faces[j].who, dims>>
        OBVIOUS
      <4> QED
        BY <4>1
    <3>4. faces[i].who = faces[j].who
      BY <2>4, <3>1, <3>2, <3>3 DEF Fits, Grouped
    <3>5. c.id = d.id /\ c.person = d.person /\ c.who = d.who
      BY <3>1, <3>2, <3>4 DEF Fits, Grouped
    <3>6. c \in ClusterType /\ d \in ClusterType
      BY <2>2
    <3> QED
      BY <3>5, <3>6 DEF ClusterType
  <2>5. \A i \in DOMAIN faces' :
          \E c \in clusters' : Fits(c, faces[i].cluster, faces[i].person, faces[i].who)'
    BY <2>1, <2>2 DEF Fits
  <2>6. \A c \in clusters' : /\ c.person \in DOMAIN persons' /\ c.id # 0
                              /\ (at' = "numbering" => (c.id \in ClusterIds)')
                              /\ (at' # "numbering" => c.id < nextCluster')
                              /\ \E w \in Who : c.who = {<<w, dims'>>}
    BY <2>1, <2>3 DEF ClusterIds
  <2>7. \A c, d \in clusters' : c.id = d.id \/ c.person = d.person \/ c.who = d.who => c = d
    BY <2>4
  <2>8. (at' # "numbering" => nextCluster' # 0) /\ at' # "inserting"
    BY <2>1
  <2>9. Copied'
    BY ONLY <2>5, <2>6, <2>7, <2>8 DEF Copied
  <2> QED
    BY <2>1, <2>9, <1>a
<1>5. CASE NextClusterID
  <2>1. /\ UNCHANGED <<faces, merging, persons, dims, clusters>> /\ at = "numbering" /\ at' = "next"
        /\ nextCluster' = Max(ClusterIds \cup {0}) + 1
    BY <1>5 DEF NextClusterID, store, requests, power, Fault
  <2>2. nextCluster' # 0 /\ \A i \in DOMAIN faces : faces[i].cluster < nextCluster'
    BY <2>1, NextIdIsNew
  <2>3. Copied
    BY <2>1 DEF InPass
  <2>4. \A c \in clusters : c.id < nextCluster'
    BY <2>1, <2>2, <2>3 DEF Copied, ClusterIds
  <2>5. Copied'
    BY <2>1, <2>2, <2>3, <2>4 DEF Copied, Fits
  <2> QED
    BY <2>1, <2>5, <1>a
<1>6. ASSUME NEW e \in todo, HashFile(e)
      PROVE  Goal
  <2>1. /\ UNCHANGED <<faces, merging, persons, clusters, nextCluster, dims>>
        /\ at = "next" /\ at' \in {"next", "hashed"}
    BY <1>6 DEF HashFile, store, power, requests
  <2>2. InPass
    BY <2>1 DEF InPass
  <2> QED
    BY <2>1, <2>2, <1>a, <1>b
<1>7. CASE Decode \/ Detect
  <2>1. /\ UNCHANGED <<faces, merging, persons, clusters, nextCluster, dims>>
        /\ at \in {"hashed", "decoded"} /\ at' \in {"next", "decoded", "faces"}
    BY <1>7 DEF Decode, Detect, store, power, requests
  <2>2. InPass
    BY <2>1 DEF InPass
  <2> QED
    BY <2>1, <2>2, <1>a, <1>b
<1>8. ASSUME NEW w \in Who, Embed(w) \/ EmbedFails(w)
      PROVE  Goal
  <2>1. /\ UNCHANGED <<faces, merging, persons, clusters, nextCluster, dims>>
        /\ at = "faces" /\ at' = "embedded"
    BY <1>8 DEF Embed, EmbedFails, store, power, requests
  <2>2. InPass
    BY <2>1 DEF InPass, Working
  <2> QED
    BY <2>1, <2>2, <1>a, <1>b
<1>d. at = "embedded" => Copied /\ Embedding = <<job.who, dims>> /\ job.who \in Who
  BY DEF InPass, Working, Embedding, OneDim, StoreFits, TypeInv, JobTyped, JobAtHand
<1>9. CASE JoinCluster
  <2>1. /\ UNCHANGED <<faces, merging, persons, clusters, nextCluster, dims>>
        /\ at = "embedded" /\ at' = "inserting"
    BY <1>9 DEF JoinCluster, store, power, requests
  <2>2. PICK c \in Matching : job' = [job EXCEPT !.person = c.person, !.cluster = c.id]
    BY <1>9 DEF JoinCluster
  <2>3. c \in clusters /\ <<job.who, dims>> \in c.who
    BY <1>d, <2>1 DEF Matching
  <2>4. PICK w \in Who : c.who = {<<w, dims>>}
    BY <1>d, <2>1, <2>3 DEF Copied
  <2>5. w = job.who
    BY <2>3, <2>4
  <2>6. job'.cluster = c.id /\ job'.person = c.person /\ job'.who = job.who
    BY <1>c, <2>2 DEF JobType
  <2>7. Fits(c, job'.cluster, job'.person, job'.who)
    BY <2>4, <2>5, <2>6 DEF Fits
  <2>8. Copied'
    BY <1>d, <2>1, <2>3, <2>7 DEF Copied, Fits
  <2> QED
    BY <2>1, <2>8, <1>a
<1>10. CASE OpenCluster
  <2> DEFINE n == [id |-> nextCluster, person |-> NewPerson, who |-> {Embedding}]
  <2>1. /\ UNCHANGED <<faces, merging, dims>> /\ at = "embedded" /\ at' = "inserting"
        /\ Matching = {} /\ nextCluster' = nextCluster + 1 /\ PersonAdded
        /\ clusters' = clusters \cup {n}
        /\ job' = [job EXCEPT !.person = NewPerson, !.cluster = nextCluster]
    BY <1>10 DEF OpenCluster, power, requests, Fault
  <2>2. NewPerson \in Nat \ {0} /\ NewPerson \notin DOMAIN persons
    BY NewPersonIsNew
  <2>3. DOMAIN persons' = DOMAIN persons \cup {NewPerson}
    BY <2>1 DEF PersonAdded
  <2>4. n.id = nextCluster /\ n.person = NewPerson /\ n.who = {<<job.who, dims>>}
    BY <1>d, <2>1
  <2>5. \A c \in clusters : c.id < nextCluster /\ c.id \in Nat /\ c.person \in DOMAIN persons
                            /\ <<job.who, dims>> \notin c.who
    BY <1>d, <2>1 DEF Matching, Copied, TypeInv, PassTyped, ClusterType
  <2>6. \A c \in clusters : c.id # n.id /\ c.person # n.person /\ c.who # n.who
    BY <1>c, <2>2, <2>4, <2>5
  <2>7. Fits(n, job'.cluster, job'.person, job'.who)
    BY <1>c, <2>1, <2>4 DEF Fits, JobType
  <2> HIDE DEF n
  <2>8. nextCluster # 0
    BY <1>d, <2>1 DEF Copied
  <2>9. \A c \in clusters' :
          /\ c.person \in DOMAIN persons' /\ c.id # 0
          /\ \E w \in Who : c.who = {<<w, dims>>}
          /\ c.id < nextCluster'
    BY <1>c, <1>d, <2>1, <2>3, <2>4, <2>5, <2>8 DEF Copied
  <2>10. \A c, d \in clusters' : c.id = d.id \/ c.person = d.person \/ c.who = d.who => c = d
    BY <1>d, <2>1, <2>6 DEF Copied
  <2>11. \A i \in DOMAIN faces :
           \E c \in clusters' : Fits(c, faces[i].cluster, faces[i].person, faces[i].who)
    BY <1>d, <2>1 DEF Copied
  <2>12. nextCluster' # 0
    BY <1>c, <2>1
  <2>13. Copied'
    BY <2>1, <2>7, <2>9, <2>10, <2>11, <2>12 DEF Copied, Fits
  <2> QED
    BY <2>1, <2>3, <2>13, <1>a
<1>11. CASE InsertFace
  <2> DEFINE f == [hash |-> job.hash, who |-> job.who, engine |-> job.engine,
                   person |-> job.person, cluster |-> job.cluster]
  <2>1. /\ UNCHANGED <<dims, clusters, nextCluster, merging, persons>>
        /\ at = "inserting" /\ at' = "covering" /\ faces' = Append(faces, f)
    BY <1>11 DEF InsertFace, power, requests, Fault
  <2>2. /\ f \in Face /\ f.cluster = job.cluster /\ f.person = job.person /\ f.who = job.who
    BY <2>1 DEF Face, TypeInv, JobTyped, JobType, JobAtHand, Engine
  <2> HIDE DEF f
  <2>3. faces \in Seq(Face) /\ Len(faces) \in Nat /\ DOMAIN faces = 1 .. Len(faces)
    BY Rows
  <2>4. /\ DOMAIN faces' = 1 .. Len(faces) + 1
        /\ faces'[Len(faces) + 1] = f
        /\ \A i \in 1 .. Len(faces) : faces'[i] = faces[i]
    BY <2>1, <2>2, <2>3, AppendedFace
  <2>5. Copied
    BY <2>1 DEF InPass, Working
  <2>6. ASSUME NEW i \in DOMAIN faces'
        PROVE  \E c \in clusters : Fits(c, faces'[i].cluster, faces'[i].person, faces'[i].who)
    <3>1. CASE i = Len(faces) + 1
      BY <2>1, <2>2, <2>4, <2>5, <3>1 DEF Copied
    <3>2. CASE i \in DOMAIN faces
      BY <2>3, <2>4, <2>5, <3>2 DEF Copied
    <3> QED
      BY <2>3, <2>4, <3>1, <3>2
  <2>7. ASSUME NEW i \in DOMAIN faces', NEW j \in DOMAIN faces'
        PROVE  /\ faces'[i].cluster = faces'[j].cluster <=> faces'[i].who = faces'[j].who
               /\ faces'[i].person = faces'[j].person <=> faces'[i].who = faces'[j].who
    <3>1. PICK c \in clusters : Fits(c, faces'[i].cluster, faces'[i].person, faces'[i].who)
      BY <2>6
    <3>2. PICK d \in clusters : Fits(d, faces'[j].cluster, faces'[j].person, faces'[j].who)
      BY <2>6
    <3> QED
      BY <2>5, <3>1, <3>2, CopiesDiffer
  <2>8. \A i \in DOMAIN faces' : faces'[i].cluster # 0 /\ faces'[i].person \in DOMAIN persons
    BY <2>5, <2>6 DEF Copied, Fits
  <2>9. Grouped'
    BY <2>1, <2>7, <2>8 DEF Grouped
  <2>10. Copied'
    BY <2>1, <2>5, <2>6 DEF Copied, Fits
  <2> QED
    BY <2>9, <2>10
<1>12. CASE SetPersonCover
  <2>1. /\ UNCHANGED <<faces, merging, clusters, nextCluster, dims, job>>
        /\ DOMAIN persons' = DOMAIN persons
        /\ at = "covering" /\ at' = "faces"
    BY <1>12 DEF SetPersonCover, pass, power, requests
  <2>2. InPass
    BY <2>1 DEF InPass, Working
  <2> QED
    BY <2>1, <2>2, <1>a, <1>b
<1>13. CASE MarkProcessed \/ PutHash
  <2>1. /\ UNCHANGED <<faces, merging, clusters, nextCluster, dims, persons>>
        /\ at \in {"faces", "linking"} /\ at' \in {"linking", "next"}
    BY <1>13 DEF MarkProcessed, PutHash, pass, power, requests
  <2>2. InPass
    BY <2>1 DEF InPass, Working
  <2> QED
    BY <2>1, <2>2, <1>a, <1>b
<1>14. ASSUME NEW from, NEW to, FindPersons(from, to)
       PROVE  merges' # 0
  BY <1>14 DEF FindPersons
<1>15. ASSUME NEW m \in merging, MergePersons(m[1], m[2])
       PROVE  FALSE
  BY <1>15 DEF Grouped
<1>16. CASE ReloadEngine
  <2>1. UNCHANGED <<faces, merging, persons>> /\ at' = "off"
    BY <1>16 DEF ReloadEngine, pass, store, requests
  <2> QED
    BY <2>1, <1>a DEF InPass, Working
<1>17. CASE ResetStore \/ Crash
  <2>1. at' = "off" /\ merging' = {}
    BY <1>17 DEF ResetStore, Crash, Fault, requests, Grouped
  <2>2. PICK n \in 0 .. 4 : Delete(n)
    BY <1>17, ResetSteps
  <2>3. UNCHANGED <<faces, persons>> \/ faces' = << >>
    BY <2>2, DeleteSteps
  <2>4. Grouped'
    <3>1. CASE UNCHANGED <<faces, persons>>
      BY <2>1, <3>1 DEF Grouped
    <3>2. CASE faces' = << >>
      BY <2>1, <3>2 DEF Grouped
    <3> QED
      BY <2>3, <3>1, <3>2
  <2> QED
    BY <2>1, <2>4 DEF InPass, Working
<1>18. ASSUME NEW p \in Paths, ChangeFile(p) \/ IndexFile(p)
       PROVE  Goal
  <2>1. UNCHANGED <<faces, merging, persons, clusters, nextCluster, dims, at, job, todo>>
    BY <1>18 DEF ChangeFile, IndexFile, pass, store, power, requests
  <2>2. InPass' => InPass
    BY <2>1 DEF InPass
  <2> QED
    BY <2>1, <2>2, <1>a, <1>b
<1>19. CASE StoreDims
  <2>1. UNCHANGED <<faces, merging, persons>> /\ at' = "off"
    BY <1>19 DEF StoreDims, Fault, store, requests
  <2> QED
    BY <2>1, <1>a DEF InPass, Working
<1>20. CASE UNCHANGED vars
  <2>1. UNCHANGED <<faces, merging, persons, clusters, nextCluster, dims, at, job, todo>>
    BY <1>20 DEF vars, pass, store, power, requests
  <2>2. InPass' => InPass
    BY <2>1 DEF InPass
  <2> QED
    BY <2>1, <2>2, <1>a, <1>b
<1> QED
  BY <1>1, <1>2, <1>3, <1>4, <1>5, <1>6, <1>7, <1>8, <1>9, <1>10, <1>11, <1>12, <1>13, <1>14,
     <1>15, <1>16, <1>17, <1>18, <1>19, <1>20 DEF Next, LoopStep

LEMMA InitPersons == Init => PersonsInv
<1> SUFFICES ASSUME Init PROVE PersonsInv
  OBVIOUS
<1>1. DOMAIN faces = {}
  BY DEF Init
<1> QED
  BY <1>1 DEF Init, PersonsInv, StoreFits, MutexFree, OneDim, Grouped, InPass, Working

\* Persons are individuals (service.go, scanOnce; cluster.go; store.go, Clusters), for any
\* photos, passes, crashes and changed files, until a client merges or something fails.
THEOREM PersonsStayIndividuals == Spec => []PersonsAreIndividuals
<1>1. TypeInv /\ TypeInv' /\ OneLoop /\ PersonsInv /\ [Next]_vars => PersonsInv'
  BY NextFits, NextOneDim, NextPersons, FaultyStays DEF PersonsInv
<1>2. PersonsInv => PersonsAreIndividuals
  BY DEF PersonsInv, Grouped, PersonsAreIndividuals
<1>3. Init => OneLoop /\ PersonsInv /\ TypeInv
  BY InitType, InitPersons DEF Init, OneLoop
<1> QED
  BY <1>1, <1>2, <1>3, NextType, OneLoopRuns, PTL DEF Spec

----------------------------------------------------------------------------
(* Clusters                                                                *)

\* No engine has this dimension from now on.
Past(d) == \A e \in Engine : DimsOf[e] = d => e < reloads
NowOrPast(d) == d = dims \/ Past(d)

\* The dimension of the index is that of an engine there was.
DimsKnown == dims # 0 => \E e \in Engine : e <= reloads /\ DimsOf[e] = dims

\* The pass has its own copy of the clusters.
Copying == at \in Working \cup {"numbering", "next", "hashed", "decoded"}
\* The copy c has an embedding of dimension d.
Has(c, d) == \E w \in Who : <<w, d>> \in c.who
JobDim == DimsOf[job.engine]

\* Every embedding, in the table, in the pass's copy and at hand, is of the index's dimension
\* or of one that does not come back.
NoneAhead ==
  /\ \A i \in DOMAIN faces : NowOrPast(Dim(i))
  /\ Copying => \A c \in clusters : \A d \in Nat : Has(c, d) => NowOrPast(d)
  /\ at \in {"embedded", "inserting", "covering"} \/ (at = "faces" /\ job.left # {}) =>
       NowOrPast(JobDim)

\* A cluster of the table has one dimension.
TableAddsUp ==
  /\ \A i \in DOMAIN faces : faces[i].cluster # 0
  /\ \A i, j \in DOMAIN faces : faces[i].cluster = faces[j].cluster => Dim(i) = Dim(j)

\* The id of a copy that may still match is of a cluster of its dimension, and no new one
\* will get it.
CopyAddsUp ==
  /\ \A c \in clusters : c.id # 0
  /\ \A c \in clusters : Has(c, dims) =>
       /\ IF at = "numbering" THEN c.id \in ClusterIds ELSE c.id < nextCluster
       /\ \A i \in DOMAIN faces : faces[i].cluster = c.id => Dim(i) = dims
  /\ at # "numbering" =>
       nextCluster # 0 /\ \A i \in DOMAIN faces : faces[i].cluster < nextCluster

\* An embedding that a reset overtook is the first of the new table, where no copy matters.
JobAddsUp ==
  /\ at \in {"embedded", "inserting"} =>
       JobDim = dims \/ (DOMAIN faces = {} /\ \A c \in clusters : ~ Has(c, dims))
  /\ at = "embedded" => \A c \in clusters : Has(c, JobDim) => c.id < nextCluster
  /\ at = "inserting" =>
       /\ job.cluster # 0 /\ job.cluster < nextCluster
       /\ \A i \in DOMAIN faces : faces[i].cluster = job.cluster => Dim(i) = JobDim

ClustersInv ==
  faults = 0 /\ NeverBack =>
    StoreFits /\ DimsKnown /\ NoneAhead /\ TableAddsUp /\ (Copying => CopyAddsUp) /\ JobAddsUp

LEMMA FaultsCount == TypeInv /\ [Next]_vars /\ faults' = 0 => faults = 0
<1> SUFFICES ASSUME TypeInv, [Next]_vars, faults' = 0
             PROVE  faults = 0
  OBVIOUS
<1>a. faults \in Nat
  BY DEF TypeInv, RestTyped
<1>1. ASSUME NEW c \in Callers, Ask(c) \/ Enter(c) \/ MarkQueued(c)
      PROVE  faults = 0
  BY <1>1 DEF Ask, Enter, MarkQueued, mishaps
<1>b. NoFault \/ Ignored \/ Fault \/ UNCHANGED faults => faults = 0
  BY <1>a DEF NoFault, Ignored, Fault, mishaps
<1>2. CASE LoopStep
  <2>1. NoFault \/ Ignored \/ Fault \/ UNCHANGED faults
    BY <1>2 DEF LoopStep, StartPass, EndPass, StopLoop, Images, ProcessedMap, ReadClusters,
       NextClusterID, HashFile, Decode, Detect, EmbedFails, Embed, JoinCluster, OpenCluster,
       InsertFace, SetPersonCover, MarkProcessed, PutHash, NoFault, mishaps
  <2> QED
    BY <1>b, <2>1
<1>3. ASSUME NEW p, NEW q, FindPersons(p, q) \/ MergePersons(p, q)
      PROVE  faults = 0
  BY <1>3 DEF FindPersons, MergePersons, mishaps
<1>4. CASE ReloadEngine \/ ResetStore \/ StoreDims \/ Crash \/ UNCHANGED vars
  BY <1>4, <1>b DEF ReloadEngine, ResetStore, StoreDims, Crash, vars, mishaps
<1>5. ASSUME NEW p, ChangeFile(p) \/ IndexFile(p)
      PROVE  faults = 0
  BY <1>5 DEF ChangeFile, IndexFile, mishaps
<1> QED
  BY <1>1, <1>2, <1>3, <1>4, <1>5 DEF Next

\* An open engine is the latest, and its dimension has not passed.
LEMMA OpenEngine ==
  ASSUME TypeInv, engine # 0
  PROVE  /\ engine \in Engine /\ engine = reloads /\ DimsOf[engine] \in Nat \ {0}
         /\ ~ Past(DimsOf[engine])
<1>1. engine = reloads /\ engine \in 0 .. MaxReloads /\ MaxReloads \in Nat
  BY BoundsHold DEF TypeInv, PowerTyped, Engines
<1>2. engine \in Engine
  BY <1>1 DEF Engine
<1> QED
  BY <1>1, <1>2, DimsAssumption DEF Past, Engine

\* An open engine of another dimension than the index has: that one and all others are gone
\* for good.
LEMMA NewDims ==
  ASSUME TypeInv, DimsKnown, NeverBack, engine # 0, dims # DimsOf[engine], NEW d, NowOrPast(d)
  PROVE  Past(d) /\ d # DimsOf[engine]
<1>2. /\ engine \in Engine /\ engine = reloads /\ DimsOf[engine] \in Nat \ {0}
      /\ ~ Past(DimsOf[engine])
  BY OpenEngine
<1>3. Past(dims)
  <2>1. CASE dims = 0
    BY <2>1, DimsAssumption DEF Past
  <2>2. CASE dims # 0
    <3>1. PICK f \in Engine : f <= reloads /\ DimsOf[f] = dims
      BY <2>2 DEF DimsKnown
    <3>2. f < reloads
      BY <1>2, <3>1 DEF Engine
    <3>3. ASSUME NEW e \in Engine, DimsOf[e] = dims, ~ (e < reloads)
          PROVE  FALSE
      <4>1. e # reloads
        BY <1>2, <3>3
      <4>2. reloads < e
        BY <1>2, <3>3, <4>1 DEF Engine
      <4> QED
        BY <1>2, <3>1, <3>2, <3>3, <4>2 DEF NeverBack
    <3> QED
      BY <3>3 DEF Past
  <2> QED
    BY <2>1, <2>2
<1>4. Past(d)
  BY <1>3 DEF NowOrPast
<1> QED
  BY <1>2, <1>4

\* A reload changes the dimension of the index to none and then to its own, and engines come
\* one after the other.
LEMMA DimsChange ==
  ASSUME TypeInv, [Next]_vars
  PROVE  \/ UNCHANGED <<dims, reloads>>
         \/ UNCHANGED dims /\ reloads' = reloads + 1
         \/ /\ UNCHANGED reloads /\ engine # 0
            /\ dims # DimsOf[engine] /\ dims' \in {0, DimsOf[engine]}
<1>1. reloading # "no" => engine # 0
  BY DEF TypeInv, PowerTyped, Engines
<1>2. CASE UNCHANGED power
  BY <1>2 DEF power
<1>3. CASE ReloadEngine
  BY <1>3 DEF ReloadEngine
<1>4. CASE ResetStore \/ Crash
  <2>1. PICK n \in 0 .. 4 : Delete(n) /\ (n # 0 => reloading = "opened" /\ ResetDue)
    BY <1>4, ResetSteps
  <2>2. dims' = dims \/ (n # 0 /\ dims' = 0)
    BY <2>1, DeleteSteps
  <2>3. UNCHANGED reloads
    BY <1>4 DEF ResetStore, Crash
  <2> QED
    BY <1>1, <2>1, <2>2, <2>3 DEF ResetDue
<1>5. CASE StoreDims
  BY <1>1, <1>5 DEF StoreDims
<1> QED
  BY <1>2, <1>3, <1>4, <1>5, PowerSteps

\* What is not ahead stays so.
LEMMA NextDims ==
  ASSUME TypeInv, DimsKnown, NeverBack, [Next]_vars
  PROVE  DimsKnown' /\ \A d : NowOrPast(d) => NowOrPast(d)'
<1>1. reloads \in Nat /\ \A e \in Engine : e \in Nat
  BY BoundsHold DEF TypeInv, PowerTyped, Engine
<1>2. CASE UNCHANGED <<dims, reloads>>
  BY <1>2 DEF DimsKnown, NowOrPast, Past
<1>3. CASE UNCHANGED dims /\ reloads' = reloads + 1
  <2>1. DimsKnown'
    BY <1>1, <1>3 DEF DimsKnown
  <2>2. \A d : Past(d) => Past(d)'
    BY <1>1, <1>3 DEF Past
  <2> QED
    BY <1>3, <2>1, <2>2 DEF NowOrPast
<1>4. CASE /\ UNCHANGED reloads /\ engine # 0
           /\ dims # DimsOf[engine] /\ dims' \in {0, DimsOf[engine]}
  <2>1. engine \in Engine /\ engine = reloads
    BY <1>4, OpenEngine
  <2>2. DimsKnown'
    BY <1>1, <1>4, <2>1 DEF DimsKnown
  <2>3. ASSUME NEW d, NowOrPast(d)
        PROVE  NowOrPast(d)'
    <3>1. Past(d)
      BY <1>4, <2>3, NewDims
    <3> QED
      BY <1>4, <3>1 DEF NowOrPast, Past
  <2> QED
    BY <2>2, <2>3
<1> QED
  BY <1>2, <1>3, <1>4, DimsChange

LEMMA NextClusters ==
  ASSUME TypeInv, StoreFits, DimsKnown, NoneAhead, TableAddsUp, Copying => CopyAddsUp,
         JobAddsUp, NeverBack, faults = 0, faults' = 0, [Next]_vars
  PROVE  NoneAhead' /\ TableAddsUp' /\ (Copying' => CopyAddsUp') /\ JobAddsUp'
<1> DEFINE FacesNot == \A i \in DOMAIN faces : NowOrPast(Dim(i))
           CopyNot == Copying => \A c \in clusters : \A d \in Nat : Has(c, d) => NowOrPast(d)
           InUse == at \in {"embedded", "inserting", "covering"} \/ (at = "faces" /\ job.left # {})
           JobNot == InUse => NowOrPast(JobDim)
           Goal == NoneAhead' /\ TableAddsUp' /\ (Copying' => CopyAddsUp') /\ JobAddsUp'
<1>a. \A d : NowOrPast(d) => NowOrPast(d)'
  BY NextDims
<1>b. FacesNot /\ CopyNot /\ JobNot
  BY DEF NoneAhead
<1>c. FacesNot' /\ CopyNot' /\ JobNot' => NoneAhead'
  BY DEF NoneAhead
<1>d. UNCHANGED faces \/ faces' = << >> => FacesNot' /\ TableAddsUp'
  <2>1. DOMAIN << >> = {}
    OBVIOUS
  <2> QED
    BY <1>a, <1>b, <2>1 DEF Dim, TableAddsUp
<1>e. (Copying' => Copying) /\ UNCHANGED clusters => CopyNot'
  BY <1>a, <1>b DEF Has
<1>f. (InUse' => InUse) /\ job'.engine = job.engine => JobNot'
  BY <1>a, <1>b DEF JobDim
<1>g. /\ UNCHANGED <<faces, clusters, nextCluster, dims>>
      /\ Copying' => Copying
      /\ at' = "numbering" <=> at = "numbering"
      => (Copying' => CopyAddsUp')
  BY DEF CopyAddsUp, Has, Dim, ClusterIds
<1>h. at' \notin {"embedded", "inserting"} => JobAddsUp'
  BY DEF JobAddsUp
<1>i. job \in JobType /\ nextCluster \in Nat /\ dims \in Nat
  BY DEF TypeInv, JobTyped, PassTyped, PowerTyped
<1> HIDE DEF FacesNot, CopyNot, JobNot
\* Steps that leave the loop where it is, or end or begin a pass.
<1>j. UNCHANGED <<faces, clusters, nextCluster, dims, job, at>> => Goal
  <2>1. UNCHANGED <<faces, clusters, nextCluster, dims, job, at>> => JobAddsUp'
    BY DEF JobAddsUp, Has, Dim, JobDim
  <2> QED
    BY <1>c, <1>d, <1>e, <1>f, <1>g, <2>1 DEF Copying, Working
<1>k. (UNCHANGED faces \/ faces' = << >>) /\ ~ Copying' => Goal
  <2>1. ~ Copying' => CopyNot' /\ ~ InUse' /\ at' \notin {"embedded", "inserting"}
    BY DEF CopyNot, Copying, Working
  <2>2. ~ InUse' => JobNot'
    BY DEF JobNot
  <2> QED
    BY <1>c, <1>d, <1>h, <2>1, <2>2
<1>1. ASSUME NEW c \in Callers, Ask(c) \/ Enter(c) \/ MarkQueued(c)
      PROVE  Goal
  BY <1>1, <1>j, <1>k DEF Ask, Enter, MarkQueued, power, pass, store, Copying, Working
<1>2. CASE StartPass \/ EndPass \/ StopLoop
  BY <1>2, <1>k DEF StartPass, EndPass, StopLoop, store, Copying, Working
<1>22. CASE Crash
  <2>1. PICK n \in 0 .. 4 : Delete(n)
    BY <1>22, ResetSteps
  <2>2. faces' = faces \/ faces' = << >>
    BY <2>1, DeleteSteps
  <2> QED
    BY <1>22, <2>2, <1>k DEF Crash, Copying, Working
<1>3. CASE Images \/ ProcessedMap
  <2>1. ~ Ignored
    BY DEF Ignored
  <2> QED
    BY <1>3, <2>1, <1>k DEF Images, ProcessedMap, store, Copying, Working
<1>4. CASE ReadClusters
  <2>1. /\ UNCHANGED <<faces, dims>> /\ at' = "numbering"
        /\ clusters' = {Cluster(id) : id \in ClusterIds \ {0}}
    BY <1>4 DEF ReadClusters, store, power, Fault
  <2>2. ASSUME NEW c \in clusters'
        PROVE  /\ c.id \in ClusterIds /\ c.id # 0
               /\ \A d : Has(c, d) => \E i \in DOMAIN faces : faces[i].cluster = c.id /\ Dim(i) = d
    <3>1. PICK id \in ClusterIds \ {0} : c = Cluster(id)
      BY <2>1
    <3>2. /\ c.id = id
          /\ c.who = {<<faces[i].who, DimsOf[faces[i].engine]>> : i \in Members(id)}
      BY <3>1, ClusterReads
    <3> QED
      BY <3>1, <3>2 DEF Has, Members, Dim
  <2>3. CopyNot'
    <3>1. \A c \in clusters' : \A d \in Nat : Has(c, d) => NowOrPast(d)'
      BY <1>a, <1>b, <2>2 DEF FacesNot
    <3> QED
      BY <3>1 DEF CopyNot, Has
  <2>4. CopyAddsUp'
    <3>1. \A c \in clusters' :
            /\ c.id # 0
            /\ Has(c, dims) => c.id \in ClusterIds /\
                 \A i \in DOMAIN faces : faces[i].cluster = c.id => Dim(i) = dims
      BY <2>2 DEF TableAddsUp
    <3> QED
      BY <2>1, <3>1 DEF CopyAddsUp, Has, Dim, ClusterIds
  <2>5. JobNot'
    BY <2>1 DEF JobNot
  <2> QED
    BY <2>1, <2>3, <2>4, <2>5, <1>c, <1>d, <1>h
<1>5. CASE NextClusterID
  <2>1. /\ UNCHANGED <<faces, dims, clusters>> /\ at = "numbering" /\ at' = "next"
        /\ nextCluster' = Max(ClusterIds \cup {0}) + 1
    BY <1>5 DEF NextClusterID, store, power, Fault
  <2>2. nextCluster' \in Nat \ {0} /\ \A i \in DOMAIN faces : faces[i].cluster < nextCluster'
    BY <2>1, NextIdIsNew
  <2>3. \A id \in ClusterIds : id < nextCluster'
    BY <2>2 DEF ClusterIds
  <2>4. CopyAddsUp
    BY <2>1 DEF Copying, Working
  <2>5. CopyAddsUp'
    BY <2>1, <2>2, <2>3, <2>4 DEF CopyAddsUp, Has, Dim
  <2>6. JobNot' /\ CopyNot'
    BY <2>1, <1>e DEF JobNot, Copying, Working
  <2> QED
    BY <2>1, <2>5, <2>6, <1>c, <1>d, <1>h
<1>6. ASSUME NEW e \in todo, HashFile(e)
      PROVE  Goal
  <2>1. UNCHANGED <<faces, clusters, nextCluster, dims>> /\ at = "next" /\ at' \in {"next", "hashed"}
    BY <1>6 DEF HashFile, store, power
  <2>2. JobNot'
    BY <2>1 DEF JobNot
  <2> QED
    BY <2>1, <2>2, <1>c, <1>d, <1>e, <1>g, <1>h DEF Copying, Working
<1>7. CASE Decode
  <2>1. UNCHANGED <<faces, clusters, nextCluster, dims>> /\ at = "hashed" /\ at' \in {"decoded", "faces"}
    BY <1>7 DEF Decode, store, power
  <2>2. at' = "faces" => job'.left = {}
    BY <1>7 DEF Decode, TypeInv, JobTyped, JobAtHand
  <2>3. JobNot'
    BY <2>1, <2>2 DEF JobNot
  <2> QED
    BY <2>1, <2>3, <1>c, <1>d, <1>e, <1>g, <1>h DEF Copying, Working
<1>8. CASE Detect
  <2>1. UNCHANGED <<faces, clusters, nextCluster, dims>> /\ at = "decoded" /\ at' \in {"next", "faces"}
    BY <1>8 DEF Detect, store, power
  <2>2. at' = "faces" => JobDim' = dims
    BY <1>8, <1>i DEF Detect, StoreFits, JobDim, JobType
  <2>3. JobNot'
    BY <2>1, <2>2 DEF JobNot, NowOrPast
  <2> QED
    BY <2>1, <2>3, <1>c, <1>d, <1>e, <1>g, <1>h DEF Copying, Working
<1>9. ASSUME NEW w \in Who, EmbedFails(w)
      PROVE  Goal
  <2>1. UNCHANGED <<faces, clusters, nextCluster, dims, at>> /\ at = "faces" /\ job.left # {}
        /\ job'.engine = job.engine
    BY <1>9, <1>i DEF EmbedFails, store, power, JobType
  <2> QED
    BY <2>1, <1>c, <1>d, <1>e, <1>f, <1>g, <1>h DEF Copying, Working
<1>10. ASSUME NEW w \in Who, Embed(w)
       PROVE  Goal
  <2>1. /\ UNCHANGED <<faces, clusters, nextCluster, dims, engine>> /\ at = "faces" /\ at' = "embedded"
        /\ job.left # {} /\ job.engine = engine /\ job'.engine = job.engine
    BY <1>10, <1>i DEF Embed, store, power, JobType
  <2>2. engine # 0
    BY <2>1 DEF TypeInv, JobTyped, JobAtHand
  <2>3. JobDim = dims /\ JobDim' = dims'
    BY <1>b, <2>1, <2>2, OpenEngine DEF JobNot, NowOrPast, JobDim
  <2>4. \A c \in clusters : Has(c, dims) => c.id < nextCluster
    BY <2>1 DEF CopyAddsUp, Copying, Working
  <2>5. JobAddsUp'
    BY <2>1, <2>3, <2>4 DEF JobAddsUp, Has
  <2> QED
    BY <2>1, <2>5, <1>c, <1>d, <1>e, <1>f, <1>g DEF Copying, Working
<1>11. CASE JoinCluster
  <2>1. /\ UNCHANGED <<faces, clusters, nextCluster, dims>> /\ at = "embedded" /\ at' = "inserting"
        /\ job'.engine = job.engine
    BY <1>11, <1>i DEF JoinCluster, store, power, JobType
  <2>2. PICK c \in clusters : Embedding \in c.who /\ job'.cluster = c.id
    BY <1>11, <1>i DEF JoinCluster, Matching, JobType
  <2>3. Has(c, JobDim)
    BY <2>1, <2>2 DEF Has, Embedding, JobDim, TypeInv, JobTyped, JobAtHand
  <2>4. CopyAddsUp
    BY <2>1 DEF Copying, Working
  <2>5. c.id # 0 /\ c.id < nextCluster
    BY <2>1, <2>3, <2>4 DEF CopyAddsUp, JobAddsUp
  <2>6. \A i \in DOMAIN faces : faces[i].cluster = c.id => Dim(i) = JobDim
    BY <2>1, <2>3, <2>4 DEF CopyAddsUp, JobAddsUp
  <2>7. JobDim = dims \/ (DOMAIN faces = {} /\ \A d \in clusters : ~ Has(d, dims))
    BY <2>1 DEF JobAddsUp
  <2>8. JobAddsUp'
    BY <2>1, <2>2, <2>5, <2>6, <2>7 DEF JobAddsUp, Has, Dim, JobDim
  <2> QED
    BY <2>1, <2>8, <1>c, <1>d, <1>e, <1>f, <1>g DEF Copying, Working
<1>12. CASE OpenCluster
  <2> DEFINE new == [id |-> nextCluster, person |-> NewPerson, who |-> {Embedding}]
  <2>1. /\ UNCHANGED <<faces, dims>> /\ at = "embedded" /\ at' = "inserting"
        /\ job'.engine = job.engine /\ job'.cluster = nextCluster
        /\ nextCluster' = nextCluster + 1 /\ clusters' = clusters \cup {new}
    <3>1. ~ Fault
      BY DEF Fault
    <3>2. /\ UNCHANGED <<power, faces>> /\ at = "embedded" /\ at' = "inserting"
          /\ nextCluster' = nextCluster + 1 /\ clusters' = clusters \cup {new}
          /\ job' = [job EXCEPT !.person = NewPerson, !.cluster = nextCluster]
      BY <1>12, <3>1 DEF OpenCluster
    <3> HIDE DEF new
    <3> QED
      BY <1>i, <3>2 DEF power, JobType
  <2>2. new.id = nextCluster /\ \A d : Has(new, d) => d = JobDim
    BY DEF Has, Embedding, JobDim
  <2>3. NowOrPast(JobDim)
    BY <1>b, <2>1 DEF JobNot
  <2>4. /\ CopyAddsUp /\ Copying /\ nextCluster # 0
        /\ \A i \in DOMAIN faces : faces[i].cluster < nextCluster /\ faces[i].cluster # nextCluster
    BY <1>i, <2>1, Rows DEF CopyAddsUp, Copying, Working
  <2>5. JobDim = dims \/ (DOMAIN faces = {} /\ \A c \in clusters : ~ Has(c, dims))
    BY <2>1 DEF JobAddsUp
  <2> HIDE DEF new
  <2>6. CopyNot'
    <3>1. \A c \in clusters' : \A d \in Nat : Has(c, d) => NowOrPast(d)'
      BY <1>a, <1>b, <2>1, <2>2, <2>3, <2>4 DEF CopyNot
    <3> QED
      BY <3>1 DEF CopyNot, Has
  <2>7. \A c \in clusters' :
          /\ c.id # 0
          /\ Has(c, dims) => c.id < nextCluster' /\
               \A i \in DOMAIN faces : faces[i].cluster = c.id => Dim(i) = dims
    <3>1. \A c \in clusters : c.id \in Nat
      BY DEF TypeInv, PassTyped, ClusterType
    <3> QED
      BY <1>i, <2>1, <2>2, <2>4, <3>1 DEF CopyAddsUp
  <2>8. nextCluster' # 0 /\ \A i \in DOMAIN faces : faces[i].cluster < nextCluster'
    BY <1>i, <2>1, <2>4, Rows
  <2>9. CopyAddsUp'
    BY <2>1, <2>7, <2>8 DEF CopyAddsUp, Has, Dim
  <2>10. JobDim = dims \/ (DOMAIN faces = {} /\ \A c \in clusters' : ~ Has(c, dims))
    BY <2>1, <2>2, <2>5
  <2>11. JobAddsUp'
    <3>1. nextCluster < nextCluster'
      BY <1>i, <2>1
    <3>2. \A i \in DOMAIN faces : faces'[i].cluster # job'.cluster
      BY <2>1, <2>4
    <3>3. JobDim' = JobDim
      BY <2>1 DEF JobDim
    <3> QED
      BY <2>1, <2>4, <2>10, <3>1, <3>2, <3>3 DEF JobAddsUp, Has
  <2> QED
    BY <2>1, <2>6, <2>9, <2>11, <1>c, <1>d, <1>f
<1>13. CASE InsertFace
  <2> DEFINE f == [hash |-> job.hash, who |-> job.who, engine |-> job.engine,
                   person |-> job.person, cluster |-> job.cluster]
  <2>1. /\ UNCHANGED <<dims, clusters, nextCluster>> /\ at = "inserting" /\ at' = "covering"
        /\ faces' = Append(faces, f) /\ job' = [job EXCEPT !.face = Len(faces) + 1]
    BY <1>13 DEF InsertFace, power, Fault
  <2>2. f \in Face /\ f.engine = job.engine /\ f.cluster = job.cluster
    BY <2>1 DEF Face, TypeInv, JobTyped, JobType, JobAtHand, Engine
  <2> HIDE DEF f
  <2>3. faces \in Seq(Face) /\ Len(faces) \in Nat /\ DOMAIN faces = 1 .. Len(faces)
    BY Rows
  <2> DEFINE n == Len(faces) + 1
  <2>4. /\ DOMAIN faces' = 1 .. n /\ 1 .. n = (DOMAIN faces) \cup {n}
        /\ faces'[n] = f
        /\ \A i \in DOMAIN faces : faces'[i] = faces[i]
    BY <2>1, <2>2, <2>3, AppendedFace
  <2> HIDE DEF n
  <2>5. \A i \in DOMAIN faces' :
          \/ i \in DOMAIN faces /\ faces'[i].cluster = faces[i].cluster /\ Dim(i)' = Dim(i)
          \/ i = n /\ faces'[i].cluster = job.cluster /\ Dim(i)' = JobDim
    BY <2>2, <2>4 DEF Dim, JobDim
  <2>6. /\ job.cluster # 0 /\ job.cluster < nextCluster
        /\ \A i \in DOMAIN faces : faces[i].cluster = job.cluster => Dim(i) = JobDim
    BY <2>1 DEF JobAddsUp
  <2>7. NowOrPast(JobDim)
    BY <1>b, <2>1 DEF JobNot
  <2>8. FacesNot'
    <3>1. \A i \in DOMAIN faces : NowOrPast(Dim(i))
      BY <1>b DEF FacesNot
    <3>2. \A i \in DOMAIN faces' : \E d : Dim(i)' = d /\ NowOrPast(d)
      BY <2>5, <2>7, <3>1
    <3>3. \A i \in DOMAIN faces' : \E d : Dim(i)' = d /\ NowOrPast(d)'
      BY <1>a, <3>2
    <3> QED
      BY <3>3 DEF FacesNot, Dim
  <2>9. TableAddsUp'
    <3>1. \A i \in DOMAIN faces' : faces'[i].cluster # 0
      BY <2>5, <2>6 DEF TableAddsUp
    <3>2. \A i, j \in DOMAIN faces' : faces'[i].cluster = faces'[j].cluster => Dim(i)' = Dim(j)'
      BY <2>5, <2>6 DEF TableAddsUp
    <3> QED
      BY <3>1, <3>2 DEF TableAddsUp, Dim
  <2>10. CopyAddsUp
    BY <2>1 DEF Copying, Working
  <2>11. \A c \in clusters : Has(c, dims) =>
           /\ c.id < nextCluster
           /\ \A i \in DOMAIN faces' : faces'[i].cluster = c.id => Dim(i)' = dims
    BY <2>1, <2>5, <2>10 DEF CopyAddsUp, JobAddsUp
  <2>12. nextCluster # 0 /\ \A i \in DOMAIN faces' : faces'[i].cluster < nextCluster
    BY <2>1, <2>5, <2>6, <2>10 DEF CopyAddsUp
  <2>13. CopyAddsUp'
    BY <2>1, <2>10, <2>11, <2>12 DEF CopyAddsUp, Has, Dim
  <2>14. job'.engine = job.engine
    BY <1>i, <2>1 DEF JobType
  <2> QED
    BY <2>1, <2>8, <2>9, <2>13, <2>14, <1>c, <1>e, <1>f, <1>h DEF Copying, Working
<1>14. CASE SetPersonCover
  <2>1. UNCHANGED <<faces, clusters, nextCluster, dims, job>> /\ at = "covering" /\ at' = "faces"
    BY <1>14 DEF SetPersonCover, pass, power
  <2> QED
    BY <2>1, <1>c, <1>d, <1>e, <1>f, <1>g, <1>h DEF Copying, Working
<1>15. CASE MarkProcessed \/ PutHash
  <2>1. /\ UNCHANGED <<faces, clusters, nextCluster, dims>> /\ at \in Working
        /\ at' \in {"linking", "next"}
    BY <1>15 DEF MarkProcessed, PutHash, pass, power, Working
  <2>2. JobNot'
    BY <2>1 DEF JobNot
  <2> QED
    BY <2>1, <2>2, <1>c, <1>d, <1>e, <1>g, <1>h DEF Copying, Working
<1>16. ASSUME NEW p, NEW q, FindPersons(p, q)
       PROVE  Goal
  BY <1>16, <1>j DEF FindPersons, pass, store, power
<1>17. ASSUME NEW from, NEW to, MergePersons(from, to)
       PROVE  Goal
  <2>1. UNCHANGED <<dims, clusters, nextCluster, job, at>>
    BY <1>17 DEF MergePersons, pass, power
  <2>2. DOMAIN faces' = DOMAIN faces
        /\ \A i \in DOMAIN faces : faces'[i].engine = faces[i].engine /\ faces'[i].cluster = faces[i].cluster
    BY <1>17, Rows DEF MergePersons, Face
  <2>3. \A i \in DOMAIN faces : Dim(i)' = Dim(i)
    BY <2>2 DEF Dim
  <2>4. FacesNot'
    BY <1>a, <1>b, <2>2 DEF FacesNot, Dim
  <2>5. TableAddsUp'
    BY <2>2 DEF TableAddsUp, Dim
  <2>6. ClusterIds' = ClusterIds
    BY <2>2 DEF ClusterIds
  <2>7. Copying' => CopyAddsUp'
    BY <2>1, <2>2, <2>3, <2>6 DEF CopyAddsUp, Copying, Working, Has
  <2>8. JobAddsUp'
    BY <2>1, <2>2, <2>3 DEF JobAddsUp, Has, JobDim
  <2> QED
    BY <2>1, <2>4, <2>5, <2>7, <2>8, <1>c, <1>e, <1>f DEF Copying, Working
<1>18. CASE ReloadEngine
  BY <1>18, <1>j DEF ReloadEngine, pass, store
<1>19. CASE ResetStore \/ StoreDims
  <2>1. UNCHANGED <<clusters, nextCluster, job, at>> /\ engine # 0
    BY <1>19 DEF ResetStore, StoreDims, pass, TypeInv, PowerTyped, Engines
  <2>2. \/ UNCHANGED <<faces, dims>>
        \/ /\ dims' \in {0, DimsOf[engine]} /\ dims # DimsOf[engine]
           /\ faces' = << >> \/ (faces' = faces /\ dims = 0)
    <3>1. ~ Fault
      BY DEF Fault
    <3>2. CASE ResetStore
      BY <3>1, <3>2 DEF ResetStore, Delete, ResetDue
    <3>3. CASE StoreDims
      BY <3>1, <3>3 DEF StoreDims, StoreFits, store
    <3> QED
      BY <1>19, <3>2, <3>3
  <2>3. CASE UNCHANGED <<faces, dims>>
    BY <2>1, <2>3, <1>j
  <2>4. CASE /\ dims' \in {0, DimsOf[engine]} /\ dims # DimsOf[engine]
             /\ faces' = << >> \/ (faces' = faces /\ dims = 0)
    <3>1. \A d : NowOrPast(d) => d # DimsOf[engine]
      BY <2>1, <2>4, NewDims
    <3>2. DOMAIN << >> = {}
      OBVIOUS
    <3>3. FacesNot' /\ TableAddsUp'
      BY <2>4, <1>d
    <3>4. DimsOf[engine] \in Nat
      BY OpenEngine, <2>1
    <3>5. \A c \in clusters : ~ Has(c, 0)
      BY DEF TypeInv, PassTyped, ClusterType, Has
    <3>7. Copying => \A c \in clusters : ~ Has(c, dims')
      BY <1>b, <2>4, <3>1, <3>4, <3>5 DEF CopyNot
    <3>8. Copying' => CopyAddsUp'
      BY <2>1, <2>4, <3>2, <3>7 DEF CopyAddsUp, Copying, Has, Working
    <3>9. at \in {"embedded", "inserting"} => JobDim # 0 /\ JobDim' = JobDim
      BY <1>i, <2>1, BoundsHold, DimsAssumption DEF TypeInv, JobTyped, JobAtHand, JobType, JobDim, Engine
    <3>10. at \in {"embedded", "inserting"} => DOMAIN faces' = {}
      BY <2>4, <3>2, <3>9 DEF JobAddsUp
    <3>11. JobAddsUp'
      BY <2>1, <3>7, <3>9, <3>10 DEF JobAddsUp, Has, Copying, Working
    <3> QED
      BY <2>1, <3>3, <3>8, <3>11, <1>c, <1>e, <1>f DEF Copying, Working
  <2> QED
    BY <2>2, <2>3, <2>4
<1>20. ASSUME NEW p \in Paths, ChangeFile(p) \/ IndexFile(p)
       PROVE  Goal
  BY <1>20, <1>j DEF ChangeFile, IndexFile, pass, store, power
<1>21. CASE UNCHANGED vars
  BY <1>21, <1>j DEF vars, pass, store, power
<1> QED
  BY <1>1, <1>2, <1>3, <1>4, <1>5, <1>6, <1>7, <1>8, <1>9, <1>10, <1>11, <1>12, <1>13, <1>14,
     <1>15, <1>16, <1>17, <1>18, <1>19, <1>20, <1>21, <1>22 DEF Next, LoopStep

\* A cluster holds embeddings of one dimension (store.go, Clusters), as long as every statement
\* succeeds and no reload goes back to a dimension given up: across resets (service.go, Reload)
\* that overtake a face between its embedding and its insertion, across crashes and merges, and
\* for any number of images, individuals, engines and dimensions.
THEOREM ClustersKeepOneDimension == Spec => []ClustersAddUp
<1>1. TypeInv /\ ClustersInv /\ [Next]_vars => ClustersInv'
  <2> SUFFICES ASSUME TypeInv, ClustersInv, [Next]_vars, faults' = 0, NeverBack
               PROVE  ClustersInv'
    BY DEF ClustersInv, NeverBack
  <2>1. faults = 0
    BY FaultsCount
  <2> QED
    BY <2>1, NextFits, NextClusters, NextDims DEF ClustersInv
<1>2. ClustersInv => ClustersAddUp
  BY DEF ClustersInv, TableAddsUp, ClustersAddUp, Dim
<1>3. Init => TypeInv /\ ClustersInv
  <2> SUFFICES ASSUME Init
               PROVE  ClustersInv
    BY InitType
  <2>1. faces = << >> /\ dims = 0 /\ at = "off" /\ engine = 0 /\ reloading = "no"
    BY DEF Init
  <2>2. DOMAIN faces = {}
    BY <2>1
  <2> QED
    BY <2>1, <2>2 DEF StoreFits, ClustersInv, DimsKnown, NoneAhead, TableAddsUp, Copying, Working,
       JobAddsUp
<1> QED
  BY <1>1, <1>2, <1>3, NextType, PTL DEF Spec

----------------------------------------------------------------------------
(* Resets that broke off                                                   *)

\* The index that a cut reset leaves is still marked with the old dimension, which no engine
\* to come has.
HalfInv ==
  faults = 0 /\ NeverBack =>
    /\ DimsKnown
    /\ halfReset => dims # 0 /\ Past(dims) /\ (engine = 0 \/ reloading = "opened")

LEMMA NextHalf == TypeInv /\ HalfInv /\ [Next]_vars => HalfInv'
<1> SUFFICES ASSUME TypeInv, HalfInv, [Next]_vars, faults' = 0, NeverBack
             PROVE  HalfInv'
  BY DEF HalfInv, NeverBack
<1>1. faults = 0 /\ DimsKnown /\ DimsKnown'
  BY FaultsCount, NextDims DEF HalfInv
<1>2. halfReset => dims # 0 /\ Past(dims) /\ (engine = 0 \/ reloading = "opened")
  BY <1>1 DEF HalfInv
<1>3. reloading # "no" => engine # 0
  BY DEF TypeInv, PowerTyped, Engines
<1>4. reloads \in Nat /\ \A e \in Engine : e \in Nat
  BY BoundsHold DEF TypeInv, PowerTyped, Engine
<1> DEFINE Goal == halfReset' =>
                     dims' # 0 /\ Past(dims)' /\ (engine' = 0 \/ reloading' = "opened")
<1> SUFFICES Goal
  BY <1>1 DEF HalfInv
<1>5. CASE UNCHANGED power
  BY <1>2, <1>5 DEF power, Past
<1>6. CASE ReloadEngine
  BY <1>2, <1>4, <1>6 DEF ReloadEngine, MutexFree, Past
<1>7. CASE ResetStore
  <2>1. reloading = "opened" /\ engine # 0 /\ UNCHANGED reloads
    BY <1>3, <1>7 DEF ResetStore
  <2>2. ~ Fault
    BY <1>1 DEF Fault
  <2>3. Delete(IF ResetDue THEN 4 ELSE 0)
    BY <1>7, <2>2 DEF ResetStore
  <2>4. CASE ResetDue
    <3>1. Delete(4)
      BY <2>3, <2>4
    <3> QED
      BY <3>1, DeleteSteps
  <2>5. CASE ~ ResetDue
    <3>1. ~ halfReset
      BY <1>2, <2>1, <2>5, OpenEngine DEF ResetDue
    <3>2. Delete(0)
      BY <2>3, <2>5
    <3> QED
      BY <3>1, <3>2 DEF Delete
  <2> QED
    BY <2>4, <2>5
<1>8. CASE StoreDims
  BY <1>2, <1>3, <1>8 DEF StoreDims
<1>9. CASE Crash
  <2>1. engine' = 0 /\ UNCHANGED reloads
    BY <1>9 DEF Crash
  <2>2. PICK n \in 0 .. 4 : Delete(n) /\ (n # 0 => reloading = "opened" /\ ResetDue)
    BY <1>9, ResetSteps
  <2>3. CASE n = 0
    BY <1>2, <2>1, <2>2, <2>3, DeleteSteps DEF Past
  <2>4. CASE n = 4
    BY <2>2, <2>4, DeleteSteps
  <2>5. CASE n # 0 /\ n # 4
    <3>1. dims' = dims
      BY <2>2, <2>5, DeleteSteps
    <3>2. engine # 0 /\ dims # 0 /\ dims # DimsOf[engine]
      BY <1>3, <2>2, <2>5 DEF ResetDue
    <3>3. Past(dims)
      BY <1>1, <3>2, NewDims DEF NowOrPast
    <3> QED
      BY <2>1, <3>1, <3>2, <3>3 DEF Past
  <2> QED
    BY <2>3, <2>4, <2>5
<1> QED
  BY <1>5, <1>6, <1>7, <1>8, <1>9, PowerSteps

\* A reset that a crash has cut between two of its DELETEs is done again before an engine is
\* used (service.go, Reload; store.go, Reset): the row of the dimension goes last, and the
\* next Reload still finds the old one.  For any number of reloads and crashes, as long as no
\* statement fails and no reload goes back to a dimension given up.
THEOREM HalfResetsAreRepeated == Spec => []HalfResetIsRepeated
<1>1. Init => HalfInv
  BY DEF Init, HalfInv, DimsKnown
<1>2. TypeInv /\ HalfInv => HalfResetIsRepeated
  BY DEF HalfInv, HalfResetIsRepeated, MutexFree
<1> QED
  BY <1>1, <1>2, InitType, NextType, NextHalf, PTL DEF Spec

----------------------------------------------------------------------------
(* Persons that stay                                                       *)

\* All engines have one dimension: the profile is never changed to one of another.
SameDims == \A e, f \in Engine : DimsOf[e] = DimsOf[f]

\* Whoever owns a face, a copy of a cluster or the face about to be inserted is in the table.
PersonsStay ==
  /\ DimsKnown
  /\ merging = {}
  /\ FacesHavePersons
  /\ \A c \in clusters : c.person \in DOMAIN persons
  /\ at \in {"inserting", "covering"} => job.person \in DOMAIN persons

\* The persons stay where none is deleted and faces, clusters and the job at hand only name
\* persons there are.
LEMMA PersonsKept ==
  ASSUME PersonsStay, DimsKnown', DOMAIN persons \subseteq DOMAIN persons', UNCHANGED merging,
         \A i \in DOMAIN faces' : faces'[i].person \in DOMAIN persons',
         \A c \in clusters' : c.person \in DOMAIN persons',
         at' \in {"inserting", "covering"} =>
           \/ job'.person \in DOMAIN persons'
           \/ at \in {"inserting", "covering"} /\ job'.person = job.person
  PROVE  PersonsStay'
BY DEF PersonsStay, FacesHavePersons

\* Without merges and with one dimension no step deletes a person that is still named.
LEMMA NextStay ==
  ASSUME MaxMerges = 0, SameDims, TypeInv, PersonsStay, [Next]_vars
  PROVE  PersonsStay'
<1>0. DimsKnown'
  BY NextDims DEF SameDims, NeverBack, PersonsStay
<1>a. job \in JobType /\ merges \in Nat
  BY DEF TypeInv, JobTyped, RestTyped
<1>b. /\ \A i \in DOMAIN faces : faces[i].person \in DOMAIN persons
      /\ \A c \in clusters : c.person \in DOMAIN persons
  BY DEF PersonsStay, FacesHavePersons
<1>c. ASSUME UNCHANGED <<faces, merging>>, DOMAIN persons' = DOMAIN persons,
             clusters' \subseteq clusters,
             at' \notin {"inserting", "covering"} \/ (UNCHANGED <<at, job>>)
      PROVE  PersonsStay'
  BY <1>0, <1>b, <1>c, PersonsKept
<1>1. ASSUME NEW c \in Callers, Ask(c) \/ Enter(c) \/ MarkQueued(c)
      PROVE  PersonsStay'
  <2>1. UNCHANGED <<faces, merging, persons, clusters, job>>
    BY <1>1 DEF Ask, Enter, MarkQueued, pass, store, requests
  <2>2. at' = at \/ at' = "starting"
    BY <1>1 DEF Ask, Enter, MarkQueued
  <2> QED
    BY <2>1, <2>2, <1>c
<1>2. CASE StartPass \/ EndPass \/ StopLoop \/ Images \/ ProcessedMap \/ NextClusterID
  <2>1. UNCHANGED <<faces, merging, persons, clusters>> /\ at' \notin {"inserting", "covering"}
    BY <1>2 DEF StartPass, EndPass, StopLoop, Images, ProcessedMap, NextClusterID, pass, store, requests
  <2> QED
    BY <2>1, <1>c
<1>3. CASE ReadClusters
  <2>1. UNCHANGED <<faces, merging, persons>> /\ at' = "numbering"
        /\ (clusters' = {Cluster(id) : id \in ClusterIds \ {0}} \/ clusters' = {})
    BY <1>3 DEF ReadClusters, store, requests
  <2>2. ASSUME NEW id \in ClusterIds
        PROVE  Cluster(id).person \in DOMAIN persons
    BY <1>b, ClusterReads
  <2> QED
    BY <2>1, <2>2, <1>0, <1>b, PersonsKept
<1>4. CASE (\E e \in todo : HashFile(e)) \/ Decode \/ Detect \/ (\E w \in Who : EmbedFails(w) \/ Embed(w))
  <2>1. UNCHANGED <<faces, merging, persons, clusters>> /\ at' \notin {"inserting", "covering"}
    BY <1>4 DEF HashFile, Decode, Detect, EmbedFails, Embed, store, requests
  <2> QED
    BY <2>1, <1>c
<1>5. CASE JoinCluster
  <2>1. UNCHANGED <<faces, merging, persons, clusters>>
    BY <1>5 DEF JoinCluster, store, requests
  <2>2. PICK c \in clusters : job' = [job EXCEPT !.person = c.person, !.cluster = c.id]
    BY <1>5 DEF JoinCluster, Matching
  <2>3. job'.person = c.person
    BY <1>a, <2>2 DEF JobType
  <2> QED
    BY <2>1, <2>3, <1>0, <1>b, PersonsKept
<1>6. CASE OpenCluster
  <2>1. UNCHANGED <<faces, merging>>
    BY <1>6 DEF OpenCluster, requests
  <2>2. CASE UNCHANGED <<persons, clusters, job>> /\ at' = "faces"
    BY <2>1, <2>2, <1>c
  <2>3. CASE /\ PersonAdded
             /\ clusters' = clusters \cup
                  {[id |-> nextCluster, person |-> NewPerson, who |-> {Embedding}]}
             /\ job' = [job EXCEPT !.person = NewPerson, !.cluster = nextCluster]
    <3>1. DOMAIN persons' = DOMAIN persons \cup {NewPerson}
      BY <2>3 DEF PersonAdded
    <3>2. job'.person = NewPerson
      BY <1>a, <2>3 DEF JobType
    <3>3. \A c \in clusters' : c.person \in DOMAIN persons'
      BY <1>b, <2>3, <3>1
    <3> QED
      BY <2>1, <3>1, <3>2, <3>3, <1>0, <1>b, PersonsKept
  <2> QED
    BY <1>6, <2>2, <2>3 DEF OpenCluster
<1>7. CASE InsertFace
  <2> DEFINE f == [hash |-> job.hash, who |-> job.who, engine |-> job.engine,
                   person |-> job.person, cluster |-> job.cluster]
  <2>1. UNCHANGED <<clusters, merging, persons>> /\ at = "inserting"
    BY <1>7 DEF InsertFace, requests
  <2>2. CASE UNCHANGED faces /\ at' = "faces"
    BY <2>1, <2>2, <1>c
  <2>3. CASE faces' = Append(faces, f) /\ job' = [job EXCEPT !.face = Len(faces) + 1]
    <3>1. f \in Face /\ f.person = job.person
      BY <2>1 DEF Face, TypeInv, JobTyped, JobType, JobAtHand, Engine
    <3>2. job'.person = job.person
      BY <1>a, <2>3 DEF JobType
    <3>3. job.person \in DOMAIN persons
      BY <2>1 DEF PersonsStay
    <3> HIDE DEF f
    <3>4. /\ Len(faces) \in Nat /\ DOMAIN faces = 1 .. Len(faces)
          /\ DOMAIN faces' = 1 .. Len(faces) + 1
          /\ faces'[Len(faces) + 1] = f
          /\ \A i \in 1 .. Len(faces) : faces'[i] = faces[i]
      BY <2>3, <3>1, Rows, AppendedFace
    <3>5. \A i \in DOMAIN faces' : faces'[i].person \in DOMAIN persons
      BY <1>b, <3>1, <3>3, <3>4
    <3> QED
      BY <2>1, <3>2, <3>3, <3>5, <1>0, <1>b, PersonsKept
  <2> QED
    BY <1>7, <2>2, <2>3 DEF InsertFace
<1>8. CASE SetPersonCover \/ MarkProcessed \/ PutHash
  <2>1. UNCHANGED <<faces, merging, clusters>> /\ DOMAIN persons' = DOMAIN persons
        /\ at' \notin {"inserting", "covering"}
    BY <1>8 DEF SetPersonCover, MarkProcessed, PutHash, pass, requests
  <2> QED
    BY <2>1, <1>c
<1>9. ASSUME NEW from, NEW to, FindPersons(from, to)
      PROVE  FALSE
  BY <1>a, <1>9 DEF FindPersons
<1>10. ASSUME NEW m \in merging, MergePersons(m[1], m[2])
       PROVE  FALSE
  BY <1>10 DEF PersonsStay
<1>11. CASE ReloadEngine
  <2>1. UNCHANGED <<faces, merging, persons, clusters, at, job>>
    BY <1>11 DEF ReloadEngine, pass, store, requests
  <2> QED
    BY <2>1, <1>c
<1>12. CASE ResetStore \/ Crash
  <2>1. reloading = "opened" => ~ ResetDue
    <3>1. reloading = "opened" => engine \in Engine
      BY OpenEngine DEF TypeInv, PowerTyped, Engines
    <3> QED
      BY <3>1 DEF PersonsStay, DimsKnown, SameDims, ResetDue
  <2>2. Delete(0)
    BY <1>12, <2>1, ResetSteps
  <2>3. UNCHANGED <<faces, persons>>
    BY <2>2 DEF Delete
  <2>4. /\ UNCHANGED merging
        /\ UNCHANGED <<clusters, at, job>> \/ (clusters' = {} /\ at' = "off")
    BY <1>12 DEF ResetStore, Crash, pass, requests, PersonsStay
  <2> QED
    BY <2>3, <2>4, <1>c
<1>13. ASSUME NEW p \in Paths, ChangeFile(p) \/ IndexFile(p)
       PROVE  PersonsStay'
  <2>1. UNCHANGED <<faces, merging, persons, clusters, at, job>>
    BY <1>13 DEF ChangeFile, IndexFile, pass, store, requests
  <2> QED
    BY <2>1, <1>c
<1>14. CASE StoreDims
  <2>1. UNCHANGED <<faces, merging, persons, clusters, at, job>>
    BY <1>14 DEF StoreDims, pass, store, requests
  <2> QED
    BY <2>1, <1>c
<1>15. CASE UNCHANGED vars
  <2>1. UNCHANGED <<faces, merging, persons, clusters, at, job>>
    BY <1>15 DEF vars, pass, store, requests
  <2> QED
    BY <2>1, <1>c
<1> QED
  BY <1>1, <1>2, <1>3, <1>4, <1>5, <1>6, <1>7, <1>8, <1>9, <1>10, <1>11, <1>12, <1>13, <1>14, <1>15
     DEF Next, LoopStep

\* Every face has a person (service.go, scanOnce) as long as clients merge none and no reload
\* changes the dimension: what the pass remembers of the table then never ages, whatever
\* fails, reloads or crashes.  FacesHavePersons fails for these two reasons only.
THEOREM UnmergedFacesHavePersons ==
  ASSUME MaxMerges = 0, SameDims
  PROVE  Spec => []FacesHavePersons
<1>1. Init => PersonsStay
  <2> SUFFICES ASSUME Init PROVE PersonsStay
    OBVIOUS
  <2>1. DOMAIN faces = {}
    BY DEF Init
  <2> QED
    BY <2>1 DEF Init, PersonsStay, DimsKnown, FacesHavePersons
<1>2. PersonsStay => FacesHavePersons
  BY DEF PersonsStay
<1>3. TypeInv /\ PersonsStay /\ [Next]_vars => PersonsStay'
  BY NextStay
<1> QED
  BY <1>1, <1>2, <1>3, InitType, NextType, PTL DEF Spec

=============================================================================
