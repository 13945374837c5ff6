------------------------------- MODULE FaceScan -------------------------------
(***************************************************************************)
(* The recognition queue of internal/faces.  TriggerScan starts one loop   *)
(* goroutine or marks that it must run again; a pass of the loop lists the *)
(* indexed images, and for each new or changed one hashes, decodes and     *)
(* detects, groups the faces into persons and writes faces.db.  Meanwhile  *)
(* clients merge persons, the engine is reloaded, and the files and the    *)
(* media index change.                                                     *)
(*                                                                         *)
(* Recognition itself is taken as perfect: an embedding is the individual  *)
(* it depicts, and a cluster matches the individuals among its faces.      *)
(***************************************************************************)
EXTENDS Naturals, Sequences, FiniteSets, FiniteSetsExt

CONSTANTS Paths,        \* virtual paths of images
          Hashes,       \* contents, by their sha256
          Who,          \* individuals that photos show
          Content,      \* Content[p][m]: the hash of version m of p
          Shows,        \* Shows[h]: the individuals on a photo
          DimsOf,       \* DimsOf[e]: embedding dimension of the e-th engine
          Callers,      \* goroutines that call TriggerScan
          MaxMtime,     \* bound: versions of a file
          MaxChanges,   \* bound: changes of the files
          MaxTriggers,  \* bound: calls of TriggerScan
          MaxMerges,    \* bound: merge requests
          MaxReloads,   \* bound: calls of Reload
          MaxCrashes,   \* bound: crashes of the process
          MaxFaults     \* bound: statements on faces.db that fail

Mtime == 1 .. MaxMtime
Engine == 1 .. MaxReloads

ASSUME ContentAssumption == Content \in [Paths -> [Mtime -> Hashes]]
ASSUME ShowsAssumption == Shows \in [Hashes -> SUBSET Who]
ASSUME DimsAssumption == DimsOf \in [Engine -> Nat \ {0}]
ASSUME BoundsAssumption ==
  /\ MaxMtime \in Nat \ {0}
  /\ {MaxChanges, MaxTriggers, MaxMerges, MaxReloads, MaxCrashes, MaxFaults} \subseteq Nat

NoHash == "no hash"
NoImage == [mtime |-> 0, hash |-> NoHash]
\* A row of processed, and of hashes.
Image == [mtime : Mtime, hash : Hashes] \cup {NoImage}

\* A row of faces; its id is its position, since no single face is ever deleted.
Face == [hash : Hashes, who : Who, engine : Engine, person : Nat, cluster : Nat]

\* The image a pass is at: todo entry, hash, engine in use, faces left, face to insert.
NoJob == [path |-> << >>, mtime |-> 0, hash |-> NoHash, left |-> {}, engine |-> 0,
          who |-> << >>, person |-> 0, cluster |-> 0, face |-> 0]

VARIABLES
  file,       \* file[p]: whether the file is there, and its mtime
  changes,    \* how often the files changed
  indexed,    \* indexed[p]: mtime in media_index, 0 if there is no row
  engine,     \* the open engine, 0 if unavailable; an earlier one is closed
  reloads,    \* calls of Reload so far
  reloading,  \* how far Reload is while it holds the mutex: "opened" the engine, "checked"
              \* the index; "no" if the mutex is free
  dims,       \* meta: dims of the index, 0 if unset
  halfReset,  \* history: the last Reset deleted the faces and left persons or processed images
  scanning,   \* the flag scanning
  queued,     \* the flag queued
  caller,     \* caller[c]: "idle", "asking" to enter, "refused" because a loop runs
  triggers,   \* calls of TriggerScan so far
  at,         \* where the loop stands, "off" if there is none
  todo,       \* images of the pass, with the mtime of the index
  clusters,   \* the pass's own copy of the clusters
  nextCluster,
  job,        \* the image at hand
  faces,      \* table faces
  persons,    \* table persons: id |-> cover face id, 0 if it has none
  processed,  \* processed[p]
  hashes,     \* hashes[p]
  merging,    \* merge requests whose persons were found
  merges,     \* merge requests so far
  crashes,    \* crashes so far
  faults,     \* statements that failed so far
  faulty      \* history: a statement or an embedding failed, an engine was reloaded during
              \* a pass, or a file went away between hashing and decoding

world == <<file, changes, indexed>>
power == <<engine, reloads, reloading, dims, halfReset>>
asking == <<caller, triggers>>
pass == <<todo, clusters, nextCluster, job>>
store == <<faces, persons, processed, hashes>>
requests == <<merging, merges>>
mishaps == <<faults, faulty>>
vars == <<world, power, scanning, queued, asking, at, pass, store, requests, crashes, mishaps>>

\* A statement fails: the code ignores it, or it costs a face.
NoFault == UNCHANGED mishaps
Ignored == faults < MaxFaults /\ faults' = faults + 1 /\ UNCHANGED faulty
Fault == faults < MaxFaults /\ faults' = faults + 1 /\ faulty' = TRUE

MutexFree == reloading = "no"

----------------------------------------------------------------------------
(* TriggerScan: after a media scan, and on POST /api/faces/scan            *)

\* Available takes the mutex; without an engine the call returns.
Ask(c) ==
  /\ caller[c] = "idle"
  /\ triggers < MaxTriggers
  /\ MutexFree /\ engine # 0
  /\ caller' = [caller EXCEPT ![c] = "asking"]
  /\ triggers' = triggers + 1
  /\ UNCHANGED <<world, power, scanning, queued, at, pass, store, requests, crashes, mishaps>>

\* CompareAndSwap(scanning), and the goroutine of the loop.
Enter(c) ==
  /\ caller[c] = "asking"
  /\ IF scanning
     THEN /\ caller' = [caller EXCEPT ![c] = "refused"]
          /\ UNCHANGED <<scanning, at>>
     ELSE /\ caller' = [caller EXCEPT ![c] = "idle"]
          /\ scanning' = TRUE
          /\ at' = "starting"
  /\ UNCHANGED <<world, power, queued, triggers, pass, store, requests, crashes, mishaps>>

MarkQueued(c) ==
  /\ caller[c] = "refused"
  /\ caller' = [caller EXCEPT ![c] = "idle"]
  /\ queued' = TRUE
  /\ UNCHANGED <<world, power, scanning, triggers, at, pass, store, requests, crashes, mishaps>>

----------------------------------------------------------------------------
(* scanLoop                                                                *)

StartPass ==
  /\ at = "starting"
  /\ queued' = FALSE
  /\ at' = "listing"
  /\ UNCHANGED <<world, power, scanning, asking, pass, store, requests, crashes, mishaps>>

\* Mutant: the flag comes down before the loop looks at queued.
EndPassEarly ==
  /\ at = "next" /\ todo = {}
  /\ at' = IF queued THEN "starting" ELSE "stopping"
  /\ queued' = FALSE
  /\ scanning' = FALSE
  /\ UNCHANGED <<world, power, asking, pass, store, requests, crashes, mishaps>>

\* The pass is over: CompareAndSwap(queued) decides whether another one follows.
EndPass ==
  /\ at = "next" /\ todo = {}
  /\ at' = IF queued THEN "starting" ELSE "stopping"
  /\ queued' = FALSE
  /\ UNCHANGED <<world, power, scanning, asking, pass, store, requests, crashes, mishaps>>

StopLoop ==
  /\ at = "stopping"
  /\ scanning' = FALSE
  /\ at' = "off"
  /\ UNCHANGED <<world, power, queued, asking, pass, store, requests, crashes, mishaps>>

----------------------------------------------------------------------------
(* scanOnce: what there is to do                                           *)

\* An error ends the pass.
Images ==
  /\ at = "listing"
  /\ \/ /\ todo' = {<<p, indexed[p]>> : p \in {q \in Paths : indexed[q] # 0}}
        /\ at' = "comparing"
        /\ NoFault
     \/ /\ Ignored
        /\ at' = "next"
        /\ UNCHANGED todo
  /\ UNCHANGED <<world, power, scanning, queued, asking, clusters, nextCluster, job, store, requests,
                 crashes>>

ProcessedMap ==
  /\ at = "comparing"
  /\ \/ /\ todo' = {e \in todo : processed[e[1]].mtime # e[2]}
        /\ at' = "clustering"
        /\ NoFault
     \/ /\ Ignored
        /\ todo' = {}
        /\ at' = "next"
  /\ UNCHANGED <<world, power, scanning, queued, asking, clusters, nextCluster, job, store, requests,
                 crashes>>

\* Clusters: the members, and the person of the first face.
Members(id) == {i \in DOMAIN faces : faces[i].cluster = id}
Cluster(id) ==
  [id |-> id,
   person |-> faces[Min(Members(id))].person,
   who |-> {<<faces[i].who, DimsOf[faces[i].engine]>> : i \in Members(id)}]
ClusterIds == {faces[i].cluster : i \in DOMAIN faces}

ReadClusters ==
  /\ at = "clustering"
  /\ \/ clusters' = {Cluster(id) : id \in ClusterIds \ {0}} /\ NoFault
     \/ clusters' = {} /\ Fault
  /\ at' = "numbering"
  /\ UNCHANGED <<world, power, scanning, queued, asking, todo, nextCluster, job, store, requests,
                 crashes>>

\* Mutant: the largest id itself, which a cluster has.
LastClusterID ==
  /\ at = "numbering"
  /\ nextCluster' = Max(ClusterIds \cup {0})
  /\ at' = "next"
  /\ UNCHANGED <<world, power, scanning, queued, asking, todo, clusters, job, store, requests, crashes,
                 mishaps>>

NextClusterID ==
  /\ at = "numbering"
  /\ \/ nextCluster' = Max(ClusterIds \cup {0}) + 1 /\ NoFault
     \/ nextCluster' = 0 /\ Fault
  /\ at' = "next"
  /\ UNCHANGED <<world, power, scanning, queued, asking, todo, clusters, job, store, requests, crashes>>

----------------------------------------------------------------------------
(* scanOnce: one image                                                     *)

HashOf(p) == Content[p][file[p].mtime]

\* Mutant: an error of hashFile goes unnoticed.
HashUnchecked(e) ==
  /\ at = "next"
  /\ e \in todo
  /\ todo' = todo \ {e}
  /\ job' = [NoJob EXCEPT !.path = e[1], !.mtime = e[2],
                          !.hash = IF file[e[1]].there THEN HashOf(e[1]) ELSE NoHash]
  /\ at' = "hashed"
  /\ UNCHANGED <<world, power, scanning, queued, asking, clusters, nextCluster, store, requests,
                 crashes, mishaps>>

\* Resolve and hashFile; an image that is gone is left for another pass.
HashFile(e) ==
  /\ at = "next"
  /\ e \in todo
  /\ todo' = todo \ {e}
  /\ IF file[e[1]].there
     THEN /\ job' = [NoJob EXCEPT !.path = e[1], !.mtime = e[2], !.hash = HashOf(e[1])]
          /\ at' = "hashed"
     ELSE UNCHANGED <<job, at>>
  /\ UNCHANGED <<world, power, scanning, queued, asking, clusters, nextCluster, store, requests,
                 crashes, mishaps>>

\* The file is opened again.  What cannot be decoded has no faces, and is not tried again.
Decode ==
  /\ at = "hashed"
  /\ IF file[job.path].there
     THEN /\ job' = [job EXCEPT !.left = Shows[HashOf(job.path)]]
          /\ at' = "decoded"
          /\ NoFault
     ELSE /\ at' = "faces"
          /\ faulty' = TRUE
          /\ UNCHANGED <<job, faults>>
  /\ UNCHANGED <<world, power, scanning, queued, asking, todo, clusters, nextCluster, store, requests,
                 crashes>>

\* Mutant: an image the detector fails on counts as processed.
DetectOnce ==
  /\ at = "decoded"
  /\ MutexFree
  /\ \/ engine # 0 /\ job' = [job EXCEPT !.engine = engine]
     \/ job' = [job EXCEPT !.left = {}]
  /\ at' = "faces"
  /\ UNCHANGED <<world, power, scanning, queued, asking, todo, clusters, nextCluster, store, requests,
                 crashes, mishaps>>

\* The engine is read under the mutex; without one, or when Detect fails, the image waits.
Detect ==
  /\ at = "decoded"
  /\ MutexFree
  /\ \/ /\ engine # 0
        /\ job' = [job EXCEPT !.engine = engine]
        /\ at' = "faces"
     \/ /\ job' = NoJob
        /\ at' = "next"
  /\ UNCHANGED <<world, power, scanning, queued, asking, todo, clusters, nextCluster, store, requests,
                 crashes, mishaps>>

\* A failed embedding, as of every closed engine, skips the face.
EmbedFails(w) ==
  /\ at = "faces"
  /\ w \in job.left
  /\ job' = [job EXCEPT !.left = @ \ {w}]
  /\ faulty' = TRUE
  /\ UNCHANGED <<world, power, scanning, queued, asking, at, todo, clusters, nextCluster, store,
                 requests, crashes, faults>>

\* The engine works outside the mutex: a reload may come between this and what follows.
Embed(w) ==
  /\ at = "faces"
  /\ w \in job.left
  /\ job.engine = engine
  /\ job' = [job EXCEPT !.left = @ \ {w}, !.who = w]
  /\ at' = "embedded"
  /\ UNCHANGED <<world, power, scanning, queued, asking, todo, clusters, nextCluster, store, requests,
                 crashes, mishaps>>

\* AssignCluster, after Profile has taken the mutex.
Embedding == <<job.who, DimsOf[job.engine]>>
Matching == {c \in clusters : Embedding \in c.who}

JoinCluster ==
  /\ at = "embedded"
  /\ MutexFree
  /\ \E c \in Matching : job' = [job EXCEPT !.person = c.person, !.cluster = c.id]
  /\ at' = "inserting"
  /\ UNCHANGED <<world, power, scanning, queued, asking, todo, clusters, nextCluster, store, requests,
                 crashes, mishaps>>

\* The id of a new row: one more than the largest in the table.
NewPerson == Max(DOMAIN persons \cup {0}) + 1
PersonAdded == persons' = [q \in DOMAIN persons \cup {NewPerson} |->
                             IF q = NewPerson THEN 0 ELSE persons[q]]

\* Mutant: the pass forgets the cluster it opened.
OpenClusterUncached ==
  /\ at = "embedded"
  /\ MutexFree
  /\ Matching = {}
  /\ nextCluster' = nextCluster + 1
  /\ PersonAdded
  /\ job' = [job EXCEPT !.person = NewPerson, !.cluster = nextCluster]
  /\ at' = "inserting"
  /\ UNCHANGED <<world, power, scanning, queued, asking, todo, clusters, faces, processed, hashes,
                 requests, crashes, mishaps>>

OpenCluster ==
  /\ at = "embedded"
  /\ MutexFree
  /\ Matching = {}
  /\ nextCluster' = nextCluster + 1
  /\ \/ /\ PersonAdded
        /\ clusters' = clusters \cup
             {[id |-> nextCluster, person |-> NewPerson, who |-> {Embedding}]}
        /\ job' = [job EXCEPT !.person = NewPerson, !.cluster = nextCluster]
        /\ at' = "inserting"
        /\ NoFault
     \/ /\ Fault
        /\ at' = "faces"
        /\ UNCHANGED <<persons, clusters, job>>
  /\ UNCHANGED <<world, power, scanning, queued, asking, todo, faces, processed, hashes, requests,
                 crashes>>

InsertFace ==
  /\ at = "inserting"
  /\ \/ /\ faces' = Append(faces, [hash |-> job.hash, who |-> job.who, engine |-> job.engine,
                                   person |-> job.person, cluster |-> job.cluster])
        /\ job' = [job EXCEPT !.face = Len(faces) + 1]
        /\ at' = "covering"
        /\ NoFault
     \/ /\ Fault
        /\ at' = "faces"
        /\ UNCHANGED <<faces, job>>
  /\ UNCHANGED <<world, power, scanning, queued, asking, todo, clusters, nextCluster, persons,
                 processed, hashes, requests, crashes>>

\* Mutant: every face becomes the cover, whether the person is there or not.
SetCoverUnchecked ==
  /\ at = "covering"
  /\ persons' = [q \in DOMAIN persons \cup {job.person} |->
                   IF q = job.person THEN job.face ELSE persons[q]]
  /\ at' = "faces"
  /\ UNCHANGED <<world, power, scanning, queued, asking, pass, faces, processed, hashes, requests,
                 crashes, mishaps>>

\* A person without a cover gets this face; an error is ignored.
SetPersonCover ==
  /\ at = "covering"
  /\ \/ /\ IF job.person \in DOMAIN persons /\ persons[job.person] = 0
           THEN persons' = [persons EXCEPT ![job.person] = job.face]
           ELSE UNCHANGED persons
        /\ NoFault
     \/ Ignored /\ UNCHANGED persons
  /\ at' = "faces"
  /\ UNCHANGED <<world, power, scanning, queued, asking, pass, faces, processed, hashes, requests,
                 crashes>>

MarkProcessed ==
  /\ at = "faces"
  /\ job.left = {}
  /\ \/ processed' = [processed EXCEPT ![job.path] = [mtime |-> job.mtime, hash |-> job.hash]] /\ NoFault
     \/ Ignored /\ UNCHANGED processed
  /\ at' = "linking"
  /\ UNCHANGED <<world, power, scanning, queued, asking, pass, faces, persons, hashes, requests,
                 crashes>>

PutHash ==
  /\ at = "linking"
  /\ \/ hashes' = [hashes EXCEPT ![job.path] = [mtime |-> job.mtime, hash |-> job.hash]] /\ NoFault
     \/ Ignored /\ UNCHANGED hashes
  /\ job' = NoJob
  /\ at' = "next"
  /\ UNCHANGED <<world, power, scanning, queued, asking, todo, clusters, nextCluster, faces, persons,
                 processed, requests, crashes>>

----------------------------------------------------------------------------
(* Merging persons                                                         *)

\* POST /api/faces/persons/merge finds both persons before it merges them.
FindPersons(from, to) ==
  /\ MutexFree /\ engine # 0
  /\ merges < MaxMerges
  /\ from # to
  /\ merging' = merging \cup {<<from, to>>}
  /\ merges' = merges + 1
  /\ UNCHANGED <<world, power, scanning, queued, asking, at, pass, store, crashes, mishaps>>

\* One transaction; nothing in it asks whether a person is still there.
MergePersons(from, to) ==
  /\ <<from, to>> \in merging
  /\ faces' = [i \in DOMAIN faces |->
                 [faces[i] EXCEPT !.person = IF @ = from THEN to ELSE @]]
  /\ persons' = [q \in DOMAIN persons \ {from} |-> persons[q]]
  /\ merging' = merging \ {<<from, to>>}
  /\ UNCHANGED <<world, power, scanning, queued, asking, at, pass, processed, hashes, merges, crashes,
                 mishaps>>

----------------------------------------------------------------------------
(* Reload: after a download, and on PUT /api/faces/models                  *)

\* The old engine is closed, and a new one opened if library and models are there.
ReloadEngine ==
  /\ MutexFree
  /\ reloads < MaxReloads
  /\ reloads' = reloads + 1
  /\ \/ engine' = reloads + 1 /\ reloading' = "opened"
     \/ engine' = 0 /\ UNCHANGED reloading
  /\ faulty' = (faulty \/ at # "off")
  /\ UNCHANGED <<world, dims, halfReset, scanning, queued, asking, at, pass, store, requests, crashes,
                 faults>>

\* Rows that speak of faces.
Leftover == DOMAIN persons # {} \/ \E p \in Paths : processed[p] # NoImage

\* Mutant: the dimension is forgotten before the index.
DeleteMetaFirst(n) ==
  /\ dims' = IF n > 0 THEN 0 ELSE dims
  /\ faces' = IF n > 1 THEN << >> ELSE faces
  /\ persons' = IF n > 2 THEN << >> ELSE persons
  /\ processed' = IF n > 3 THEN [p \in Paths |-> NoImage] ELSE processed
  /\ halfReset' = IF n < 2 THEN halfReset ELSE Leftover'

\* The first n of the four DELETEs of Reset, in one Exec without a transaction: each is
\* committed by itself.  The table hashes stays.
Delete(n) ==
  /\ faces' = IF n > 0 THEN << >> ELSE faces
  /\ persons' = IF n > 1 THEN << >> ELSE persons
  /\ processed' = IF n > 2 THEN [p \in Paths |-> NoImage] ELSE processed
  /\ dims' = IF n > 3 THEN 0 ELSE dims
  /\ halfReset' = IF n = 0 THEN halfReset ELSE Leftover'

\* The index is of another dimension than the engine.
ResetDue == dims \notin {0, DimsOf[engine]}

\* GetMeta and Reset.  GetMeta may fail, and any DELETE: the error is ignored.
ResetStore ==
  /\ reloading = "opened"
  /\ reloading' = "checked"
  /\ \/ /\ Delete(IF ResetDue THEN 4 ELSE 0)
        /\ faulty' = (faulty \/ at # "off") /\ UNCHANGED faults
     \/ \E n \in IF ResetDue THEN 0 .. 3 ELSE {0} : Delete(n) /\ Fault
  /\ UNCHANGED <<world, engine, reloads, scanning, queued, asking, at, pass, hashes, requests, crashes>>

\* SetMeta, whatever became of Reset; an error is ignored.
StoreDims ==
  /\ reloading = "checked"
  /\ reloading' = "no"
  /\ \/ dims' = DimsOf[engine] /\ faulty' = (faulty \/ at # "off") /\ UNCHANGED faults
     \/ Fault /\ UNCHANGED dims
  /\ UNCHANGED <<world, engine, reloads, halfReset, scanning, queued, asking, at, pass, store, requests,
                 crashes>>

----------------------------------------------------------------------------
(* The world                                                               *)

\* A file changes, goes, or comes back as it was.
ChangeFile(p) ==
  /\ changes < MaxChanges
  /\ changes' = changes + 1
  /\ \/ file' = [file EXCEPT ![p].there = ~ @]
     \/ file[p].mtime < MaxMtime /\ file' = [file EXCEPT ![p] = [there |-> TRUE, mtime |-> @.mtime + 1]]
  /\ UNCHANGED <<indexed, power, scanning, queued, asking, at, pass, store, requests, crashes, mishaps>>

\* The media scanner upserts or deletes a row.
IndexFile(p) ==
  /\ indexed' = [indexed EXCEPT ![p] = IF file[p].there THEN file[p].mtime ELSE 0]
  /\ UNCHANGED <<file, changes, power, scanning, queued, asking, at, pass, store, requests, crashes,
                 mishaps>>

\* The process dies, also between two DELETEs of a reset; it boots without an engine until
\* Reload has run.
Crash ==
  /\ crashes < MaxCrashes
  /\ crashes' = crashes + 1
  /\ \E n \in IF reloading = "opened" /\ ResetDue THEN 0 .. 4 ELSE {0} : Delete(n)
  /\ engine' = 0
  /\ reloading' = "no"
  /\ scanning' = FALSE
  /\ queued' = FALSE
  /\ caller' = [c \in Callers |-> "idle"]
  /\ at' = "off"
  /\ todo' = {}
  /\ clusters' = {}
  /\ nextCluster' = 0
  /\ job' = NoJob
  /\ merging' = {}
  /\ UNCHANGED <<world, reloads, triggers, hashes, merges, mishaps>>

----------------------------------------------------------------------------
Init ==
  /\ file = [p \in Paths |-> [there |-> TRUE, mtime |-> 1]]
  /\ changes = 0
  /\ indexed = [p \in Paths |-> 0]
  /\ engine = 0
  /\ reloads = 0
  /\ reloading = "no"
  /\ dims = 0
  /\ halfReset = FALSE
  /\ scanning = FALSE
  /\ queued = FALSE
  /\ caller = [c \in Callers |-> "idle"]
  /\ triggers = 0
  /\ at = "off"
  /\ todo = {}
  /\ clusters = {}
  /\ nextCluster = 0
  /\ job = NoJob
  /\ faces = << >>
  /\ persons = << >>
  /\ processed = [p \in Paths |-> NoImage]
  /\ hashes = [p \in Paths |-> NoImage]
  /\ merging = {}
  /\ merges = 0
  /\ crashes = 0
  /\ faults = 0
  /\ faulty = FALSE

LoopStep ==
  \/ StartPass \/ EndPass \/ StopLoop
  \/ Images \/ ProcessedMap \/ ReadClusters \/ NextClusterID
  \/ \E e \in todo : HashFile(e)
  \/ Decode \/ Detect
  \/ \E w \in Who : EmbedFails(w) \/ Embed(w)
  \/ JoinCluster \/ OpenCluster
  \/ InsertFace \/ SetPersonCover \/ MarkProcessed \/ PutHash

Next ==
  \/ \E c \in Callers : Ask(c) \/ Enter(c) \/ MarkQueued(c)
  \/ LoopStep
  \/ \E from, to \in DOMAIN persons : FindPersons(from, to)
  \/ \E m \in merging : MergePersons(m[1], m[2])
  \/ ReloadEngine
  \/ ResetStore
  \/ StoreDims
  \/ \E p \in Paths : ChangeFile(p) \/ IndexFile(p)
  \/ Crash

\* Goroutines that have started are scheduled; clients, files and reloads promise nothing.
Fairness ==
  /\ WF_vars(LoopStep)
  /\ \A c \in Callers : WF_vars(Enter(c)) /\ WF_vars(MarkQueued(c))
  /\ WF_vars(ResetStore) /\ WF_vars(StoreDims)

Spec == Init /\ [][Next]_vars
FairSpec == Spec /\ Fairness

----------------------------------------------------------------------------
(* Properties                                                              *)

Phase == {"off", "starting", "listing", "comparing", "clustering", "numbering", "next", "hashed",
          "decoded", "faces", "embedded", "inserting", "covering", "linking", "stopping"}

TypeOK ==
  /\ file \in [Paths -> [there : BOOLEAN, mtime : Mtime]]
  /\ changes \in 0 .. MaxChanges
  /\ indexed \in [Paths -> 0 .. MaxMtime]
  /\ engine \in 0 .. MaxReloads
  /\ reloads \in 0 .. MaxReloads
  /\ reloading \in {"no", "opened", "checked"}
  /\ dims \in Nat
  /\ halfReset \in BOOLEAN
  /\ scanning \in BOOLEAN
  /\ queued \in BOOLEAN
  /\ caller \in [Callers -> {"idle", "asking", "refused"}]
  /\ triggers \in 0 .. MaxTriggers
  /\ at \in Phase
  /\ todo \subseteq Paths \X Mtime
  /\ \A c \in clusters : c.id \in Nat /\ c.person \in Nat /\ c.who \subseteq Who \X Nat
  /\ nextCluster \in Nat
  /\ at \in {"hashed", "decoded", "faces", "embedded", "inserting", "covering", "linking"} =>
       job.path \in Paths /\ job.mtime \in Mtime /\ job.hash \in Hashes /\ job.left \subseteq Who
  /\ faces \in Seq(Face)
  /\ \A q \in DOMAIN persons : q \in Nat \ {0} /\ persons[q] \in Nat
  /\ processed \in [Paths -> Image]
  /\ hashes \in [Paths -> Image]
  /\ merging \subseteq Nat \X Nat
  /\ merges \in 0 .. MaxMerges
  /\ crashes \in 0 .. MaxCrashes
  /\ faults \in 0 .. MaxFaults
  /\ faulty \in BOOLEAN

\* worker=1: the flag is up exactly while a loop runs, so no trigger starts a second one, and
\* none is refused for a loop that is gone.
OneLoop == scanning <=> at # "off"

\* Everybody on an image that later passes will skip is in the table.
RecognisedWhenSkipped ==
  \A p \in Paths :
    processed[p].mtime = file[p].mtime =>
      /\ processed[p].hash = HashOf(p)
      /\ \A w \in Shows[HashOf(p)] :
           \E i \in DOMAIN faces : faces[i].hash = HashOf(p) /\ faces[i].who = w

\* An image that later passes will skip has all its faces in the table: its content is what
\* was hashed, and everybody on it was recorded, unless something failed on the way or a
\* reset broke off in the middle.
SkippedAreRecognised == ~ faulty /\ ~ halfReset => RecognisedWhenSkipped

\* The persons are the individuals: two faces are of one person exactly if they depict the
\* same individual, over passes, crashes and changed files, until a client merges persons.
PersonsAreIndividuals ==
  ~ faulty /\ merges = 0 =>
    \A i, j \in DOMAIN faces : faces[i].person = faces[j].person <=> faces[i].who = faces[j].who

\* No engine has the dimension of an earlier one if one between them has another.
NeverBack ==
  \A e1, e2, e3 \in Engine :
    e1 < e2 /\ e2 < e3 /\ DimsOf[e1] = DimsOf[e3] => DimsOf[e2] = DimsOf[e1]

\* A cluster holds embeddings of one dimension, also when a face of the old engine comes after
\* the reset that its reload made, as long as no reload goes back to a dimension that was
\* given up: Clusters adds them up at the length of the first one, and a longer one would end
\* the process.
ClustersAddUp ==
  faults = 0 /\ NeverBack =>
    \A i, j \in DOMAIN faces :
      faces[i].cluster = faces[j].cluster => DimsOf[faces[i].engine] = DimsOf[faces[j].engine]

\* A reset that a crash has cut is done again before an engine is used: the dimension goes
\* last, so the next Reload finds the old one.  It does not if that Reload is back at the old
\* dimension, or if a statement of the reset failed.
HalfResetIsRepeated == faults = 0 /\ NeverBack /\ halfReset => engine = 0 \/ ~ MutexFree

\* The cover of a person is one of its own faces, whatever is merged or reset meanwhile,
\* unless a reset broke off between faces and persons.
CoverIsOwn ==
  ~ halfReset =>
    \A q \in DOMAIN persons :
      persons[q] # 0 => persons[q] \in DOMAIN faces /\ faces[persons[q]].person = q

\* A mark that another pass is due is taken up.
MarkIsTakenUp == queued ~> ~ queued

\* Every face belongs to a person that exists.
FacesHavePersons == \A i \in DOMAIN faces : faces[i].person \in DOMAIN persons
=============================================================================
