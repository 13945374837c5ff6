--------------------------- MODULE MediaScan_proofs ---------------------------
(***************************************************************************)
(* Proofs about MediaScan, for any shares, names, channel capacity and     *)
(* positive number of workers, and any bounds on what the world does.      *)
(***************************************************************************)
EXTENDS MediaScan, FiniteSetTheorems, TLAPS

----------------------------------------------------------------------------
(* Type correctness                                                        *)

\* A worker that is busy has a path, a walker that sends has one, and the channel is finite.
Held ==
  /\ \A w \in Workers : worker[w].at \in {"stated", "extracted"} => worker[w].path \in Path
  /\ walker = "sending" => sending \in Path
  /\ IsFiniteSet(jobs)

TypeInv == TypeOK /\ Held

LEMMA RestTyped == /\ Idle \in WorkerState /\ Exited \in WorkerState
                   /\ Idle.at = "idle" /\ Exited.at = "exited" /\ NoRow \in Row
<1>1. NoRow \in Row
  BY BoundsAssumption DEF NoRow, Row, Live
<1>2. Idle \in WorkerState /\ Idle.at = "idle"
  BY <1>1 DEF Idle, WorkerState
<1>3. Exited \in WorkerState /\ Exited.at = "exited"
  BY <1>2 DEF Exited, WorkerState
<1> QED
  BY <1>1, <1>2, <1>3

LEMMA NoTimesTyped == NoTimes \in [Path -> 0 .. MaxMtime]
BY BoundsAssumption DEF NoTimes

LEMMA TypeInit == Init => TypeInv
<1> SUFFICES ASSUME Init PROVE TypeInv
  OBVIOUS
<1>1. file \in [Path -> File]
  BY DEF Init
<1>2. index \in [Path -> Row] /\ worker \in [Workers -> WorkerState]
  BY RestTyped DEF Init
<1>3. snapshot \in [Path -> 0 .. MaxMtime] /\ mtimes \in [Path -> 0 .. MaxMtime]
  BY NoTimesTyped DEF Init
<1>4. IsFiniteSet(jobs) /\ Cardinality(jobs) <= JobCap /\ jobs \subseteq Path
  BY FS_EmptySet, JobCapAssumption DEF Init
<1>a. changes \in 0 .. MaxChanges /\ fulls \in 0 .. MaxFulls
  BY BoundsAssumption DEF Init
<1>5. TypeOK
  BY <1>1, <1>2, <1>3, <1>4, <1>a DEF Init, TypeOK
<1>6. Held
  BY <1>4, RestTyped DEF Init, Held
<1> QED
  BY <1>5, <1>6 DEF TypeInv

\* A refused start changes nothing of the scan; an admitted one has everything to do.
LEMMA AdmitTyped ==
  ASSUME TypeInv, NEW times \in [Path -> 0 .. MaxMtime], Admit(times),
         UNCHANGED <<world, index>>, boot' \in {"start", "ready", "over"},
         snapshot' \in [Path -> 0 .. MaxMtime], fulls' \in 0 .. MaxFulls
  PROVE  TypeInv'
<1> USE DEF TypeInv, TypeOK, Held, world
<1>1. CASE at = "idle"
  <2>1. worker' \in [Workers -> WorkerState] /\ \A w \in Workers : worker'[w].at = "idle"
    BY <1>1, RestTyped DEF Admit
  <2> QED
    BY <1>1, <2>1 DEF Admit
<1>2. CASE at # "idle"
  BY <1>2 DEF Admit, pool
<1> QED
  BY <1>1, <1>2

\* One step per action.
LEMMA TypeNext == TypeInv /\ [Next]_vars => TypeInv'
<1> SUFFICES ASSUME TypeInv, [Next]_vars PROVE TypeInv'
  OBVIOUS
<1> USE DEF TypeInv, TypeOK, Held
<1>1. CASE Full
  <2>1. Admit(NoTimes) /\ UNCHANGED <<world, index>>
    BY <1>1 DEF Full
  <2>2. /\ boot' \in {"start", "ready", "over"} /\ snapshot' \in [Path -> 0 .. MaxMtime]
        /\ fulls' \in 0 .. MaxFulls
    BY <1>1, BoundsAssumption DEF Full
  <2> QED
    BY <2>1, <2>2, AdmitTyped, NoTimesTyped
<1>2. CASE ModifiedTimes
  <2>1. snapshot' \in [Path -> 0 .. MaxMtime]
    BY <1>2 DEF ModifiedTimes, Row
  <2> QED
    BY <1>2, <2>1 DEF ModifiedTimes, world, pool
<1>3. CASE Incremental
  BY <1>3, AdmitTyped, NoTimesTyped DEF Incremental, world
<1>4. CASE WalkRoots
  BY <1>4 DEF WalkRoots, world, starting
<1>5. ASSUME NEW p \in Path, Visit(p) PROVE TypeInv'
  BY <1>5 DEF Visit, world, starting
<1>6. CASE Send
  <2>a. IsFiniteSet(jobs \cup {sending}) /\ Cardinality(jobs) \in Nat
    BY FS_AddElement, FS_CardinalityType
  <2>b. Cardinality(jobs \cup {sending}) <= Cardinality(jobs) + 1
    BY <2>a, FS_AddElement
  <2>c. Cardinality(jobs \cup {sending}) \in Nat
    BY <2>a, FS_CardinalityType
  <2>1. /\ jobs \cup {sending} \subseteq Path
        /\ Cardinality(jobs) < JobCap => Cardinality(jobs \cup {sending}) <= JobCap
    BY <1>6, <2>a, <2>b, <2>c, JobCapAssumption DEF Send
  <2>2. jobs' \subseteq Path /\ IsFiniteSet(jobs') /\ Cardinality(jobs') <= JobCap
    BY <1>6, <2>a, <2>1 DEF Send
  <2> QED
    BY <1>6, <2>2 DEF Send, world, starting
<1>7. CASE WalkEnd
  BY <1>7 DEF WalkEnd, world, starting
<1>8. ASSUME NEW w \in Workers, NEW p \in Path, Take(w, p) PROVE TypeInv'
  <2>1. jobs' \subseteq Path /\ IsFiniteSet(jobs') /\ Cardinality(jobs') <= JobCap
    <3>1. jobs' = jobs \ {p} /\ jobs' \subseteq jobs
      BY <1>8 DEF Take
    <3>2. IsFiniteSet(jobs') /\ Cardinality(jobs') <= Cardinality(jobs)
      BY <3>1, FS_Subset
    <3>3. Cardinality(jobs') \in Nat /\ Cardinality(jobs) \in Nat
      BY <3>2, FS_CardinalityType
    <3> QED
      BY <3>1, <3>2, <3>3, JobCapAssumption
  <2>2. [at |-> "stated", path |-> p, row |-> [NoRow EXCEPT !.mtime = file[p].mtime]] \in WorkerState
    <3>1. file[p].mtime \in 0 .. MaxMtime
      BY BoundsAssumption DEF File, Mtime
    <3>2. [NoRow EXCEPT !.mtime = file[p].mtime] \in Row
      BY <3>1, RestTyped DEF Row
    <3> QED
      BY <3>2 DEF WorkerState
  <2>3. worker' \in [Workers -> WorkerState]
    BY <1>8, <2>2, RestTyped DEF Take
  <2>4. \A v \in Workers : worker'[v].at \in {"stated", "extracted"} => worker'[v].path \in Path
    BY <1>8, RestTyped DEF Take
  <2> QED
    BY <1>8, <2>1, <2>3, <2>4 DEF Take, world, starting
<1>9. ASSUME NEW w \in Workers, Extract(w) PROVE TypeInv'
  <2> DEFINE p == worker[w].path
             new == [worker[w] EXCEPT !.at = "extracted",
                       !.row.read = IF file[p].there THEN file[p].mtime ELSE 0,
                       !.row.live = IF p \in Photo /\ p[1] \in Motion /\ file[p].there
                                    THEN "motion" ELSE "none"]
  <2>1. p \in Path /\ file[p].mtime \in 0 .. MaxMtime
    BY <1>9, BoundsAssumption DEF Extract, File, Mtime
  <2>2. new \in WorkerState /\ new.path = p
    <3>1. worker[w] \in WorkerState /\ worker[w].row \in Row /\ worker[w].path \in Path
      BY <2>1 DEF WorkerState
    <3>2. ASSUME NEW read \in 0 .. MaxMtime, NEW live \in Live
          PROVE  [worker[w] EXCEPT !.at = "extracted", !.row.read = read, !.row.live = live]
                   \in [at : {"extracted"}, path : {p}, row : Row]
      BY <3>1 DEF WorkerState, Row
    <3>3. (IF file[p].there THEN file[p].mtime ELSE 0) \in 0 .. MaxMtime
      BY <2>1, BoundsAssumption
    <3>4. (IF p \in Photo /\ p[1] \in Motion /\ file[p].there THEN "motion" ELSE "none") \in Live
      BY DEF Live
    <3>5. new \in [at : {"extracted"}, path : {p}, row : Row]
      BY <3>2, <3>3, <3>4
    <3> QED
      BY <3>5, <2>1 DEF WorkerState
  <2>3. worker' = [worker EXCEPT ![w] = new]
    BY <1>9 DEF Extract
  <2> QED
    BY <1>9, <2>1, <2>2, <2>3 DEF Extract, world, starting
<1>10. ASSUME NEW w \in Workers, Upsert(w) PROVE TypeInv'
  <2>1. worker[w].row \in Row
    BY DEF WorkerState
  <2>2. index' \in [Path -> Row]
    BY <1>10, <2>1 DEF Upsert
  <2>3. worker' \in [Workers -> WorkerState]
    BY <1>10, RestTyped DEF Upsert
  <2>4. \A v \in Workers : worker'[v].at \in {"stated", "extracted"} => worker'[v].path \in Path
    BY <1>10, RestTyped DEF Upsert
  <2> QED
    BY <1>10, <2>2, <2>3, <2>4 DEF Upsert, world, starting
<1>11. ASSUME NEW w \in Workers, Leave(w) PROVE TypeInv'
  BY <1>11, RestTyped DEF Leave, world, starting
<1>12. CASE PoolDone
  BY <1>12 DEF PoolDone, world, starting, pool
<1>13. CASE Abort
  <2>1. IsFiniteSet(jobs') /\ Cardinality(jobs') <= JobCap
    BY <1>13, FS_EmptySet, JobCapAssumption DEF Abort
  <2> QED
    BY <1>13, <2>1 DEF Abort, world, starting
<1>14. CASE SelectMissing
  BY <1>14 DEF SelectMissing, world, starting, pool
<1>15. ASSUME NEW p \in Path, DeleteOne(p) PROVE TypeInv'
  BY <1>15, RestTyped DEF DeleteOne, world, starting, pool
<1>16. ASSUME NEW p \in Path, PairOne(p) PROVE TypeInv'
  <2>1. [index[p] EXCEPT !.live = Paired(p)] \in Row
    BY DEF Row, Paired, Live
  <2>2. index' \in [Path -> Row]
    BY <1>16, <2>1 DEF PairOne
  <2> QED
    BY <1>16, <2>2 DEF PairOne, world, starting, pool
<1>17. CASE DeletedAll \/ ImageMedias \/ PairedAll \/ Finish
  BY <1>17 DEF DeletedAll, ImageMedias, PairedAll, Finish, Photo, world, starting, pool
<1>18. ASSUME NEW S \in ShareLists, PutShares(S) PROVE TypeInv'
  BY <1>18, BoundsAssumption DEF PutShares, pool
<1>19. ASSUME NEW p \in Path, NEW f \in File, ChangeFile(p, f) PROVE TypeInv'
  BY <1>19, BoundsAssumption DEF ChangeFile, starting, pool
<1>20. CASE Cancel
  BY <1>20 DEF Cancel, world, starting, pool
<1>21. CASE Restart
  <2>1. IsFiniteSet(jobs') /\ Cardinality(jobs') <= JobCap
    BY <1>21, FS_EmptySet, JobCapAssumption DEF Restart
  <2>2. fulls' \in 0 .. MaxFulls
    BY <1>21, BoundsAssumption DEF Restart
  <2> QED
    BY <1>21, <2>1, <2>2, NoTimesTyped, RestTyped DEF Restart, world
<1>22. CASE UNCHANGED vars
  BY <1>22 DEF vars, world, starting, pool
<1> QED
  BY <1>1, <1>2, <1>3, <1>4, <1>5, <1>6, <1>7, <1>8, <1>9, <1>10, <1>11, <1>12, <1>13, <1>14,
     <1>15, <1>16, <1>17, <1>18, <1>19, <1>20, <1>21, <1>22
  DEF Next, StartStep, WalkerStep, WorkerStep, ScanStep

\* Every variable of the scanner keeps its type, and the channel its capacity.
THEOREM TypeCorrect == Spec => []TypeOK
<1>1. TypeInv => TypeOK
  BY DEF TypeInv
<1> QED
  BY <1>1, TypeInit, TypeNext, PTL DEF Spec

LEMMA TypeInvariant == Spec => []TypeInv
BY TypeInit, TypeNext, PTL DEF Spec

----------------------------------------------------------------------------
(* NeverBehind                                                             *)

Busy(w) == worker[w].at \in {"stated", "extracted"}

\* A row under construction has the mtime of a stat, which was the file's or an earlier
\* one's, and contents that were read after it.
RowsInHand ==
  \A w \in Workers :
    /\ Busy(w) => worker[w].row.mtime # 0
    /\ worker[w].at = "stated" => worker[w].row.mtime <= file[worker[w].path].mtime
    /\ worker[w].at = "extracted" =>
         worker[w].row.read = 0 \/ worker[w].row.read >= worker[w].row.mtime

\* The versions of a file only grow.
LEMMA VersionsGrow ==
  ASSUME TypeInv, [Next]_vars, NEW p \in Path
  PROVE  file'[p].mtime >= file[p].mtime
<1> USE DEF TypeInv, TypeOK
<1>1. file[p].mtime \in Nat
  BY BoundsAssumption DEF File, Mtime
<1>2. CASE file' = file
  BY <1>1, <1>2
<1>3. ASSUME NEW q \in Path, NEW f \in File, ChangeFile(q, f)
      PROVE  file'[p].mtime >= file[p].mtime
  BY <1>1, <1>3 DEF ChangeFile
<1> QED
  BY <1>2, <1>3 DEF Next, StartStep, Full, ModifiedTimes, Incremental, WalkerStep, WalkRoots, Visit,
     Send, WalkEnd, WorkerStep, Take, Extract, Upsert, Leave, ScanStep, PoolDone, Abort,
     SelectMissing, DeleteOne, PairOne, DeletedAll, ImageMedias, PairedAll, Finish, PutShares,
     Cancel, Restart, world, vars

LEMMA BehindInit == Init => NeverBehind /\ RowsInHand
BY RestTyped DEF Init, NeverBehind, RowsInHand, Busy, NoRow

LEMMA BehindNext ==
  TypeInv /\ NeverBehind /\ RowsInHand /\ [Next]_vars => NeverBehind' /\ RowsInHand'
<1> SUFFICES ASSUME TypeInv, NeverBehind, RowsInHand, [Next]_vars
             PROVE  NeverBehind' /\ RowsInHand'
  OBVIOUS
<1> USE DEF TypeInv, TypeOK, Held
<1>a. \A p \in Path : file[p].mtime \in Nat \ {0} /\ file'[p].mtime \in Nat \ {0}
                      /\ file'[p].mtime >= file[p].mtime
  <2>1. TypeInv'
    BY TypeNext
  <2> QED
    BY <2>1, VersionsGrow, BoundsAssumption DEF File, Mtime
<1>b. \A w \in Workers : worker[w].row.mtime \in Nat /\ worker[w].row.read \in Nat
  BY BoundsAssumption DEF WorkerState, Row
<1>c. CASE UNCHANGED <<index, worker>>
  BY <1>a, <1>b, <1>c DEF NeverBehind, RowsInHand, Busy
<1>d. CASE index' = index /\ (\A w \in Workers : worker'[w].at \in {"idle", "exited"})
  BY <1>d DEF NeverBehind, RowsInHand, Busy
<1>1. ASSUME NEW times, Admit(times), UNCHANGED index PROVE NeverBehind' /\ RowsInHand'
  BY <1>1, <1>c, <1>d, RestTyped DEF Admit, pool
<1>2. CASE Full \/ ModifiedTimes \/ Incremental
  BY <1>1, <1>2, <1>c DEF Full, ModifiedTimes, Incremental, pool
<1>3. CASE WalkerStep
  BY <1>3, <1>c DEF WalkerStep, WalkRoots, Visit, Send, WalkEnd
<1>4. ASSUME NEW w \in Workers, NEW p \in Path, Take(w, p) PROVE NeverBehind' /\ RowsInHand'
  <2>1. index' = index /\ file' = file
    BY <1>4 DEF Take, world
  <2>2. CASE worker' = [worker EXCEPT ![w] = Idle] \/ worker' = [worker EXCEPT ![w] = Exited]
    BY <1>a, <1>b, <2>1, <2>2, RestTyped DEF NeverBehind, RowsInHand, Busy
  <2>3. CASE worker' = [worker EXCEPT ![w] =
                 [at |-> "stated", path |-> p, row |-> [NoRow EXCEPT !.mtime = file[p].mtime]]]
    BY <1>a, <1>b, <2>1, <2>3 DEF NeverBehind, RowsInHand, Busy, NoRow
  <2> QED
    BY <1>4, <2>2, <2>3 DEF Take
<1>5. ASSUME NEW w \in Workers, Extract(w) PROVE NeverBehind' /\ RowsInHand'
  <2> DEFINE p == worker[w].path
  <2>1. index' = index /\ file' = file /\ p \in Path
    BY <1>5 DEF Extract, world
  <2>2. worker[w].row.mtime # 0 /\ worker[w].row.mtime <= file[p].mtime
    BY <1>5 DEF Extract, RowsInHand, Busy
  <2>3. /\ worker'[w].at = "extracted"
        /\ worker'[w].row.mtime = worker[w].row.mtime
        /\ worker'[w].row.read = IF file[p].there THEN file[p].mtime ELSE 0
    BY <1>5 DEF Extract, WorkerState, Row
  <2>4. \A v \in Workers \ {w} : worker'[v] = worker[v]
    BY <1>5 DEF Extract
  <2> QED
    BY <1>a, <1>b, <2>1, <2>2, <2>3, <2>4 DEF NeverBehind, RowsInHand, Busy
<1>6. ASSUME NEW w \in Workers, Upsert(w) PROVE NeverBehind' /\ RowsInHand'
  <2>1. file' = file /\ worker' = [worker EXCEPT ![w] = Idle]
    BY <1>6 DEF Upsert, world
  <2>2. RowsInHand'
    BY <2>1, RestTyped DEF RowsInHand, Busy
  <2>3. worker[w].row.read = 0 \/ worker[w].row.read >= worker[w].row.mtime
    BY <1>6 DEF Upsert, RowsInHand
  <2>4. NeverBehind'
    BY <1>6, <2>3 DEF Upsert, NeverBehind
  <2> QED
    BY <2>2, <2>4
<1>7. ASSUME NEW w \in Workers, Leave(w) PROVE NeverBehind' /\ RowsInHand'
  BY <1>7, RestTyped DEF Leave, world, NeverBehind, RowsInHand, Busy
<1>8. ASSUME NEW p \in Path, DeleteOne(p) PROVE NeverBehind' /\ RowsInHand'
  BY <1>8 DEF DeleteOne, world, pool, NeverBehind, RowsInHand, Busy, NoRow
<1>9. ASSUME NEW p \in Path, PairOne(p) PROVE NeverBehind' /\ RowsInHand'
  <2>1. \A q \in Path : index'[q].read = index[q].read /\ index'[q].mtime = index[q].mtime
    <3>1. LET new == [index[p] EXCEPT !.live = Paired(p)]
          IN new.read = index[p].read /\ new.mtime = index[p].mtime
      BY DEF Row
    <3>2. index' = index \/ index' = [index EXCEPT ![p] = [index[p] EXCEPT !.live = Paired(p)]]
      BY <1>9 DEF PairOne
    <3> QED
      BY <3>1, <3>2
  <2> QED
    BY <1>9, <2>1 DEF PairOne, world, pool, NeverBehind, RowsInHand, Busy
<1>10. CASE PoolDone \/ Abort \/ SelectMissing \/ DeletedAll \/ ImageMedias \/ PairedAll \/ Finish
            \/ Cancel \/ UNCHANGED vars
  BY <1>10, <1>c DEF PoolDone, Abort, SelectMissing, DeletedAll, ImageMedias, PairedAll, Finish,
     Cancel, pool, vars
<1>11. CASE (\E S \in ShareLists : PutShares(S)) \/ (\E p \in Path, f \in File : ChangeFile(p, f))
  BY <1>11, <1>c DEF PutShares, ChangeFile, pool
<1>12. CASE Restart
  BY <1>12, <1>d, RestTyped DEF Restart
<1> QED
  BY <1>2, <1>3, <1>4, <1>5, <1>6, <1>7, <1>8, <1>9, <1>10, <1>11, <1>12
  DEF Next, StartStep, WorkerStep, ScanStep

\* A row never shows older contents under a newer mtime, whatever changes, fails, is cancelled
\* or crashes between the stat, the extraction and the upsert of a worker.
THEOREM RowsNeverBehind == Spec => []NeverBehind
<1>1. Init => TypeInv /\ NeverBehind /\ RowsInHand
  BY TypeInit, BehindInit
<1>2. TypeInv /\ NeverBehind /\ RowsInHand /\ [Next]_vars
        => (TypeInv /\ NeverBehind /\ RowsInHand)'
  BY TypeNext, BehindNext
<1> QED
  BY <1>1, <1>2, PTL DEF Spec

----------------------------------------------------------------------------
(* KeepsSteadyRows                                                         *)

\* Where the goroutines are in each phase of the scan: the pool is empty behind it, and while
\* the scan is not cancelled a worker exits only when the walk is complete.
Phases ==
  /\ at # "pool" => \A w \in Workers : worker[w].at = "exited"
  /\ at \notin {"pool", "aborted"} => walker = "closed" /\ jobs = {}
  /\ at = "pool" /\ ~ cancelled =>
       /\ walker = "closed" => left = {}
       /\ \A w \in Workers : worker[w].at = "exited" => walker = "closed" /\ jobs = {}

\* A row has an mtime, also one that the pairing is about to touch.
RowsReal ==
  /\ \A p \in Path : index[p] # NoRow => index[p].mtime # 0
  /\ images # {} => at = "pairing"
  /\ \A p \in images : index[p].mtime # 0

\* A steady path is visited only if it is configured, and seen only if its file is there.
SeenThere ==
  at # "idle" =>
    \A p \in steady : /\ p \in seen => Indexable(p)
                      /\ walker # "roots" /\ p \in left => Configured(p)

\* A steady file is still to be visited or seen: until the pool is done if the scan is not
\* cancelled, and seen when the rows of missing files are selected.
Covered ==
  /\ at = "pool" /\ ~ cancelled =>
       \A p \in steady : Indexable(p) => walker = "roots" \/ p \in left \/ p \in seen
  /\ at = "waited" => \A p \in steady : Indexable(p) => p \in seen

\* The selected rows are those of steady paths without a file, at least.
StaleGone ==
  /\ at = "deleting" => \A p \in steady : IF Indexable(p) THEN p \notin stale
                                          ELSE index[p] = NoRow \/ p \in stale
  /\ at \in {"deleted", "pairing", "done"} /\ ~ failed =>
       \A p \in steady : ~ Indexable(p) => index[p] = NoRow

KeepInv == Phases /\ RowsReal /\ Covered /\ SeenThere /\ StaleGone

\* What a step of the world does to the paths that stay steady: nothing.
LEMMA KeepWorld ==
  ASSUME KeepInv, steady' \subseteq steady,
         \A p \in steady' : Indexable(p)' = Indexable(p) /\ Configured(p)' = Configured(p),
         UNCHANGED <<index, at, pool, stale, images, cancelled, failed>>
  PROVE  KeepInv'
BY DEF KeepInv, Phases, RowsReal, Covered, SeenThere, StaleGone, pool

\* Steps of the world, and what they leave alone.
LEMMA WorldSteps ==
  ASSUME TypeInv, (\E S \in ShareLists : PutShares(S)) \/ (\E p \in Path, f \in File : ChangeFile(p, f))
  PROVE  /\ steady' \subseteq steady
         /\ \A p \in steady' : /\ file'[p] = file[p]
                               /\ Configured(p)' = Configured(p)
                               /\ Indexable(p)' = Indexable(p)
         /\ UNCHANGED <<index, at, mtimes, pool, stale, images, cancelled, failed>>
<1>1. ASSUME NEW S \in ShareLists, PutShares(S)
      PROVE  /\ file' = file /\ steady' \subseteq steady
             /\ \A p \in steady' : Configured(p)' = Configured(p)
             /\ UNCHANGED <<index, at, mtimes, pool, stale, images, cancelled, failed>>
  BY <1>1 DEF PutShares, Configured
<1>2. ASSUME NEW q \in Path, NEW f \in File, ChangeFile(q, f)
      PROVE  /\ shares' = shares /\ steady' \subseteq steady
             /\ \A p \in steady' : file'[p] = file[p]
             /\ UNCHANGED <<index, at, mtimes, pool, stale, images, cancelled, failed>>
  BY <1>2 DEF ChangeFile, TypeInv, TypeOK
<1> QED
  BY <1>1, <1>2 DEF Indexable, Configured

LEMMA KeepInit == Init => KeepInv
BY RestTyped DEF Init, KeepInv, Phases, RowsReal, Covered, SeenThere, StaleGone

\* One step per action.
LEMMA KeepNext ==
  TypeInv /\ RowsInHand /\ KeepInv /\ [Next]_vars => KeepInv'
<1> SUFFICES ASSUME TypeInv, RowsInHand, KeepInv, [Next]_vars PROVE KeepInv'
  OBVIOUS
<1> USE DEF KeepInv, Phases, RowsReal, Covered, SeenThere, StaleGone
<1>a. ASSUME UNCHANGED world PROVE \A p \in Path : /\ Indexable(p)' = Indexable(p)
                                                   /\ Configured(p)' = Configured(p)
  BY <1>a DEF world, Indexable, Configured
<1>b. steady \subseteq Path /\ images \subseteq Path
  BY DEF TypeInv, TypeOK
<1>1. ASSUME NEW times, Admit(times), UNCHANGED <<world, index>> PROVE KeepInv'
  <2>1. CASE at = "idle"
    BY <1>a, <1>1, <2>1, RestTyped DEF Admit
  <2>2. CASE at # "idle"
    BY <1>a, <1>b, <1>1, <2>2 DEF Admit, pool
  <2> QED
    BY <2>1, <2>2
<1>2. CASE Full \/ Incremental
  BY <1>1, <1>2 DEF Full, Incremental
<1>3. CASE ModifiedTimes \/ UNCHANGED vars
  BY <1>a, <1>b, <1>3 DEF ModifiedTimes, vars, pool
<1>4. CASE WalkRoots
  BY <1>a, <1>b, <1>4 DEF WalkRoots, Indexable
<1>5. ASSUME NEW p \in Path, Visit(p) PROVE KeepInv'
  BY <1>a, <1>b, <1>5 DEF Visit, Indexable
<1>6. CASE Send
  BY <1>a, <1>b, <1>6 DEF Send
<1>7. CASE WalkEnd
  BY <1>a, <1>b, <1>7 DEF WalkEnd
<1>8. ASSUME NEW w \in Workers, NEW p \in Path, Take(w, p) PROVE KeepInv'
  BY <1>a, <1>b, <1>8, RestTyped DEF Take, TypeInv, TypeOK
<1>9. ASSUME NEW w \in Workers, Extract(w) PROVE KeepInv'
  BY <1>a, <1>b, <1>9 DEF Extract, TypeInv, TypeOK, WorkerState
<1>10. ASSUME NEW w \in Workers, Upsert(w) PROVE KeepInv'
  BY <1>a, <1>b, <1>10, RestTyped DEF Upsert, TypeInv, TypeOK, Held, RowsInHand, Busy
<1>11. ASSUME NEW w \in Workers, Leave(w) PROVE KeepInv'
  BY <1>a, <1>b, <1>11, RestTyped DEF Leave, TypeInv, TypeOK
<1>12. CASE PoolDone
  BY <1>a, <1>b, <1>12, WorkersAssumption DEF PoolDone, pool
<1>13. CASE Abort
  BY <1>a, <1>b, <1>13 DEF Abort
<1>14. CASE SelectMissing
  BY <1>a, <1>b, <1>14 DEF SelectMissing, pool
<1>15. ASSUME NEW p \in Path, DeleteOne(p) PROVE KeepInv'
  BY <1>a, <1>b, <1>15 DEF DeleteOne, pool, TypeInv, TypeOK
<1>16. CASE DeletedAll
  BY <1>a, <1>b, <1>16 DEF DeletedAll, pool
<1>17. CASE ImageMedias
  BY <1>a, <1>b, <1>17 DEF ImageMedias, pool, Photo
<1>18. ASSUME NEW p \in Path, PairOne(p) PROVE KeepInv'
  <2>1. index[p].mtime # 0 /\ index[p] # NoRow /\ at = "pairing"
    BY <1>18 DEF PairOne, NoRow
  <2>2. \/ index' = index /\ images' = {} /\ at' = "done" /\ failed' = TRUE
        \/ /\ index' = [index EXCEPT ![p] = [index[p] EXCEPT !.live = Paired(p)]]
           /\ images' = images \ {p} /\ UNCHANGED <<at, failed>>
    BY <1>18 DEF PairOne
  <2>3. UNCHANGED <<world, pool, stale, cancelled, steady>>
    BY <1>18 DEF PairOne
  <2>4. index[p] \in Row /\ index \in [Path -> Row]
    BY DEF TypeInv, TypeOK
  <2>5. /\ \A q \in Path \ {p} : index'[q] = index[q]
        /\ index'[p].mtime = index[p].mtime
    BY <2>2, <2>4 DEF Row
  <2>6. RowsReal'
    BY <1>b, <2>1, <2>2, <2>5
  <2>7. Phases' /\ Covered' /\ SeenThere'
    BY <1>a, <1>b, <2>1, <2>2, <2>3 DEF pool
  <2>8. StaleGone'
    BY <1>a, <1>b, <2>1, <2>2, <2>3, <2>5
  <2> QED
    BY <2>6, <2>7, <2>8
<1>19. CASE PairedAll \/ Finish \/ Cancel
  BY <1>a, <1>b, <1>19 DEF PairedAll, Finish, Cancel, pool
<1>20. CASE (\E S \in ShareLists : PutShares(S)) \/ (\E p \in Path, f \in File : ChangeFile(p, f))
  BY <1>20, KeepWorld, WorldSteps
<1>21. CASE Restart
  BY <1>21, RestTyped DEF Restart
<1> QED
  BY <1>2, <1>3, <1>4, <1>5, <1>6, <1>7, <1>8, <1>9, <1>10, <1>11, <1>12, <1>13, <1>14,
     <1>15, <1>16, <1>17, <1>18, <1>19, <1>20, <1>21
  DEF Next, StartStep, WalkerStep, WorkerStep, ScanStep

LEMMA KeepInvariant == Spec => [](TypeInv /\ NeverBehind /\ RowsInHand /\ KeepInv)
<1>1. Init => TypeInv /\ NeverBehind /\ RowsInHand /\ KeepInv
  BY TypeInit, BehindInit, KeepInit
<1>2. TypeInv /\ NeverBehind /\ RowsInHand /\ KeepInv /\ [Next]_vars
        => (TypeInv /\ NeverBehind /\ RowsInHand /\ KeepInv)'
  BY TypeNext, BehindNext, KeepNext
<1> QED
  BY <1>1, <1>2, PTL DEF Spec

\* A step that drops the row of a steady file would be an upsert of an empty row or the
\* deletion of a row that the walk had reason not to see.
LEMMA KeepStep ==
  ASSUME TypeInv, RowsInHand, KeepInv, [Next]_vars,
         NEW p \in steady, index[p] # NoRow, Indexable(p)
  PROVE  index'[p] # NoRow
<1> USE DEF TypeInv, TypeOK
<1>1. CASE UNCHANGED index
  BY <1>1
<1>2. ASSUME NEW w \in Workers, Upsert(w) PROVE index'[p] # NoRow
  <2>1. worker[w].row.mtime # 0
    BY <1>2 DEF Upsert, RowsInHand, Busy
  <2> QED
    BY <1>2, <2>1 DEF Upsert, NoRow
<1>3. ASSUME NEW q \in Path, DeleteOne(q) PROVE index'[p] # NoRow
  BY <1>3 DEF DeleteOne, KeepInv, StaleGone
<1>4. ASSUME NEW q \in Path, PairOne(q) PROVE index'[p] # NoRow
  <2>1. index[p].mtime # 0 /\ index[p] \in Row
    BY DEF KeepInv, RowsReal
  <2>2. index' = index \/ index' = [index EXCEPT ![q] = [index[q] EXCEPT !.live = Paired(q)]]
    BY <1>4 DEF PairOne
  <2>3. [index[p] EXCEPT !.live = Paired(p)].mtime = index[p].mtime
    BY <2>1 DEF Row
  <2>4. index'[p].mtime = index[p].mtime
    BY <2>2, <2>3
  <2> QED
    BY <2>1, <2>4 DEF NoRow
<1> QED
  BY <1>1, <1>2, <1>3, <1>4 DEF Next, StartStep, Full, ModifiedTimes, Incremental, WalkerStep,
     WalkRoots, Visit, Send, WalkEnd, WorkerStep, Take, Extract, Leave, ScanStep, PoolDone, Abort,
     SelectMissing, DeletedAll, ImageMedias, PairedAll, Finish, PutShares, ChangeFile,
     Cancel, Restart, vars

\* No step of any scan, cancelled, failed or interrupted, drops the row of a file that stayed
\* where it was since the scan began.
THEOREM SteadyRowsKept == Spec => KeepsSteadyRows
<1>1. TypeInv /\ NeverBehind /\ RowsInHand /\ KeepInv /\ [Next]_vars
        => [\A p \in steady : index[p] # NoRow /\ Indexable(p) => index'[p] # NoRow]_vars
  BY KeepStep
<1> QED
  BY <1>1, KeepInvariant, PTL DEF Spec, KeepsSteadyRows

----------------------------------------------------------------------------
(* FullScanExact                                                           *)

\* The live-photo column that extract finds.
Embedded(p) == IF p \in Photo /\ p[1] \in Motion THEN "motion" ELSE "none"
Fresh(p) == index[p] = [mtime |-> file[p].mtime, read |-> file[p].mtime, live |-> Embedded(p)]

\* A worker on a steady path has read the file as it is.
HandsRight ==
  \A w \in Workers :
    LET p == worker[w].path
        row == worker[w].row
    IN Busy(w) /\ p \in steady =>
         /\ file[p].there /\ row.mtime = file[p].mtime
         /\ worker[w].at = "extracted" => row.read = file[p].mtime /\ row.live = Embedded(p)

\* Until the pool is done, a steady file is on its way to its row or has it.
OnItsWay(p) ==
  \/ walker = "roots" \/ p \in left \/ (walker = "sending" /\ sending = p) \/ p \in jobs
  \/ \E w \in Workers : Busy(w) /\ worker[w].path = p
  \/ Fresh(p)

FullScan == mtimes = NoTimes /\ ~ cancelled /\ ~ failed

PairedLive(p) == IF HasCompanion(p) THEN "ios" ELSE Embedded(p)

Flow ==
  /\ at = "pool" /\ FullScan => \A p \in steady : Indexable(p) => OnItsWay(p)
  /\ at \in {"waited", "deleting", "deleted"} /\ FullScan =>
       \A p \in steady : Indexable(p) => Fresh(p)
  /\ at \in {"pairing", "done"} /\ FullScan =>
       \A p \in steady : Indexable(p) =>
         /\ index[p].mtime = file[p].mtime /\ index[p].read = file[p].mtime
         /\ p \in images => index[p].live = Embedded(p)
         /\ p \in Photo \ images /\ (Companion(p) \in steady \/ Companion(p) \notin Path) =>
              index[p].live = PairedLive(p)

\* What happens to the files and the shares does not touch what a steady path is owed.
LEMMA FlowWorld ==
  ASSUME HandsRight, Flow, steady' \subseteq steady, steady \subseteq Path,
         \A p \in steady' : file'[p] = file[p] /\ Indexable(p)' = Indexable(p),
         UNCHANGED <<index, at, mtimes, pool, stale, images, cancelled, failed>>
  PROVE  HandsRight' /\ Flow'
<1>1. \A p \in steady' : Companion(p) \in steady' \/ Companion(p) \notin Path
                           => HasCompanion(p)' = HasCompanion(p)
  BY DEF HasCompanion
<1>2. \A p \in steady' : /\ Fresh(p)' = Fresh(p)
                         /\ OnItsWay(p)' = OnItsWay(p)
  BY DEF Fresh, OnItsWay, Busy, pool
<1>3. HandsRight'
  BY DEF HandsRight, Busy, pool
<1>4. Flow'
  BY <1>1, <1>2 DEF Flow, FullScan, PairedLive, pool
<1> QED
  BY <1>3, <1>4

LEMMA FlowInit == Init => HandsRight /\ Flow
BY RestTyped DEF Init, HandsRight, Flow, Busy

\* One step per action.
LEMMA FlowNext ==
  TypeInv /\ KeepInv /\ HandsRight /\ Flow /\ [Next]_vars => HandsRight' /\ Flow'
<1> SUFFICES ASSUME TypeInv, KeepInv, HandsRight, Flow, [Next]_vars
             PROVE  HandsRight' /\ Flow'
  OBVIOUS
<1> USE DEF FullScan
<1>b. /\ steady \subseteq Path /\ images \subseteq Path
      /\ \A p \in Path : file[p].mtime \in Nat \ {0} /\ file[p].there \in BOOLEAN
      /\ index \in [Path -> Row] /\ worker \in [Workers -> WorkerState]
  BY BoundsAssumption DEF TypeInv, TypeOK, File, Mtime
<1>a. ASSUME UNCHANGED world
      PROVE  \A p \in Path : /\ Indexable(p)' = Indexable(p)
                             /\ HasCompanion(p)' = HasCompanion(p)
                             /\ PairedLive(p)' = PairedLive(p)
                             /\ file'[p] = file[p]
  BY <1>a DEF world, Indexable, Configured, HasCompanion, PairedLive
<1>c. ASSUME UNCHANGED <<world, worker, steady>> PROVE HandsRight'
  BY <1>c DEF HandsRight, Busy, world
<1>d. ASSUME UNCHANGED <<world, index>> PROVE \A p \in Path : Fresh(p)' = Fresh(p)
  BY <1>d DEF Fresh, world
<1>1. ASSUME NEW times, Admit(times), UNCHANGED <<world, index>> PROVE HandsRight' /\ Flow'
  <2>1. CASE at = "idle"
    BY <1>1, <2>1, RestTyped DEF Admit, HandsRight, Busy, Flow, OnItsWay
  <2>2. CASE at # "idle"
    <3>1. UNCHANGED <<at, mtimes, walker, left, sending, jobs, worker, images, cancelled, failed,
                      steady>>
      BY <1>1, <2>2 DEF Admit, pool
    <3>2. Flow'
      BY <1>a, <1>b, <1>d, <1>1, <3>1 DEF Flow, OnItsWay, Busy
    <3> QED
      BY <1>c, <1>1, <3>1, <3>2
  <2> QED
    BY <2>1, <2>2
<1>2. CASE Full \/ Incremental
  BY <1>1, <1>2 DEF Full, Incremental
<1>3. CASE ModifiedTimes \/ UNCHANGED vars
  <2>1. UNCHANGED <<world, index, at, mtimes, walker, left, sending, jobs, worker, images,
                    cancelled, failed, steady>>
    BY <1>3 DEF ModifiedTimes, vars, pool
  <2>2. Flow'
    BY <1>a, <1>b, <1>d, <2>1 DEF Flow, OnItsWay, Busy
  <2> QED
    BY <1>c, <2>1, <2>2
<1>4. CASE WalkRoots
  <2>1. Flow'
    BY <1>a, <1>b, <1>d, <1>4 DEF WalkRoots, Flow, OnItsWay, Busy, Indexable
  <2> QED
    BY <1>c, <1>4, <2>1 DEF WalkRoots
<1>5. ASSUME NEW p \in Path, Visit(p) PROVE HandsRight' /\ Flow'
  <2>1. Flow'
    BY <1>a, <1>b, <1>d, <1>5 DEF Visit, Flow, OnItsWay, Busy, Indexable
  <2> QED
    BY <1>c, <1>5, <2>1 DEF Visit
<1>6. CASE Send
  <2>1. Flow'
    BY <1>a, <1>b, <1>d, <1>6 DEF Send, Flow, OnItsWay, Busy
  <2> QED
    BY <1>c, <1>6, <2>1 DEF Send
<1>7. CASE WalkEnd
  <2>1. Flow'
    BY <1>a, <1>b, <1>d, <1>7 DEF WalkEnd, Flow, OnItsWay, Busy
  <2> QED
    BY <1>c, <1>7, <2>1 DEF WalkEnd
<1>8. ASSUME NEW w \in Workers, NEW p \in Path, Take(w, p) PROVE HandsRight' /\ Flow'
  <2>1. UNCHANGED <<world, index, at, mtimes, walker, left, sending, images, cancelled, failed,
                    steady>>
    BY <1>8 DEF Take
  <2>2. /\ worker[w].at = "idle" /\ jobs' = jobs \ {p}
        /\ \A v \in Workers \ {w} : worker'[v] = worker[v]
    BY <1>8 DEF Take
  <2>3. \/ ~ Busy(w)' /\ (cancelled \/ ~ file[p].there \/ mtimes[p] = file[p].mtime)
        \/ /\ worker'[w].at = "stated" /\ worker'[w].path = p /\ file[p].there
           /\ worker'[w].row.mtime = file[p].mtime
    <3>1. worker'[w] = IF cancelled THEN Exited
                       ELSE IF ~ file[p].there \/ mtimes[p] = file[p].mtime THEN Idle
                       ELSE [at |-> "stated", path |-> p, row |-> [NoRow EXCEPT !.mtime = file[p].mtime]]
      BY <1>b, <1>8 DEF Take
    <3>2. [NoRow EXCEPT !.mtime = file[p].mtime].mtime = file[p].mtime
      BY DEF NoRow
    <3> QED
      BY <1>b, <3>1, <3>2, RestTyped DEF Busy
  <2>4. HandsRight'
    BY <2>1, <2>2, <2>3 DEF HandsRight, Busy, world
  <2>5. Flow'
    <3>1. at = "pool"
      BY <1>8 DEF KeepInv, Phases, Take
    <3>2. ASSUME FullScan, NEW q \in steady, Indexable(q) PROVE OnItsWay(q)'
      <4>1. OnItsWay(q)
        BY <3>1, <3>2 DEF Flow
      <4>2. CASE q = p
        <5>1. file[p].there /\ mtimes[p] = 0
          BY <3>2, <4>2 DEF Indexable, NoTimes
        <5> QED
          BY <1>b, <2>3, <3>2, <4>2, <5>1 DEF OnItsWay, Busy
      <4>3. CASE q # p
        BY <1>b, <1>d, <2>1, <2>2, <4>1, <4>3 DEF OnItsWay, Busy
      <4> QED
        BY <4>2, <4>3
    <3> QED
      BY <1>a, <1>b, <2>1, <3>1, <3>2 DEF Flow
  <2> QED
    BY <2>4, <2>5
<1>9. ASSUME NEW w \in Workers, Extract(w) PROVE HandsRight' /\ Flow'
  <2> DEFINE p == worker[w].path
  <2>1. /\ UNCHANGED <<world, index, at, mtimes, walker, left, sending, jobs, images, cancelled,
                       failed, steady>>
        /\ \A v \in Workers \ {w} : worker'[v] = worker[v]
    BY <1>9 DEF Extract
  <2>2. /\ worker[w].at = "stated" /\ worker'[w].at = "extracted" /\ worker'[w].path = p
        /\ worker'[w].row.mtime = worker[w].row.mtime
        /\ worker'[w].row.read = IF file[p].there THEN file[p].mtime ELSE 0
        /\ worker'[w].row.live = IF p \in Photo /\ p[1] \in Motion /\ file[p].there
                                 THEN "motion" ELSE "none"
    BY <1>b, <1>9 DEF Extract, WorkerState, Row
  <2>3. HandsRight'
    BY <2>1, <2>2 DEF HandsRight, Busy, world, Embedded
  <2>4. Flow'
    BY <1>a, <1>b, <1>d, <2>1, <2>2 DEF Flow, OnItsWay, Busy
  <2> QED
    BY <2>3, <2>4
<1>10. ASSUME NEW w \in Workers, Upsert(w) PROVE HandsRight' /\ Flow'
  <2> DEFINE p == worker[w].path
             row == worker[w].row
  <2>1. UNCHANGED <<world, at, mtimes, walker, left, sending, jobs, images, cancelled, steady>>
    BY <1>10 DEF Upsert
  <2>2. /\ worker[w].at = "extracted" /\ at = "pool" /\ p \in Path /\ row \in Row
        /\ ~ Busy(w)' /\ \A v \in Workers \ {w} : worker'[v] = worker[v]
    BY <1>b, <1>10, RestTyped DEF Upsert, Busy, KeepInv, Phases, TypeInv, Held, WorkerState
  <2>3. HandsRight'
    BY <2>1, <2>2 DEF HandsRight, Busy, world
  <2>4. failed' = TRUE \/ (index' = [index EXCEPT ![p] = row] /\ failed' = failed)
    BY <1>10 DEF Upsert
  <2>5. ASSUME FullScan', NEW q \in steady, Indexable(q) PROVE OnItsWay(q)'
    <3>1. index' = [index EXCEPT ![p] = row] /\ OnItsWay(q)
      BY <2>1, <2>2, <2>4, <2>5 DEF Flow
    <3>2. CASE q = p
      <4>1. row.mtime = file[p].mtime /\ row.read = file[p].mtime /\ row.live = Embedded(p)
        BY <2>2, <2>5, <3>2 DEF HandsRight, Busy
      <4>2. row = [mtime |-> file[p].mtime, read |-> file[p].mtime, live |-> Embedded(p)]
        BY <2>2, <4>1 DEF Row
      <4> QED
        BY <1>b, <2>1, <2>2, <3>1, <3>2, <4>2 DEF OnItsWay, Fresh, world
    <3>3. CASE q # p
      BY <1>b, <2>1, <2>2, <3>1, <3>3 DEF OnItsWay, Fresh, Busy, world
    <3> QED
      BY <3>2, <3>3
  <2>6. Flow'
    BY <1>a, <1>b, <2>1, <2>2, <2>5 DEF Flow
  <2> QED
    BY <2>3, <2>6
<1>11. ASSUME NEW w \in Workers, Leave(w) PROVE HandsRight' /\ Flow'
  <2>1. /\ UNCHANGED <<world, index, at, mtimes, walker, left, sending, jobs, images, cancelled,
                       failed, steady>>
        /\ \A v \in Workers \ {w} : worker'[v] = worker[v]
        /\ ~ Busy(w) /\ ~ Busy(w)'
    BY <1>b, <1>11, RestTyped DEF Leave, Busy
  <2>2. HandsRight'
    BY <2>1 DEF HandsRight, Busy, world
  <2>3. Flow'
    BY <1>a, <1>b, <1>d, <2>1 DEF Flow, OnItsWay, Busy
  <2> QED
    BY <2>2, <2>3
<1>12. CASE PoolDone
  <2>1. UNCHANGED <<world, index, mtimes, pool, images, cancelled, failed, steady>> /\ at = "pool"
    BY <1>12 DEF PoolDone
  <2>2. ASSUME FullScan, NEW p \in steady, Indexable(p) PROVE Fresh(p)
    <3>1. walker = "closed" /\ left = {} /\ jobs = {} /\ \A w \in Workers : ~ Busy(w)
      BY <1>12, <2>2, WorkersAssumption DEF PoolDone, KeepInv, Phases, Busy
    <3> QED
      BY <2>1, <2>2, <3>1 DEF Flow, OnItsWay
  <2>3. at' = IF cancelled THEN "aborted" ELSE "waited"
    BY <1>12 DEF PoolDone
  <2>4. Flow'
    BY <1>a, <1>b, <1>d, <2>1, <2>2, <2>3 DEF Flow
  <2> QED
    BY <1>c, <2>1, <2>4 DEF pool
<1>13. CASE Abort \/ Finish
  <2>1. UNCHANGED <<world, worker, steady>> /\ at' = "idle"
    BY <1>13 DEF Abort, Finish, pool
  <2> QED
    BY <1>c, <2>1 DEF Flow
<1>14. CASE SelectMissing \/ DeletedAll
  <2>1. /\ UNCHANGED <<world, index, mtimes, worker, cancelled, steady>>
        /\ at \in {"waited", "deleting"} /\ at' \in {"deleting", "deleted"}
        /\ failed' = failed \/ failed' = TRUE
    BY <1>14 DEF SelectMissing, DeletedAll, pool
  <2>2. Flow'
    BY <1>a, <1>b, <1>d, <2>1 DEF Flow
  <2> QED
    BY <1>c, <2>1, <2>2
<1>15. ASSUME NEW p \in Path, DeleteOne(p) PROVE HandsRight' /\ Flow'
  <2>1. /\ UNCHANGED <<world, mtimes, worker, cancelled, steady>> /\ p \in stale
        /\ at = "deleting" /\ at' \in {"deleting", "deleted"}
        /\ failed' = TRUE \/ (index' = [index EXCEPT ![p] = NoRow] /\ failed' = failed)
    BY <1>15 DEF DeleteOne, pool
  <2>2. \A q \in steady : Indexable(q) => q # p
    BY <2>1 DEF KeepInv, StaleGone
  <2>3. Flow'
    BY <1>a, <1>b, <2>1, <2>2 DEF Flow, Fresh, world
  <2> QED
    BY <1>c, <2>1, <2>3
<1>16. CASE ImageMedias
  <2>1. /\ UNCHANGED <<world, index, mtimes, worker, cancelled, steady>> /\ at = "deleted"
        /\ \/ at' = "pairing" /\ images' = {p \in Photo : index[p] # NoRow} /\ failed' = failed
           \/ at' = "done" /\ failed' = TRUE
    BY <1>16 DEF ImageMedias, pool
  <2>2. ASSUME FullScan, NEW p \in steady, Indexable(p)
        PROVE  /\ index[p].mtime = file[p].mtime /\ index[p].read = file[p].mtime
               /\ index[p].live = Embedded(p) /\ index[p] # NoRow
    <3>1. index[p] = [mtime |-> file[p].mtime, read |-> file[p].mtime, live |-> Embedded(p)]
      BY <2>1, <2>2 DEF Flow, Fresh
    <3>2. file[p].mtime # 0
      BY <1>b, <2>2
    <3> QED
      BY <3>1, <3>2 DEF NoRow
  <2>3. Flow'
    BY <1>a, <1>b, <2>1, <2>2 DEF Flow, Embedded, world
  <2> QED
    BY <1>c, <2>1, <2>3
<1>17. ASSUME NEW p \in Path, PairOne(p) PROVE HandsRight' /\ Flow'
  <2>1. /\ UNCHANGED <<world, mtimes, worker, cancelled, steady>> /\ p \in images
        /\ at = "pairing"
        /\ \/ /\ index' = [index EXCEPT ![p] = [index[p] EXCEPT !.live = Paired(p)]]
              /\ images' = images \ {p} /\ UNCHANGED <<at, failed>>
           \/ at' = "done" /\ failed' = TRUE
    BY <1>17 DEF PairOne, pool
  <2>2. LET new == [index[p] EXCEPT !.live = Paired(p)]
        IN new.mtime = index[p].mtime /\ new.read = index[p].read /\ new.live = Paired(p)
    BY <1>b DEF Row
  <2>3. ASSUME FullScan, p \in steady, Indexable(p) PROVE Paired(p) = PairedLive(p)
    <3>1. index[p].live = Embedded(p) /\ Embedded(p) # "ios"
      BY <2>1, <2>3 DEF Flow, Embedded
    <3> QED
      BY <3>1 DEF Paired, PairedLive
  <2>4. ASSUME FullScan', NEW q \in steady, Indexable(q)
        PROVE  /\ index'[q].mtime = file[q].mtime /\ index'[q].read = file[q].mtime
               /\ q \in images' => index'[q].live = Embedded(q)
               /\ q \in Photo \ images' /\ (Companion(q) \in steady \/ Companion(q) \notin Path) =>
                    index'[q].live = PairedLive(q)
    <3>1. /\ FullScan /\ images' = images \ {p}
          /\ index' = [index EXCEPT ![p] = [index[p] EXCEPT !.live = Paired(p)]]
      BY <2>1, <2>4
    <3>2. /\ index[q].mtime = file[q].mtime /\ index[q].read = file[q].mtime
          /\ q \in images => index[q].live = Embedded(q)
          /\ q \in Photo \ images /\ (Companion(q) \in steady \/ Companion(q) \notin Path) =>
               index[q].live = PairedLive(q)
      BY <2>1, <2>4, <3>1 DEF Flow
    <3>3. CASE q = p
      BY <1>b, <2>1, <2>2, <2>3, <2>4, <3>1, <3>2, <3>3
    <3>4. CASE q # p
      BY <1>b, <3>1, <3>2, <3>4
    <3> QED
      BY <3>3, <3>4
  <2>5. \A q \in Path : Embedded(q)' = Embedded(q)
    BY DEF Embedded
  <2>6. at' \in {"pairing", "done"}
    BY <2>1
  <2>7. Flow'
    BY <1>a, <1>b, <2>1, <2>4, <2>5, <2>6 DEF Flow
  <2> QED
    BY <1>c, <2>1, <2>7
<1>18. CASE PairedAll
  <2>1. UNCHANGED <<world, index, mtimes, worker, cancelled, failed, steady>>
    BY <1>18 DEF PairedAll, pool
  <2>2. at = "pairing" /\ at' = "done" /\ (images = {} \/ cancelled) /\ images' = {}
    BY <1>18 DEF PairedAll
  <2>3. Flow'
    BY <1>a, <1>b, <2>1, <2>2 DEF Flow, Embedded, world
  <2> QED
    BY <1>c, <2>1, <2>3
<1>19. CASE Cancel
  <2>1. UNCHANGED <<world, worker, steady>> /\ cancelled' = TRUE
    BY <1>19 DEF Cancel, pool
  <2> QED
    BY <1>c, <2>1 DEF Flow
<1>20. CASE (\E S \in ShareLists : PutShares(S)) \/ (\E p \in Path, f \in File : ChangeFile(p, f))
  BY <1>b, <1>20, FlowWorld, WorldSteps
<1>21. CASE Restart
  BY <1>21, RestTyped DEF Restart, HandsRight, Flow, Busy
<1> QED
  BY <1>2, <1>3, <1>4, <1>5, <1>6, <1>7, <1>8, <1>9, <1>10, <1>11, <1>12, <1>13, <1>14,
     <1>15, <1>16, <1>17, <1>18, <1>19, <1>20, <1>21
  DEF Next, StartStep, WalkerStep, WorkerStep, ScanStep

\* A full scan that met no error leaves, for every path that did not change while it ran,
\* exactly the row that its file calls for, and no row if there is no file.
THEOREM FullScanIsExact == Spec => []FullScanExact
<1>1. TypeInv /\ KeepInv /\ Flow => FullScanExact
  <2> SUFFICES ASSUME TypeInv, KeepInv, Flow, at = "done", FullScan, NEW p \in steady
               PROVE  IF Indexable(p)
                      THEN /\ index[p].mtime = file[p].mtime
                           /\ index[p].read = file[p].mtime
                           /\ p \in Photo /\ (Companion(p) \in steady \/ Companion(p) \notin Path) =>
                                index[p].live = PairedLive(p)
                      ELSE index[p] = NoRow
    BY DEF FullScanExact, FullScan, PairedLive, Embedded
  <2>1. images = {} /\ (~ Indexable(p) => index[p] = NoRow)
    BY DEF KeepInv, RowsReal, StaleGone, FullScan
  <2> QED
    BY <2>1 DEF Flow
<1>2. Init => HandsRight /\ Flow
  BY FlowInit
<1>3. TypeInv /\ KeepInv /\ HandsRight /\ Flow /\ [Next]_vars => (HandsRight /\ Flow)'
  BY FlowNext
<1> QED
  BY <1>1, <1>2, <1>3, KeepInvariant, PTL DEF Spec

----------------------------------------------------------------------------
(* ScanFindsAll, where no client changes the share list                    *)

Found(p) == index[p] # NoRow

\* A steady file that is still to come to its row.
Coming(p) ==
  \/ walker = "roots" \/ p \in left \/ (walker = "sending" /\ sending = p) \/ p \in jobs
  \/ \E w \in Workers : Busy(w) /\ worker[w].path = p

\* The startup scan is the only one, and the times it has read are those of the index.
Alone ==
  /\ fulls = 0
  /\ at # "idle" => boot = "over"
  /\ boot = "ready" => \A p \in Path : snapshot[p] = index[p].mtime

\* A file that the scan takes for known has a row.
Backed == at # "idle" => \A p \in steady : Indexable(p) /\ mtimes[p] # 0 => Found(p)

\* As far as the scan has come, steady files have rows.
FindsAll ==
  ~ cancelled /\ ~ failed =>
    /\ at = "pool" => \A p \in steady : Indexable(p) => Coming(p) \/ Found(p)
    /\ at \notin {"idle", "pool", "aborted"} => \A p \in steady : Indexable(p) => Found(p)

LoneInv == Alone /\ Backed /\ FindsAll

\* The scan goes on: it stays Backed, and rows that were found stay.
LEMMA ScanGoesOn ==
  ASSUME TypeInv, RowsInHand, KeepInv, LoneInv, [Next]_vars, at # "idle",
         UNCHANGED <<file, shares, mtimes, steady, fulls, boot>>
  PROVE  /\ Alone' /\ Backed'
         /\ \A p \in steady : Indexable(p)' = Indexable(p) /\ (Indexable(p) /\ Found(p) => Found(p)')
<1>1. \A p \in steady : Indexable(p)' = Indexable(p)
  BY DEF Indexable, Configured
<1>2. \A p \in steady : Indexable(p) /\ Found(p) => Found(p)'
  BY KeepStep DEF Found
<1>3. Alone'
  BY DEF LoneInv, Alone
<1> QED
  BY <1>1, <1>2, <1>3 DEF LoneInv, Backed

\* Without full scans the startup scan has true times; one step per action.
LEMMA LoneNext ==
  ASSUME MaxFulls = 0, TypeInv, RowsInHand, KeepInv, LoneInv, [Next]_vars
  PROVE  LoneInv'
<1>a. /\ steady \subseteq Path
      /\ \A p \in Path : file[p].mtime \in Nat \ {0}
      /\ index \in [Path -> Row] /\ worker \in [Workers -> WorkerState]
  BY BoundsAssumption DEF TypeInv, TypeOK, File, Mtime
<1>b. ASSUME UNCHANGED <<file, shares, mtimes, steady, fulls, boot>>, at # "idle", at' = "pool", at = "pool",
             cancelled' = cancelled, failed' = failed \/ failed' = TRUE,
             ~ cancelled /\ ~ failed' =>
               \A p \in steady : Indexable(p) /\ Coming(p) => Coming(p)' \/ Found(p)'
      PROVE  LoneInv'
  BY <1>b, ScanGoesOn DEF LoneInv, FindsAll
<1>c. ASSUME UNCHANGED <<file, shares, mtimes, steady, fulls, boot>>, at # "idle",
             at \notin {"pool", "aborted"}, at' # "pool",
             cancelled' = cancelled, failed' = failed \/ failed' = TRUE
      PROVE  LoneInv'
  BY <1>c, ScanGoesOn DEF LoneInv, FindsAll
<1>1. CASE Full
  BY <1>1 DEF Full, LoneInv, Alone
<1>2. CASE ModifiedTimes
  <2>1. at = "idle" /\ UNCHANGED <<index, at, fulls>> /\ boot' \in {"ready", "over"}
        /\ (boot' = "ready" => snapshot' = [p \in Path |-> index[p].mtime])
    BY <1>2 DEF ModifiedTimes, LoneInv, Alone
  <2> QED
    BY <2>1 DEF LoneInv, Alone, Backed, FindsAll
<1>3. CASE Incremental
  <2>1. /\ at = "idle" /\ boot' = "over" /\ UNCHANGED <<file, shares, index, fulls>>
        /\ at' = "pool" /\ mtimes' = snapshot /\ walker' = "roots" /\ steady' = Path
        /\ \A p \in Path : snapshot[p] = index[p].mtime
    BY <1>3 DEF Incremental, Admit, LoneInv, Alone, world
  <2>2. Alone'
    BY <2>1 DEF LoneInv, Alone
  <2>3. Backed'
    BY <2>1 DEF Backed, Found, NoRow
  <2>4. FindsAll'
    BY <2>1 DEF FindsAll, Coming
  <2> QED
    BY <2>2, <2>3, <2>4 DEF LoneInv
<1>4. CASE WalkRoots
  <2>1. /\ at # "idle" /\ walker = "roots" /\ left' = {p \in Path : Configured(p)}
        /\ UNCHANGED <<file, shares, index, mtimes, steady, fulls, boot, at, cancelled, failed>>
    BY <1>4 DEF WalkRoots, world, starting
  <2>2. at = "pool" \/ at = "aborted"
    BY <2>1 DEF KeepInv, Phases, TypeInv, TypeOK
  <2>3. CASE at = "pool"
    BY <1>a, <1>b, <2>1, <2>3 DEF Coming, Indexable
  <2>4. CASE at = "aborted"
    BY <2>1, <2>4, ScanGoesOn DEF LoneInv, FindsAll
  <2> QED
    BY <2>2, <2>3, <2>4
<1>5. ASSUME NEW p \in Path, Visit(p)
      PROVE  LoneInv'
  <2>1. /\ walker = "walking" /\ left' = left \ {p}
        /\ \/ ~ file[p].there \/ p \notin steady
           \/ walker' = "sending" /\ sending' = p
        /\ UNCHANGED <<file, shares, index, mtimes, steady, fulls, boot, at, cancelled, failed, jobs, worker>>
    BY <1>5 DEF Visit, world, starting
  <2>2. at = "pool" \/ at = "aborted" \/ at = "idle"
    BY <2>1 DEF KeepInv, Phases, TypeInv, TypeOK
  <2>3. CASE at = "pool"
    BY <1>b, <2>1, <2>3 DEF Coming, Indexable, Busy
  <2>4. CASE at = "aborted"
    BY <2>1, <2>4, ScanGoesOn DEF LoneInv, FindsAll
  <2>5. CASE at = "idle"
    BY <2>1, <2>5, <1>5 DEF LoneInv, Alone, Backed, FindsAll, Visit, starting
  <2> QED
    BY <2>2, <2>3, <2>4, <2>5
<1>6. CASE Send \/ WalkEnd
  <2>1. /\ walker \in {"sending", "walking"}
        /\ UNCHANGED <<file, shares, index, mtimes, steady, fulls, boot, snapshot, at, cancelled, failed, worker>>
    BY <1>6 DEF Send, WalkEnd, world, starting
  <2>2. at = "pool" \/ at = "aborted" \/ at = "idle"
    BY <2>1 DEF KeepInv, Phases, TypeInv, TypeOK
  <2>3. CASE at = "pool"
    <3>1. ~ cancelled => \A p \in steady : Coming(p) => Coming(p)'
      BY <1>6, <2>1 DEF Send, WalkEnd, Coming, Busy
    <3> QED
      BY <1>b, <2>1, <2>3, <3>1
  <2>4. CASE at = "aborted"
    BY <2>1, <2>4, ScanGoesOn DEF LoneInv, FindsAll
  <2>5. CASE at = "idle"
    BY <2>1, <2>5 DEF LoneInv, Alone, Backed, FindsAll
  <2> QED
    BY <2>2, <2>3, <2>4, <2>5
<1>d. ASSUME NEW w \in Workers, worker[w].at # "exited"
      PROVE  at = "pool"
  BY <1>d DEF KeepInv, Phases
<1>7. ASSUME NEW w \in Workers, NEW p \in Path, Take(w, p)
      PROVE  LoneInv'
  <2>1. /\ UNCHANGED <<file, shares, index, at, mtimes, fulls, boot, walker, left, sending, cancelled, failed, steady>>
        /\ worker[w].at = "idle" /\ jobs' = jobs \ {p}
        /\ \A v \in Workers \ {w} : worker'[v] = worker[v]
    BY <1>7 DEF Take, world, starting
  <2>2. \/ cancelled \/ ~ file[p].there \/ mtimes[p] = file[p].mtime
        \/ worker'[w].at = "stated" /\ worker'[w].path = p
    BY <1>a, <1>7 DEF Take
  <2>3. at = "pool"
    BY <1>d, <2>1
  <2>4. ASSUME ~ cancelled, NEW q \in steady, Indexable(q), Coming(q)
        PROVE  Coming(q)' \/ Found(q)'
    <3>1. CASE q = p /\ mtimes[p] = file[p].mtime
      <4>1. mtimes[q] # 0
        BY <1>a, <2>4, <3>1
      <4> QED
        BY <2>1, <2>3, <2>4, <4>1 DEF LoneInv, Backed, Found
    <3>2. CASE q = p /\ worker'[w].at = "stated" /\ worker'[w].path = p
      BY <3>2 DEF Coming, Busy
    <3>3. CASE q # p
      BY <2>1, <2>4, <3>3 DEF Coming, Busy
    <3> QED
      BY <2>2, <2>4, <3>1, <3>2, <3>3 DEF Indexable
  <2> QED
    BY <1>b, <2>1, <2>3, <2>4
<1>8. ASSUME NEW w \in Workers, Extract(w)
      PROVE  LoneInv'
  <2>1. /\ UNCHANGED <<file, shares, index, at, mtimes, fulls, boot, walker, left, sending, jobs, cancelled, failed, steady>>
        /\ worker[w].at = "stated"
        /\ worker'[w].at = "extracted" /\ worker'[w].path = worker[w].path
        /\ \A v \in Workers \ {w} : worker'[v] = worker[v]
    BY <1>a, <1>8 DEF Extract, world, starting, WorkerState
  <2>2. \A p \in steady : Coming(p) => Coming(p)'
    BY <2>1 DEF Coming, Busy
  <2> QED
    BY <1>b, <1>d, <2>1, <2>2
<1>9. ASSUME NEW w \in Workers, Upsert(w)
      PROVE  LoneInv'
  <2>1. /\ UNCHANGED <<file, shares, at, mtimes, fulls, boot, walker, left, sending, jobs, cancelled, steady>>
        /\ worker[w].at = "extracted" /\ worker[w].path \in Path /\ worker[w].row.mtime # 0
        /\ failed' = TRUE \/ (index' = [index EXCEPT ![worker[w].path] = worker[w].row] /\ failed' = failed)
        /\ \A v \in Workers \ {w} : worker'[v] = worker[v]
    BY <1>9 DEF Upsert, world, starting, TypeInv, Held, RowsInHand, Busy
  <2>2. ASSUME ~ failed', NEW q \in steady, Coming(q)
        PROVE  Coming(q)' \/ Found(q)'
    <3>1. CASE q = worker[w].path
      BY <1>a, <2>1, <2>2, <3>1 DEF Found, NoRow
    <3>2. CASE q # worker[w].path
      BY <2>1, <2>2, <3>2 DEF Coming, Busy
    <3> QED
      BY <3>1, <3>2
  <2> QED
    BY <1>b, <1>d, <2>1, <2>2
<1>10. ASSUME NEW w \in Workers, Leave(w)
       PROVE  LoneInv'
  <2>1. /\ UNCHANGED <<file, shares, index, at, mtimes, fulls, boot, walker, left, sending, jobs, cancelled, failed, steady>>
        /\ worker[w].at = "idle"
        /\ \A v \in Workers \ {w} : worker'[v] = worker[v]
    BY <1>10 DEF Leave, world, starting
  <2>2. \A p \in steady : Coming(p) => Coming(p)'
    BY <2>1 DEF Coming, Busy
  <2> QED
    BY <1>b, <1>d, <2>1, <2>2
<1>11. CASE PoolDone
  <2>1. /\ UNCHANGED <<file, shares, index, mtimes, fulls, boot, pool, cancelled, failed, steady>>
        /\ at = "pool" /\ at' = IF cancelled THEN "aborted" ELSE "waited"
        /\ \A w \in Workers : worker[w].at = "exited"
    BY <1>11 DEF PoolDone, world, starting
  <2>2. ~ cancelled => \A p \in steady : ~ Coming(p)
    BY <2>1, WorkersAssumption DEF Coming, Busy, KeepInv, Phases
  <2> QED
    BY <2>1, <2>2, ScanGoesOn DEF LoneInv, FindsAll
<1>12. CASE Abort \/ Finish
  <2>1. at # "idle" /\ at' = "idle" /\ UNCHANGED <<boot, fulls>>
    BY <1>12 DEF Abort, Finish, starting
  <2> QED
    BY <2>1 DEF LoneInv, Alone, Backed, FindsAll
<1>13. CASE SelectMissing \/ (\E p \in Path : DeleteOne(p) \/ PairOne(p)) \/ DeletedAll \/ ImageMedias \/ PairedAll
  <2>1. /\ UNCHANGED <<file, shares, mtimes, steady, fulls, boot, cancelled>>
        /\ at \in {"waited", "deleting", "deleted", "pairing"}
        /\ at' \in {"deleting", "deleted", "pairing", "done"}
        /\ failed' = failed \/ failed' = TRUE
    BY <1>13 DEF SelectMissing, DeleteOne, PairOne, DeletedAll, ImageMedias, PairedAll, world, starting
  <2> QED
    BY <1>c, <2>1
<1>14. ASSUME NEW S \in ShareLists, PutShares(S)
       PROVE  FALSE
  BY <1>14 DEF PutShares, LoneInv, Alone
<1>15. CASE \E p \in Path, f \in File : ChangeFile(p, f)
  <2>1. /\ steady' \subseteq steady
        /\ \A p \in steady' : Indexable(p)' = Indexable(p)
        /\ UNCHANGED <<index, at, mtimes, pool, cancelled, failed>>
    BY <1>15, WorldSteps
  <2>2. UNCHANGED <<fulls, boot, snapshot>>
    BY <1>15 DEF ChangeFile, starting
  <2>3. \A p \in Path : Coming(p)' = Coming(p) /\ Found(p)' = Found(p)
    BY <2>1 DEF Coming, Found, Busy, pool
  <2> QED
    BY <1>a, <2>1, <2>2, <2>3 DEF LoneInv, Alone, Backed, FindsAll
<1>16. CASE Cancel
  <2>1. /\ UNCHANGED <<file, shares, mtimes, steady, fulls, boot>> /\ at # "idle" /\ cancelled' = TRUE
    BY <1>16 DEF Cancel, world, starting
  <2> QED
    BY <2>1, ScanGoesOn DEF LoneInv, FindsAll
<1>17. CASE Restart
  BY <1>17 DEF Restart, LoneInv, Alone, Backed, FindsAll
<1>18. CASE UNCHANGED vars
  <2>1. UNCHANGED <<file, shares, index, at, mtimes, pool, cancelled, failed, steady, fulls, boot, snapshot>>
    BY <1>18 DEF vars, world, starting
  <2>2. \A p \in Path : Coming(p)' = Coming(p) /\ Found(p)' = Found(p) /\ Indexable(p)' = Indexable(p)
    BY <2>1 DEF Coming, Found, Busy, pool, Indexable, Configured
  <2> QED
    BY <1>a, <2>1, <2>2 DEF LoneInv, Alone, Backed, FindsAll
<1> QED
  BY <1>1, <1>2, <1>3, <1>4, <1>5, <1>6, <1>7, <1>8, <1>9, <1>10, <1>11, <1>12, <1>13, <1>14,
     <1>15, <1>16, <1>17, <1>18
  DEF Next, StartStep, WalkerStep, WorkerStep, ScanStep

\* As long as no client changes the share list, and so no full scan comes between what the
\* startup scan reads from the index and its start, a scan that met no error leaves a row for
\* every file that stayed where it was.
THEOREM LoneScanFindsAll ==
  ASSUME MaxFulls = 0
  PROVE  Spec => []ScanFindsAll
<1>1. Init => LoneInv
  BY DEF Init, LoneInv, Alone, Backed, FindsAll
<1>2. LoneInv => ScanFindsAll
  BY DEF LoneInv, FindsAll, ScanFindsAll, Found
<1>3. TypeInv /\ NeverBehind /\ RowsInHand /\ KeepInv /\ LoneInv /\ [Next]_vars => LoneInv'
  BY LoneNext
<1> QED
  BY <1>1, <1>2, <1>3, KeepInvariant, PTL DEF Spec

=============================================================================
