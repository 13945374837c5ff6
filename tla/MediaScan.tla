------------------------------ MODULE MediaScan ------------------------------
(***************************************************************************)
(* The media scanner of internal/media: one walker goroutine feeds a       *)
(* bounded channel, a pool of workers stats, extracts and upserts, and     *)
(* after the pool the scan deletes the rows of files it did not see and    *)
(* pairs iOS Live Photos.  The server starts an incremental scan when it   *)
(* boots, and a full scan after every change of the share list; a flag     *)
(* admits one scan and refuses the others.                                 *)
(*                                                                         *)
(* The files change under a scan.  A path is a virtual path: the root that *)
(* exposes it and a name; "photo" and "movie" stand for a picture and the  *)
(* .mov of the same name beside it.                                        *)
(***************************************************************************)
EXTENDS Naturals, FiniteSets

CONSTANTS Shares,       \* names of configured directories
          Legacy,       \* the storage root, exposed while no share is configured
          ShareLists,   \* bound: the share lists a client may PUT
          Names,        \* bound: file names in a root, among "photo" and "movie"
          Motion,       \* roots whose photo embeds a motion video
          Workers,      \* scanWorkers goroutines (4 in the code)
          JobCap,       \* capacity of the channel jobs (8 in the code)
          MaxMtime,     \* bound: versions of a file
          MaxChanges,   \* bound: changes of the files
          MaxFulls,     \* bound: full scans that wait to start
          Cancels,      \* whether the context of a scan may be cancelled
          DbFaults      \* whether a statement on the index may fail

ASSUME ListsAssumption == ShareLists # {} /\ \A S \in ShareLists : S \subseteq Shares
ASSUME LegacyAssumption == Legacy \notin Shares
ASSUME NamesAssumption == Names \subseteq {"photo", "movie"}
ASSUME JobCapAssumption == JobCap \in Nat \ {0}
ASSUME WorkersAssumption == Workers # {}
ASSUME BoundsAssumption == MaxMtime \in Nat \ {0} /\ MaxChanges \in Nat /\ MaxFulls \in Nat
ASSUME SwitchAssumption == Cancels \in BOOLEAN /\ DbFaults \in BOOLEAN

\* rootsFn: the shares, or the storage root if there are none.
RootsOf(S) == IF S = {} THEN {Legacy} ELSE S

Root == UNION {RootsOf(S) : S \in ShareLists}
Path == Root \X Names
Photo == {p \in Path : p[2] = "photo"}
Companion(p) == <<p[1], "movie">>

Mtime == 1 .. MaxMtime
File == [there : BOOLEAN, mtime : Mtime]

Live == {"none", "motion", "ios"}
NoRow == [mtime |-> 0, read |-> 0, live |-> "none"]
\* A row: the mtime of os.Stat, the version the metadata were read from (0 if the file
\* could not be opened) and the live-photo columns.
Row == [mtime : 0 .. MaxMtime, read : 0 .. MaxMtime, live : Live]

\* mtimes of a full scan: no file counts as unchanged.
NoTimes == [p \in Path |-> 0]

Idle == [at |-> "idle", path |-> << >>, row |-> NoRow]
Exited == [Idle EXCEPT !.at = "exited"]
WorkerState == [at : {"exited", "idle", "stated", "extracted"}, path : Path \cup {<< >>}, row : Row]

VARIABLES
  file,       \* file[p]: the file behind a virtual path
  changes,    \* how often the files changed
  shares,     \* svc.Shares
  index,      \* table media_index
  boot,       \* the startup goroutine: "start", "ready" to compare-and-swap, "over"
  snapshot,   \* ModifiedTimes as the startup goroutine read them
  fulls,      \* goroutines that are about to call Full
  at,         \* where the running scan stands, "idle" if the flag scanning is down
  mtimes,     \* the map the scan compares with
  walker,     \* "roots", "walking", "sending", "closed"
  left,       \* paths the walker has not come to
  sending,    \* the path the walker is sending, << >> if none
  seen,       \* the map seen
  jobs,       \* the channel jobs
  worker,     \* worker[w]
  stale,      \* DeleteMissing: selected paths, not deleted yet
  images,     \* pairIOSLivePhotos: rows read by ImageMedias, not handled yet
  cancelled,  \* the context of the scan is cancelled
  failed,     \* the scan met an error of the index
  steady      \* history: paths whose file and root have not changed since the scan began

world == <<file, changes, shares>>
pool == <<walker, left, sending, seen, jobs, worker>>
starting == <<boot, snapshot, fulls>>
vars == <<world, index, starting, at, mtimes, pool, stale, images, cancelled, failed, steady>>

Configured(p) == p[1] \in RootsOf(shares)
Indexable(p) == file[p].there /\ Configured(p)

----------------------------------------------------------------------------
(* The flag: one scan runs, the others return "scan already in progress".  *)

Admit(times) ==
  IF at = "idle"
  THEN /\ at' = "pool"
       /\ mtimes' = times
       /\ walker' = "roots"
       /\ worker' = [w \in Workers |-> Idle]
       /\ seen' = {}
       /\ cancelled' = FALSE
       /\ failed' = FALSE
       /\ steady' = Path
       /\ UNCHANGED <<left, sending, jobs, stale, images>>
  ELSE UNCHANGED <<at, mtimes, pool, stale, images, cancelled, failed, steady>>

Full ==
  /\ fulls > 0
  /\ fulls' = fulls - 1
  /\ Admit(NoTimes)
  /\ UNCHANGED <<world, index, boot, snapshot>>

\* Incremental reads the index before it asks for the flag; an error ends it.
ModifiedTimes ==
  /\ boot = "start"
  /\ \/ /\ boot' = "ready"
        /\ snapshot' = [p \in Path |-> index[p].mtime]
     \/ /\ DbFaults
        /\ boot' = "over"
        /\ UNCHANGED snapshot
  /\ UNCHANGED <<world, index, fulls, at, mtimes, pool, stale, images, cancelled, failed, steady>>

Incremental ==
  /\ boot = "ready"
  /\ boot' = "over"
  /\ snapshot' = NoTimes
  /\ Admit(snapshot)
  /\ UNCHANGED <<world, index, fulls>>

----------------------------------------------------------------------------
(* The walker                                                              *)

WalkRoots ==
  /\ at # "idle" /\ walker = "roots"
  /\ walker' = "walking"
  /\ left' = {p \in Path : Configured(p)}
  /\ UNCHANGED <<world, index, starting, at, mtimes, sending, seen, jobs, worker, stale, images,
                 cancelled, failed, steady>>

\* A file that is gone is passed over, as what cannot be read counts as gone, and so may be
\* one that came after its directory was read.
Visit(p) ==
  /\ walker = "walking"
  /\ p \in left
  /\ ~ cancelled
  /\ left' = left \ {p}
  /\ \/ /\ ~ file[p].there \/ p \notin steady
        /\ UNCHANGED <<walker, sending, seen>>
     \/ /\ file[p].there
        /\ seen' = seen \cup {p}
        /\ sending' = p
        /\ walker' = "sending"
  /\ UNCHANGED <<world, index, starting, at, mtimes, jobs, worker, stale, images, cancelled,
                 failed, steady>>

\* Mutant: the channel has no bound.
SendUnbounded ==
  /\ walker = "sending"
  /\ jobs' = jobs \cup {sending}
  /\ sending' = << >>
  /\ walker' = "walking"
  /\ UNCHANGED <<world, index, starting, at, mtimes, left, seen, worker, stale, images,
                 cancelled, failed, steady>>

\* select: room in the channel, or a cancelled context.
Send ==
  /\ walker = "sending"
  /\ \/ /\ Cardinality(jobs) < JobCap
        /\ jobs' = jobs \cup {sending}
        /\ walker' = "walking"
     \/ /\ cancelled
        /\ walker' = "closed"
        /\ UNCHANGED jobs
  /\ sending' = << >>
  /\ UNCHANGED <<world, index, starting, at, mtimes, left, seen, worker, stale, images,
                 cancelled, failed, steady>>

\* Mutant: a walk that was cut short leaves the channel open.
WalkEndComplete ==
  /\ walker = "walking"
  /\ left = {}
  /\ walker' = "closed"
  /\ UNCHANGED <<world, index, starting, at, mtimes, left, sending, seen, jobs, worker, stale, images,
                 cancelled, failed, steady>>

WalkEnd ==
  /\ walker = "walking"
  /\ left = {} \/ cancelled
  /\ walker' = "closed"
  /\ left' = {}
  /\ UNCHANGED <<world, index, starting, at, mtimes, sending, seen, jobs, worker, stale, images,
                 cancelled, failed, steady>>

----------------------------------------------------------------------------
(* A worker of the pool                                                    *)

\* It takes a path, and stats the file; an unchanged file keeps its row.
Take(w, p) ==
  /\ worker[w].at = "idle"
  /\ p \in jobs
  /\ jobs' = jobs \ {p}
  /\ worker' = [worker EXCEPT ![w] =
       IF cancelled THEN Exited
       ELSE IF ~ file[p].there \/ mtimes[p] = file[p].mtime THEN Idle
       ELSE [at |-> "stated", path |-> p, row |-> [NoRow EXCEPT !.mtime = file[p].mtime]]]
  /\ UNCHANGED <<world, index, starting, at, mtimes, walker, left, sending, seen, stale, images,
                 cancelled, failed, steady>>

\* extract opens the file again; what it cannot read stays zero.
Extract(w) ==
  LET p == worker[w].path
  IN  /\ worker[w].at = "stated"
      /\ worker' = [worker EXCEPT ![w] =
           [@ EXCEPT !.at = "extracted",
                     !.row.read = IF file[p].there THEN file[p].mtime ELSE 0,
                     !.row.live = IF p \in Photo /\ p[1] \in Motion /\ file[p].there
                                  THEN "motion" ELSE "none"]]
      /\ UNCHANGED <<world, index, starting, at, mtimes, walker, left, sending, seen, jobs, stale,
                     images, cancelled, failed, steady>>

\* Mutant: the row takes the mtime the file has after the extraction.
UpsertRestat(w) ==
  /\ worker[w].at = "extracted"
  /\ LET p == worker[w].path
     IN index' = [index EXCEPT ![p] = [worker[w].row EXCEPT !.mtime = file[p].mtime]]
  /\ worker' = [worker EXCEPT ![w] = Idle]
  /\ UNCHANGED <<world, starting, at, mtimes, walker, left, sending, seen, jobs, stale, images,
                 cancelled, failed, steady>>

Upsert(w) ==
  /\ worker[w].at = "extracted"
  /\ \/ /\ index' = [index EXCEPT ![worker[w].path] = worker[w].row]
        /\ UNCHANGED failed
     \/ /\ DbFaults
        /\ failed' = TRUE
        /\ UNCHANGED index
  /\ worker' = [worker EXCEPT ![w] = Idle]
  /\ UNCHANGED <<world, starting, at, mtimes, walker, left, sending, seen, jobs, stale, images,
                 cancelled, steady>>

\* The channel is closed and drained.
Leave(w) ==
  /\ worker[w].at = "idle"
  /\ walker = "closed"
  /\ jobs = {}
  /\ worker' = [worker EXCEPT ![w] = Exited]
  /\ UNCHANGED <<world, index, starting, at, mtimes, walker, left, sending, seen, jobs, stale,
                 images, cancelled, failed, steady>>

----------------------------------------------------------------------------
(* The scan after its pool                                                 *)

\* Mutant: the rows of unseen files go although the scan was cancelled.
PoolDoneRegardless ==
  /\ at = "pool"
  /\ \A w \in Workers : worker[w].at = "exited"
  /\ at' = "waited"
  /\ UNCHANGED <<world, index, starting, mtimes, pool, stale, images, cancelled, failed, steady>>

\* processPool looks at the context once, when its workers are done.
PoolDone ==
  /\ at = "pool"
  /\ \A w \in Workers : worker[w].at = "exited"
  /\ at' = IF cancelled THEN "aborted" ELSE "waited"
  /\ UNCHANGED <<world, index, starting, mtimes, pool, stale, images, cancelled, failed, steady>>

\* A cancelled scan waits for the walker and returns.
Abort ==
  /\ at = "aborted"
  /\ walker = "closed"
  /\ at' = "idle"
  /\ jobs' = {}
  /\ UNCHANGED <<world, index, starting, mtimes, walker, left, sending, seen, worker, stale,
                 images, cancelled, failed, steady>>

\* DeleteMissing selects, and then deletes row by row; an error ends it.
SelectMissing ==
  /\ at = "waited"
  /\ walker = "closed"
  /\ \/ /\ at' = "deleting"
        /\ stale' = {p \in Path : index[p] # NoRow /\ p \notin seen}
        /\ UNCHANGED failed
     \/ /\ DbFaults
        /\ at' = "deleted"
        /\ failed' = TRUE
        /\ UNCHANGED stale
  /\ UNCHANGED <<world, index, starting, mtimes, pool, images, cancelled, steady>>

\* Mutant: the loop returns after its first row.
DeleteFirstOnly(p) ==
  /\ at = "deleting"
  /\ p \in stale
  /\ index' = [index EXCEPT ![p] = NoRow]
  /\ stale' = {}
  /\ UNCHANGED <<world, starting, at, mtimes, pool, images, cancelled, failed, steady>>

DeleteOne(p) ==
  /\ at = "deleting"
  /\ p \in stale
  /\ \/ /\ index' = [index EXCEPT ![p] = NoRow]
        /\ stale' = stale \ {p}
        /\ UNCHANGED <<at, failed>>
     \/ /\ DbFaults
        /\ at' = "deleted"
        /\ stale' = {}
        /\ failed' = TRUE
        /\ UNCHANGED index
  /\ UNCHANGED <<world, starting, mtimes, pool, images, cancelled, steady>>

DeletedAll ==
  /\ at = "deleting"
  /\ stale = {}
  /\ at' = "deleted"
  /\ UNCHANGED <<world, index, starting, mtimes, pool, stale, images, cancelled, failed, steady>>

ImageMedias ==
  /\ at = "deleted"
  /\ \/ /\ at' = "pairing"
        /\ images' = {p \in Photo : index[p] # NoRow}
        /\ UNCHANGED failed
     \/ /\ DbFaults
        /\ at' = "done"
        /\ failed' = TRUE
        /\ UNCHANGED images
  /\ UNCHANGED <<world, index, starting, mtimes, pool, stale, cancelled, steady>>

\* findCompanion resolves the companion's path with the shares of this moment.
HasCompanion(p) ==
  /\ Companion(p) \in Path
  /\ Indexable(Companion(p))

\* What the pairing makes of the live-photo columns.
Paired(p) ==
  IF HasCompanion(p) THEN "ios"
  ELSE IF index[p].live = "ios" THEN "none" ELSE index[p].live

PairOne(p) ==
  /\ at = "pairing"
  /\ p \in images
  /\ ~ cancelled
  /\ \/ /\ index' = [index EXCEPT ![p].live = Paired(p)]
        /\ images' = images \ {p}
        /\ UNCHANGED <<at, failed>>
     \/ /\ DbFaults
        /\ Paired(p) # index[p].live
        /\ at' = "done"
        /\ images' = {}
        /\ failed' = TRUE
        /\ UNCHANGED index
  /\ UNCHANGED <<world, starting, mtimes, pool, stale, cancelled, steady>>

PairedAll ==
  /\ at = "pairing"
  /\ images = {} \/ cancelled
  /\ at' = "done"
  /\ images' = {}
  /\ UNCHANGED <<world, index, starting, mtimes, pool, stale, cancelled, failed, steady>>

\* The hook onDone, and the flag goes down.
Finish ==
  /\ at = "done"
  /\ at' = "idle"
  /\ UNCHANGED <<world, index, starting, mtimes, pool, stale, images, cancelled, failed, steady>>

----------------------------------------------------------------------------
(* The world                                                               *)

\* PUT /api/settings/shares: the live list changes, and a goroutine will call Full.
PutShares(S) ==
  /\ fulls < MaxFulls
  /\ shares' = S
  /\ fulls' = fulls + 1
  /\ steady' = {p \in steady : p[1] \in RootsOf(S) <=> Configured(p)}
  /\ UNCHANGED <<file, changes, index, boot, snapshot, at, mtimes, pool, stale, images, cancelled,
                 failed>>

\* A file comes, changes, goes, or comes back as it was (a volume mounted again).
ChangeFile(p, f) ==
  /\ changes < MaxChanges
  /\ \/ f.there /\ f.mtime = file[p].mtime + 1
     \/ f.there # file[p].there /\ f.mtime = file[p].mtime
  /\ file' = [file EXCEPT ![p] = f]
  /\ changes' = changes + 1
  /\ steady' = steady \ {p}
  /\ UNCHANGED <<shares, index, starting, at, mtimes, pool, stale, images, cancelled, failed>>

Cancel ==
  /\ Cancels
  /\ at # "idle"
  /\ ~ cancelled
  /\ cancelled' = TRUE
  /\ UNCHANGED <<world, index, starting, at, mtimes, pool, stale, images, failed, steady>>

\* The process dies and boots again; the index and the share list are on disk.
Restart ==
  /\ boot' = "start"
  /\ snapshot' = NoTimes
  /\ fulls' = 0
  /\ at' = "idle"
  /\ mtimes' = NoTimes
  /\ walker' = "closed"
  /\ left' = {}
  /\ sending' = << >>
  /\ seen' = {}
  /\ jobs' = {}
  /\ worker' = [w \in Workers |-> Exited]
  /\ stale' = {}
  /\ images' = {}
  /\ cancelled' = FALSE
  /\ failed' = FALSE
  /\ steady' = {}
  /\ UNCHANGED <<world, index>>

----------------------------------------------------------------------------
Init ==
  /\ file \in [Path -> {f \in File : f.mtime = 1}]
  /\ changes = 0
  /\ shares \in ShareLists
  /\ index = [p \in Path |-> NoRow]
  /\ boot = "start"
  /\ snapshot = NoTimes
  /\ fulls = 0
  /\ at = "idle"
  /\ mtimes = NoTimes
  /\ walker = "closed"
  /\ left = {}
  /\ sending = << >>
  /\ seen = {}
  /\ jobs = {}
  /\ worker = [w \in Workers |-> Exited]
  /\ stale = {}
  /\ images = {}
  /\ cancelled = FALSE
  /\ failed = FALSE
  /\ steady = {}

WalkerStep == WalkRoots \/ (\E p \in Path : Visit(p)) \/ Send \/ WalkEnd
WorkerStep(w) == (\E p \in Path : Take(w, p)) \/ Extract(w) \/ Upsert(w) \/ Leave(w)
ScanStep ==
  \/ PoolDone
  \/ Abort
  \/ SelectMissing
  \/ \E p \in Path : DeleteOne(p) \/ PairOne(p)
  \/ DeletedAll
  \/ ImageMedias
  \/ PairedAll
  \/ Finish
StartStep == Full \/ ModifiedTimes \/ Incremental

Next ==
  \/ StartStep
  \/ WalkerStep
  \/ \E w \in Workers : WorkerStep(w)
  \/ ScanStep
  \/ \E S \in ShareLists : PutShares(S)
  \/ \E p \in Path, f \in File : ChangeFile(p, f)
  \/ Cancel
  \/ Restart

\* The goroutines of a scan are scheduled; the world promises nothing.
Fairness ==
  /\ WF_vars(StartStep)
  /\ WF_vars(WalkerStep)
  /\ \A w \in Workers : WF_vars(WorkerStep(w))
  /\ WF_vars(ScanStep)

Spec == Init /\ [][Next]_vars
FairSpec == Spec /\ Fairness

----------------------------------------------------------------------------
(* Properties                                                              *)

TypeOK ==
  /\ file \in [Path -> File]
  /\ changes \in 0 .. MaxChanges
  /\ shares \in ShareLists
  /\ index \in [Path -> Row]
  /\ boot \in {"start", "ready", "over"}
  /\ snapshot \in [Path -> 0 .. MaxMtime]
  /\ fulls \in 0 .. MaxFulls
  /\ at \in {"idle", "pool", "aborted", "waited", "deleting", "deleted", "pairing", "done"}
  /\ mtimes \in [Path -> 0 .. MaxMtime]
  /\ walker \in {"roots", "walking", "sending", "closed"}
  /\ left \subseteq Path
  /\ sending \in Path \cup {<< >>}
  /\ seen \subseteq Path
  /\ jobs \subseteq Path /\ Cardinality(jobs) <= JobCap
  /\ worker \in [Workers -> WorkerState]
  /\ stale \subseteq Path
  /\ images \subseteq Path
  /\ cancelled \in BOOLEAN
  /\ failed \in BOOLEAN
  /\ steady \subseteq Path

\* A full scan that met no error leaves, for every path that did not change while it ran,
\* exactly the row the file calls for, with its own or its companion's motion video.
FullScanExact ==
  at = "done" /\ mtimes = NoTimes /\ ~ cancelled /\ ~ failed =>
    \A p \in steady :
      IF Indexable(p)
      THEN /\ index[p].mtime = file[p].mtime
           /\ index[p].read = file[p].mtime
           /\ p \in Photo /\ (Companion(p) \in steady \/ Companion(p) \notin Path) =>
                index[p].live = IF HasCompanion(p) THEN "ios"
                                ELSE IF p[1] \in Motion THEN "motion" ELSE "none"
      ELSE index[p] = NoRow

\* A row never shows older contents under a newer mtime: the next incremental scan would
\* take them for current.
NeverBehind == \A p \in Path : index[p].read = 0 \/ index[p].read >= index[p].mtime

\* No scan, cancelled or not, drops the row of a file that stayed where it was.
KeepsSteadyRows ==
  [][\A p \in steady : index[p] # NoRow /\ Indexable(p) => index'[p] # NoRow]_vars

\* Every scan ends: no worker, walker or wait is left behind by a cancelled context.
ScanEnds == at # "idle" ~> at = "idle"

\* Any scan that met no error has a row for every file that stayed where it was.
ScanFindsAll ==
  at = "done" /\ ~ cancelled /\ ~ failed =>
    \A p \in steady : Indexable(p) => index[p] # NoRow

\* When every scan is over, the index holds the files of the configured roots only.
IndexFollowsShares ==
  at = "idle" /\ fulls = 0 /\ boot = "over" =>
    \A p \in Path : index[p] # NoRow => Configured(p)
=============================================================================
