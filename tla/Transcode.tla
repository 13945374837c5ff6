------------------------------ MODULE Transcode ------------------------------
(***************************************************************************)
(* The transcoding manager of internal/transcode: an in-memory job map, a  *)
(* bounded queue, a pool of worker goroutines that each drive one ffmpeg   *)
(* process, the table transcode_jobs and the directory of cached outputs.  *)
(*                                                                         *)
(* A process may hold several managers: nothing in the server closes one,  *)
(* so stopping and starting the server inside one process (the Android     *)
(* service does) leaves the workers of the previous manager running on the *)
(* same table and the same directory.  A manager lives in a slot; the end  *)
(* of the process, by a crash or by SIGTERM, frees every slot but kills no *)
(* ffmpeg: one that was at work goes on writing its temporary file.        *)
(***************************************************************************)
EXTENDS Naturals, Sequences, FiniteSets

CONSTANTS Videos,       \* source files, by virtual path
          Tiers,        \* the resolutions ValidRes accepts
          Workers,      \* POCKETNAS_TRANSCODE_WORKERS goroutines of a manager
          QueueCap,     \* capacity of the channel q (4096 in the code)
          MaxManagers,  \* bound: managers alive at once in one process
          MaxMtime,     \* bound: versions a source file goes through
          MaxInflight,  \* bound: requests between os.Stat and Manager.Request
          MaxOrphans,   \* bound: temporary files that an orphan writes at a time
          DiskFaults    \* whether writing a row may fail

ASSUME CapAssumption == QueueCap \in Nat \ {0}
ASSUME ManagersAssumption == MaxManagers \in Nat \ {0}
ASSUME MtimeAssumption == MaxMtime \in Nat \ {0}
ASSUME InflightAssumption == MaxInflight \in Nat
ASSUME OrphansAssumption == MaxOrphans \in Nat
ASSUME FaultsAssumption == DiskFaults \in BOOLEAN

Manager == 1 .. MaxManagers
Mtime == 1 .. MaxMtime

\* jobKey: a job is a (path, res) pair.
Key == Videos \X Tiers

\* Mutant: the key leaves the modification time out.
CacheKeyWithoutMtime(k, m) == <<k, 1>>

\* CacheKey: one output file per (path, mtime, res).
CacheKey(k, m) == <<k, m>>
Output == Key \X Mtime

None == << >>  \* no key, no output name

Status == {"none", "queued", "running", "done", "failed"}
Active == {"queued", "running"}
Terminal == {"done", "failed"}

\* Percentages: 0, some value ffmpeg printed (capped at 99), and 100.
Percent == {0, 99, 100}

Job == [status : Status, progress : Percent, output : Output \cup {None}]
NoJob == [status |-> "none", progress |-> 0, output |-> None]

\* Where a worker goroutine stands.  "exited" is also a worker that does not exist.
Place == {"exited", "idle", "picked", "begun", "encoding", "encoded", "cleanup"}
Worker == [at : Place, key : Key \cup {None}, output : Output \cup {None}, read : 0 .. MaxMtime]
Exited == [at |-> "exited", key |-> None, output |-> None, read |-> 0]
Idle == [Exited EXCEPT !.at = "idle"]

\* Every ffmpeg whose process died before it.
Orphan == <<0, "orphan">>
Writer == (Manager \X Workers) \cup {Orphan}

VARIABLES
  mtime,      \* mtime[v]: version of the source file v
  inflight,   \* <<k, m>>: an HTTP request that stat'ed its video at mtime m
  serving,    \* the router is up
  current,    \* slot of the manager the router uses, 0 before the first start
  ffmpeg,     \* LookPath found ffmpeg when the current manager started
  job,        \* job[g][k]: Manager.jobs
  queue,      \* queue[g]: Manager.q
  closing,    \* closing[g]: Close has cancelled the context
  worker,     \* worker[g][w]
  row,        \* row[k]: table transcode_jobs
  temp,       \* temp[o]: whose ffmpeg opened the present file o.tmp.mp4; {} if there is none,
              \* or one that nobody writes any more
  cache,      \* cache[o]: source version the output file holds, 0 if there is no file
  torn,       \* output files that the ffmpegs of two workers wrote into
  spoilt      \* output files that an orphan wrote into beside the worker that renamed them

storage == <<row, temp, cache, torn, spoilt>>
vars == <<mtime, inflight, serving, current, ffmpeg, job, queue, closing, worker, storage>>

Alive(g) == \E w \in Workers : worker[g][w].at # "exited"

\* worker records that are at work on a key
Holding == {"picked", "begun", "encoding", "encoded"}
Owning == {"begun", "encoding", "encoded"}

----------------------------------------------------------------------------
(* Persistence: an upsert of the row whose error is ignored.               *)

Persist(k, j) ==
  \/ row' = [row EXCEPT ![k] = j]
  \/ DiskFaults /\ UNCHANGED row

----------------------------------------------------------------------------
(* Requests                                                                *)

\* A job can be answered with its output file: done, made from this mtime, still on disk.
Serves(j, k, m) ==
  /\ j.status = "done"
  /\ j.output = CacheKey(k, m)
  /\ cache[CacheKey(k, m)] # 0

\* The handler stats the video, and calls Request with the mtime it saw.
StatVideo(k) ==
  /\ serving
  /\ Cardinality(inflight) < MaxInflight
  /\ inflight' = inflight \cup {<<k, mtime[k[1]]>>}
  /\ UNCHANGED <<mtime, serving, current, ffmpeg, job, queue, closing, worker, storage>>

\* Mutant: a job that still waits in the channel is not recognised.
KnownUnlessQueued(j, k, m) == j.status \in {"running", "failed"} \/ Serves(j, k, m)

\* Mutant: only a finished job is recognised.
KnownIfEnded(j, k, m) == j.status = "failed" \/ Serves(j, k, m)

\* Request returns the job as it is: deduplication, a cached output, or a failure.
Known(j, k, m) == j.status \in Active \cup {"failed"} \/ Serves(j, k, m)

RequestKnown(k, m) ==
  /\ serving
  /\ <<k, m>> \in inflight
  /\ Known(job[current][k], k, m)
  /\ inflight' = inflight \ {<<k, m>>}
  /\ UNCHANGED <<mtime, serving, current, ffmpeg, job, queue, closing, worker, storage>>

RequestWithoutFfmpeg(k, m) ==
  /\ serving
  /\ <<k, m>> \in inflight
  /\ ~ Known(job[current][k], k, m)
  /\ ~ ffmpeg
  /\ LET j == [NoJob EXCEPT !.status = "failed"]
     IN  /\ job' = [job EXCEPT ![current][k] = j]
         /\ Persist(k, j)
  /\ inflight' = inflight \ {<<k, m>>}
  /\ UNCHANGED <<mtime, serving, current, ffmpeg, queue, closing, worker, temp, cache, torn, spoilt>>

\* A new job.  When the channel is full the job stays queued and no worker will see it.
RequestNew(k, m) ==
  /\ serving
  /\ <<k, m>> \in inflight
  /\ ~ Known(job[current][k], k, m)
  /\ ffmpeg
  /\ LET j == [status |-> "queued", progress |-> 0, output |-> CacheKey(k, m)]
     IN  /\ job' = [job EXCEPT ![current][k] = j]
         /\ Persist(k, j)
  /\ \/ /\ Len(queue[current]) < QueueCap
        /\ queue' = [queue EXCEPT ![current] = Append(@, k)]
     \/ /\ Len(queue[current]) = QueueCap
        /\ UNCHANGED queue
  /\ inflight' = inflight \ {<<k, m>>}
  /\ UNCHANGED <<mtime, serving, current, ffmpeg, closing, worker, temp, cache, torn, spoilt>>

----------------------------------------------------------------------------
(* A worker of manager g                                                   *)

outside == <<mtime, inflight, serving, current, ffmpeg, closing>>

\* select: the channel and a cancelled context are both ready, and either may win.
Pick(g, w) ==
  /\ worker[g][w].at = "idle"
  /\ queue[g] # << >>
  /\ worker' = [worker EXCEPT ![g][w] = [@ EXCEPT !.at = "picked", !.key = Head(queue[g])]]
  /\ queue' = [queue EXCEPT ![g] = Tail(@)]
  /\ UNCHANGED <<outside, job, storage>>

Exit(g, w) ==
  /\ worker[g][w].at = "idle"
  /\ closing[g]
  /\ worker' = [worker EXCEPT ![g][w] = Exited]
  /\ UNCHANGED <<outside, job, queue, storage>>

\* First critical section of runJob.
Begin(g, w) ==
  LET k == worker[g][w].key
      j == [job[g][k] EXCEPT !.status = "running", !.progress = 0]
  IN  /\ worker[g][w].at = "picked"
      /\ IF job[g][k].status = "queued"
         THEN /\ job' = [job EXCEPT ![g][k] = j]
              /\ worker' = [worker EXCEPT ![g][w] = [@ EXCEPT !.at = "begun", !.output = j.output]]
              /\ Persist(k, j)
         ELSE /\ worker' = [worker EXCEPT ![g][w] = Idle]
              /\ UNCHANGED <<job, row>>
      /\ UNCHANGED <<outside, queue, temp, cache, torn, spoilt>>

\* ffmpeg starts: it truncates or creates the temp file and reads the source as it now is.
\* With a cancelled context cmd.Start fails instead (Fail).
Encode(g, w) ==
  LET o == worker[g][w].output
  IN  /\ worker[g][w].at = "begun"
      /\ ~ closing[g]
      /\ temp' = [temp EXCEPT ![o] = @ \cup {<<g, w>>}]
      /\ worker' = [worker EXCEPT ![g][w] =
                      [@ EXCEPT !.at = "encoding", !.read = mtime[worker[g][w].key[1]]]]
      /\ UNCHANGED <<outside, job, queue, row, cache, torn, spoilt>>

\* The callback runJob hands to run: it only touches a running job.
SetProgress(g, k, pct) ==
  job' = IF job[g][k].status = "running" THEN [job EXCEPT ![g][k] = [@ EXCEPT !.progress = pct]] ELSE job

\* Mutant: the percentage is not capped.
ReportUncapped(g, w) ==
  /\ worker[g][w].at = "encoding"
  /\ SetProgress(g, worker[g][w].key, 101)
  /\ UNCHANGED <<outside, queue, worker, storage>>

ReportProgress(g, w) ==
  /\ worker[g][w].at = "encoding"
  /\ SetProgress(g, worker[g][w].key, 99)
  /\ UNCHANGED <<outside, queue, worker, storage>>

\* ffmpeg exits with success; run reports 100 before runJob renames the output.
Encoded(g, w) ==
  /\ worker[g][w].at = "encoding"
  /\ SetProgress(g, worker[g][w].key, 100)
  /\ worker' = [worker EXCEPT ![g][w] = [@ EXCEPT !.at = "encoded"]]
  /\ UNCHANGED <<outside, queue, storage>>

\* The rename of the temp file onto the output, and the job's final state.
Commit(g, w) ==
  LET k == worker[g][w].key
      o == worker[g][w].output
      j == [job[g][k] EXCEPT !.status = "done", !.progress = 100]
  IN  /\ worker[g][w].at = "encoded"
      /\ temp[o] # {}
      /\ cache' = [cache EXCEPT ![o] = worker[g][w].read]
      /\ torn' = IF temp[o] \subseteq {<<g, w>>, Orphan} THEN torn \ {o} ELSE torn \cup {o}
      /\ spoilt' = IF Orphan \in temp[o] THEN spoilt \cup {o} ELSE spoilt \ {o}
      /\ temp' = [temp EXCEPT ![o] = {}]
      /\ job' = [job EXCEPT ![g][k] = j]
      /\ Persist(k, j)
      /\ worker' = [worker EXCEPT ![g][w] = [@ EXCEPT !.at = "cleanup"]]
      /\ UNCHANGED <<outside, queue>>

\* Mutant: an error return that leaves the job as it is.
FailSilently(g, w) ==
  /\ worker[g][w].at \in Owning
  /\ worker' = [worker EXCEPT ![g][w] = [@ EXCEPT !.at = "cleanup"]]
  /\ UNCHANGED <<outside, job, queue, storage>>

\* The path did not resolve, ffmpeg failed or was killed, or the rename failed.
Fail(g, w) ==
  LET k == worker[g][w].key
      j == [job[g][k] EXCEPT !.status = "failed"]
  IN  /\ worker[g][w].at \in Owning
      /\ job' = [job EXCEPT ![g][k] = j]
      /\ Persist(k, j)
      /\ worker' = [worker EXCEPT ![g][w] = [@ EXCEPT !.at = "cleanup"]]
      /\ UNCHANGED <<outside, queue, temp, cache, torn, spoilt>>

\* Mutant: the worker returns after a job instead of waiting for the next.
CleanupAndExit(g, w) ==
  /\ worker[g][w].at = "cleanup"
  /\ temp' = [temp EXCEPT ![worker[g][w].output] = {}]
  /\ worker' = [worker EXCEPT ![g][w] = Exited]
  /\ UNCHANGED <<outside, job, queue, row, cache, torn, spoilt>>

\* The deferred os.Remove(tmp), which runs after the mutex is released.
Cleanup(g, w) ==
  /\ worker[g][w].at = "cleanup"
  /\ temp' = [temp EXCEPT ![worker[g][w].output] = {}]
  /\ worker' = [worker EXCEPT ![g][w] = Idle]
  /\ UNCHANGED <<outside, job, queue, row, cache, torn, spoilt>>

----------------------------------------------------------------------------
(* The process around the managers                                         *)

\* UPDATE running/queued -> none (nothing else of such a row is read again), and only
\* done and failed rows are loaded.
Recovered(j) == IF j.status \in Terminal THEN j ELSE NoJob

\* NewManager: recovery, eviction of any set of files (the order is EvictLRU's), the pool.
Start(g) ==
  /\ ~ serving
  /\ ~ Alive(g)
  /\ row' = [k \in Key |-> Recovered(row[k])]
  /\ job' = [job EXCEPT ![g] = [k \in Key |-> Recovered(row[k])]]
  /\ \E gone \in SUBSET {o \in Output : cache[o] # 0} :
       /\ cache' = [o \in Output |-> IF o \in gone THEN 0 ELSE cache[o]]
       /\ torn' = torn \ gone
       /\ spoilt' = spoilt \ gone
  /\ \E gone \in SUBSET {o \in Output : temp[o] # {}} :
       temp' = [o \in Output |-> IF o \in gone THEN {} ELSE temp[o]]
  /\ ffmpeg' \in BOOLEAN
  /\ queue' = [queue EXCEPT ![g] = << >>]
  /\ closing' = [closing EXCEPT ![g] = FALSE]
  /\ worker' = [worker EXCEPT ![g] = [w \in Workers |-> Idle]]
  /\ serving' = TRUE
  /\ current' = g
  /\ UNCHANGED <<mtime, inflight>>

\* srv.Shutdown drains the handlers and leaves the manager alone.
Stop ==
  /\ serving
  /\ serving' = FALSE
  /\ inflight' = {}
  /\ UNCHANGED <<mtime, current, ffmpeg, job, queue, closing, worker, storage>>

\* Manager.Close cancels the context and waits for the workers.
Close(g) ==
  /\ ~ serving
  /\ Alive(g)
  /\ ~ closing[g]
  /\ closing' = [closing EXCEPT ![g] = TRUE]
  /\ UNCHANGED <<mtime, inflight, serving, current, ffmpeg, job, queue, worker, storage>>

\* Whose ffmpeg is still running: nothing kills it with its parent.
StillWriting(y) == y = Orphan \/ \E g \in Manager, w \in Workers :
                                   y = <<g, w>> /\ worker[g][w].at = "encoding"

\* The process dies, or Start returns after SIGTERM without closing the manager; whatever
\* ends it may end some of its ffmpegs too.
Crash ==
  /\ serving' = FALSE
  /\ inflight' = {}
  /\ job' = [g \in Manager |-> [k \in Key |-> NoJob]]
  /\ queue' = [g \in Manager |-> << >>]
  /\ closing' = [g \in Manager |-> FALSE]
  /\ worker' = [g \in Manager |-> [w \in Workers |-> Exited]]
  /\ \E left \in SUBSET {o \in Output : \E y \in temp[o] : StillWriting(y)} :
       /\ Cardinality(left) <= MaxOrphans
       /\ temp' = [o \in Output |-> IF o \in left THEN {Orphan} ELSE {}]
  /\ UNCHANGED <<mtime, current, ffmpeg, row, cache, torn, spoilt>>

\* An orphan ends on its own, or with whatever killed its parent.  Where a worker has opened
\* the same file, the mark of what the orphan wrote stays.
OrphanEnds(o) ==
  /\ temp[o] = {Orphan}
  /\ temp' = [temp EXCEPT ![o] = {}]
  /\ UNCHANGED <<outside, job, queue, worker, row, cache, torn, spoilt>>

\* Somebody replaces the source file.
ChangeSource(v) ==
  /\ mtime[v] < MaxMtime
  /\ mtime' = [mtime EXCEPT ![v] = @ + 1]
  /\ UNCHANGED <<inflight, serving, current, ffmpeg, job, queue, closing, worker, storage>>

----------------------------------------------------------------------------
Init ==
  /\ mtime = [v \in Videos |-> 1]
  /\ inflight = {}
  /\ serving = FALSE
  /\ current = 1
  /\ ffmpeg = TRUE
  /\ job = [g \in Manager |-> [k \in Key |-> NoJob]]
  /\ queue = [g \in Manager |-> << >>]
  /\ closing = [g \in Manager |-> FALSE]
  /\ worker = [g \in Manager |-> [w \in Workers |-> Exited]]
  /\ row = [k \in Key |-> NoJob]
  /\ temp = [o \in Output |-> {}]
  /\ cache = [o \in Output |-> 0]
  /\ torn = {}
  /\ spoilt = {}

\* What a worker goroutine does until it waits for the channel again.
WorkerStep(g, w) ==
  \/ Pick(g, w)
  \/ Exit(g, w)
  \/ Begin(g, w)
  \/ Encode(g, w)
  \/ Encoded(g, w)
  \/ Commit(g, w)
  \/ Fail(g, w)
  \/ Cleanup(g, w)

Request(k, m) == RequestKnown(k, m) \/ RequestWithoutFfmpeg(k, m) \/ RequestNew(k, m)

Next ==
  \/ \E k \in Key : StatVideo(k) \/ \E m \in Mtime : Request(k, m)
  \/ \E g \in Manager, w \in Workers : WorkerStep(g, w) \/ ReportProgress(g, w)
  \/ \E g \in Manager : Start(g) \/ Close(g)
  \/ Stop
  \/ Crash
  \/ \E o \in Output : OrphanEnds(o)
  \/ \E v \in Videos : ChangeSource(v)

\* Goroutines are scheduled and every ffmpeg process ends; clients promise nothing.
Fairness == \A g \in Manager, w \in Workers : WF_vars(WorkerStep(g, w))

Spec == Init /\ [][Next]_vars
FairSpec == Spec /\ Fairness

----------------------------------------------------------------------------
(* The tasks as the abstract specification sees them                       *)

Encoders(k) == {w \in Workers : worker[current][w].at \in Owning /\ worker[current][w].key = k}

Tasks == INSTANCE TranscodeTasks WITH
  Key <- Key,
  status <- [k \in Key |-> job[current][k].status],
  encoders <- [k \in Key |-> Cardinality(Encoders(k))]

\* A process with one manager implements the tasks.
TasksSpec == Tasks!Spec

----------------------------------------------------------------------------
(* Properties                                                              *)

TypeOK ==
  /\ mtime \in [Videos -> Mtime]
  /\ inflight \subseteq Key \X Mtime
  /\ serving \in BOOLEAN
  /\ current \in Manager
  /\ ffmpeg \in BOOLEAN
  /\ job \in [Manager -> [Key -> Job]]
  /\ queue \in [Manager -> Seq(Key)]
  /\ closing \in [Manager -> BOOLEAN]
  /\ worker \in [Manager -> [Workers -> Worker]]
  /\ row \in [Key -> Job]
  /\ temp \in [Output -> SUBSET Writer]
  /\ cache \in [Output -> 0 .. MaxMtime]
  /\ torn \subseteq Output
  /\ spoilt \subseteq Output

\* What a job, a row and a worker name fits: a worker on a key writes an output of that key.
OutputsOf(k) == {CacheKey(k, m) : m \in Mtime}

Bindings ==
  /\ \A k \in Key :
       /\ row[k].status = "done" => row[k].output \in OutputsOf(k)
       /\ \A g \in Manager :
            job[g][k].status \in Active \cup {"done"} => job[g][k].output \in OutputsOf(k)
  /\ \A g \in Manager, w \in Workers :
       /\ worker[g][w].at \notin {"exited", "idle"} => worker[g][w].key \in Key
       /\ worker[g][w].at \in Owning \cup {"cleanup"} =>
            worker[g][w].output \in OutputsOf(worker[g][w].key)

Queued(g, k) == \E i \in 1 .. Len(queue[g]) : queue[g][i] = k
Holds(g, w, k) == worker[g][w].at \in Holding /\ worker[g][w].key = k
Owns(g, w, k) == worker[g][w].at \in Owning /\ worker[g][w].key = k

\* Within one manager a job is claimed at most once: it is in the channel once, or one
\* worker has taken it, and its status says which.
ClaimsExclusive ==
  \A g \in Manager :
    /\ \A i, j \in 1 .. Len(queue[g]) : queue[g][i] = queue[g][j] => i = j
    /\ \A k \in Key :
         Queued(g, k) => job[g][k].status = "queued" /\ \A w \in Workers : ~ Holds(g, w, k)
    /\ \A k \in Key, w \in Workers :
         /\ \A x \in Workers : Holds(g, w, k) /\ Holds(g, x, k) => w = x
         /\ worker[g][w].at = "picked" /\ worker[g][w].key = k => job[g][k].status = "queued"
         /\ Owns(g, w, k) => job[g][k].status = "running"

\* While a job runs, some worker is at it.
RunningIsOwned ==
  \A g \in Manager, k \in Key :
    job[g][k].status = "running" => \E w \in Workers : Owns(g, w, k)

\* What GET /api/video answers with 200 was written by the ffmpeg of one worker, which read
\* the source no earlier than the version the request asked for.  An orphan may have written
\* into it as well: ServedUnspoilt.
ServedComplete ==
  \A k \in Key, m \in Mtime :
    serving /\ Serves(job[current][k], k, m) =>
      /\ CacheKey(k, m) \notin torn
      /\ cache[CacheKey(k, m)] >= m

\* What is answered was written by one ffmpeg alone, also after a restart: the output gets its
\* name when its ffmpeg has ended.
ServedUnspoilt ==
  \A k \in Key, m \in Mtime :
    serving /\ Serves(job[current][k], k, m) => CacheKey(k, m) \notin torn \cup spoilt

\* One task per (path, res), in the whole process.
OneTaskPerKey ==
  \A k \in Key, g, h \in Manager, w, x \in Workers :
    Owns(g, w, k) /\ Owns(h, x, k) => <<g, w>> = <<h, x>>

\* A job that a worker can see ends, unless the manager is closed first.
ClaimEnds ==
  \A g \in Manager, k \in Key :
    Queued(g, k) ~> job[g][k].status \notin Active \/ closing[g]
=============================================================================
