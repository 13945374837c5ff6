-------------------------- MODULE Transcode_proofs --------------------------
(***************************************************************************)
(* Theorems about the transcoding manager, for any number of videos,       *)
(* tiers, workers and managers and for any capacity of the channel.        *)
(***************************************************************************)
EXTENDS Transcode, FiniteSetTheorems, TLAPS

USE CapAssumption, ManagersAssumption, MtimeAssumption, InflightAssumption, OrphansAssumption,
    FaultsAssumption

LEMMA WritersApart ==
  Orphan \in Writer /\ \A g \in Manager, w \in Workers : <<g, w>> \in Writer /\ <<g, w>> # Orphan
BY DEF Orphan, Writer, Manager

LEMMA ExitedType == Exited \in Worker /\ Idle \in Worker
BY DEF Exited, Idle, Worker, Place

LEMMA NoJobType == NoJob \in Job
BY DEF NoJob, Job, Status, Percent

LEMMA RecoveredType == ASSUME NEW j \in Job PROVE Recovered(j) \in Job
BY NoJobType DEF Recovered

LEMMA WorkerPicks ==
  ASSUME NEW r \in Worker, NEW k \in Key
  PROVE  LET x == [r EXCEPT !.at = "picked", !.key = k]
         IN  x \in Worker /\ x.at = "picked" /\ x.key = k
BY DEF Worker, Place

LEMMA WorkerBegins ==
  ASSUME NEW r \in Worker, NEW o \in Output
  PROVE  LET x == [r EXCEPT !.at = "begun", !.output = o]
         IN  x \in Worker /\ x.at = "begun" /\ x.key = r.key /\ x.output = o
BY DEF Worker, Place

LEMMA WorkerEncodes ==
  ASSUME NEW r \in Worker, NEW m \in 0 .. MaxMtime
  PROVE  LET x == [r EXCEPT !.at = "encoding", !.read = m]
         IN  /\ x \in Worker
             /\ x.at = "encoding" /\ x.key = r.key /\ x.output = r.output /\ x.read = m
BY DEF Worker, Place

LEMMA WorkerMoves ==
  ASSUME NEW r \in Worker, NEW a \in Place
  PROVE  LET x == [r EXCEPT !.at = a]
         IN  /\ x \in Worker
             /\ x.at = a /\ x.key = r.key /\ x.output = r.output /\ x.read = r.read
BY DEF Worker

LEMMA JobEnters ==
  ASSUME NEW j \in Job, NEW s \in Status, NEW p \in Percent
  PROVE  LET x == [j EXCEPT !.status = s, !.progress = p]
         IN  x \in Job /\ x.status = s /\ x.progress = p /\ x.output = j.output
BY DEF Job

\* What an update of one job, or of one worker, leaves behind.
LEMMA JobUpdate ==
  ASSUME job \in [Manager -> [Key -> Job]], NEW g \in Manager, NEW k \in Key, NEW j \in Job,
         job' = [job EXCEPT ![g][k] = j]
  PROVE  /\ job' \in [Manager -> [Key -> Job]]
         /\ \A h \in Manager, l \in Key : job'[h][l] = IF h = g /\ l = k THEN j ELSE job[h][l]
OBVIOUS

LEMMA WorkerUpdate ==
  ASSUME worker \in [Manager -> [Workers -> Worker]],
         NEW g \in Manager, NEW w \in Workers, NEW r \in Worker,
         worker' = [worker EXCEPT ![g][w] = r]
  PROVE  /\ worker' \in [Manager -> [Workers -> Worker]]
         /\ \A h \in Manager, x \in Workers :
              worker'[h][x] = IF h = g /\ x = w THEN r ELSE worker[h][x]
OBVIOUS

LEMMA ProgressOnly ==
  ASSUME job \in [Manager -> [Key -> Job]],
         NEW g \in Manager, NEW k \in Key, NEW pct \in Percent, SetProgress(g, k, pct)
  PROVE  /\ job' \in [Manager -> [Key -> Job]]
         /\ \A h \in Manager, l \in Key :
              /\ job'[h][l].status = job[h][l].status
              /\ job'[h][l].output = job[h][l].output
<1> DEFINE j == [job[g][k] EXCEPT !.progress = pct]
<1>1. job[g][k] \in Job
  OBVIOUS
<1>2. j \in Job /\ j.status = job[g][k].status /\ j.output = job[g][k].output
  BY <1>1 DEF Job
<1>3. job' = job \/ job' = [job EXCEPT ![g][k] = j]
  BY DEF SetProgress
<1> HIDE DEF j
<1>4. CASE job' = job
  BY <1>4
<1>5. CASE job' = [job EXCEPT ![g][k] = j]
  BY <1>2, <1>5, JobUpdate
<1> QED
  BY <1>3, <1>4, <1>5

LEMMA KeyVideo == ASSUME NEW k \in Key PROVE k[1] \in Videos
BY DEF Key

LEMMA CacheKeyType == ASSUME NEW k \in Key, NEW m \in Mtime PROVE CacheKey(k, m) \in Output
BY DEF CacheKey, Output

LEMMA PersistType ==
  ASSUME row \in [Key -> Job], NEW k \in Key, NEW j \in Job, Persist(k, j)
  PROVE  row' \in [Key -> Job]
BY DEF Persist

LEMMA OutputsType == ASSUME NEW k \in Key PROVE OutputsOf(k) \subseteq Output
BY CacheKeyType DEF OutputsOf

\* The variables keep their types, and the outputs named by jobs and workers are theirs.
TypeInv == TypeOK /\ Bindings

LEMMA InitType == Init => TypeInv
<1> SUFFICES ASSUME Init PROVE TypeInv
  OBVIOUS
<1>1. job \in [Manager -> [Key -> Job]] /\ row \in [Key -> Job]
  BY NoJobType DEF Init
<1>2. worker \in [Manager -> [Workers -> Worker]]
  BY ExitedType DEF Init
<1>3. queue \in [Manager -> Seq(Key)] /\ closing \in [Manager -> BOOLEAN]
  BY DEF Init
<1>4. mtime \in [Videos -> Mtime] /\ current \in Manager
  BY DEF Init, Mtime, Manager
<1>5. /\ temp \in [Output -> SUBSET Writer]
      /\ cache \in [Output -> 0 .. MaxMtime]
  BY DEF Init
<1>6. /\ inflight \subseteq Key \X Mtime
      /\ torn \subseteq Output /\ spoilt \subseteq Output
      /\ serving \in BOOLEAN
      /\ ffmpeg \in BOOLEAN
  BY DEF Init
<1>7. Bindings
  BY DEF Init, Bindings, NoJob, Exited, Owning, Active
<1> QED
  BY <1>1, <1>2, <1>3, <1>4, <1>5, <1>6, <1>7 DEF TypeOK, TypeInv

LEMMA NextType == TypeInv /\ ClaimsExclusive /\ [Next]_vars => TypeInv'
<1> SUFFICES ASSUME TypeInv, ClaimsExclusive, [Next]_vars PROVE TypeInv'
  OBVIOUS
<1> USE DEF TypeInv, TypeOK
<1>1. ASSUME NEW k \in Key, StatVideo(k) PROVE TypeInv'
  BY <1>1, KeyVideo DEF StatVideo, storage, Bindings
<1>2. ASSUME NEW k \in Key, NEW m \in Mtime, RequestKnown(k, m) PROVE TypeInv'
  BY <1>2 DEF RequestKnown, storage, Bindings
<1>3. ASSUME NEW k \in Key, NEW m \in Mtime, RequestWithoutFfmpeg(k, m) PROVE TypeInv'
  <2>1. [NoJob EXCEPT !.status = "failed"] \in Job
    BY DEF NoJob, Job, Status, Percent
  <2>2. TypeOK'
    BY <1>3, <2>1, PersistType DEF RequestWithoutFfmpeg
  <2>3. Bindings'
    BY <1>3, <2>1 DEF RequestWithoutFfmpeg, Persist, Bindings, Active, NoJob
  <2> QED
    BY <2>2, <2>3
<1>4. ASSUME NEW k \in Key, NEW m \in Mtime, RequestNew(k, m) PROVE TypeInv'
  <2> DEFINE j == [status |-> "queued", progress |-> 0, output |-> CacheKey(k, m)]
  <2>1. j \in Job /\ j.status = "queued" /\ j.output \in OutputsOf(k)
    BY CacheKeyType DEF Job, Status, Percent, OutputsOf
  <2>2. Append(queue[current], k) \in Seq(Key)
    OBVIOUS
  <2>3. queue' \in [Manager -> Seq(Key)]
    BY <1>4, <2>2 DEF RequestNew
  <2>4. Persist(k, j) /\ job' = [job EXCEPT ![current][k] = j] /\ UNCHANGED worker
    BY <1>4 DEF RequestNew
  <2> HIDE DEF j
  <2>5. row' \in [Key -> Job] /\ job' \in [Manager -> [Key -> Job]]
    BY <2>1, <2>4, PersistType
  <2>6. TypeOK'
    BY <1>4, <2>3, <2>4, <2>5 DEF RequestNew
  <2>7. Bindings'
    BY <2>1, <2>4 DEF Persist, Bindings, Active
  <2> QED
    BY <2>6, <2>7
<1>5. ASSUME NEW g \in Manager, NEW w \in Workers, Pick(g, w) PROVE TypeInv'
  <2> DEFINE r == [worker[g][w] EXCEPT !.at = "picked", !.key = Head(queue[g])]
  <2>1. Head(queue[g]) \in Key /\ Tail(queue[g]) \in Seq(Key)
    BY <1>5 DEF Pick
  <2>a. worker[g][w] \in Worker
    OBVIOUS
  <2>2. r \in Worker /\ r.at = "picked" /\ r.key \in Key
    BY <2>1, <2>a, WorkerPicks DEF r
  <2>3. worker' = [worker EXCEPT ![g][w] = r] /\ UNCHANGED <<job, row>>
    BY <1>5 DEF Pick, storage
  <2> HIDE DEF r
  <2>4. worker' \in [Manager -> [Workers -> Worker]]
    BY <2>2, <2>3
  <2>5. queue' \in [Manager -> Seq(Key)]
    BY <1>5, <2>1 DEF Pick
  <2>6. TypeOK'
    BY <1>5, <2>4, <2>5 DEF Pick, outside, storage
  <2>7. Bindings'
    BY <2>2, <2>3 DEF Bindings, Owning
  <2> QED
    BY <2>6, <2>7
<1>6. ASSUME NEW g \in Manager, NEW w \in Workers, Exit(g, w) PROVE TypeInv'
  <2>1. TypeOK'
    BY <1>6, ExitedType DEF Exit, outside, storage
  <2>2. Bindings'
    BY <1>6, ExitedType DEF Exit, storage, Bindings, Exited, Owning
  <2> QED
    BY <2>1, <2>2
<1>7. ASSUME NEW g \in Manager, NEW w \in Workers, Begin(g, w) PROVE TypeInv'
  <2> DEFINE k == worker[g][w].key
             j == [job[g][k] EXCEPT !.status = "running", !.progress = 0]
             r == [worker[g][w] EXCEPT !.at = "begun", !.output = j.output]
  <2>1. k \in Key
    BY <1>7 DEF Begin, Bindings
  <2>2. CASE job[g][k].status = "queued"
    <3>1. /\ worker' = [worker EXCEPT ![g][w] = r]
          /\ job' = [job EXCEPT ![g][k] = j]
          /\ Persist(k, j)
          /\ UNCHANGED <<outside, queue, temp, cache, torn, spoilt>>
      BY <1>7, <2>2 DEF Begin
    <3>a. job[g][k] \in Job /\ worker[g][w] \in Worker
      BY <2>1
    <3>b. job[g][k].output \in OutputsOf(k)
      BY <2>1, <2>2 DEF Bindings, Active
    <3>2. j \in Job /\ j.status = "running" /\ j.output \in OutputsOf(k)
      BY <3>a, <3>b, JobEnters DEF Status, Percent
    <3>3. r \in Worker /\ r.at = "begun" /\ r.key = k /\ r.output \in OutputsOf(k)
      <4>1. j.output \in Output
        BY <2>1, <3>2, OutputsType
      <4> QED
        BY <3>a, <3>2, <4>1, WorkerBegins
    <3> HIDE DEF k, j, r
    <3>4. /\ worker' \in [Manager -> [Workers -> Worker]]
          /\ job' \in [Manager -> [Key -> Job]]
          /\ row' \in [Key -> Job]
      BY <2>1, <3>1, <3>2, <3>3, PersistType
    <3>5. TypeOK'
      BY <3>1, <3>4 DEF outside
    <3>6. Bindings'
      BY <2>1, <3>1, <3>2, <3>3, <3>4 DEF Bindings, Persist, Active
    <3> QED
      BY <3>5, <3>6
  <2>3. CASE job[g][k].status # "queued"
    <3>1. worker' = [worker EXCEPT ![g][w] = Idle] /\ UNCHANGED <<outside, job, queue, storage>>
      BY <1>7, <2>3 DEF Begin, storage
    <3>2. TypeOK'
      BY <3>1, ExitedType DEF outside, storage
    <3>3. Bindings'
      BY <3>1 DEF Bindings, Idle, Exited, Owning, storage
    <3> QED
      BY <3>2, <3>3
  <2> QED
    BY <2>2, <2>3
<1>8. ASSUME NEW g \in Manager, NEW w \in Workers, Encode(g, w) PROVE TypeInv'
  <2> DEFINE k == worker[g][w].key
             o == worker[g][w].output
             r == [worker[g][w] EXCEPT !.at = "encoding", !.read = mtime[k[1]]]
  <2>1. worker[g][w] \in Worker /\ k \in Key /\ o \in OutputsOf(k)
    BY <1>8 DEF Encode, Bindings, Owning
  <2>2. mtime[k[1]] \in 0 .. MaxMtime
    BY <2>1, KeyVideo DEF Mtime
  <2>3. r \in Worker /\ r.at = "encoding" /\ r.key = k /\ r.output = o
    BY <2>1, <2>2, WorkerEncodes
  <2>4. /\ worker' = [worker EXCEPT ![g][w] = r]
        /\ temp' = [temp EXCEPT ![o] = @ \cup {<<g, w>>}]
        /\ UNCHANGED <<outside, job, queue, row, cache, torn, spoilt>>
    BY <1>8 DEF Encode
  <2> HIDE DEF k, o, r
  <2>5. worker' \in [Manager -> [Workers -> Worker]]
    BY <2>3, <2>4
  <2>6. o \in Output
    BY <2>1, OutputsType
  <2>7. temp' \in [Output -> SUBSET Writer]
    BY <2>4, <2>6, WritersApart
  <2>8. TypeOK'
    BY <2>4, <2>5, <2>7 DEF outside
  <2>9. Bindings'
    BY <2>1, <2>3, <2>4 DEF Bindings
  <2> QED
    BY <2>8, <2>9
<1>10. ASSUME NEW g \in Manager, NEW w \in Workers, ReportProgress(g, w) PROVE TypeInv'
  <2>1. worker[g][w].key \in Key /\ 99 \in Percent
    BY <1>10 DEF ReportProgress, Bindings, Percent
  <2>2. SetProgress(g, worker[g][w].key, 99) /\ UNCHANGED <<outside, queue, worker, storage>>
    BY <1>10 DEF ReportProgress
  <2>3. TypeOK'
    BY <2>1, <2>2, ProgressOnly DEF outside, storage
  <2>4. Bindings'
    BY <2>1, <2>2, ProgressOnly DEF Bindings, storage
  <2> QED
    BY <2>3, <2>4
<1>11. ASSUME NEW g \in Manager, NEW w \in Workers, Encoded(g, w) PROVE TypeInv'
  <2> DEFINE r == [worker[g][w] EXCEPT !.at = "encoded"]
  <2>1. worker[g][w] \in Worker /\ worker[g][w].key \in Key /\ 100 \in Percent
    BY <1>11 DEF Encoded, Bindings, Percent
  <2>2. /\ r \in Worker /\ r.at = "encoded"
        /\ r.key = worker[g][w].key /\ r.output = worker[g][w].output
    BY <2>1, WorkerMoves DEF Place
  <2>3. /\ SetProgress(g, worker[g][w].key, 100)
        /\ worker' = [worker EXCEPT ![g][w] = r]
        /\ worker[g][w].at = "encoding"
        /\ UNCHANGED <<outside, queue, storage>>
    BY <1>11 DEF Encoded
  <2> HIDE DEF r
  <2>4. worker' \in [Manager -> [Workers -> Worker]]
    BY <2>2, <2>3
  <2>5. TypeOK'
    BY <2>1, <2>3, <2>4, ProgressOnly DEF outside, storage
  <2>6. Bindings'
    BY <2>1, <2>2, <2>3, ProgressOnly DEF Bindings, storage, Owning
  <2> QED
    BY <2>5, <2>6
\* Commit and Fail end the job of a worker in the same way.
<1>12. ASSUME NEW g \in Manager, NEW w \in Workers, NEW j \in Job,
              worker[g][w].at \in Owning,
              j.status \in {"done", "failed"}, j.output = job[g][worker[g][w].key].output,
              job' = [job EXCEPT ![g][worker[g][w].key] = j],
              Persist(worker[g][w].key, j),
              worker' = [worker EXCEPT ![g][w] = [@ EXCEPT !.at = "cleanup"]]
       PROVE  /\ job' \in [Manager -> [Key -> Job]]
              /\ row' \in [Key -> Job]
              /\ worker' \in [Manager -> [Workers -> Worker]]
              /\ Bindings'
  <2> DEFINE k == worker[g][w].key
             r == [worker[g][w] EXCEPT !.at = "cleanup"]
  <2>1. worker[g][w] \in Worker /\ k \in Key /\ worker[g][w].output \in OutputsOf(k)
    BY <1>12 DEF Bindings, Owning
  <2>2. r \in Worker /\ r.at = "cleanup" /\ r.key = k /\ r.output = worker[g][w].output
    BY <2>1, WorkerMoves DEF Place
  <2>3. job[g][k].status = "running"
    BY <1>12, <2>1 DEF ClaimsExclusive, Owns
  <2>4. /\ worker' = [worker EXCEPT ![g][w] = r]
        /\ job' = [job EXCEPT ![g][k] = j]
        /\ Persist(k, j)
        /\ j.output \in OutputsOf(k)
    BY <1>12, <2>1, <2>3 DEF Bindings, Active
  <2> HIDE DEF k, r
  <2>5. row' \in [Key -> Job]
    BY <1>12, <2>1, <2>4, PersistType
  <2>6. /\ job' \in [Manager -> [Key -> Job]]
        /\ \A h \in Manager, l \in Key : job'[h][l] = IF h = g /\ l = k THEN j ELSE job[h][l]
    BY <2>1, <2>4, JobUpdate
  <2>7. /\ worker' \in [Manager -> [Workers -> Worker]]
        /\ \A h \in Manager, x \in Workers :
             worker'[h][x] = IF h = g /\ x = w THEN r ELSE worker[h][x]
    BY <2>2, <2>4, WorkerUpdate
  <2>8. Bindings'
    BY <2>1, <2>2, <2>4, <2>5, <2>6, <2>7 DEF Bindings, Persist
  <2> QED
    BY <2>5, <2>6, <2>7, <2>8
<1>13. ASSUME NEW g \in Manager, NEW w \in Workers, Commit(g, w) PROVE TypeInv'
  <2> DEFINE k == worker[g][w].key
             o == worker[g][w].output
             j == [job[g][k] EXCEPT !.status = "done", !.progress = 100]
  <2>1. k \in Key /\ o \in Output /\ worker[g][w].read \in 0 .. MaxMtime
    <3>1. worker[g][w] \in Worker
      OBVIOUS
    <3>2. worker[g][w].read \in 0 .. MaxMtime
      BY <3>1 DEF Worker
    <3> QED
      BY <1>13, <3>2, OutputsType DEF Commit, Bindings, Owning
  <2>2. job[g][k] \in Job
    BY <2>1
  <2>3. j \in Job /\ j.status = "done" /\ j.output = job[g][k].output
    BY <2>2, JobEnters DEF Status, Percent
  <2>4. /\ job' = [job EXCEPT ![g][k] = j]
        /\ Persist(k, j)
        /\ worker' = [worker EXCEPT ![g][w] = [@ EXCEPT !.at = "cleanup"]]
        /\ worker[g][w].at \in Owning
        /\ cache' = [cache EXCEPT ![o] = worker[g][w].read]
        /\ torn' = torn \ {o} \/ torn' = torn \cup {o}
        /\ spoilt' = spoilt \ {o} \/ spoilt' = spoilt \cup {o}
        /\ temp' = [temp EXCEPT ![o] = {}]
        /\ UNCHANGED <<outside, queue>>
    BY <1>13 DEF Commit, Owning
  <2> HIDE DEF j
  <2>5. /\ job' \in [Manager -> [Key -> Job]] /\ row' \in [Key -> Job]
        /\ worker' \in [Manager -> [Workers -> Worker]] /\ Bindings'
    BY <1>12, <2>3, <2>4
  <2>6. /\ cache' \in [Output -> 0 .. MaxMtime]
        /\ torn' \subseteq Output /\ spoilt' \subseteq Output
        /\ temp' \in [Output -> SUBSET Writer]
    BY <2>1, <2>4
  <2> QED
    BY <2>4, <2>5, <2>6 DEF outside
<1>14. ASSUME NEW g \in Manager, NEW w \in Workers, Fail(g, w) PROVE TypeInv'
  <2> DEFINE k == worker[g][w].key
             j == [job[g][k] EXCEPT !.status = "failed"]
  <2>1. k \in Key
    BY <1>14 DEF Fail, Bindings, Owning
  <2>2. job[g][k] \in Job
    BY <2>1
  <2>3. j \in Job /\ j.status = "failed" /\ j.output = job[g][k].output
    BY <2>2 DEF Job, Status
  <2>4. /\ job' = [job EXCEPT ![g][k] = j]
        /\ Persist(k, j)
        /\ worker' = [worker EXCEPT ![g][w] = [@ EXCEPT !.at = "cleanup"]]
        /\ worker[g][w].at \in Owning
        /\ UNCHANGED <<outside, queue, temp, cache, torn, spoilt>>
    BY <1>14 DEF Fail
  <2> HIDE DEF j
  <2>5. /\ job' \in [Manager -> [Key -> Job]] /\ row' \in [Key -> Job]
        /\ worker' \in [Manager -> [Workers -> Worker]] /\ Bindings'
    BY <1>12, <2>3, <2>4
  <2> QED
    BY <2>4, <2>5 DEF outside
<1>15. ASSUME NEW g \in Manager, NEW w \in Workers, Cleanup(g, w) PROVE TypeInv'
  <2>1. worker[g][w].output \in Output
    BY <1>15, OutputsType DEF Cleanup, Bindings, Owning
  <2>2. /\ temp' = [temp EXCEPT ![worker[g][w].output] = {}]
        /\ worker' = [worker EXCEPT ![g][w] = Idle]
        /\ UNCHANGED <<outside, job, queue, row, cache, torn, spoilt>>
    BY <1>15 DEF Cleanup
  <2>3. /\ worker' \in [Manager -> [Workers -> Worker]]
        /\ \A h \in Manager, x \in Workers :
             worker'[h][x] = IF h = g /\ x = w THEN Idle ELSE worker[h][x]
    BY <2>2, ExitedType, WorkerUpdate
  <2>4. temp' \in [Output -> SUBSET Writer]
    BY <2>1, <2>2
  <2>5. Bindings'
    BY <2>2, <2>3 DEF Bindings, Idle, Exited, Owning
  <2> QED
    BY <2>2, <2>3, <2>4, <2>5 DEF outside
<1>16. ASSUME NEW g \in Manager, Start(g) PROVE TypeInv'
  <2>1. \A k \in Key : Recovered(row[k]) \in Job
    BY RecoveredType
  <2>2. row' \in [Key -> Job] /\ job' \in [Manager -> [Key -> Job]]
    BY <1>16, <2>1 DEF Start
  <2>3. worker' \in [Manager -> [Workers -> Worker]] /\ queue' \in [Manager -> Seq(Key)]
    BY <1>16, ExitedType DEF Start
  <2>4. cache' \in [Output -> 0 .. MaxMtime] /\ torn' \subseteq Output /\ spoilt' \subseteq Output
    BY <1>16 DEF Start
  <2>5. temp' \in [Output -> SUBSET Writer]
    BY <1>16 DEF Start
  <2>6. TypeOK'
    BY <1>16, <2>2, <2>3, <2>4, <2>5 DEF Start
  <2>7. \A k \in Key :
          /\ Recovered(row[k]).status \notin Active
          /\ Recovered(row[k]).status = "done" => Recovered(row[k]).output \in OutputsOf(k)
    BY DEF Recovered, Terminal, NoJob, Active, Bindings
  <2>8. \A k \in Key :
          /\ row'[k] = Recovered(row[k])
          /\ \A h \in Manager : job'[h][k] = IF h = g THEN Recovered(row[k]) ELSE job[h][k]
    BY <1>16 DEF Start
  <2>9. \A h \in Manager, w \in Workers :
          worker'[h][w] = IF h = g THEN Idle ELSE worker[h][w]
    BY <1>16 DEF Start
  <2>10. \A k \in Key :
           /\ row'[k].status = "done" => row'[k].output \in OutputsOf(k)
           /\ \A h \in Manager :
                job'[h][k].status \in Active \cup {"done"} => job'[h][k].output \in OutputsOf(k)
    BY <2>7, <2>8 DEF Bindings
  <2>11. \A h \in Manager, w \in Workers :
           /\ worker'[h][w].at \notin {"exited", "idle"} => worker'[h][w].key \in Key
           /\ worker'[h][w].at \in Owning \cup {"cleanup"} =>
                worker'[h][w].output \in OutputsOf(worker'[h][w].key)
    <3>1. Idle.at = "idle"
      BY DEF Idle, Exited
    <3>2. \A h \in Manager, w \in Workers : h = g => worker'[h][w].at = "idle"
      BY <2>9, <3>1
    <3>3. \A h \in Manager, w \in Workers : h # g => worker'[h][w] = worker[h][w]
      BY <2>9
    <3> QED
      BY <3>2, <3>3 DEF Bindings, Owning
  <2>12. Bindings'
    BY <2>10, <2>11 DEF Bindings
  <2> QED
    BY <2>6, <2>12
<1>17. CASE Stop
  BY <1>17 DEF Stop, storage, Bindings
<1>18. ASSUME NEW g \in Manager, Close(g) PROVE TypeInv'
  BY <1>18 DEF Close, storage, Bindings
<1>19. CASE Crash
  <2>1. TypeOK'
    <3>1. job' \in [Manager -> [Key -> Job]]
      BY <1>19, NoJobType DEF Crash
    <3>2. worker' \in [Manager -> [Workers -> Worker]]
      BY <1>19, ExitedType DEF Crash
    <3>3. queue' \in [Manager -> Seq(Key)]
      BY <1>19 DEF Crash
    <3>4. temp' \in [Output -> SUBSET Writer]
      BY <1>19, WritersApart DEF Crash
    <3> QED
      BY <1>19, <3>1, <3>2, <3>3, <3>4 DEF Crash
  <2>2. Bindings'
    BY <1>19 DEF Crash, Bindings, NoJob, Exited, Owning, Active
  <2> QED
    BY <2>1, <2>2
<1>20. ASSUME NEW v \in Videos, ChangeSource(v) PROVE TypeInv'
  BY <1>20 DEF ChangeSource, storage, Bindings, Mtime
<1>21. CASE UNCHANGED vars
  BY <1>21 DEF vars, storage, Bindings
<1>22. ASSUME NEW o \in Output, OrphanEnds(o) PROVE TypeInv'
  BY <1>22 DEF OrphanEnds, outside, Bindings
<1> QED
  BY <1>1, <1>2, <1>3, <1>4, <1>5, <1>6, <1>7, <1>8, <1>10, <1>11, <1>13, <1>14, <1>15,
     <1>16, <1>17, <1>18, <1>19, <1>20, <1>21, <1>22 DEF Next, Request, WorkerStep

----------------------------------------------------------------------------
(* Claims, for the jobs js, the channel q and the workers ws of a manager. *)

In(k, q) == \E i \in 1 .. Len(q) : q[i] = k
Hold(w, k, ws) == ws[w].at \in Holding /\ ws[w].key = k

Claims(js, q, ws) ==
  /\ \A i, j \in 1 .. Len(q) : q[i] = q[j] => i = j
  /\ \A k \in Key : In(k, q) => js[k].status = "queued" /\ \A w \in Workers : ~ Hold(w, k, ws)
  /\ \A k \in Key, w \in Workers :
       /\ \A x \in Workers : Hold(w, k, ws) /\ Hold(x, k, ws) => w = x
       /\ ws[w].at = "picked" /\ ws[w].key = k => js[k].status = "queued"
       /\ ws[w].at \in Owning /\ ws[w].key = k => js[k].status = "running"

LEMMA ClaimsOf == ClaimsExclusive <=> \A g \in Manager : Claims(job[g], queue[g], worker[g])
BY DEF ClaimsExclusive, Claims, Queued, In, Holds, Hold, Owns

LEMMA ClaimsOfNext ==
  ClaimsExclusive' <=> \A g \in Manager : Claims(job'[g], queue'[g], worker'[g])
BY DEF ClaimsExclusive, Claims, Queued, In, Holds, Hold, Owns

\* A job nobody has claimed may change in any way.
LEMMA ClaimsFreeJob ==
  ASSUME NEW js, NEW jt, NEW q, NEW ws, NEW k \in Key, Claims(js, q, ws),
         js[k].status \notin {"queued", "running"},
         \A l \in Key : l # k => jt[l] = js[l]
  PROVE  Claims(jt, q, ws)
<1>1. ~ In(k, q)
  BY DEF Claims, In
<1>2. \A w \in Workers : ~ Hold(w, k, ws)
  BY DEF Claims, Hold, Holding, Owning
<1> QED
  BY <1>1, <1>2 DEF Claims, Hold, Holding, Owning

\* It may also enter the channel.
LEMMA ClaimsAppend ==
  ASSUME NEW js, NEW q \in Seq(Key), NEW ws, NEW k \in Key, Claims(js, q, ws),
         js[k].status = "queued", ~ In(k, q), \A w \in Workers : ~ Hold(w, k, ws)
  PROVE  Claims(js, Append(q, k), ws)
<1>1. /\ Len(Append(q, k)) = Len(q) + 1
      /\ \A i \in 1 .. Len(q) : Append(q, k)[i] = q[i]
      /\ Append(q, k)[Len(q) + 1] = k
      /\ Len(q) \in Nat
  OBVIOUS
<1>2. \A i \in 1 .. Len(q) + 1 : i \in 1 .. Len(q) \/ i = Len(q) + 1
  BY <1>1
<1>3. \A l \in Key : In(l, Append(q, k)) => In(l, q) \/ l = k
  BY <1>1, <1>2 DEF In
<1>4. \A i, j \in 1 .. Len(Append(q, k)) : Append(q, k)[i] = Append(q, k)[j] => i = j
  BY <1>1, <1>2 DEF In, Claims
<1> QED
  BY <1>3, <1>4 DEF Claims

\* The head of the channel goes to an idle worker.
LEMMA ClaimsPick ==
  ASSUME NEW js, NEW q \in Seq(Key), q # << >>, NEW ws, NEW wt, NEW w \in Workers,
         Claims(js, q, ws), wt[w].at = "picked", wt[w].key = Head(q),
         \A x \in Workers : x # w => wt[x] = ws[x]
  PROVE  Claims(js, Tail(q), wt)
<1> DEFINE k == Head(q)
           r == Tail(q)
<1>1. /\ r \in Seq(Key)
      /\ Len(r) = Len(q) - 1
      /\ \A i \in 1 .. Len(r) : r[i] = q[i + 1] /\ i + 1 \in 1 .. Len(q)
      /\ k \in Key /\ k = q[1] /\ 1 \in 1 .. Len(q)
      /\ Len(r) \in Nat
  OBVIOUS
<1> HIDE DEF k, r
<1>2. In(k, q) /\ ~ In(k, r)
  <2>1. In(k, q)
    BY <1>1 DEF In
  <2>2. ASSUME NEW i \in 1 .. Len(r), r[i] = k PROVE FALSE
    <3>1. q[i + 1] = q[1]
      BY <1>1, <2>2
    <3>2. i + 1 = 1
      BY <1>1, <3>1 DEF Claims
    <3> QED
      BY <3>2
  <2> QED
    BY <2>1, <2>2 DEF In
<1>3. \A l \in Key : In(l, r) => In(l, q) /\ l # k
  BY <1>1, <1>2 DEF In
<1>4. \A i, j \in 1 .. Len(r) : r[i] = r[j] => i = j
  <2> SUFFICES ASSUME NEW i \in 1 .. Len(r), NEW j \in 1 .. Len(r), r[i] = r[j] PROVE i = j
    OBVIOUS
  <2>1. q[i + 1] = q[j + 1] /\ i + 1 \in 1 .. Len(q) /\ j + 1 \in 1 .. Len(q)
    BY <1>1
  <2>2. i + 1 = j + 1
    BY <2>1 DEF Claims
  <2> QED
    BY <2>2
<1>5. js[k].status = "queued" /\ \A x \in Workers : ~ Hold(x, k, ws)
  BY <1>1, <1>2 DEF Claims
<1>6. \A x \in Workers, l \in Key : Hold(x, l, wt) => (x = w /\ l = k) \/ (x # w /\ Hold(x, l, ws))
  BY DEF Hold, k
<1>7. wt[w].at = "picked" /\ wt[w].key = k
  BY DEF k
<1>8. Claims(js, r, wt)
  BY <1>1, <1>3, <1>4, <1>5, <1>6, <1>7 DEF Claims, Owning
<1> QED
  BY <1>8 DEF r

\* A worker begins, moves on, or leaves its job.
LEMMA ClaimsWorker ==
  ASSUME NEW js, NEW jt, NEW q, NEW ws, NEW wt, NEW w \in Workers, NEW k \in Key,
         Claims(js, q, ws), ws[w].at \in Holding, ws[w].key = k,
         \A x \in Workers : x # w => wt[x] = ws[x],
         \A l \in Key : l # k => jt[l].status = js[l].status,
         wt[w].at \in Owning \cup {"idle", "cleanup"},
         wt[w].at \in Owning => wt[w].key = k /\ jt[k].status = "running"
  PROVE  Claims(jt, q, wt)
<1>1. ~ In(k, q) /\ \A x \in Workers : Hold(x, k, ws) => x = w
  BY DEF Claims, Hold
<1>2. \A x \in Workers, l \in Key : Hold(x, l, wt) => Hold(x, l, ws) /\ (l = k <=> x = w)
  BY <1>1 DEF Hold, Owning, Holding
<1>3. \A x \in Workers : x # w => wt[x].key # k \/ wt[x].at \notin Holding
  BY <1>1 DEF Hold
<1>4. ASSUME NEW l \in Key, NEW x \in Workers
      PROVE  /\ In(l, q) => jt[l].status = "queued" /\ ~ Hold(x, l, wt)
             /\ \A y \in Workers : Hold(x, l, wt) /\ Hold(y, l, wt) => x = y
             /\ wt[x].at = "picked" /\ wt[x].key = l => jt[l].status = "queued"
             /\ wt[x].at \in Owning /\ wt[x].key = l => jt[l].status = "running"
  <2>1. In(l, q) => l # k /\ js[l].status = "queued" /\ ~ Hold(x, l, ws)
    BY <1>1 DEF Claims
  <2>2. \A y \in Workers : Hold(x, l, wt) /\ Hold(y, l, wt) => x = y
    BY <1>2 DEF Claims
  <2>3. CASE x = w
    BY <2>1, <2>2, <2>3, <1>1, <1>2 DEF Owning, Holding, Hold
  <2>4. CASE x # w
    <3>1. wt[x] = ws[x] /\ (wt[x].at \in Holding => wt[x].key # k)
      BY <1>3, <2>4
    <3>2. wt[x].at = "picked" \/ wt[x].at \in Owning => wt[x].at \in Holding
      BY DEF Owning, Holding
    <3> QED
      BY <2>1, <2>2, <3>1, <3>2, <1>2 DEF Claims
  <2> QED
    BY <2>3, <2>4
<1> QED
  BY <1>4 DEF Claims

\* A worker without a job exits or waits.
LEMMA ClaimsRest ==
  ASSUME NEW js, NEW q, NEW ws, NEW wt, NEW w \in Workers, Claims(js, q, ws),
         wt[w].at \in {"idle", "exited"}, \A x \in Workers : x # w => wt[x] = ws[x]
  PROVE  Claims(js, q, wt)
BY DEF Claims, Hold, Holding, Owning

\* A manager without claims.
LEMMA ClaimsFresh ==
  ASSUME NEW js, NEW ws, \A w \in Workers : ws[w].at \in {"idle", "exited"}
  PROVE  Claims(js, << >>, ws)
BY DEF Claims, In, Hold, Holding, Owning

LEMMA ClaimsStatus ==
  ASSUME NEW js, NEW jt, NEW q, NEW ws, Claims(js, q, ws),
         \A k \in Key : jt[k].status = js[k].status
  PROVE  Claims(jt, q, ws)
BY DEF Claims

\* A step of one manager's jobs, channel or workers.
LEMMA ClaimsLift ==
  ASSUME ClaimsExclusive, NEW g \in Manager,
         Claims(job'[g], queue'[g], worker'[g]),
         \A h \in Manager : h # g =>
           job'[h] = job[h] /\ queue'[h] = queue[h] /\ worker'[h] = worker[h]
  PROVE  ClaimsExclusive'
BY ClaimsOf, ClaimsOfNext

LEMMA ClaimsStutter ==
  ASSUME ClaimsExclusive, UNCHANGED <<job, queue, worker>>
  PROVE  ClaimsExclusive'
BY DEF ClaimsExclusive, Queued, Holds, Owns

LEMMA InitClaims == Init => ClaimsExclusive
<1> SUFFICES ASSUME Init PROVE ClaimsExclusive
  OBVIOUS
<1>1. ASSUME NEW g \in Manager PROVE Claims(job[g], queue[g], worker[g])
  <2>1. queue[g] = << >> /\ \A w \in Workers : worker[g][w].at \in {"idle", "exited"}
    BY DEF Init, Exited
  <2>2. Claims(job[g], << >>, worker[g])
    BY <2>1, ClaimsFresh
  <2> QED
    BY <2>1, <2>2
<1> QED
  BY <1>1, ClaimsOf

LEMMA NextClaims == TypeInv /\ ClaimsExclusive /\ [Next]_vars => ClaimsExclusive'
<1> SUFFICES ASSUME TypeInv, ClaimsExclusive, [Next]_vars PROVE ClaimsExclusive'
  OBVIOUS
<1>0. /\ job \in [Manager -> [Key -> Job]]
      /\ queue \in [Manager -> Seq(Key)]
      /\ worker \in [Manager -> [Workers -> Worker]]
      /\ current \in Manager
      /\ \A g \in Manager : Claims(job[g], queue[g], worker[g])
  BY ClaimsOf DEF TypeInv, TypeOK
<1>1. ASSUME NEW k \in Key, StatVideo(k) PROVE ClaimsExclusive'
  BY <1>1, ClaimsStutter DEF StatVideo
<1>2. ASSUME NEW k \in Key, NEW m \in Mtime, RequestKnown(k, m) PROVE ClaimsExclusive'
  BY <1>2, ClaimsStutter DEF RequestKnown
<1>3. ASSUME NEW k \in Key, NEW m \in Mtime, RequestWithoutFfmpeg(k, m) PROVE ClaimsExclusive'
  <2>1. PICK j \in Job : job' = [job EXCEPT ![current][k] = j]
    <3>1. [NoJob EXCEPT !.status = "failed"] \in Job
      BY DEF NoJob, Job, Status, Percent
    <3> QED
      BY <1>3, <3>1 DEF RequestWithoutFfmpeg
  <2>2. job[current][k].status \notin {"queued", "running"} /\ UNCHANGED <<queue, worker>>
    BY <1>3 DEF RequestWithoutFfmpeg, Known, Active
  <2>3. \A h \in Manager, l \in Key :
          job'[h][l] = IF h = current /\ l = k THEN j ELSE job[h][l]
    BY <1>0, <2>1, JobUpdate
  <2>4. Claims(job'[current], queue[current], worker[current])
    BY <1>0, <2>2, <2>3, ClaimsFreeJob
  <2>5. \A h \in Manager : h # current => job'[h] = job[h]
    BY <1>0, <2>1
  <2> QED
    BY <1>0, <2>2, <2>4, <2>5, ClaimsLift
<1>4. ASSUME NEW k \in Key, NEW m \in Mtime, RequestNew(k, m) PROVE ClaimsExclusive'
  <2> DEFINE j == [status |-> "queued", progress |-> 0, output |-> CacheKey(k, m)]
  <2>1. j \in Job /\ j.status = "queued"
    BY CacheKeyType DEF Job, Status, Percent
  <2>2. /\ job' = [job EXCEPT ![current][k] = j]
        /\ job[current][k].status \notin {"queued", "running"}
        /\ UNCHANGED worker
        /\ queue' = [queue EXCEPT ![current] = Append(@, k)] \/ queue' = queue
    BY <1>4 DEF RequestNew, Known, Active
  <2> HIDE DEF j
  <2>3. \A h \in Manager, l \in Key :
          job'[h][l] = IF h = current /\ l = k THEN j ELSE job[h][l]
    BY <1>0, <2>1, <2>2, JobUpdate
  <2>4. Claims(job'[current], queue[current], worker[current])
    <3>1. /\ \A l \in Key : l # k => job'[current][l] = job[current][l]
          /\ Claims(job[current], queue[current], worker[current])
      BY <1>0, <2>3
    <3> QED
      BY <2>2, <3>1, ClaimsFreeJob
  <2>5. job'[current][k].status = "queued"
    BY <1>0, <2>1, <2>3
  <2>6. ~ In(k, queue[current]) /\ \A w \in Workers : ~ Hold(w, k, worker[current])
    BY <1>0, <2>2 DEF Claims, Hold, Holding, Owning
  <2>7. Claims(job'[current], Append(queue[current], k), worker[current])
    <3>1. queue[current] \in Seq(Key)
      BY <1>0
    <3> QED
      BY <2>4, <2>5, <2>6, <3>1, ClaimsAppend
  <2>8. queue'[current] \in {queue[current], Append(queue[current], k)}
    BY <1>0, <2>2
  <2>9. Claims(job'[current], queue'[current], worker'[current])
    BY <2>2, <2>4, <2>7, <2>8
  <2>10. \A h \in Manager : h # current =>
           job'[h] = job[h] /\ queue'[h] = queue[h] /\ worker'[h] = worker[h]
    BY <1>0, <2>2
  <2> QED
    BY <1>0, <2>9, <2>10, ClaimsLift
<1>5. ASSUME NEW g \in Manager, NEW w \in Workers, Pick(g, w) PROVE ClaimsExclusive'
  <2> DEFINE r == [worker[g][w] EXCEPT !.at = "picked", !.key = Head(queue[g])]
  <2>1. worker[g][w] \in Worker /\ Head(queue[g]) \in Key
    BY <1>0, <1>5 DEF Pick
  <2>2. r \in Worker /\ r.at = "picked" /\ r.key = Head(queue[g])
    BY <2>1, WorkerPicks
  <2>3. /\ worker' = [worker EXCEPT ![g][w] = r]
        /\ queue' = [queue EXCEPT ![g] = Tail(@)]
        /\ queue[g] # << >>
        /\ UNCHANGED job
    BY <1>5 DEF Pick
  <2> HIDE DEF r
  <2>4. \A h \in Manager, x \in Workers :
          worker'[h][x] = IF h = g /\ x = w THEN r ELSE worker[h][x]
    BY <1>0, <2>2, <2>3, WorkerUpdate
  <2>5. /\ worker'[g][w].at = "picked" /\ worker'[g][w].key = Head(queue[g])
        /\ \A x \in Workers : x # w => worker'[g][x] = worker[g][x]
        /\ queue[g] \in Seq(Key)
    BY <1>0, <2>2, <2>4
  <2>6. Claims(job[g], Tail(queue[g]), worker'[g])
    BY <1>0, <2>3, <2>5, ClaimsPick
  <2>7. queue'[g] = Tail(queue[g])
    BY <1>0, <2>3
  <2>8. \A h \in Manager : h # g =>
          job'[h] = job[h] /\ queue'[h] = queue[h] /\ worker'[h] = worker[h]
    BY <1>0, <2>3
  <2> QED
    BY <2>3, <2>6, <2>7, <2>8, ClaimsLift
\* Idle and finished workers.
<1>6. ASSUME NEW g \in Manager, NEW w \in Workers, NEW r \in Worker, r.at \in {"idle", "exited"},
             worker' = [worker EXCEPT ![g][w] = r], UNCHANGED <<job, queue>>
      PROVE  ClaimsExclusive'
  <2>1. \A h \in Manager, x \in Workers :
          worker'[h][x] = IF h = g /\ x = w THEN r ELSE worker[h][x]
    BY <1>0, <1>6, WorkerUpdate
  <2>2. Claims(job[g], queue[g], worker'[g])
    <3>1. /\ \A x \in Workers : x # w => worker'[g][x] = worker[g][x]
          /\ worker'[g][w].at \in {"idle", "exited"}
          /\ Claims(job[g], queue[g], worker[g])
      BY <1>0, <1>6, <2>1
    <3> QED
      BY <3>1, ClaimsRest
  <2>3. \A h \in Manager : h # g => worker'[h] = worker[h]
    BY <1>0, <1>6
  <2> QED
    BY <1>6, <2>2, <2>3, ClaimsLift
<1>7. Idle.at = "idle" /\ Exited.at = "exited"
  BY DEF Idle, Exited
<1>8. ASSUME NEW g \in Manager, NEW w \in Workers, Exit(g, w) \/ Cleanup(g, w)
      PROVE  ClaimsExclusive'
  BY <1>6, <1>7, <1>8, ExitedType DEF Exit, Cleanup
\* A worker that holds a job begins it, goes on with it, or ends it.
<1>9. ASSUME NEW g \in Manager, NEW w \in Workers, NEW r \in Worker, NEW k \in Key,
             worker[g][w].at \in Holding, worker[g][w].key = k,
             worker' = [worker EXCEPT ![g][w] = r], UNCHANGED queue,
             \A h \in Manager, l \in Key :
               h # g \/ l # k => job'[h][l].status = job[h][l].status,
             r.at \in Owning \cup {"idle", "cleanup"},
             r.at \in Owning => r.key = k /\ job'[g][k].status = "running"
      PROVE  ClaimsExclusive'
  <2>1. \A h \in Manager, x \in Workers :
          worker'[h][x] = IF h = g /\ x = w THEN r ELSE worker[h][x]
    BY <1>0, <1>9, WorkerUpdate
  <2>2. Claims(job'[g], queue[g], worker'[g])
    <3>1. /\ \A x \in Workers : x # w => worker'[g][x] = worker[g][x]
          /\ \A l \in Key : l # k => job'[g][l].status = job[g][l].status
          /\ Claims(job[g], queue[g], worker[g])
          /\ worker[g][w].at \in Holding /\ worker[g][w].key = k
      BY <1>0, <1>9, <2>1
    <3>2. /\ worker'[g][w].at \in Owning \cup {"idle", "cleanup"}
          /\ worker'[g][w].at \in Owning =>
               worker'[g][w].key = k /\ job'[g][k].status = "running"
      BY <1>9, <2>1
    <3>3. ASSUME NEW jt, NEW wt,
                 \A x \in Workers : x # w => wt[x] = worker[g][x],
                 \A l \in Key : l # k => jt[l].status = job[g][l].status,
                 wt[w].at \in Owning \cup {"idle", "cleanup"},
                 wt[w].at \in Owning => wt[w].key = k /\ jt[k].status = "running"
          PROVE  Claims(jt, queue[g], wt)
      BY <3>1, <3>3, ClaimsWorker
    <3> QED
      BY <3>1, <3>2, <3>3
  <2>3. ASSUME NEW h \in Manager, h # g PROVE Claims(job'[h], queue[h], worker[h])
    <3>1. \A l \in Key : job'[h][l].status = job[h][l].status
      BY <1>9, <2>3
    <3> QED
      BY <1>0, <3>1, ClaimsStatus
  <2>4. \A h \in Manager : h # g => worker'[h] = worker[h]
    BY <1>0, <1>9
  <2> QED
    BY <1>9, <2>2, <2>3, <2>4, ClaimsOfNext
<1>10. ASSUME NEW g \in Manager, NEW w \in Workers, Begin(g, w) PROVE ClaimsExclusive'
  <2> DEFINE k == worker[g][w].key
             j == [job[g][k] EXCEPT !.status = "running", !.progress = 0]
             r == [worker[g][w] EXCEPT !.at = "begun", !.output = j.output]
  <2>1. k \in Key /\ worker[g][w] \in Worker /\ worker[g][w].at \in Holding
    <3>1. worker[g][w].at = "picked"
      BY <1>10 DEF Begin
    <3>2. k \in Key
      BY <3>1 DEF TypeInv, Bindings
    <3> QED
      BY <1>0, <3>1, <3>2 DEF Holding
  <2>2. CASE job[g][k].status = "queued"
    <3>1. /\ worker' = [worker EXCEPT ![g][w] = r]
          /\ job' = [job EXCEPT ![g][k] = j]
          /\ UNCHANGED queue
      BY <1>10, <2>2 DEF Begin
    <3>2. job[g][k] \in Job
      BY <1>0, <2>1
    <3>3. j \in Job /\ j.status = "running" /\ j.output = job[g][k].output
      BY <3>2, JobEnters DEF Status, Percent
    <3>4. j.output \in Output
      <4>1. job[g][k].output \in OutputsOf(k)
        BY <2>1, <2>2 DEF TypeInv, Bindings, Active
      <4> QED
        BY <2>1, <3>3, <4>1, OutputsType
    <3>5. r \in Worker /\ r.at = "begun" /\ r.key = k
      BY <2>1, <3>4, WorkerBegins
    <3> HIDE DEF k, j, r
    <3>6. /\ job' \in [Manager -> [Key -> Job]]
          /\ \A h \in Manager, l \in Key : job'[h][l] = IF h = g /\ l = k THEN j ELSE job[h][l]
      BY <1>0, <2>1, <3>1, <3>3, JobUpdate
    <3>7. r.at \in Owning /\ r.key = k /\ job'[g][k].status = "running"
      BY <2>1, <3>3, <3>5, <3>6 DEF Owning
    <3>8. \A h \in Manager, l \in Key : h # g \/ l # k => job'[h][l].status = job[h][l].status
      BY <3>6
    <3>9. worker[g][w].at \in Holding /\ worker[g][w].key = k /\ k \in Key
      BY <2>1 DEF k
    <3>10. /\ r.at \in Owning \cup {"idle", "cleanup"}
           /\ r.at \in Owning => r.key = k /\ job'[g][k].status = "running"
      BY <3>7
    <3> QED
      BY <1>9, <3>1, <3>5, <3>8, <3>9, <3>10
  <2>3. CASE job[g][k].status # "queued"
    <3>1. worker' = [worker EXCEPT ![g][w] = Idle] /\ UNCHANGED <<job, queue>>
      BY <1>10, <2>3 DEF Begin
    <3> QED
      BY <1>6, <1>7, <3>1, ExitedType
  <2> QED
    BY <2>2, <2>3
<1>11. ASSUME NEW g \in Manager, NEW w \in Workers, Encode(g, w) PROVE ClaimsExclusive'
  <2> DEFINE k == worker[g][w].key
             r == [worker[g][w] EXCEPT !.at = "encoding", !.read = mtime[k[1]]]
  <2>1. k \in Key /\ worker[g][w] \in Worker /\ worker[g][w].at = "begun"
    BY <1>0, <1>11 DEF Encode, TypeInv, Bindings
  <2>2. mtime[k[1]] \in 0 .. MaxMtime
    BY <2>1, KeyVideo DEF TypeInv, TypeOK, Mtime
  <2>3. r \in Worker /\ r.at = "encoding" /\ r.key = k
    BY <2>1, <2>2, WorkerEncodes
  <2>4. worker' = [worker EXCEPT ![g][w] = r] /\ UNCHANGED <<job, queue>>
    BY <1>11 DEF Encode
  <2>5. job[g][k].status = "running"
    BY <1>0, <2>1 DEF Claims, Owning
  <2> HIDE DEF r
  <2>6. r.at \in Owning /\ worker[g][w].at \in Holding
    BY <2>1, <2>3 DEF Owning, Holding
  <2> QED
    BY <1>0, <1>9, <2>1, <2>3, <2>4, <2>5, <2>6
<1>12. ASSUME NEW g \in Manager, NEW w \in Workers, ReportProgress(g, w) PROVE ClaimsExclusive'
  <2>1. /\ UNCHANGED <<queue, worker>>
        /\ \A h \in Manager, l \in Key : job'[h][l].status = job[h][l].status
    <3>1. worker[g][w].key \in Key /\ UNCHANGED <<queue, worker>>
      BY <1>12 DEF ReportProgress, TypeInv, Bindings
    <3>2. SetProgress(g, worker[g][w].key, 99)
      BY <1>12 DEF ReportProgress
    <3> QED
      BY <1>0, <3>1, <3>2, ProgressOnly DEF Percent
  <2>2. ASSUME NEW h \in Manager PROVE Claims(job'[h], queue[h], worker[h])
    <3>1. \A l \in Key : job'[h][l].status = job[h][l].status
      BY <2>1
    <3>2. Claims(job[h], queue[h], worker[h])
      BY <1>0
    <3> QED
      BY <3>1, <3>2, ClaimsStatus
  <2> QED
    BY <2>1, <2>2, ClaimsOfNext
<1>13. ASSUME NEW g \in Manager, NEW w \in Workers, Encoded(g, w) PROVE ClaimsExclusive'
  <2> DEFINE k == worker[g][w].key
             r == [worker[g][w] EXCEPT !.at = "encoded"]
  <2>1. k \in Key /\ worker[g][w] \in Worker /\ worker[g][w].at = "encoding"
    BY <1>0, <1>13 DEF Encoded, TypeInv, Bindings
  <2>2. r \in Worker /\ r.at = "encoded" /\ r.key = k
    BY <2>1, WorkerMoves DEF Place
  <2>3. worker' = [worker EXCEPT ![g][w] = r] /\ SetProgress(g, k, 100) /\ UNCHANGED queue
    BY <1>13 DEF Encoded
  <2>4. job[g][k].status = "running"
    BY <1>0, <2>1 DEF Claims, Owning
  <2>5. worker[g][w].key = k
    OBVIOUS
  <2> HIDE DEF k, r
  <2>6. /\ job' \in [Manager -> [Key -> Job]]
        /\ \A h \in Manager, l \in Key : job'[h][l].status = job[h][l].status
    BY <1>0, <2>1, <2>3, ProgressOnly DEF Percent
  <2>7. /\ r.at \in Owning /\ r.key = k /\ job'[g][k].status = "running"
        /\ worker[g][w].at \in Holding
    BY <2>1, <2>2, <2>4, <2>6 DEF Owning, Holding
  <2>8. \A h \in Manager, l \in Key : h # g \/ l # k => job'[h][l].status = job[h][l].status
    BY <2>6
  <2> QED
    BY <1>9, <2>1, <2>2, <2>3, <2>5, <2>6, <2>7, <2>8
<1>14. ASSUME NEW g \in Manager, NEW w \in Workers, Commit(g, w) \/ Fail(g, w)
       PROVE  ClaimsExclusive'
  <2> DEFINE k == worker[g][w].key
             r == [worker[g][w] EXCEPT !.at = "cleanup"]
  <2>1. k \in Key /\ worker[g][w] \in Worker /\ worker[g][w].at \in Holding
    <3>1. worker[g][w].at \in Owning
      BY <1>14 DEF Commit, Fail, Owning
    <3>2. k \in Key
      BY <3>1 DEF TypeInv, Bindings, Owning
    <3> QED
      BY <1>0, <3>1, <3>2 DEF Owning, Holding
  <2>2. r \in Worker /\ r.at = "cleanup"
    BY <2>1, WorkerMoves DEF Place
  <2>3. job[g][k] \in Job
    BY <1>0, <2>1
  <2>4. PICK j \in Job : job' = [job EXCEPT ![g][k] = j]
    <3>1. [job[g][k] EXCEPT !.status = "done", !.progress = 100] \in Job
      BY <2>3, JobEnters DEF Status, Percent
    <3>2. [job[g][k] EXCEPT !.status = "failed"] \in Job
      BY <2>3 DEF Job, Status
    <3> QED
      BY <1>14, <3>1, <3>2 DEF Commit, Fail
  <2>5. worker' = [worker EXCEPT ![g][w] = r] /\ UNCHANGED queue
    BY <1>14 DEF Commit, Fail
  <2> HIDE DEF r
  <2>6. /\ job' \in [Manager -> [Key -> Job]]
        /\ \A h \in Manager, l \in Key : job'[h][l] = IF h = g /\ l = k THEN j ELSE job[h][l]
    BY <1>0, <2>1, <2>4, JobUpdate
  <2>7. \A h \in Manager, l \in Key : h # g \/ l # k => job'[h][l].status = job[h][l].status
    BY <2>6
  <2> QED
    <3>1. r.at \notin Owning
      BY <2>2 DEF Owning
    <3> QED
      BY <1>9, <2>1, <2>2, <2>5, <2>6, <2>7, <3>1
<1>15. ASSUME NEW g \in Manager, Start(g) PROVE ClaimsExclusive'
  <2>1. /\ queue'[g] = << >>
        /\ \A w \in Workers : worker'[g][w].at \in {"idle", "exited"}
    BY <1>0, <1>7, <1>15 DEF Start
  <2>2. Claims(job'[g], << >>, worker'[g])
    BY <2>1, ClaimsFresh
  <2>3. \A h \in Manager : h # g =>
          job'[h] = job[h] /\ queue'[h] = queue[h] /\ worker'[h] = worker[h]
    BY <1>0, <1>15 DEF Start
  <2> QED
    BY <2>1, <2>2, <2>3, ClaimsLift
<1>16. ASSUME NEW g \in Manager, Close(g) PROVE ClaimsExclusive'
  BY <1>16, ClaimsStutter DEF Close
<1>17. CASE Stop
  BY <1>17, ClaimsStutter DEF Stop
<1>18. CASE Crash
  <2>1. ASSUME NEW g \in Manager PROVE Claims(job'[g], queue'[g], worker'[g])
    <3>1. queue'[g] = << >> /\ \A w \in Workers : worker'[g][w].at \in {"idle", "exited"}
      BY <1>7, <1>18 DEF Crash
    <3>2. Claims(job'[g], << >>, worker'[g])
      BY <3>1, ClaimsFresh
    <3> QED
      BY <3>1, <3>2
  <2> QED
    BY <2>1, ClaimsOfNext
<1>19. ASSUME NEW v \in Videos, ChangeSource(v) PROVE ClaimsExclusive'
  BY <1>19, ClaimsStutter DEF ChangeSource
<1>20. CASE UNCHANGED vars
  BY <1>20, ClaimsStutter DEF vars
<1>21. ASSUME NEW o \in Output, OrphanEnds(o) PROVE ClaimsExclusive'
  BY <1>21, ClaimsStutter DEF OrphanEnds
<1> QED
  BY <1>1, <1>2, <1>3, <1>4, <1>5, <1>8, <1>10, <1>11, <1>12, <1>13, <1>14, <1>15,
     <1>16, <1>17, <1>18, <1>19, <1>20, <1>21 DEF Next, Request, WorkerStep

\* The variables keep their types in every reachable state.
THEOREM TypeCorrect == Spec => []TypeOK
<1>1. Init => TypeInv /\ ClaimsExclusive
  BY InitType, InitClaims
<1>2. TypeInv /\ ClaimsExclusive /\ [Next]_vars => (TypeInv /\ ClaimsExclusive)'
  BY NextType, NextClaims
<1>3. TypeInv => TypeOK
  BY DEF TypeInv
<1> QED
  BY <1>1, <1>2, <1>3, PTL DEF Spec

\* Within one manager no two workers are ever at the same job, and none is at a job
\* that still waits in the channel.
THEOREM ClaimsAreExclusive == Spec => []ClaimsExclusive
<1>1. Init => TypeInv /\ ClaimsExclusive
  BY InitType, InitClaims
<1>2. TypeInv /\ ClaimsExclusive /\ [Next]_vars => (TypeInv /\ ClaimsExclusive)'
  BY NextType, NextClaims
<1> QED
  BY <1>1, <1>2, PTL DEF Spec

----------------------------------------------------------------------------
(* A running job has its worker.                                           *)

\* Every other job keeps its status.
OthersKept(g, k) ==
  \A h \in Manager, l \in Key : h # g \/ l # k => job'[h][l].status = job[h][l].status

Owner(w, k, ws) == ws[w].at \in Owning /\ ws[w].key = k

LEMMA OwnedNext ==
  RunningIsOwned' <=>
    \A g \in Manager, k \in Key :
      job'[g][k].status = "running" => \E w \in Workers : Owner(w, k, worker'[g])
BY DEF RunningIsOwned, Owns, Owner

\* One worker moves; the jobs keep their status, or the worker's own job changes it.
LEMMA OwnedMove ==
  ASSUME RunningIsOwned, worker \in [Manager -> [Workers -> Worker]],
         NEW g \in Manager, NEW w \in Workers, NEW r \in Worker,
         worker' = [worker EXCEPT ![g][w] = r],
         NEW k, worker[g][w].key = k,
         OthersKept(g, k),
         /\ job'[g][k].status = "running"
         /\ job[g][k].status # "running" \/ worker[g][w].at \in Owning
         => r.at \in Owning /\ r.key = k
  PROVE  RunningIsOwned'
<1>1. \A h \in Manager, x \in Workers :
        worker'[h][x] = IF h = g /\ x = w THEN r ELSE worker[h][x]
  BY WorkerUpdate
<1> USE DEF OthersKept
<1>2. ASSUME NEW h \in Manager, NEW l \in Key, job'[h][l].status = "running"
      PROVE  \E x \in Workers : Owner(x, l, worker'[h])
  <2>1. CASE job[h][l].status = "running"
    <3>1. PICK x \in Workers : Owner(x, l, worker[h])
      BY <2>1 DEF RunningIsOwned, Owns, Owner
    <3>2. CASE h = g /\ x = w
      BY <1>1, <1>2, <3>1, <3>2 DEF Owner
    <3>3. CASE ~ (h = g /\ x = w)
      BY <1>1, <3>1, <3>3 DEF Owner
    <3> QED
      BY <3>2, <3>3
  <2>2. CASE job[h][l].status # "running"
    <3>1. h = g /\ l = worker[g][w].key
      BY <1>2, <2>2
    <3>2. r.at \in Owning /\ r.key = l
      BY <1>2, <2>2, <3>1
    <3> QED
      BY <1>1, <3>1, <3>2 DEF Owner
  <2> QED
    BY <2>1, <2>2
<1> QED
  BY <1>2, OwnedNext

LEMMA OwnedStutter ==
  ASSUME RunningIsOwned, UNCHANGED worker,
         \A g \in Manager, k \in Key :
           job'[g][k].status = "running" => job[g][k].status = "running"
  PROVE  RunningIsOwned'
BY DEF RunningIsOwned, Owns

LEMMA InitOwned == Init => RunningIsOwned
BY DEF Init, RunningIsOwned, NoJob

LEMMA NextOwned == TypeInv /\ ClaimsExclusive /\ RunningIsOwned /\ [Next]_vars => RunningIsOwned'
<1> SUFFICES ASSUME TypeInv, ClaimsExclusive, RunningIsOwned, [Next]_vars PROVE RunningIsOwned'
  OBVIOUS
<1>0. /\ job \in [Manager -> [Key -> Job]]
      /\ worker \in [Manager -> [Workers -> Worker]]
      /\ current \in Manager
  BY DEF TypeInv, TypeOK
<1>1. ASSUME UNCHANGED <<job, worker>> PROVE RunningIsOwned'
  BY <1>1, OwnedStutter
<1>2. ASSUME NEW k \in Key, NEW j \in Job, j.status # "running",
             job' = [job EXCEPT ![current][k] = j], UNCHANGED worker
      PROVE  RunningIsOwned'
  <2>1. \A h \in Manager, l \in Key :
          job'[h][l] = IF h = current /\ l = k THEN j ELSE job[h][l]
    BY <1>0, <1>2, JobUpdate
  <2> QED
    BY <1>2, <2>1, OwnedStutter
<1>3. ASSUME NEW k \in Key, NEW m \in Mtime, RequestWithoutFfmpeg(k, m) PROVE RunningIsOwned'
  <2> DEFINE j == [NoJob EXCEPT !.status = "failed"]
  <2>1. j \in Job /\ j.status # "running"
    BY DEF NoJob, Job, Status, Percent
  <2>2. job' = [job EXCEPT ![current][k] = j] /\ UNCHANGED worker
    BY <1>3 DEF RequestWithoutFfmpeg
  <2> QED
    BY <1>2, <2>1, <2>2
<1>4. ASSUME NEW k \in Key, NEW m \in Mtime, RequestNew(k, m) PROVE RunningIsOwned'
  <2> DEFINE j == [status |-> "queued", progress |-> 0, output |-> CacheKey(k, m)]
  <2>1. j \in Job /\ j.status # "running"
    BY CacheKeyType DEF Job, Status, Percent
  <2>2. job' = [job EXCEPT ![current][k] = j] /\ UNCHANGED worker
    BY <1>4 DEF RequestNew
  <2> QED
    BY <1>2, <2>1, <2>2
<1>5. ASSUME NEW g \in Manager, NEW w \in Workers, NEW r \in Worker,
             worker[g][w].at \notin Owning,
             worker' = [worker EXCEPT ![g][w] = r], UNCHANGED job
      PROVE  RunningIsOwned'
  <2>1. OthersKept(g, worker[g][w].key)
    BY <1>5 DEF OthersKept
  <2> QED
    BY <1>0, <1>5, <2>1, OwnedMove
<1>6. ASSUME NEW g \in Manager, NEW w \in Workers, Pick(g, w) PROVE RunningIsOwned'
  <2> DEFINE r == [worker[g][w] EXCEPT !.at = "picked", !.key = Head(queue[g])]
  <2>1. worker[g][w] \in Worker /\ Head(queue[g]) \in Key
    BY <1>6 DEF Pick, TypeInv, TypeOK
  <2>2. r \in Worker
    BY <2>1, WorkerPicks
  <2>3. worker' = [worker EXCEPT ![g][w] = r] /\ UNCHANGED job /\ worker[g][w].at \notin Owning
    BY <1>6 DEF Pick, Owning
  <2> QED
    BY <1>5, <2>2, <2>3
<1>7. ASSUME NEW g \in Manager, NEW w \in Workers, Exit(g, w) \/ Cleanup(g, w)
      PROVE  RunningIsOwned'
  BY <1>5, <1>7, ExitedType DEF Exit, Cleanup, Owning
<1>8. ASSUME NEW g \in Manager, NEW w \in Workers, Begin(g, w) PROVE RunningIsOwned'
  <2> DEFINE k == worker[g][w].key
             j == [job[g][k] EXCEPT !.status = "running", !.progress = 0]
             r == [worker[g][w] EXCEPT !.at = "begun", !.output = j.output]
  <2>1. worker[g][w].at = "picked" /\ k \in Key /\ worker[g][w] \in Worker
    BY <1>0, <1>8 DEF Begin, TypeInv, Bindings
  <2>2. CASE job[g][k].status = "queued"
    <3>1. worker' = [worker EXCEPT ![g][w] = r] /\ job' = [job EXCEPT ![g][k] = j]
      BY <1>8, <2>2 DEF Begin
    <3>2. job[g][k] \in Job
      BY <1>0, <2>1
    <3>3. j \in Job /\ j.output = job[g][k].output
      BY <3>2, JobEnters DEF Status, Percent
    <3>4. job[g][k].output \in OutputsOf(k)
      BY <2>1, <2>2 DEF TypeInv, Bindings, Active
    <3>5. j.output \in Output
      BY <2>1, <3>3, <3>4, OutputsType
    <3>6. r \in Worker /\ r.at = "begun" /\ r.key = k
      BY <2>1, <3>5, WorkerBegins
    <3>7. worker[g][w].key = k
      OBVIOUS
    <3> HIDE DEF k, j, r
    <3>8. \A h \in Manager, l \in Key : job'[h][l] = IF h = g /\ l = k THEN j ELSE job[h][l]
      BY <1>0, <2>1, <3>1, <3>3, JobUpdate
    <3>9. r.at \in Owning /\ r.key = k
      BY <3>6 DEF Owning
    <3>10. OthersKept(g, k)
      BY <3>8 DEF OthersKept
    <3>11. /\ job'[g][k].status = "running"
           /\ job[g][k].status # "running" \/ worker[g][w].at \in Owning
           => r.at \in Owning /\ r.key = k
      BY <3>9
    <3> QED
      BY <1>0, <3>1, <3>6, <3>7, <3>10, <3>11, OwnedMove
  <2>3. CASE job[g][k].status # "queued"
    <3>1. worker' = [worker EXCEPT ![g][w] = Idle] /\ UNCHANGED job
      BY <1>8, <2>3 DEF Begin
    <3>2. worker[g][w].at \notin Owning
      BY <2>1 DEF Owning
    <3> QED
      BY <1>5, <3>1, <3>2, ExitedType
  <2> QED
    BY <2>2, <2>3
<1>9. ASSUME NEW g \in Manager, NEW w \in Workers, Encode(g, w) PROVE RunningIsOwned'
  <2> DEFINE k == worker[g][w].key
             r == [worker[g][w] EXCEPT !.at = "encoding", !.read = mtime[k[1]]]
  <2>1. worker[g][w].at = "begun" /\ k \in Key /\ worker[g][w] \in Worker
    BY <1>0, <1>9 DEF Encode, TypeInv, Bindings
  <2>2. mtime[k[1]] \in 0 .. MaxMtime
    BY <2>1, KeyVideo DEF TypeInv, TypeOK, Mtime
  <2>3. r \in Worker /\ r.at \in Owning /\ r.key = worker[g][w].key
    BY <2>1, <2>2, WorkerEncodes DEF Owning
  <2>4. worker' = [worker EXCEPT ![g][w] = r] /\ UNCHANGED job
    BY <1>9 DEF Encode
  <2> HIDE DEF r
  <2>5. OthersKept(g, worker[g][w].key)
    BY <2>4 DEF OthersKept
  <2> QED
    BY <1>0, <2>3, <2>4, <2>5, OwnedMove
<1>10. ASSUME NEW g \in Manager, NEW w \in Workers, ReportProgress(g, w) PROVE RunningIsOwned'
  <2>1. worker[g][w].key \in Key /\ UNCHANGED worker /\ SetProgress(g, worker[g][w].key, 99)
    BY <1>10 DEF ReportProgress, TypeInv, Bindings
  <2>2. \A h \in Manager, l \in Key : job'[h][l].status = job[h][l].status
    BY <1>0, <2>1, ProgressOnly DEF Percent
  <2> QED
    BY <2>1, <2>2, OwnedStutter
<1>11. ASSUME NEW g \in Manager, NEW w \in Workers, Encoded(g, w) PROVE RunningIsOwned'
  <2> DEFINE k == worker[g][w].key
             r == [worker[g][w] EXCEPT !.at = "encoded"]
  <2>1. k \in Key /\ worker[g][w] \in Worker
    BY <1>0, <1>11 DEF Encoded, TypeInv, Bindings
  <2>2. r \in Worker /\ r.at \in Owning /\ r.key = worker[g][w].key
    BY <2>1, WorkerMoves DEF Place, Owning
  <2>3. worker' = [worker EXCEPT ![g][w] = r] /\ SetProgress(g, k, 100)
    BY <1>11 DEF Encoded
  <2>a. worker[g][w].key = k
    OBVIOUS
  <2> HIDE DEF k, r
  <2>4. \A h \in Manager, l \in Key : job'[h][l].status = job[h][l].status
    BY <1>0, <2>1, <2>3, ProgressOnly DEF Percent
  <2>5. OthersKept(g, k)
    BY <2>4 DEF OthersKept
  <2>6. /\ job'[g][k].status = "running"
        /\ job[g][k].status # "running" \/ worker[g][w].at \in Owning
        => r.at \in Owning /\ r.key = k
    BY <2>2, <2>a
  <2> QED
    BY <1>0, <2>a, <2>2, <2>3, <2>5, <2>6, OwnedMove
<1>12. ASSUME NEW g \in Manager, NEW w \in Workers, Commit(g, w) \/ Fail(g, w)
       PROVE  RunningIsOwned'
  <2> DEFINE k == worker[g][w].key
             r == [worker[g][w] EXCEPT !.at = "cleanup"]
  <2>1. k \in Key /\ worker[g][w] \in Worker
    <3>1. worker[g][w].at \in Owning
      BY <1>12 DEF Commit, Fail, Owning
    <3> QED
      BY <1>0, <3>1 DEF TypeInv, Bindings, Owning
  <2>2. r \in Worker
    BY <2>1, WorkerMoves DEF Place
  <2>3. job[g][k] \in Job
    BY <1>0, <2>1
  <2>4. PICK j \in Job : job' = [job EXCEPT ![g][k] = j] /\ j.status # "running"
    <3>1. LET x == [job[g][k] EXCEPT !.status = "done", !.progress = 100]
          IN  x \in Job /\ x.status # "running"
      BY <2>3, JobEnters DEF Status, Percent
    <3>2. LET x == [job[g][k] EXCEPT !.status = "failed"]
          IN  x \in Job /\ x.status # "running"
      BY <2>3 DEF Job, Status
    <3> QED
      BY <1>12, <3>1, <3>2 DEF Commit, Fail
  <2>5. worker' = [worker EXCEPT ![g][w] = r]
    BY <1>12 DEF Commit, Fail
  <2>a. worker[g][w].key = k
    OBVIOUS
  <2> HIDE DEF k, r
  <2>6. \A h \in Manager, l \in Key : job'[h][l] = IF h = g /\ l = k THEN j ELSE job[h][l]
    BY <1>0, <2>1, <2>4, JobUpdate
  <2>7. job'[g][k].status # "running"
    BY <2>1, <2>4, <2>6
  <2>8. OthersKept(g, k)
    BY <2>6 DEF OthersKept
  <2>9. /\ job'[g][k].status = "running"
        /\ job[g][k].status # "running" \/ worker[g][w].at \in Owning
        => r.at \in Owning /\ r.key = k
    BY <2>7
  <2> QED
    BY <1>0, <2>a, <2>2, <2>5, <2>8, <2>9, OwnedMove
<1>13. ASSUME NEW g \in Manager, Start(g) PROVE RunningIsOwned'
  <2>1. \A k \in Key : job'[g][k].status # "running"
    BY <1>0, <1>13 DEF Start, Recovered, Terminal, NoJob
  <2>2. \A h \in Manager : h # g => job'[h] = job[h] /\ worker'[h] = worker[h]
    BY <1>0, <1>13 DEF Start
  <2> QED
    BY <2>1, <2>2 DEF RunningIsOwned, Owns
<1>14. CASE Crash
  BY <1>14 DEF Crash, RunningIsOwned, NoJob
<1>15. ASSUME \/ \E k \in Key : StatVideo(k) \/ \E m \in Mtime : RequestKnown(k, m)
              \/ \E g \in Manager : Close(g)
              \/ Stop
              \/ \E o \in Output : OrphanEnds(o)
              \/ \E v \in Videos : ChangeSource(v)
              \/ UNCHANGED vars
       PROVE  RunningIsOwned'
  BY <1>1, <1>15 DEF StatVideo, RequestKnown, Close, Stop, OrphanEnds, ChangeSource, vars
<1> QED
  BY <1>3, <1>4, <1>6, <1>7, <1>8, <1>9, <1>10, <1>11, <1>12, <1>13, <1>14, <1>15
  DEF Next, Request, WorkerStep

\* No job is left "running" without a worker that will end it, whatever step fails.
THEOREM RunningJobsAreOwned == Spec => []RunningIsOwned
<1>1. Init => TypeInv /\ ClaimsExclusive /\ RunningIsOwned
  BY InitType, InitClaims, InitOwned
<1>2. /\ TypeInv /\ ClaimsExclusive /\ RunningIsOwned /\ [Next]_vars
      => (TypeInv /\ ClaimsExclusive /\ RunningIsOwned)'
  BY NextType, NextClaims, NextOwned
<1> QED
  BY <1>1, <1>2, PTL DEF Spec

----------------------------------------------------------------------------
(* What one step of a worker leaves behind, field by field.                *)

OthersStay(g, w) == \A h \in Manager, x \in Workers : h # g \/ x # w => worker'[h][x] = worker[h][x]
JobsStay(g, k) == \A h \in Manager, l \in Key : h # g \/ l # k => job'[h][l] = job[h][l]

LEMMA PickEffect ==
  ASSUME TypeInv, NEW g \in Manager, NEW w \in Workers, Pick(g, w)
  PROVE  /\ worker[g][w].at = "idle" /\ OthersStay(g, w) /\ worker'[g][w].at = "picked"
         /\ UNCHANGED <<outside, job, storage>>
<1>1. worker \in [Manager -> [Workers -> Worker]] /\ worker[g][w] \in Worker /\ Head(queue[g]) \in Key
  BY DEF Pick, TypeInv, TypeOK
<1> DEFINE r == [worker[g][w] EXCEPT !.at = "picked", !.key = Head(queue[g])]
<1>2. worker' = [worker EXCEPT ![g][w] = r]
  BY DEF Pick
<1>3. r \in Worker /\ r.at = "picked"
  BY <1>1, WorkerPicks
<1> HIDE DEF r
<1>4. \A h \in Manager, x \in Workers : worker'[h][x] = IF h = g /\ x = w THEN r ELSE worker[h][x]
  BY <1>1, <1>2, <1>3, WorkerUpdate
<1> QED
  BY <1>3, <1>4 DEF OthersStay, Pick

LEMMA RestEffect ==
  ASSUME TypeInv, NEW g \in Manager, NEW w \in Workers, Exit(g, w) \/ Cleanup(g, w)
  PROVE  /\ worker[g][w].at \in {"idle", "cleanup"} /\ OthersStay(g, w)
         /\ worker'[g][w].at \in {"idle", "exited"}
         /\ UNCHANGED <<outside, job, row, cache, torn, spoilt>>
         /\ \/ Exit(g, w) /\ temp' = temp
            \/ Cleanup(g, w) /\ temp' = [temp EXCEPT ![worker[g][w].output] = {}]
<1>1. worker \in [Manager -> [Workers -> Worker]]
  BY DEF TypeInv, TypeOK
<1>2. PICK r \in {Idle, Exited} : worker' = [worker EXCEPT ![g][w] = r]
  BY DEF Exit, Cleanup
<1>3. r \in Worker /\ r.at \in {"idle", "exited"}
  BY <1>2, ExitedType DEF Idle, Exited
<1>4. \A h \in Manager, x \in Workers : worker'[h][x] = IF h = g /\ x = w THEN r ELSE worker[h][x]
  BY <1>1, <1>2, <1>3, WorkerUpdate
<1> QED
  BY <1>3, <1>4 DEF OthersStay, Exit, Cleanup, storage

LEMMA BeginEffect ==
  ASSUME TypeInv, NEW g \in Manager, NEW w \in Workers, Begin(g, w)
  PROVE  LET k == worker[g][w].key
         IN /\ worker[g][w].at = "picked" /\ k \in Key /\ OthersStay(g, w)
            /\ UNCHANGED <<outside, queue, temp, cache, torn, spoilt>>
            /\ \/ worker'[g][w].at = "idle" /\ UNCHANGED <<job, row>>
               \/ /\ job[g][k].status = "queued"
                  /\ worker'[g][w].at = "begun" /\ worker'[g][w].key = k
                  /\ worker'[g][w].output = job[g][k].output
                  /\ JobsStay(g, k) /\ job'[g][k].status = "running"
                  /\ job'[g][k].output = job[g][k].output
<1> DEFINE k == worker[g][w].key
           j == [job[g][k] EXCEPT !.status = "running", !.progress = 0]
           r == [worker[g][w] EXCEPT !.at = "begun", !.output = j.output]
<1>1. worker[g][w].at = "picked" /\ UNCHANGED <<outside, queue, temp, cache, torn, spoilt>>
  BY DEF Begin
<1>2. /\ k \in Key /\ worker \in [Manager -> [Workers -> Worker]] /\ worker[g][w] \in Worker
      /\ job \in [Manager -> [Key -> Job]] /\ job[g][k] \in Job
  BY <1>1 DEF TypeInv, TypeOK, Bindings
<1>3. CASE job[g][k].status = "queued"
  <2>1. worker' = [worker EXCEPT ![g][w] = r] /\ job' = [job EXCEPT ![g][k] = j]
    BY <1>3 DEF Begin
  <2>2. j \in Job /\ j.status = "running" /\ j.output = job[g][k].output
    BY <1>2, JobEnters DEF Status, Percent
  <2>3. j.output \in Output
    BY <1>2, <1>3, <2>2, OutputsType DEF TypeInv, Bindings, Active
  <2>4. r \in Worker /\ r.at = "begun" /\ r.key = k /\ r.output = job[g][k].output
    BY <1>2, <2>2, <2>3, WorkerBegins
  <2> HIDE DEF j, r
  <2>5. \A h \in Manager, x \in Workers : worker'[h][x] = IF h = g /\ x = w THEN r ELSE worker[h][x]
    BY <1>2, <2>1, <2>4, WorkerUpdate
  <2> HIDE DEF k
  <2>6. \A h \in Manager, l \in Key : job'[h][l] = IF h = g /\ l = k THEN j ELSE job[h][l]
    BY <1>2, <2>1, <2>2, JobUpdate
  <2> QED
    BY <1>1, <1>2, <1>3, <2>2, <2>4, <2>5, <2>6 DEF OthersStay, JobsStay, k
<1>4. CASE job[g][k].status # "queued"
  <2>1. worker' = [worker EXCEPT ![g][w] = Idle] /\ UNCHANGED <<job, row>>
    BY <1>4 DEF Begin
  <2>2. \A h \in Manager, x \in Workers : worker'[h][x] = IF h = g /\ x = w THEN Idle ELSE worker[h][x]
    BY <1>2, <2>1, ExitedType, WorkerUpdate
  <2>3. Idle.at = "idle"
    BY DEF Idle, Exited
  <2> QED
    BY <1>1, <1>2, <2>1, <2>2, <2>3 DEF OthersStay
<1> QED
  BY <1>3, <1>4

LEMMA EncodeEffect ==
  ASSUME TypeInv, NEW g \in Manager, NEW w \in Workers, Encode(g, w)
  PROVE  /\ worker[g][w].at = "begun" /\ OthersStay(g, w) /\ worker'[g][w].at = "encoding"
         /\ worker'[g][w].key = worker[g][w].key /\ worker'[g][w].output = worker[g][w].output
         /\ worker'[g][w].read = mtime[worker[g][w].key[1]]
         /\ worker[g][w].key \in Key /\ worker[g][w].output \in Output
         /\ UNCHANGED <<outside, job, queue, row, cache, torn, spoilt>>
         /\ temp' = [temp EXCEPT ![worker[g][w].output] = @ \cup {<<g, w>>}]
<1> DEFINE k == worker[g][w].key
           r == [worker[g][w] EXCEPT !.at = "encoding", !.read = mtime[k[1]]]
<1>1. /\ worker \in [Manager -> [Workers -> Worker]] /\ worker[g][w] \in Worker /\ k \in Key
      /\ worker[g][w].at = "begun" /\ worker[g][w].output \in OutputsOf(k)
  BY DEF Encode, TypeInv, TypeOK, Bindings, Owning
<1>2. mtime[k[1]] \in 0 .. MaxMtime
  BY <1>1, KeyVideo DEF Mtime, TypeInv, TypeOK
<1>3. r \in Worker /\ r.at = "encoding" /\ r.key = k /\ r.output = worker[g][w].output /\ r.read = mtime[k[1]]
  BY <1>1, <1>2, WorkerEncodes
<1>4. worker' = [worker EXCEPT ![g][w] = r]
  BY DEF Encode
<1> HIDE DEF r
<1>5. \A h \in Manager, x \in Workers : worker'[h][x] = IF h = g /\ x = w THEN r ELSE worker[h][x]
  BY <1>1, <1>3, <1>4, WorkerUpdate
<1> QED
  BY <1>1, <1>3, <1>5, OutputsType DEF OthersStay, Encode

LEMMA EncodedEffect ==
  ASSUME TypeInv, NEW g \in Manager, NEW w \in Workers, Encoded(g, w)
  PROVE  /\ worker[g][w].at = "encoding" /\ OthersStay(g, w) /\ worker'[g][w].at = "encoded"
         /\ worker'[g][w].key = worker[g][w].key /\ worker'[g][w].output = worker[g][w].output
         /\ worker'[g][w].read = worker[g][w].read
         /\ \A h \in Manager, l \in Key :
              job'[h][l].status = job[h][l].status /\ job'[h][l].output = job[h][l].output
         /\ UNCHANGED <<outside, queue, storage>>
<1> DEFINE r == [worker[g][w] EXCEPT !.at = "encoded"]
<1>1. /\ worker \in [Manager -> [Workers -> Worker]] /\ worker[g][w] \in Worker
      /\ worker[g][w].key \in Key /\ worker[g][w].at = "encoding"
      /\ job \in [Manager -> [Key -> Job]]
  BY DEF Encoded, TypeInv, TypeOK, Bindings
<1>2. /\ r \in Worker /\ r.at = "encoded" /\ r.key = worker[g][w].key
      /\ r.output = worker[g][w].output /\ r.read = worker[g][w].read
  BY <1>1, WorkerMoves DEF Place
<1>3. worker' = [worker EXCEPT ![g][w] = r] /\ SetProgress(g, worker[g][w].key, 100)
  BY DEF Encoded
<1> HIDE DEF r
<1>4. \A h \in Manager, x \in Workers : worker'[h][x] = IF h = g /\ x = w THEN r ELSE worker[h][x]
  BY <1>1, <1>2, <1>3, WorkerUpdate
<1>5. \A h \in Manager, l \in Key :
        job'[h][l].status = job[h][l].status /\ job'[h][l].output = job[h][l].output
  BY <1>1, <1>3, ProgressOnly DEF Percent
<1> QED
  BY <1>1, <1>2, <1>4, <1>5 DEF OthersStay, Encoded

LEMMA EndEffect ==
  ASSUME TypeInv, NEW g \in Manager, NEW w \in Workers, Commit(g, w) \/ Fail(g, w)
  PROVE  /\ worker[g][w].at \in Owning /\ OthersStay(g, w) /\ worker'[g][w].at = "cleanup"
         /\ worker'[g][w].key = worker[g][w].key /\ worker'[g][w].output = worker[g][w].output
         /\ worker[g][w].key \in Key /\ worker[g][w].output \in OutputsOf(worker[g][w].key)
         /\ JobsStay(g, worker[g][w].key)
         /\ job'[g][worker[g][w].key].output = job[g][worker[g][w].key].output
         /\ job'[g][worker[g][w].key].status = IF Commit(g, w) THEN "done" ELSE "failed"
         /\ UNCHANGED <<outside, queue>>
<1> DEFINE k == worker[g][w].key
           r == [worker[g][w] EXCEPT !.at = "cleanup"]
<1>1. worker[g][w].at \in Owning
  BY DEF Commit, Fail, Owning
<1>2. /\ worker \in [Manager -> [Workers -> Worker]] /\ worker[g][w] \in Worker
      /\ k \in Key /\ worker[g][w].output \in OutputsOf(k)
      /\ job \in [Manager -> [Key -> Job]] /\ job[g][k] \in Job
  BY <1>1 DEF TypeInv, TypeOK, Bindings, Owning
<1>3. r \in Worker /\ r.at = "cleanup" /\ r.key = k /\ r.output = worker[g][w].output
  BY <1>2, WorkerMoves DEF Place
<1>4. worker' = [worker EXCEPT ![g][w] = r]
  BY DEF Commit, Fail
<1>5. PICK j \in Job : /\ job' = [job EXCEPT ![g][k] = j] /\ j.output = job[g][k].output
                       /\ j.status = IF Commit(g, w) THEN "done" ELSE "failed"
  <2>1. LET x == [job[g][k] EXCEPT !.status = "done", !.progress = 100]
        IN  x \in Job /\ x.status = "done" /\ x.output = job[g][k].output
    BY <1>2, JobEnters DEF Status, Percent
  <2>2. LET x == [job[g][k] EXCEPT !.status = "failed"]
        IN  x \in Job /\ x.status = "failed" /\ x.output = job[g][k].output
    BY <1>2 DEF Job, Status
  <2>3. CASE Commit(g, w)
    BY <2>1, <2>3 DEF Commit
  <2>4. CASE ~ Commit(g, w)
    BY <2>2, <2>4 DEF Fail
  <2> QED
    BY <2>3, <2>4
<1> HIDE DEF r
<1>6. \A h \in Manager, x \in Workers : worker'[h][x] = IF h = g /\ x = w THEN r ELSE worker[h][x]
  BY <1>2, <1>3, <1>4, WorkerUpdate
<1>7. \A h \in Manager, l \in Key : job'[h][l] = IF h = g /\ l = k THEN j ELSE job[h][l]
  BY <1>2, <1>5, JobUpdate
<1>8. UNCHANGED <<outside, queue>>
  BY DEF Commit, Fail
<1> QED
  BY <1>1, <1>2, <1>3, <1>5, <1>6, <1>7, <1>8 DEF OthersStay, JobsStay

----------------------------------------------------------------------------
(* ServedComplete                                                          *)

\* An output is made from a source no older than the version in its name.
Fresh ==
  /\ \A e \in inflight : e[2] <= mtime[e[1][1]]
  /\ \A g \in Manager, k \in Key :
       job[g][k].status = "queued" => job[g][k].output[2] <= mtime[k[1]]
  /\ \A g \in Manager, w \in Workers :
       /\ worker[g][w].at = "begun" => worker[g][w].output[2] <= mtime[worker[g][w].key[1]]
       /\ worker[g][w].at \in {"encoding", "encoded"} => worker[g][w].output[2] <= worker[g][w].read
  /\ \A o \in Output : cache[o] # 0 => o[2] <= cache[o]

\* Who has a temporary file open is encoding it, or has failed; nothing else is done about a
\* job that failed.
Writers ==
  \A o \in Output, g \in Manager, w \in Workers : <<g, w>> \in temp[o] =>
    /\ worker[g][w].at \in {"encoding", "encoded", "cleanup"} /\ worker[g][w].output = o
    /\ worker[g][w].at = "cleanup" => job[g][worker[g][w].key].status = "failed"

LEMMA OutputParts ==
  ASSUME NEW k \in Key, NEW o \in OutputsOf(k)
  PROVE  o \in Output /\ o[1] = k /\ o[2] \in Mtime
BY DEF OutputsOf, CacheKey, Output

LEMMA FreshInit == Init => Fresh
BY DEF Init, Fresh, NoJob, Exited

LEMMA FreshNext == TypeInv /\ Fresh /\ [Next]_vars => Fresh'
<1> SUFFICES ASSUME TypeInv, Fresh, [Next]_vars PROVE Fresh'
  OBVIOUS
<1>0. /\ job \in [Manager -> [Key -> Job]] /\ worker \in [Manager -> [Workers -> Worker]]
      /\ current \in Manager /\ mtime \in [Videos -> Mtime] /\ inflight \subseteq Key \X Mtime
      /\ cache \in [Output -> 0 .. MaxMtime]
  BY DEF TypeInv, TypeOK
<1>a. ASSUME UNCHANGED mtime, inflight' \subseteq inflight, UNCHANGED <<job, worker, cache>>
      PROVE  Fresh'
  BY <1>a DEF Fresh
\* Requests: the job of one key.
<1>b. ASSUME NEW k \in Key, UNCHANGED <<mtime, worker, cache>>, inflight' \subseteq inflight,
             JobsStay(current, k),
             job'[current][k].status = "queued" => job'[current][k].output[2] <= mtime[k[1]]
      PROVE  Fresh'
  BY <1>b DEF Fresh, JobsStay
\* Workers: one worker, and no new queued job.
<1>c. ASSUME NEW g \in Manager, NEW w \in Workers, UNCHANGED <<mtime, inflight>>, OthersStay(g, w),
             \A h \in Manager, k \in Key :
               job'[h][k].status = "queued" =>
                 job[h][k].status = "queued" /\ job'[h][k].output = job[h][k].output,
             worker'[g][w].at = "begun" => worker'[g][w].output[2] <= mtime[worker'[g][w].key[1]],
             worker'[g][w].at \in {"encoding", "encoded"} => worker'[g][w].output[2] <= worker'[g][w].read,
             \A o \in Output : cache'[o] = cache[o] \/ (cache'[o] # 0 => o[2] <= cache'[o])
      PROVE  Fresh'
  BY <1>c DEF Fresh, OthersStay
<1>1. ASSUME NEW k \in Key, StatVideo(k) PROVE Fresh'
  <2>1. mtime[k[1]] <= mtime[k[1]]
    BY <1>0, KeyVideo DEF Mtime
  <2>2. \A e \in inflight' : e[2] <= mtime[e[1][1]]
    BY <1>1, <2>1 DEF StatVideo, Fresh
  <2> QED
    BY <1>1, <2>2 DEF StatVideo, storage, Fresh
<1>2. ASSUME NEW k \in Key, NEW m \in Mtime, RequestKnown(k, m) PROVE Fresh'
  BY <1>2, <1>a DEF RequestKnown, storage
<1>3. ASSUME NEW k \in Key, NEW m \in Mtime, RequestWithoutFfmpeg(k, m) PROVE Fresh'
  <2> DEFINE j == [NoJob EXCEPT !.status = "failed"]
  <2>1. j \in Job /\ j.status = "failed"
    BY DEF NoJob, Job, Status, Percent
  <2>2. job' = [job EXCEPT ![current][k] = j] /\ UNCHANGED <<mtime, worker, cache>>
        /\ inflight' \subseteq inflight
    BY <1>3 DEF RequestWithoutFfmpeg
  <2> HIDE DEF j
  <2>3. \A h \in Manager, l \in Key : job'[h][l] = IF h = current /\ l = k THEN j ELSE job[h][l]
    BY <1>0, <2>1, <2>2, JobUpdate
  <2> QED
    BY <1>0, <1>b, <2>1, <2>2, <2>3 DEF JobsStay
<1>4. ASSUME NEW k \in Key, NEW m \in Mtime, RequestNew(k, m) PROVE Fresh'
  <2> DEFINE j == [status |-> "queued", progress |-> 0, output |-> CacheKey(k, m)]
  <2>1. j \in Job /\ j.output[2] = m
    BY CacheKeyType DEF Job, Status, Percent, CacheKey
  <2>2. /\ job' = [job EXCEPT ![current][k] = j] /\ UNCHANGED <<mtime, worker, cache>>
        /\ inflight' \subseteq inflight /\ <<k, m>> \in inflight
    BY <1>4 DEF RequestNew
  <2>4. m <= mtime[k[1]]
    BY <2>2 DEF Fresh
  <2> HIDE DEF j
  <2>3. \A h \in Manager, l \in Key : job'[h][l] = IF h = current /\ l = k THEN j ELSE job[h][l]
    BY <1>0, <2>1, <2>2, JobUpdate
  <2> QED
    BY <1>0, <1>b, <2>1, <2>2, <2>3, <2>4 DEF JobsStay
<1>5. ASSUME NEW g \in Manager, NEW w \in Workers, Pick(g, w) PROVE Fresh'
  BY <1>5, <1>c, PickEffect DEF outside, storage
<1>6. ASSUME NEW g \in Manager, NEW w \in Workers, Exit(g, w) \/ Cleanup(g, w) PROVE Fresh'
  BY <1>6, <1>c, RestEffect DEF outside
<1>7. ASSUME NEW g \in Manager, NEW w \in Workers, Begin(g, w) PROVE Fresh'
  <2>1. CASE worker'[g][w].at = "idle" /\ UNCHANGED job
    BY <1>7, <1>c, <2>1, BeginEffect DEF outside
  <2>2. CASE worker'[g][w].at = "begun"
    <3> DEFINE k == worker[g][w].key
    <3>1. /\ k \in Key /\ OthersStay(g, w) /\ UNCHANGED <<mtime, inflight, cache>>
          /\ job[g][k].status = "queued" /\ worker'[g][w].key = k
          /\ worker'[g][w].output = job[g][k].output
          /\ JobsStay(g, k) /\ job'[g][k].status = "running"
      BY <1>7, <2>2, BeginEffect DEF outside
    <3>2. worker'[g][w].output[2] <= mtime[k[1]]
      BY <3>1 DEF Fresh
    <3> QED
      BY <1>c, <2>2, <3>1, <3>2 DEF JobsStay
  <2> QED
    BY <1>7, <2>1, <2>2, BeginEffect
<1>8. ASSUME NEW g \in Manager, NEW w \in Workers, Encode(g, w) PROVE Fresh'
  <2>1. worker'[g][w].output[2] <= worker'[g][w].read
    BY <1>8, EncodeEffect DEF Fresh
  <2> QED
    BY <1>8, <1>c, <2>1, EncodeEffect DEF outside
<1>9. ASSUME NEW g \in Manager, NEW w \in Workers, ReportProgress(g, w) PROVE Fresh'
  <2>1. worker[g][w].key \in Key /\ SetProgress(g, worker[g][w].key, 99)
        /\ UNCHANGED <<outside, queue, worker, storage>>
    BY <1>9 DEF ReportProgress, TypeInv, Bindings
  <2>2. \A h \in Manager, l \in Key :
          job'[h][l].status = job[h][l].status /\ job'[h][l].output = job[h][l].output
    BY <1>0, <2>1, ProgressOnly DEF Percent
  <2> QED
    BY <2>1, <2>2 DEF outside, storage, Fresh
<1>10. ASSUME NEW g \in Manager, NEW w \in Workers, Encoded(g, w) PROVE Fresh'
  <2>1. worker'[g][w].output[2] <= worker'[g][w].read
    BY <1>10, EncodedEffect DEF Fresh
  <2> QED
    BY <1>10, <1>c, <2>1, EncodedEffect DEF outside, storage
<1>11. ASSUME NEW g \in Manager, NEW w \in Workers, Commit(g, w) \/ Fail(g, w) PROVE Fresh'
  <2> DEFINE k == worker[g][w].key
  <2>1. /\ OthersStay(g, w) /\ worker'[g][w].at = "cleanup" /\ k \in Key /\ JobsStay(g, k)
        /\ job'[g][k].status \in {"done", "failed"} /\ UNCHANGED <<mtime, inflight>>
    BY <1>11, EndEffect DEF outside
  <2>2. \A h \in Manager, l \in Key :
          job'[h][l].status = "queued" =>
            job[h][l].status = "queued" /\ job'[h][l].output = job[h][l].output
    BY <2>1 DEF JobsStay
  <2>3. \A o \in Output : cache'[o] = cache[o] \/ (cache'[o] # 0 => o[2] <= cache'[o])
    <3>1. CASE Commit(g, w)
      <4>1. /\ worker[g][w].at = "encoded"
            /\ cache' = [cache EXCEPT ![worker[g][w].output] = worker[g][w].read]
        BY <3>1 DEF Commit
      <4>2. worker[g][w].output[2] <= worker[g][w].read
        BY <4>1 DEF Fresh
      <4> QED
        BY <1>0, <4>1, <4>2
    <3>2. CASE Fail(g, w)
      BY <3>2 DEF Fail
    <3> QED
      BY <1>11, <3>1, <3>2
  <2> QED
    BY <1>c, <2>1, <2>2, <2>3
<1>12. ASSUME NEW g \in Manager, Start(g) PROVE Fresh'
  <2>1. \A k \in Key : job'[g][k].status # "queued"
    BY <1>0, <1>12 DEF Start, Recovered, Terminal, NoJob
  <2>2. \A h \in Manager : h # g => job'[h] = job[h] /\ worker'[h] = worker[h]
    BY <1>0, <1>12 DEF Start
  <2>3. \A w \in Workers : worker'[g][w].at = "idle"
    BY <1>0, <1>12 DEF Start, Idle, Exited
  <2>4. \A o \in Output : cache'[o] \in {0, cache[o]}
    BY <1>12 DEF Start
  <2>5. UNCHANGED <<mtime, inflight>>
    BY <1>12 DEF Start
  <2> QED
    BY <2>1, <2>2, <2>3, <2>4, <2>5 DEF Fresh
<1>13. CASE Crash
  <2>1. /\ inflight' = {} /\ UNCHANGED cache
        /\ \A g \in Manager, k \in Key : job'[g][k].status = "none"
        /\ \A g \in Manager, w \in Workers : worker'[g][w].at = "exited"
    BY <1>13 DEF Crash, NoJob, Exited
  <2> QED
    BY <2>1 DEF Fresh
<1>14. CASE Stop
  BY <1>14, <1>a DEF Stop, storage
<1>15. ASSUME NEW g \in Manager, Close(g) PROVE Fresh'
  BY <1>15, <1>a DEF Close, storage
<1>16. ASSUME NEW v \in Videos, ChangeSource(v) PROVE Fresh'
  <2>1. mtime' = [mtime EXCEPT ![v] = mtime[v] + 1] /\ UNCHANGED <<inflight, job, worker, cache>>
    BY <1>16 DEF ChangeSource, storage
  <2>2. \A x \in Videos, m \in Mtime : m <= mtime[x] => m <= mtime'[x]
    BY <1>0, <2>1 DEF Mtime
  <2>3. \A e \in inflight : e[1][1] \in Videos /\ e[2] \in Mtime
    BY <1>0, KeyVideo
  <2>4. \A g \in Manager, k \in Key :
          k[1] \in Videos /\ (job[g][k].status = "queued" => job[g][k].output[2] \in Mtime)
    BY KeyVideo, OutputParts DEF TypeInv, Bindings, Active
  <2>5. \A g \in Manager, w \in Workers : worker[g][w].at = "begun" =>
          worker[g][w].key[1] \in Videos /\ worker[g][w].output[2] \in Mtime
    BY KeyVideo, OutputParts DEF TypeInv, Bindings, Owning
  <2> QED
    BY <2>1, <2>2, <2>3, <2>4, <2>5 DEF Fresh
<1>17. CASE UNCHANGED vars
  BY <1>17, <1>a DEF vars, storage
<1>18. ASSUME NEW o \in Output, OrphanEnds(o) PROVE Fresh'
  BY <1>18, <1>a DEF OrphanEnds, outside
<1> QED
  BY <1>1, <1>2, <1>3, <1>4, <1>5, <1>6, <1>7, <1>8, <1>9, <1>10, <1>11, <1>12, <1>13, <1>14,
     <1>15, <1>16, <1>17, <1>18 DEF Next, Request, WorkerStep

LEMMA WritersInit == Init => Writers
BY DEF Init, Writers

LEMMA WritersNext == TypeInv /\ ClaimsExclusive /\ Writers /\ [Next]_vars => Writers'
<1> SUFFICES ASSUME TypeInv, ClaimsExclusive, Writers, [Next]_vars PROVE Writers'
  OBVIOUS
<1>0. /\ job \in [Manager -> [Key -> Job]] /\ worker \in [Manager -> [Workers -> Worker]]
      /\ current \in Manager /\ temp \in [Output -> SUBSET Writer]
      /\ \A g \in Manager, w \in Workers : worker[g][w].at = "cleanup" => worker[g][w].key \in Key
  BY DEF TypeInv, TypeOK, Bindings
\* A failed job stays failed, and no worker moves.
<1>a. ASSUME UNCHANGED worker, \A o \in Output : temp'[o] \subseteq temp[o],
             \A g \in Manager, k \in Key : job[g][k].status = "failed" => job'[g][k].status = "failed"
      PROVE  Writers'
  BY <1>0, <1>a DEF Writers
\* One worker moves.
<1>b. ASSUME NEW g \in Manager, NEW w \in Workers, OthersStay(g, w),
             \A h \in Manager, k \in Key : job[h][k].status = "failed" => job'[h][k].status = "failed",
             \A o \in Output : temp'[o] \subseteq temp[o] \cup {<<g, w>>},
             \A o \in Output : <<g, w>> \in temp'[o] =>
               /\ worker'[g][w].at \in {"encoding", "encoded", "cleanup"} /\ worker'[g][w].output = o
               /\ worker'[g][w].at = "cleanup" => job'[g][worker'[g][w].key].status = "failed"
      PROVE  Writers'
  <2> SUFFICES ASSUME NEW o \in Output, NEW h \in Manager, NEW x \in Workers, <<h, x>> \in temp'[o]
               PROVE  /\ worker'[h][x].at \in {"encoding", "encoded", "cleanup"} /\ worker'[h][x].output = o
                      /\ worker'[h][x].at = "cleanup" => job'[h][worker'[h][x].key].status = "failed"
    BY DEF Writers
  <2>1. CASE h = g /\ x = w
    BY <1>b, <2>1
  <2>2. CASE h # g \/ x # w
    <3>1. <<h, x>> \in temp[o] /\ worker'[h][x] = worker[h][x]
      BY <1>b, <2>2 DEF OthersStay
    <3>2. /\ worker[h][x].at \in {"encoding", "encoded", "cleanup"} /\ worker[h][x].output = o
          /\ worker[h][x].at = "cleanup" => job[h][worker[h][x].key].status = "failed"
      BY <3>1 DEF Writers
    <3>3. worker[h][x].at = "cleanup" => job'[h][worker[h][x].key].status = "failed"
      BY <1>0, <1>b, <3>2
    <3> QED
      BY <3>1, <3>2, <3>3
  <2> QED
    BY <2>1, <2>2
<1>1. ASSUME NEW k \in Key, StatVideo(k) \/ \E m \in Mtime : RequestKnown(k, m) PROVE Writers'
  BY <1>1, <1>a DEF StatVideo, RequestKnown, storage
<1>2. ASSUME NEW k \in Key, NEW m \in Mtime, NEW j \in Job, ~ Known(job[current][k], k, m),
             job' = [job EXCEPT ![current][k] = j], UNCHANGED <<worker, temp>>
      PROVE  Writers'
  <2>1. \A h \in Manager, l \in Key : job'[h][l] = IF h = current /\ l = k THEN j ELSE job[h][l]
    BY <1>0, <1>2, JobUpdate
  <2>2. job[current][k].status # "failed"
    BY <1>2 DEF Known
  <2> QED
    BY <1>2, <1>a, <2>1, <2>2
<1>3. ASSUME NEW k \in Key, NEW m \in Mtime, RequestWithoutFfmpeg(k, m) PROVE Writers'
  <2> DEFINE j == [NoJob EXCEPT !.status = "failed"]
  <2>1. j \in Job
    BY DEF NoJob, Job, Status, Percent
  <2>2. /\ job' = [job EXCEPT ![current][k] = j] /\ UNCHANGED <<worker, temp>>
        /\ ~ Known(job[current][k], k, m)
    BY <1>3 DEF RequestWithoutFfmpeg
  <2> QED
    BY <1>2, <2>1, <2>2
<1>4. ASSUME NEW k \in Key, NEW m \in Mtime, RequestNew(k, m) PROVE Writers'
  <2> DEFINE j == [status |-> "queued", progress |-> 0, output |-> CacheKey(k, m)]
  <2>1. j \in Job
    BY CacheKeyType DEF Job, Status, Percent
  <2>2. /\ job' = [job EXCEPT ![current][k] = j] /\ UNCHANGED <<worker, temp>>
        /\ ~ Known(job[current][k], k, m)
    BY <1>4 DEF RequestNew
  <2> QED
    BY <1>2, <2>1, <2>2
<1>5. ASSUME NEW g \in Manager, NEW w \in Workers, Pick(g, w) PROVE Writers'
  <2>1. /\ worker[g][w].at = "idle" /\ OthersStay(g, w) /\ UNCHANGED <<job, temp>>
    BY <1>5, PickEffect DEF storage
  <2>2. \A o \in Output : <<g, w>> \notin temp[o]
    BY <2>1 DEF Writers
  <2> QED
    BY <1>b, <2>1, <2>2
<1>6. ASSUME NEW g \in Manager, NEW w \in Workers, Exit(g, w) \/ Cleanup(g, w) PROVE Writers'
  <2>1. /\ worker[g][w].at \in {"idle", "cleanup"} /\ OthersStay(g, w) /\ UNCHANGED job
    BY <1>6, RestEffect
  <2>2. \A o \in Output : temp'[o] \subseteq temp[o] /\ <<g, w>> \notin temp'[o]
    <3>1. CASE Exit(g, w)
      <4>1. temp' = temp /\ worker[g][w].at = "idle"
        BY <3>1 DEF Exit, storage
      <4> QED
        BY <4>1 DEF Writers
    <3>2. CASE Cleanup(g, w)
      <4>1. temp' = [temp EXCEPT ![worker[g][w].output] = {}]
        BY <3>2 DEF Cleanup
      <4>2. \A o \in Output : temp'[o] = IF o = worker[g][w].output THEN {} ELSE temp[o]
        BY <1>0, <4>1
      <4> QED
        BY <4>2 DEF Writers
    <3> QED
      BY <1>6, <3>1, <3>2
  <2> QED
    BY <1>b, <2>1, <2>2
<1>7. ASSUME NEW g \in Manager, NEW w \in Workers, Begin(g, w) PROVE Writers'
  <2>1. worker[g][w].at = "picked" /\ OthersStay(g, w) /\ UNCHANGED temp
    BY <1>7, BeginEffect
  <2>2. \A o \in Output : <<g, w>> \notin temp[o]
    BY <2>1 DEF Writers
  <2>3. \A h \in Manager, k \in Key : job[h][k].status = "failed" => job'[h][k].status = "failed"
    BY <1>7, BeginEffect DEF JobsStay
  <2> QED
    BY <1>b, <2>1, <2>2, <2>3
<1>8. ASSUME NEW g \in Manager, NEW w \in Workers, Encode(g, w) PROVE Writers'
  <2>1. /\ worker[g][w].at = "begun" /\ OthersStay(g, w) /\ worker'[g][w].at = "encoding"
        /\ worker'[g][w].output = worker[g][w].output /\ worker[g][w].output \in Output
        /\ UNCHANGED job
        /\ temp' = [temp EXCEPT ![worker[g][w].output] = @ \cup {<<g, w>>}]
    BY <1>8, EncodeEffect
  <2>2. \A o \in Output : <<g, w>> \notin temp[o]
    BY <2>1 DEF Writers
  <2>3. \A o \in Output :
          temp'[o] = IF o = worker[g][w].output THEN temp[o] \cup {<<g, w>>} ELSE temp[o]
    BY <1>0, <2>1
  <2> QED
    BY <1>b, <2>1, <2>2, <2>3
<1>9. ASSUME NEW g \in Manager, NEW w \in Workers, ReportProgress(g, w) PROVE Writers'
  <2>1. worker[g][w].key \in Key /\ SetProgress(g, worker[g][w].key, 99) /\ UNCHANGED <<worker, temp>>
    BY <1>9 DEF ReportProgress, storage, TypeInv, Bindings
  <2>2. \A h \in Manager, l \in Key : job'[h][l].status = job[h][l].status
    BY <1>0, <2>1, ProgressOnly DEF Percent
  <2> QED
    BY <1>a, <2>1, <2>2
<1>10. ASSUME NEW g \in Manager, NEW w \in Workers, Encoded(g, w) PROVE Writers'
  <2>1. /\ OthersStay(g, w) /\ worker'[g][w].at = "encoded" /\ UNCHANGED temp
        /\ worker'[g][w].output = worker[g][w].output
        /\ \A h \in Manager, l \in Key : job'[h][l].status = job[h][l].status
    BY <1>10, EncodedEffect DEF storage
  <2>2. \A o \in Output : <<g, w>> \in temp'[o] => worker[g][w].output = o
    BY <2>1 DEF Writers
  <2> QED
    BY <1>b, <2>1, <2>2
<1>11. ASSUME NEW g \in Manager, NEW w \in Workers, Commit(g, w) \/ Fail(g, w) PROVE Writers'
  <2> DEFINE k == worker[g][w].key
             o == worker[g][w].output
  <2>1. /\ worker[g][w].at \in Owning /\ OthersStay(g, w) /\ worker'[g][w].at = "cleanup"
        /\ worker'[g][w].key = k /\ worker'[g][w].output = o /\ k \in Key /\ JobsStay(g, k)
        /\ job'[g][k].status = IF Commit(g, w) THEN "done" ELSE "failed"
    BY <1>11, EndEffect
  <2>2. job[g][k].status = "running"
    BY <2>1 DEF ClaimsExclusive, Owns
  <2>3. \A h \in Manager, l \in Key : job[h][l].status = "failed" => job'[h][l].status = "failed"
    BY <2>1, <2>2 DEF JobsStay
  <2>4. CASE Commit(g, w)
    <3>1. \A p \in Output : temp'[p] = IF p = o THEN {} ELSE temp[p]
      BY <1>0, <2>4 DEF Commit
    <3>2. \A p \in Output : <<g, w>> \notin temp'[p]
      BY <3>1 DEF Writers
    <3> QED
      BY <1>b, <2>1, <2>3, <3>1, <3>2
  <2>5. CASE ~ Commit(g, w)
    <3>1. temp' = temp /\ job'[g][k].status = "failed"
      BY <1>11, <2>1, <2>5 DEF Fail
    <3>2. \A p \in Output : <<g, w>> \in temp'[p] => o = p
      BY <3>1 DEF Writers
    <3> QED
      BY <1>b, <2>1, <2>3, <3>1, <3>2
  <2> QED
    BY <2>4, <2>5
<1>12. ASSUME NEW g \in Manager, Start(g) PROVE Writers'
  <2>1. \A h \in Manager : h # g => job'[h] = job[h] /\ worker'[h] = worker[h]
    BY <1>0, <1>12 DEF Start
  <2>2. \A o \in Output : temp'[o] \subseteq temp[o]
    BY <1>12 DEF Start
  <2>3. \A o \in Output, w \in Workers : <<g, w>> \notin temp[o]
    BY <1>12 DEF Start, Alive, Writers
  <2> QED
    BY <2>1, <2>2, <2>3 DEF Writers
<1>13. CASE Crash
  BY <1>13, WritersApart DEF Crash, Writers
<1>14. CASE Stop
  BY <1>14, <1>a DEF Stop, storage
<1>15. ASSUME NEW g \in Manager, Close(g) PROVE Writers'
  BY <1>15, <1>a DEF Close, storage
<1>16. ASSUME NEW v \in Videos, ChangeSource(v) PROVE Writers'
  BY <1>16, <1>a DEF ChangeSource, storage
<1>17. CASE UNCHANGED vars
  BY <1>17, <1>a DEF vars, storage
<1>18. ASSUME NEW o \in Output, OrphanEnds(o) PROVE Writers'
  BY <1>18, <1>a DEF OrphanEnds, outside
<1> QED
  BY <1>1, <1>2, <1>3, <1>4, <1>5, <1>6, <1>7, <1>8, <1>9, <1>10, <1>11, <1>12, <1>13, <1>14,
     <1>15, <1>16, <1>17, <1>18 DEF Next, Request, WorkerStep

\* With one manager, the worker that commits an output is alone on its temporary file.
LEMMA UntornNext ==
  ASSUME MaxManagers = 1
  PROVE  TypeInv /\ ClaimsExclusive /\ Writers /\ torn = {} /\ [Next]_vars => torn' = {}
<1> SUFFICES ASSUME TypeInv, ClaimsExclusive, Writers, torn = {}, [Next]_vars PROVE torn' = {}
  OBVIOUS
<1>1. ASSUME NEW g \in Manager, NEW w \in Workers, Commit(g, w) PROVE torn' = {}
  <2> DEFINE k == worker[g][w].key
             o == worker[g][w].output
  <2>1. worker[g][w].at = "encoded" /\ k \in Key /\ o \in OutputsOf(k)
        /\ temp \in [Output -> SUBSET Writer]
    BY <1>1 DEF Commit, TypeInv, TypeOK, Bindings, Owning
  <2>2. o \in Output /\ o[1] = k
    BY <2>1, OutputParts
  <2>3. Owns(g, w, k) /\ Holds(g, w, k) /\ job[g][k].status = "running"
    BY <2>1 DEF Owns, Owning, Holds, Holding, ClaimsExclusive
  <2>4. ASSUME NEW y \in temp[o], y # Orphan PROVE y = <<g, w>>
    <3>1. PICK h \in Manager, x \in Workers : y = <<h, x>>
      BY <2>1, <2>2, <2>4 DEF Writer
    <3>2. h = g
      BY DEF Manager
    <3>3. worker[g][x].at \in {"encoding", "encoded", "cleanup"} /\ worker[g][x].output = o
      BY <2>2, <3>1, <3>2 DEF Writers
    <3>4. worker[g][x].key = k
      <4>1. worker[g][x].key \in Key /\ worker[g][x].output \in OutputsOf(worker[g][x].key)
        BY <3>3 DEF TypeInv, Bindings, Owning
      <4>2. o[1] = worker[g][x].key
        BY <3>3, <4>1, OutputParts
      <4> QED
        BY <2>2, <4>2
    <3>5. worker[g][x].at # "cleanup"
      BY <2>2, <2>3, <3>1, <3>2, <3>4 DEF Writers
    <3>6. Holds(g, x, k)
      BY <3>3, <3>4, <3>5 DEF Holds, Holding
    <3>7. x = w
      BY <2>1, <2>3, <3>6 DEF ClaimsExclusive
    <3> QED
      BY <3>1, <3>2, <3>7
  <2>5. torn' = IF temp[o] \subseteq {<<g, w>>, Orphan} THEN torn \ {o} ELSE torn \cup {o}
    BY <1>1 DEF Commit
  <2> QED
    BY <2>4, <2>5
<1>2. ASSUME NEW g \in Manager, Start(g) PROVE torn' = {}
  BY <1>2 DEF Start
<1>3. ASSUME NEW k \in Key, StatVideo(k) \/ \E m \in Mtime : Request(k, m) PROVE torn' = {}
  BY <1>3 DEF StatVideo, Request, RequestKnown, RequestWithoutFfmpeg, RequestNew, storage
<1>4. ASSUME NEW g \in Manager, NEW w \in Workers, WorkerStep(g, w) \/ ReportProgress(g, w)
      PROVE  torn' = {}
  BY <1>1, <1>4
  DEF WorkerStep, Pick, Exit, Begin, Encode, ReportProgress, Encoded, Fail, Cleanup, storage
<1>5. CASE \/ Stop \/ Crash \/ (\E g \in Manager : Close(g)) \/ (\E o \in Output : OrphanEnds(o))
           \/ (\E v \in Videos : ChangeSource(v))
           \/ UNCHANGED vars
  BY <1>5 DEF Stop, Crash, Close, OrphanEnds, ChangeSource, vars, storage
<1> QED
  BY <1>2, <1>3, <1>4, <1>5 DEF Next

\* Whatever happens to the source, the process and the managers, an output holds a version of
\* the source no older than the one in its name: what GET /api/video answers with 200 is no
\* older than what the request asked for.
THEOREM ServedAreFresh ==
  Spec => [](\A k \in Key, m \in Mtime :
               serving /\ Serves(job[current][k], k, m) => cache[CacheKey(k, m)] >= m)
<1> DEFINE Q == \A k \in Key, m \in Mtime :
                  serving /\ Serves(job[current][k], k, m) => cache[CacheKey(k, m)] >= m
<1>1. Init => TypeInv /\ ClaimsExclusive /\ Fresh
  BY InitType, InitClaims, FreshInit
<1>2. /\ TypeInv /\ ClaimsExclusive /\ Fresh /\ [Next]_vars
      => (TypeInv /\ ClaimsExclusive /\ Fresh)'
  BY NextType, NextClaims, FreshNext
<1>3. TypeInv /\ Fresh => Q
  <2> SUFFICES ASSUME TypeInv, Fresh, NEW k \in Key, NEW m \in Mtime, Serves(job[current][k], k, m)
               PROVE  cache[CacheKey(k, m)] >= m
    OBVIOUS
  <2>1. CacheKey(k, m) \in Output /\ CacheKey(k, m)[2] = m /\ cache[CacheKey(k, m)] # 0
    BY CacheKeyType DEF Serves, CacheKey
  <2>2. cache[CacheKey(k, m)] \in 0 .. MaxMtime /\ m \in Nat
    BY <2>1 DEF TypeInv, TypeOK, Mtime
  <2>3. m <= cache[CacheKey(k, m)]
    BY <2>1 DEF Fresh
  <2> QED
    BY <2>2, <2>3
<1> QED
  BY <1>1, <1>2, <1>3, PTL DEF Spec

\* In a process that starts the server once: what GET /api/video answers with 200 was written
\* by the ffmpeg of one worker, which read the source no earlier than the version asked for,
\* and by no other ffmpeg but those that outlived an earlier process.
THEOREM ServedAreComplete == ASSUME MaxManagers = 1 PROVE Spec => []ServedComplete
<1>1. Init => TypeInv /\ ClaimsExclusive /\ Writers /\ torn = {}
  BY InitType, InitClaims, WritersInit DEF Init
<1>2. /\ TypeInv /\ ClaimsExclusive /\ Writers /\ torn = {} /\ [Next]_vars
      => (TypeInv /\ ClaimsExclusive /\ Writers /\ torn = {})'
  BY NextType, NextClaims, WritersNext, UntornNext
<1> DEFINE Q == \A k \in Key, m \in Mtime :
                  serving /\ Serves(job[current][k], k, m) => cache[CacheKey(k, m)] >= m
<1>3. torn = {} /\ Q => ServedComplete
  BY DEF ServedComplete
<1>4. Spec => []Q
  BY ServedAreFresh
<1> QED
  BY <1>1, <1>2, <1>3, <1>4, PTL DEF Spec

\* No orphan has anything open, and none has spoilt an output.
Unspoilt == spoilt = {} /\ \A o \in Output : Orphan \notin temp[o]

LEMMA UnspoiltNext ==
  ASSUME MaxOrphans = 0, IsFiniteSet(Videos), IsFiniteSet(Tiers)
  PROVE  TypeInv /\ Unspoilt /\ [Next]_vars => Unspoilt'
<1> SUFFICES ASSUME TypeInv, Unspoilt, [Next]_vars PROVE Unspoilt'
  OBVIOUS
<1>a. IsFiniteSet(Output)
  <2>1. IsFiniteSet(Mtime)
    BY FS_Interval DEF Mtime
  <2>2. IsFiniteSet(Key)
    BY FS_Product DEF Key
  <2> QED
    BY <2>1, <2>2, FS_Product DEF Output
<1>b. temp \in [Output -> SUBSET Writer]
  BY DEF TypeInv, TypeOK
<1>1. CASE Crash
  <2>1. PICK left \in SUBSET Output :
          /\ Cardinality(left) <= MaxOrphans
          /\ temp' = [o \in Output |-> IF o \in left THEN {Orphan} ELSE {}]
    BY <1>1 DEF Crash
  <2>2. IsFiniteSet(left) /\ Cardinality(left) \in Nat
    BY <1>a, FS_Subset, FS_CardinalityType
  <2>3. left = {}
    BY <2>1, <2>2, FS_EmptySet
  <2> QED
    BY <1>1, <2>1, <2>3 DEF Crash, Unspoilt
<1>2. ASSUME NEW g \in Manager, Start(g) PROVE Unspoilt'
  BY <1>2 DEF Start, Unspoilt
<1>3. ASSUME NEW k \in Key, StatVideo(k) \/ \E m \in Mtime : Request(k, m) PROVE Unspoilt'
  BY <1>3 DEF StatVideo, Request, RequestKnown, RequestWithoutFfmpeg, RequestNew, storage, Unspoilt
<1>4. ASSUME NEW g \in Manager, NEW w \in Workers, Encode(g, w) PROVE Unspoilt'
  BY <1>b, <1>4, WritersApart DEF Encode, Unspoilt
<1>5. ASSUME NEW g \in Manager, NEW w \in Workers, Commit(g, w) \/ Cleanup(g, w) PROVE Unspoilt'
  BY <1>b, <1>5, OutputsType DEF Commit, Cleanup, Unspoilt, TypeInv, Bindings, Owning
<1>6. ASSUME NEW g \in Manager, NEW w \in Workers,
             Pick(g, w) \/ Exit(g, w) \/ Begin(g, w) \/ ReportProgress(g, w) \/ Encoded(g, w) \/ Fail(g, w)
      PROVE  Unspoilt'
  BY <1>6 DEF Pick, Exit, Begin, ReportProgress, Encoded, Fail, storage, Unspoilt
<1>7. ASSUME NEW o \in Output, OrphanEnds(o) PROVE Unspoilt'
  BY <1>7 DEF OrphanEnds, Unspoilt
<1>8. CASE \/ Stop \/ (\E g \in Manager : Close(g)) \/ (\E v \in Videos : ChangeSource(v))
           \/ UNCHANGED vars
  BY <1>8 DEF Stop, Close, ChangeSource, vars, storage, Unspoilt
<1> QED
  BY <1>1, <1>2, <1>3, <1>4, <1>5, <1>6, <1>7, <1>8 DEF Next, WorkerStep

\* Only an orphan can spoil what is served: if every ffmpeg ends with its process, and the
\* process starts the server once, what GET /api/video answers with 200 was written by one
\* ffmpeg alone.
THEOREM ServedAreUnspoilt ==
  ASSUME MaxManagers = 1, MaxOrphans = 0, IsFiniteSet(Videos), IsFiniteSet(Tiers)
  PROVE  Spec => []ServedUnspoilt
<1>1. Init => TypeInv /\ ClaimsExclusive /\ Writers /\ torn = {} /\ Unspoilt
  BY InitType, InitClaims, WritersInit DEF Init, Unspoilt
<1>2. /\ TypeInv /\ ClaimsExclusive /\ Writers /\ torn = {} /\ Unspoilt /\ [Next]_vars
      => (TypeInv /\ ClaimsExclusive /\ Writers /\ torn = {} /\ Unspoilt)'
  BY NextType, NextClaims, WritersNext, UntornNext, UnspoiltNext
<1>3. torn = {} /\ Unspoilt => ServedUnspoilt
  BY DEF Unspoilt, ServedUnspoilt
<1> QED
  BY <1>1, <1>2, <1>3, PTL DEF Spec

----------------------------------------------------------------------------
(* The manager implements the tasks                                        *)

\* A task is being encoded exactly while it is running.
EncodedWhileRunning == \A k \in Key : Cardinality(Encoders(k)) = IF job[current][k].status = "running" THEN 1 ELSE 0

TasksInv == TypeInv /\ ClaimsExclusive /\ RunningIsOwned

LEMMA EncodedOnce == TasksInv => EncodedWhileRunning
<1> SUFFICES ASSUME TasksInv, NEW k \in Key
             PROVE  Cardinality(Encoders(k)) = IF job[current][k].status = "running" THEN 1 ELSE 0
  BY DEF EncodedWhileRunning
<1>0. current \in Manager
  BY DEF TasksInv, TypeInv, TypeOK
<1>1. \A w \in Workers : w \in Encoders(k) <=> Owns(current, w, k)
  BY DEF Encoders, Owns
<1>2. Encoders(k) \subseteq Workers
  BY DEF Encoders
<1>3. CASE job[current][k].status = "running"
  <2>1. PICK w \in Workers : Owns(current, w, k)
    BY <1>0, <1>3 DEF TasksInv, RunningIsOwned
  <2>2. \A x \in Workers : Owns(current, x, k) => x = w
    BY <1>0, <2>1 DEF TasksInv, ClaimsExclusive, Owns, Holds, Owning, Holding
  <2>3. Encoders(k) = {w}
    BY <1>1, <1>2, <2>1, <2>2
  <2> QED
    BY <1>3, <2>3, FS_Singleton
<1>4. CASE job[current][k].status # "running"
  <2>1. Encoders(k) = {}
    BY <1>0, <1>1, <1>2, <1>4 DEF TasksInv, ClaimsExclusive
  <2> QED
    BY <1>4, <2>1, FS_EmptySet
<1> QED
  BY <1>3, <1>4

LEMMA TasksStep ==
  ASSUME MaxManagers = 1
  PROVE  TasksInv /\ EncodedWhileRunning /\ EncodedWhileRunning' /\ [Next]_vars => [Tasks!Next]_(Tasks!tasks)
<1> SUFFICES ASSUME TasksInv, EncodedWhileRunning, EncodedWhileRunning', [Next]_vars
             PROVE  [Tasks!Next]_(Tasks!tasks)
  OBVIOUS
<1>0. /\ job \in [Manager -> [Key -> Job]] /\ worker \in [Manager -> [Workers -> Worker]]
      /\ current \in Manager /\ TypeInv /\ row \in [Key -> Job]
  BY DEF TasksInv, TypeInv, TypeOK
<1>1. \A g \in Manager : g = current
  BY <1>0 DEF Manager
<1>a. ASSUME UNCHANGED current, \A k \in Key : job'[current][k].status = job[current][k].status
      PROVE  UNCHANGED Tasks!tasks
  BY <1>a DEF Tasks!tasks, EncodedWhileRunning
<1>2. ASSUME NEW k \in Key, StatVideo(k) \/ \E m \in Mtime : RequestKnown(k, m)
      PROVE  UNCHANGED Tasks!tasks
  BY <1>2, <1>a DEF StatVideo, RequestKnown
<1>3. ASSUME NEW k \in Key, NEW m \in Mtime, RequestWithoutFfmpeg(k, m) \/ RequestNew(k, m)
      PROVE  Tasks!Next
  <2>1. ~ Known(job[current][k], k, m) /\ UNCHANGED current /\ job[current][k] \in Job
    BY <1>0, <1>3 DEF RequestWithoutFfmpeg, RequestNew
  <2>2. job[current][k].status \in {"none", "done"}
    BY <2>1 DEF Known, Job, Status, Active
  <2>3. PICK j \in Job : job' = [job EXCEPT ![current][k] = j] /\ j.status \in {"queued", "failed"}
    <3>1. LET j == [NoJob EXCEPT !.status = "failed"] IN j \in Job /\ j.status = "failed"
      BY DEF NoJob, Job, Status, Percent
    <3>2. LET j == [status |-> "queued", progress |-> 0, output |-> CacheKey(k, m)]
          IN  j \in Job /\ j.status = "queued"
      BY CacheKeyType DEF Job, Status, Percent
    <3> QED
      BY <1>3, <3>1, <3>2 DEF RequestWithoutFfmpeg, RequestNew
  <2>4. \A h \in Manager, l \in Key : job'[h][l] = IF h = current /\ l = k THEN j ELSE job[h][l]
    BY <1>0, <2>3, JobUpdate
  <2>5. /\ job'[current][k].status \in {"queued", "failed"}
        /\ \A l \in Key \ {k} : job'[current][l].status = job[current][l].status
    BY <1>0, <2>3, <2>4
  <2>6. Tasks!Ask(k)
    BY <2>1, <2>2, <2>5 DEF Tasks!Ask, EncodedWhileRunning
  <2> QED
    BY <2>6 DEF Tasks!Next
<1>4. ASSUME NEW g \in Manager, NEW w \in Workers, Pick(g, w) \/ Exit(g, w) \/ Cleanup(g, w) \/ Encode(g, w)
      PROVE  UNCHANGED Tasks!tasks
  BY <1>4, <1>a DEF Pick, Exit, Cleanup, Encode, outside
<1>5. ASSUME NEW g \in Manager, NEW w \in Workers, Begin(g, w) PROVE [Tasks!Next]_(Tasks!tasks)
  <2> DEFINE k == worker[g][w].key
  <2>1. k \in Key /\ UNCHANGED current /\ g = current
    BY <1>0, <1>1, <1>5, BeginEffect DEF outside
  <2>2. CASE UNCHANGED job
    BY <1>a, <2>1, <2>2
  <2>3. CASE /\ job[g][k].status = "queued" /\ JobsStay(g, k) /\ job'[g][k].status = "running"
    <3>1. \A l \in Key \ {k} : job'[current][l].status = job[current][l].status
      BY <1>0, <2>1, <2>3 DEF JobsStay
    <3>2. PICK l \in Key : l = k
      BY <2>1
    <3> HIDE DEF k
    <3>3. Tasks!Work(l)
      BY <2>1, <2>3, <3>1, <3>2 DEF Tasks!Work, EncodedWhileRunning
    <3> QED
      BY <3>3 DEF Tasks!Next
  <2> QED
    BY <1>0, <1>5, <2>2, <2>3, BeginEffect
<1>6. ASSUME NEW g \in Manager, NEW w \in Workers, ReportProgress(g, w) PROVE UNCHANGED Tasks!tasks
  <2>1. worker[g][w].key \in Key /\ SetProgress(g, worker[g][w].key, 99) /\ UNCHANGED current
    BY <1>0, <1>6 DEF ReportProgress, outside, TypeInv, Bindings
  <2>2. \A h \in Manager, l \in Key : job'[h][l].status = job[h][l].status
    BY <1>0, <2>1, ProgressOnly DEF Percent
  <2> QED
    BY <1>0, <1>a, <2>1, <2>2
<1>7. ASSUME NEW g \in Manager, NEW w \in Workers, Encoded(g, w) PROVE UNCHANGED Tasks!tasks
  BY <1>0, <1>7, <1>a, EncodedEffect DEF outside
<1>8. ASSUME NEW g \in Manager, NEW w \in Workers, Commit(g, w) \/ Fail(g, w) PROVE Tasks!Next
  <2> DEFINE k == worker[g][w].key
  <2>1. /\ k \in Key /\ UNCHANGED current /\ g = current /\ worker[g][w].at \in Owning
        /\ JobsStay(g, k) /\ job'[g][k].status \in {"done", "failed"}
    BY <1>0, <1>1, <1>8, EndEffect DEF outside
  <2>2. job[current][k].status = "running"
    BY <2>1 DEF TasksInv, ClaimsExclusive, Owns
  <2>3. \A l \in Key \ {k} : job'[current][l].status = job[current][l].status
    BY <1>0, <2>1 DEF JobsStay
  <2>4. PICK l \in Key : l = k
    BY <2>1
  <2> HIDE DEF k
  <2>5. Tasks!Finish(l)
    BY <2>1, <2>2, <2>3, <2>4 DEF Tasks!Finish, EncodedWhileRunning
  <2> QED
    BY <2>5 DEF Tasks!Next
<1>9. ASSUME NEW g \in Manager, Start(g) PROVE Tasks!Next
  <2>1. current' = g /\ g = current
    BY <1>1, <1>9 DEF Start
  <2>2. \A k \in Key : job'[g][k].status \in {"none", "done", "failed"}
    BY <1>0, <1>9 DEF Start, Recovered, Terminal, NoJob
  <2>3. \A k \in Key : job[current][k].status # "running"
    BY <1>9, <2>1 DEF Start, Alive, Owning, Owns, TasksInv, RunningIsOwned
  <2>4. Tasks!Recover
    BY <2>1, <2>2, <2>3 DEF Tasks!Recover, EncodedWhileRunning
  <2> QED
    BY <2>4 DEF Tasks!Next
<1>10. CASE Crash
  <2>1. UNCHANGED current /\ \A k \in Key : job'[current][k].status = "none"
    BY <1>0, <1>10 DEF Crash, NoJob
  <2>2. Tasks!Vanish
    BY <2>1 DEF Tasks!Vanish, EncodedWhileRunning
  <2> QED
    BY <2>2 DEF Tasks!Next
<1>11. CASE \/ Stop \/ (\E g \in Manager : Close(g)) \/ (\E v \in Videos : ChangeSource(v))
            \/ (\E o \in Output : OrphanEnds(o))
            \/ UNCHANGED vars
  BY <1>11, <1>a DEF Stop, Close, OrphanEnds, outside, ChangeSource, vars
<1> QED
  BY <1>2, <1>3, <1>4, <1>5, <1>6, <1>7, <1>8, <1>9, <1>10, <1>11 DEF Next, Request, WorkerStep

\* In a process that starts the server once, the manager implements the tasks: at most one
\* encoder per (path, res), and only while the task is running; a failure stays until a restart.
THEOREM ManagerImplementsTasks == ASSUME MaxManagers = 1 PROVE Spec => TasksSpec
<1>1. Init => TasksInv
  BY InitType, InitClaims, InitOwned DEF TasksInv
<1>2. TasksInv /\ [Next]_vars => TasksInv'
  BY NextType, NextClaims, NextOwned DEF TasksInv
<1>3. Init /\ EncodedWhileRunning => Tasks!Init
  BY DEF Init, Tasks!Init, EncodedWhileRunning, NoJob, Manager
<1>4. TasksInv /\ EncodedWhileRunning /\ EncodedWhileRunning' /\ [Next]_vars => [Tasks!Next]_(Tasks!tasks)
  BY TasksStep
<1> QED
  BY <1>1, <1>2, <1>3, <1>4, EncodedOnce, PTL DEF Spec, TasksSpec, Tasks!Spec

\* In a process that starts the server once, no two ffmpeg processes work on one (path, res):
\* only a second manager beside the first can break it.
THEOREM OneTaskWithOneManager == ASSUME MaxManagers = 1 PROVE Spec => []OneTaskPerKey
<1>1. TypeInv /\ ClaimsExclusive => OneTaskPerKey
  BY DEF ClaimsExclusive, OneTaskPerKey, Owns, Holds, Owning, Holding, Manager
<1>2. Init => TypeInv /\ ClaimsExclusive
  BY InitType, InitClaims
<1>3. TypeInv /\ ClaimsExclusive /\ [Next]_vars => (TypeInv /\ ClaimsExclusive)'
  BY NextType, NextClaims
<1> QED
  BY <1>1, <1>2, <1>3, PTL DEF Spec
=============================================================================
