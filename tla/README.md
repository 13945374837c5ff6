# PocketNAS: a verification development

PocketNAS is a single-binary personal NAS: a Go server with an embedded web
front end that also runs inside an Android process. This directory holds TLA+
modules that model its concurrent core, TLC configurations that check them on
small instances, and proofs that TLAPS checks for every value of the constants.
`PROJECT.json` lists components, runs, mutants, findings, hazards and theorems,
and maps every definition to the source lines it models.

    tlc -workers 2 -config Transcode.cfg MCTranscode     # a run
    tlapm Transcode_proofs.tla                           # its proofs

## 1. The system

```
 HTTP clients ──> server (router, tokens) ──┬─> files      (file system)
 Android NasService ─> mobile.Start/Stop    ├─> media      index.db  + thumbnails
 UDP probes ──> discovery                   │     └ onDone ─> faces.TriggerScan
                                            ├─> livephoto  (reads index.db)
                                            ├─> transcode  transcode.db + cache, ffmpeg
                                            ├─> faces      faces.db + ONNX engine
                                            └─> settings   settings.json ─> files, media
```

### Inventory

| Component (source) | State | Operations | Interaction | What is hard | What makes it correct |
|---|---|---|---|---|---|
| **Transcoding manager** (`internal/transcode`) | `jobs`, channel `q` (4096), worker goroutines, table `transcode_jobs`, temp and output files | `NewManager`, `Request`, `Status`, `worker`, `runJob`, `Close`, `EvictLRU` | HTTP handlers stat a video and call `Request`; workers run ffmpeg and call back with progress | requests against workers, a source replaced meanwhile, a full channel, failing steps, a crash, several managers in one process | one claim per job; no running job without a worker; only complete outputs, not older than asked for; queued jobs end |
| **Media scanner** (`internal/media/scanner.go`, `db.go`) | flag `scanning`, walker, channel (8), 4 workers, map `seen`, table `media_index` | `Full`, `Incremental`, `processPool`, `DeleteMissing`, `pairIOSLivePhotos` | started at boot and by PUT shares; roots come from the live share list; `onDone` triggers faces | files changing under a scan, cancellation with a full channel, errors, two scans wanted at once | an exact index after a full scan; no row newer than its contents; no present file dropped; scans end |
| **Face recognition** (`internal/faces/service.go`, `store.go`, `cluster.go`) | flags `scanning`/`queued`, engine, pass-local clusters, tables `faces`, `persons`, `processed`, `hashes`, `meta` | `TriggerScan`, `scanLoop`, `scanOnce`, `Reload`, merging | triggered by the media scanner and clients; reads the media index and the files | lost wakeups, a copy of the clusters that ages, reload and reset during a pass, a crash between rows | one loop; a processed image is recognised; persons are individuals; covers are own faces |
| Gallery and thumbnails (`internal/media/handlers.go`, `thumb.go`) | thumbnail directory, semaphore | `Gallery`, `Thumb`, `Get` | reads the index, sets `thumbnail_path` | shared temp names, stale modification time | a served thumbnail is whole and not older than the request; no request keeps a token |
| Live photo serving (`internal/livephoto`) | extraction cache | `Parse`, `extractTo` | offset and length from the index, bytes from the file | index and file differ; shared temp name | the extracted range is the video |
| Face data migration (`internal/faces/store.go`, `handlers.go`) | the tables, crop cache | `Export`, `Import`, `HashFiles`, rename, reassign, `Crop` | runs beside scans | cluster ids of another installation, cached crops after a reset, partial imports | imported faces keep their person |
| Model download (`internal/faces/download.go`) | `downloading`, `.part` files | `StartDownload`, `downloadAll` | ends in `Reload` | single flight, partial files | what `Reload` finds is complete |
| Inference (`internal/faces/engine.go`, `ort/`) | ONNX sessions | `Detect`, `Embed`, `Close` | closed by `Reload` under a pass | use after close | an error, never a wrong result |
| Settings (`internal/settings`) | shares, faces settings, `settings.json` | `Load`, `SetShares`, `SetFaces` | applied to `files.Service` and the scanner's roots | lost updates, one temp name, a torn file at boot | the file is one of the values set |
| File management (`internal/files`) | share list; the file system | list, upload, rename, move, copy, mkdir, delete, zip | files change under everybody else | check then act, partial moves and deletes | no file is lost or replaced unasked |
| Server (`internal/server/server.go`) | tokens, lazily built modules | login, middleware, start (port retry), stop | builds every module once per start, closes none | stop and start in one process | one set of modules per process |
| Discovery (`internal/server/discovery.go`) | UDP socket | serve, close | closed by the server's shutdown, asynchronously | quick restart | the answer names the live port |
| Android binding and service (`mobile`, `android/`) | `running`, `addr`, `stopFn` | `Start`, `Stop` | foreground service | intents during a slow start or stop | `Start` after `Stop` serves again |
| Android client, web client | view models, DOM | paging, polling | HTTP | cancelled coroutines, answers out of order | not modelled |
| Configuration, command, scripts | - | - | - | - | no state |

Every operation on the three databases goes through one connection
(`SetMaxOpenConns(1)`), so one SQL statement is one step of the models, and so is
one transaction; a step may fall between any two of them. An `Exec` of several
statements keeps the connection until it returns, so no other statement falls
between its own, but each is committed by itself: it may fail, or the process die,
after any of them (`Delete` in `FaceScan`).

### Hazards

`PROJECT.json` lists them, each at its line: crossing requests, stale copies
(the clusters of a pass, the modification times of an incremental scan),
refused or lost wakeups, crashes between rows, and partial failures. The
properties below were chosen from that list. A hazard without a property
says why no property covers it.

## 2. Modules

| Module | Models | State and actions against the code |
|---|---|---|
| `TranscodeTasks` | what the manager promises per `(path, res)` | abstract: `status`, `encoders`; `Ask`, `Work`, `Finish`, `Vanish`, `Recover` |
| `Transcode` | `manager.go`, `ffmpeg.go` (`run`), `cache.go`, the video handler | `job` is `Manager.jobs`, `queue` is `Manager.q`, `worker[g][w]` is where a worker goroutine stands, `row` the table, `temp` and `cache` the files. Every critical section of `m.mu` is one action (`RequestNew`, `Begin`, `Commit`, `Fail`), and what happens outside the mutex (stat, encode, the deferred removal) is an action of its own. Index `g` is a manager: a process that stops and starts the server holds several. `temp` says whose ffmpeg has a temporary file open: a worker's, or `Orphan` for one whose process is gone |
| `MCTranscode` | instance | symmetry of workers and resolutions |
| `Transcode_proofs` | theorems about `Transcode` | see section 5 |
| `MediaScan` | `scanner.go` with the statements of `db.go`, PUT shares, the startup scan | `walker`, `jobs`, `worker[w]` are the goroutines and the channel; `at` is where `scan` stands; `index` the table; `file` the world; `boot`, `snapshot`, `fulls` the goroutines that are about to scan |
| `MCMediaScan` | instances | share lists, symmetry of workers |
| `MediaScan_proofs` | theorems about `MediaScan` | see section 5 |
| `FaceScan` | `service.go`, the statements of `store.go`, `cluster.go`, the merge handler | `caller[c]` are calls of `TriggerScan`; `at`, `todo`, `clusters`, `nextCluster`, `job` the locals of `scanLoop` and `scanOnce`; one action per statement on faces.db, and for each face one for its embedding (`Embed`) and one for its cluster; `reloading` is the part of `Reload` that holds the mutex, with the engine opened (`ReloadEngine`), the index reset or not (`ResetStore`), and the new dimension stored (`StoreDims`) |
| `MCFaceScan` | instances | photos, the individuals on them, the dimensions of the engines |
| `FaceScan_proofs` | theorems about `FaceScan` | see section 5 |
| `SettingsRegister` | what the settings store promises | abstract: `value`, a register of two halves; `Put`, and `Meet` for writes that overlap |
| `Settings` | `settings.go`, PUT shares in `server.go`, `Service.SetShares` | `onFile`, `onTmp` are the two names on disk, `stored` the store's memory, `live` the file service's list; `writer[r]` is a request in `SetShares` or `SetFaces`, one action per file operation (`OpenTmp` truncates, `WriteTmp`, `RenameTmp`, `RemoveTmp`) |
| `Settings_proofs` | theorems about `Settings` | see section 5 |
| `FilesOps` | `files/service.go` and its handlers, on top of `Settings` | `tree` and `body` are the file system, `req[r]` a request; one action per look and per call that changes files, a copy or removal entry by entry. `Resolve` and `RelPath` are the two ways between client paths and files |
| `FilesOps_proofs` | theorems about `FilesOps` | see section 5 |
| `CacheFill` | `thumb.go`, `livephoto/extract.go`, the crop handler | `entry` and `temp` are the two names of each entry, `fill[f]` a request, `sem` the thumbnailer's semaphore; `cache` says which of the three caches a behaviour follows |
| `NasLifecycle` | `mobile.go`, `startServer`, `StartAsync`, `discovery.go`, `NasService.kt` | `mu`, `mobile` are the binding; `thread`, `main`, `serverAddress`, `starting` the service; `srv[i]` the server that thread `i` started, with its ports and active handlers |
| `Services_proofs` | theorems about the two, and about both together (`MCServices`) | see section 5 |
| `ModelDownload` | `faces/download.go`, `SetModels`, `Reload` | `final` and `part` are the two names of each model, `download` the goroutine, `setter` requests, `reloader` who holds the mutex in `Reload` |
| `ModelDownload_proofs` | theorems about `ModelDownload` | see section 5 |
| `FaceMigration` | export and import of `store.go` and their handlers | `persons` and `faces` of both devices, `data` what was exported, `import[i]` a request; one action per statement |
| `Server_proofs` | theorems about `FaceMigration`, and about `FilesOps`, `ModelDownload` and `FaceMigration` together (`MCServer`) | see section 5 |
| `MCServer`, `MCServices` | instances of three and of two components | the components share no state, so a behaviour moves one of them, chosen by `moving` in the initial state; what is checked of each is what a run of its own would check |

Abstractions worth knowing:

- A version of a file is its modification time; contents that differ have
  different times, or, in `FaceScan`, a hash that `Content` gives to each version.
- ffmpeg either ends well or fails. It reads its source when it starts, and two
  ffmpeg processes that have one temp file open make the output `torn`.
- Nothing kills an ffmpeg when its server dies, and a server that ends on SIGTERM does
  not wait for it: `Crash` leaves the files of any of those at work to an `Orphan`, at
  most `MaxOrphans` of them. An orphan writes until it ends (`OrphanEnds`), also into
  the file that a new worker has opened under the same name. An output that was renamed
  from such a file is `spoilt`; `torn` is what two workers wrote. Whatever kills the
  server may kill its ffmpegs too (a container, a service manager), so an orphan is a
  choice, and `MaxOrphans = 0` is a host where every ffmpeg ends with its server.
- An ffmpeg that makes a thumbnail outlives its server in the same way
  (`CacheRestart`, `orphan` in `CacheFill`); a copy of a live video and a crop are
  written by the server itself and end with it.
- A generation may fail while it creates, writes or renames its temporary file
  (`GiveUp`). A thumbnail's is removed on every way out, a live video's only when the
  copy failed, a crop's never: `stranded` has the names where one stays.
- `Reset` is four statements in the order of the source, faces, persons, processed,
  meta. The first of them that fails, or a crash, ends it; its error is dropped, and the
  dimension is stored all the same. `halfReset` remembers that the last one began and
  left persons or processed images. The model name that `Reload` stores beside the
  dimension decides nothing and is left out.
- `EvictLRU` runs in `NewManager` and removes some set of files: the order and
  the sizes do not matter to any property, so any set may go.
- Recognition is perfect: an embedding is the individual, and it matches a cluster
  of the same dimension that holds this individual. What is checked is the
  bookkeeping, not the neural network. `AssignCluster` picks the best of several;
  the model picks any.
- A cached file has two halves, each with the version of the source that went into
  it: enough for a half-written and for a mixed file. A write goes to the open
  file, under whatever name it is found by then; `holds` remembers which.
- In `FilesOps` there are no symbolic links, no internal directory `.pocketnas`,
  and no permissions. `os.Rename` fails between volumes, and where POSIX lets it.
- `Settings` is part of `FilesOps`, so that the share list may change between any
  two steps of a file request; `validate` looks at the same tree.
- In `ModelDownload` archives are fetched and unpacked or not; a member may be missing
  from a pack. The runtime refuses a torn file.
- In `FaceMigration` a face is its (file hash, box), and the old device stands still
  after the export, because nothing it does is seen any more. Two recognitions of
  one face are two rows; which person it joins is free. A merge deletes a person; the
  ids above the highest person that is left are given out again (store.go:46-52), and
  of several persons of one name an import takes the first (store.go:521).
- The media scanner appears in `FaceScan` as `IndexFile`, a row that is refreshed
  at any moment; the files appear everywhere as something that changes freely.
- A history variable records what a property needs to know of the past: `steady`
  (files that stayed as they were since the scan began), `faulty` (something
  failed on the way), `torn`.

## 3. Runs

| Run | Checks | Shows |
|---|---|---|
| `transcode` | `TypeOK` `ClaimsExclusive` `RunningIsOwned` | 2 workers, 2 resolutions, 2 versions of a video, a queue of one, stop, close, and servers that die and leave up to 2 ffmpegs at work. 1.4 million states |
| | `ServedComplete` | what is served was written by the ffmpeg of one worker, from the version asked for or a newer one, and by none else but orphans |
| `transcode_live` | `ClaimEnds`, `TasksSpec` | the default single worker, rows that fail to be written; liveness and the refinement of `TranscodeTasks`. 1.1 million states |
| `transcode_restart` | `OneTaskPerKey` violated | two managers in one process, see findings |
| `media_scan` | `TypeOK` `FullScanExact` `NeverBehind` `KeepsSteadyRows` | a photo and its `.mov`, 2 workers, a channel of one, 2 changes, cancellation, errors, restarts. 1.8 million states |
| `media_scan_live` | `ScanEnds` `FullScanExact` | two shares that give way to the storage root and come back, a channel that fills, cancelled anywhere |
| `media_shares` | `IndexFollowsShares` violated | see findings |
| `media_snapshot` | `ScanFindsAll` violated | see findings |
| `face_scan` | `TypeOK` `OneLoop` `SkippedAreRecognised` `PersonsAreIndividuals` `ClustersAddUp` `CoverIsOwn` | 2 photos, one replaced by a photo of two individuals, 3 engines of which the first has another dimension, a merge, a crash, a failing statement. 9.2 million states |
| | `HalfResetIsRepeated` | a reset that a crash has cut between two of its statements is done again before the index is used |
| `server` | `FileIsWhole` `SettingsAgree` `ActsAsRegister` | the settings file is a register: changed by a rename alone, one half at a time, whole at every instant, whichever call failed and wherever a crash struck, unless two writes meet |
| | `NothingLost` `MovesLeaveOne` | no content disappears that nobody deleted or replaced, also in a move between volumes that fails half-way; none is doubled by a move that succeeds |
| | `OuterSharesStand` `ListedPathsResolve` | protected directories stand, and listed paths lead back to what was listed, with nested shares too |
| | `ModelsWhole` `DownloadMakesAvailable` `EngineFollowsSettings` | a model has its name only when it is whole, a download that reports success opens the engine, racing reloads end with the profile of the settings |
| | `RelationsSurvive` | an undisturbed import of an export whose faces all have a person in it keeps the relation of faces to persons, also after attempts that broke off and on a device with faces of its own |
| | `PartsTypeOK` | types; the tree is a tree; the download flag is up exactly during a download. 0.8 million states |
| `services` | `HitsAreCurrent` `NeverOlder` | a cache hit is the photo as it is now, and even with two requests at one temporary name no half of it is older than its key |
| | `NoTempLeft` | requests clean up behind each other, whichever of them fails, but for the names of a failed crop or a failed rename of a live video |
| | `FillsEnd` | requests for an entry end, and tokens come back |
| | `OneServer` `ServiceAgrees` | one server listens, at the address the binding, the service and discovery name |
| | `PortsReleased` `CallsReturn` | a stopped server lets go of both ports, and start and stop return, however long handlers take |
| | `ServicesTypeOK` | types; one token per generating request. 0.1 million states |
| `face_wakeup` | `MarkIsTakenUp` violated | see findings |
| `face_merge` | `FacesHavePersons` violated | see findings |

Bounds, and why they are enough:

- `QueueCap = 1` (4096 in the code) and `JobCap = 1` (8) make the full channel an
  ordinary case. Two workers are what mutual exclusion takes; the code has one by
  default for transcoding and four for scans, and workers are symmetric.
- `MaxMtime = 2`: one replacement of a file, before, between and after any two
  steps. `MaxChanges` bounds how often files come, change and go.
- `MaxInflight` is 1 or 2: requests are atomic under the mutex, so only what lies
  between stat and `Request` has to overlap.
- `MaxTriggers`, `MaxMerges`, `MaxReloads`, `MaxCrashes`, `MaxFaults` count events
  that the environment may cause at any point; each hazard above needs one or two.
  Three contents and two individuals give a photo of nobody, of one and of two.
- `server`: two goroutines with at most two file requests and two settings requests,
  `MaxTogether = 3` in all: every pair of operations overlaps and a third one comes
  in between. Two volumes, a file, a directory with a file and a directory; legacy
  mode, two shares on two volumes, and a share deep inside another. One crash, one
  failing call. `MaxFiles = 7` never runs out. Two downloads, two changes of the
  profile, a profile whose pack is complete and one whose pack is not, one failure
  and one crash. Two faces, three recognitions, one rename or merge, two imports of
  which one may break off. Two persons of one name on the new device beside an export of
  that name take three edits: more than the bound, and covered by the proof.
- `MaxOrphans = 2` in `transcode`: of the four temporary names two may have an orphan,
  beside two workers. It is 0 in `transcode_live` and `transcode_restart`, which are not
  about the files. Rows fail to be written in `transcode_live` only; what is proved of
  claims, ownership, outputs and tasks holds with both, and for any number of orphans.
- `TwoEvents` allows `face_scan` any two out of a changed file, a merge, a crash and a
  failing statement, beside three reloads and two triggers: a reset needs a dimension
  to leave, a crash or a failure, and a reload that finds what is left.
- `services`: two requests at a time on one source with two versions of
  different length, a semaphore of one and of two, two failures, one crash. Two
  start threads, ports that others hold, two TCP ports, one handler per server, one
  failing `Serve`. More starts repeat what two do: the binding holds one server.
- `MaxManagers = 1` in the passing runs of `Transcode` is the deployment as a
  plain server, where a process starts once. Its end, by a crash or by SIGTERM, is
  `Crash`. With 2 (the Android service)
  `OneTaskPerKey` and `ServedComplete` fail for the reason that
  `transcode_restart` shows; `ClaimsExclusive` and `RunningIsOwned` are proved
  for any number.

Deadlock checking is off in every run, because the system may rest: clients need
not come, the files may stand still, and the environment's bounds may be used up.

Each property of a passing run has a mutant in `PROJECT.json`: a definition with
a plausible mistake (`KnownUnlessQueued`, `FailSilently`, `PoolDoneRegardless`,
`OpenClusterUncached`, `CopiedEarly`, `StopWaits`, ...), under which TLC finds that property violated.

Fairness:

- `Transcode`: weak fairness of each worker's steps. The Go scheduler runs every
  ready goroutine, and every ffmpeg process of a worker is taken to end. There is none
  for requests, starts, closes, or the end of an orphan.
- `MediaScan`: weak fairness of the starting goroutines, the walker, each worker
  and the scan itself. Nothing is assumed of files, clients or cancellation. A
  worker's `Extract` is taken to end: ffprobe and file reads return.
- `CacheFill`: weak fairness of each request, whose decoder or copy ends or fails
  (ffmpeg is killed after 60 s; one that outlived its server ends too). A client need
  not give up waiting.
- `NasLifecycle`: weak fairness of start threads, of the main thread once it is in
  `onDestroy`, and of a server's own goroutines. None for handlers: `Shutdown` has a
  deadline of ten seconds, and that is what `CallsReturn` rests on.
- `Settings`, `FilesOps`, `ModelDownload` and `FaceMigration` are checked for safety only.
- `FaceScan`: weak fairness of the loop, of the two atomic steps that a call of
  `TriggerScan` still has to make, and of a reload that holds the mutex.

## 4. Findings

- **Two managers in one process** (`transcode_restart`). `StartAsync`'s stop
  function shuts the HTTP server down and closes no module, while every start
  builds new ones. The Android process survives, so a second start has the same
  `(path, res)` encoded twice into one temp file (SPEC-M4.md:10, 42), and the torn
  output served.
- **A rescan is lost** (`media_shares`). The full scan after PUT shares is refused
  while another scan runs, and not repeated (server.go:354-355, SPEC-M7.md:37).
- **Incremental compares with old times** (`media_snapshot`). They are read before
  the flag is taken; a full scan in between makes them false, and a present file
  is left without a row (scanner.go:224-225).
- **A wakeup is lost** (`face_wakeup`). `TriggerScan` marks after the loop has
  looked for marks (service.go:273-274).
- **Faces of nobody** (`face_merge`). A pass goes on with the persons it read at
  its beginning; a merge meanwhile deletes one of them (store.go:259).
- Progress is 100 before the output is renamed, which ffmpeg.go:149 excludes.

Met while modelling, without a run of their own; the property named has an
exception that makes room for it, and fails without:

- **The runtime library is never installed**: it is extracted to a temporary name
  that is then removed (download.go:201-220). `DownloadMakesAvailable` needs a
  library that comes from elsewhere.
- **Concurrent settings requests** lose a half, or leave a torn file that makes the
  next boot expose the whole root (settings.go:84, 123). `FileIsWhole`,
  `SettingsAgree` and `ActsAsRegister` need that no two meet (`raced`).
- **Nested shares**: an ancestor of a share may be deleted through an outer share
  (files/service.go:153-155). `OuterSharesStand` excludes shares inside others.
- **Check then act**: two requests for one target replace a file that was to be a
  conflict (files/service.go:455). `NothingLost` excludes `overlapped`.
- **Shared temporary names**: two requests for one entry put a half-written file in
  place (extract.go:156-157, thumb.go:80, faces/handlers.go:383). `HitsAreCurrent`
  excludes `crowded`.
- **An orphan ffmpeg spoils an output**: nothing kills or awaits
  ffmpeg when the server dies or ends on SIGTERM (ffmpeg.go:124, server.go:501-509;
  `Close` has no caller). The restarted server resets the job (manager.go:77-78), the
  next request encodes into the same temporary file beside the orphan, and what is then
  renamed and served need not be one encoder's output (SPEC-M4.md:34). `ServedComplete`
  excepts orphans; without the exception it is `ServedUnspoilt`, which fails on the
  instance of `transcode`. The theorem `ServedAreUnspoilt` says that they are the only cause.
- **A reset stops half-way for good**: the four `DELETE`s of `Reset` are no
  transaction (store.go:430); `Reload` drops the error and stores the new dimension
  (service.go:215-217), so the persons and processed images that stay are never
  deleted, and the photos are skipped without faces (store.go:428). A crash in the
  same place is repaired by the next reload (`HalfResetIsRepeated`), unless that one is
  back at the old dimension. `SkippedAreRecognised` and `CoverIsOwn` except
  `halfReset`, `HalfResetIsRepeated` failing statements.
- **A failed rename leaves its file**: `extractTo` removes its temporary file after a
  failed copy and not after a failed rename (extract.go:192), a crop never removes it
  (faces/handlers.go:384, 388). `NoTempLeft` excepts the names where that happened
  (`stranded`).
- **Imported faces are recognised again** by the next scan (SPEC-M11.md:46). An
  import that broke off and is sent again also splits unnamed persons, and an
  export is two statements: a person created between them is missing, and its
  faces come in as nobody's. `RelationsSurvive` speaks of imports that nothing
  disturbed, and of exports whose faces all have a person in them.
- **A service that is destroyed during a start** shows the address of a server that
  is down, and does not start again (NasService.kt:75). `ServiceAgrees` excludes
  `crossed`.
- **A failed `Serve`** leaves the binding running (mobile.go:33): the exception
  `failed` in `OneServer`.
- **Clusters of two dimensions**: a pass reads the clusters and the next cluster id
  in two statements (service.go:342, 346). A reload of another dimension empties the
  table in between (215), so the pass numbers from 1 while its copy has the old ids;
  after a reload back to the old dimension a face joins the copy with an id that the
  other dimension has by now. Averaging such a cluster panics (store.go:309), and
  no one recovers. `ClustersAddUp` needs that no reload goes back to a dimension
  that was given up (`NeverBack`) and that no statement failed.

## 5. Proofs

Eight modules prove the theorems below for every value of the constants. Six are named
after the module they are about; `Services_proofs` is about `CacheFill`, `NasLifecycle`
and `MCServices`, and `Server_proofs` about `FaceMigration` and `MCServer`. A leaf of a proof cites the named assumptions it
needs and nothing else:

| Module | Assumed of the constants | In the code |
|---|---|---|
| `Transcode` | a positive queue capacity, manager, version and orphan bounds, a Boolean switch | the capacity is 4096; the others bound the model |
| `MediaScan` | a positive channel capacity, `Workers` not empty, share lists are sets of shares, the legacy root is no share | 8, 4 workers, `settings.json`, the storage root |
| `FaceScan` | contents, individuals and dimensions are given for every version, hash and engine; the dimensions are positive | what a file holds; 512 or 128 in the built-in profiles |
| `Settings` | the empty settings are settings, and no settings document stands for a missing or torn file | `Load` without a file |
| `CacheFill` | positive lengths and semaphore capacities, at least one version | `thumbWorkers` in `thumb.go` |
| `NasLifecycle` | at least one start, natural bounds | `maxPortRetries` in `server.go` |
| `ModelDownload` | every profile has a pack and a list of what it needs; requests are no numbers of downloads | the tables of `download.go`; two kinds of callers |
| `FilesOps` | the first file system is a tree and every file in it has one name and a content of its own; a part of a file and an upload are none of these contents; share names differ within a list; share directories and client paths are sequences of names | files have no hard links; contents are told apart to be followed; `validate` |
| `FaceMigration` | the name of a person without one is no name that users give, natural bounds | the empty string in the column `name` |

A theorem about one manager has that as a hypothesis (`MaxManagers = 1`): a plain
server starts its modules once. With two, `OneTaskPerKey` and `ServedComplete` fail.
Three more theorems have a hypothesis that a finding's cause does not occur: no ffmpeg
outlives its process (`MaxOrphans = 0`, with finitely many videos and resolutions), no
share list is changed (`MaxFulls = 0`), or no persons are merged and no reload changes
the dimension (`MaxMerges = 0` and `SameDims`).

| Module | Theorem | Statement |
|---|---|---|
| `Transcode` | `TypeCorrect` | `Spec => []TypeOK` |
| | `ClaimsAreExclusive` | `Spec => []ClaimsExclusive` |
| | `RunningJobsAreOwned` | `Spec => []RunningIsOwned` |
| | `ServedAreFresh` | a served output is not older than its name, for any number of managers |
| | `ServedAreComplete` | `MaxManagers = 1` gives `Spec => []ServedComplete` |
| | `ServedAreUnspoilt` | `MaxManagers = 1` and `MaxOrphans = 0` give `Spec => []ServedUnspoilt` |
| | `ManagerImplementsTasks` | `MaxManagers = 1` gives `Spec => TasksSpec` |
| | `OneTaskWithOneManager` | `MaxManagers = 1` gives `Spec => []OneTaskPerKey` |
| `MediaScan` | `TypeCorrect` | `Spec => []TypeOK` |
| | `RowsNeverBehind` | `Spec => []NeverBehind` |
| | `SteadyRowsKept` | `Spec => KeepsSteadyRows` |
| | `FullScanIsExact` | `Spec => []FullScanExact` |
| | `LoneScanFindsAll` | `MaxFulls = 0` gives `Spec => []ScanFindsAll` |
| `FaceScan` | `OneLoopRuns` | `Spec => []OneLoop` |
| | `CoversAreOwn` | `Spec => []CoverIsOwn` |
| | `ScanTypeCorrect` | `Spec => []TypeOK` |
| | `SkippedImagesAreDone` | `Spec => []SkippedAreRecognised` |
| | `PersonsStayIndividuals` | `Spec => []PersonsAreIndividuals` |
| | `ClustersKeepOneDimension` | `Spec => []ClustersAddUp` |
| | `HalfResetsAreRepeated` | `Spec => []HalfResetIsRepeated` |
| | `UnmergedFacesHavePersons` | no merges and one dimension give `Spec => []FacesHavePersons` |
| `Settings` | `SettingsTyped` | `SettingsSpec => []SettingsTypeOK` |
| | `FileStaysWhole` | `SettingsSpec => []FileIsWhole` |
| | `StoreAgrees` | `SettingsSpec => []SettingsAgree` |
| | `StoreIsRegister` | `SettingsSpec => ActsAsRegister` |
| `CacheFill` | `CacheTypeCorrect` | types, and a token for each generating request |
| | `CacheNeverOlder` | `CacheSpec => []NeverOlder` |
| | `CacheLeavesNoTemp` | `CacheSpec => []NoTempLeft` |
| | `CacheHitsAreCurrent` | `CacheSpec => []HitsAreCurrent` |
| `NasLifecycle` | `NasTypeCorrect` | types |
| | `OneServerAtATime` | `NasSpec => []OneServer` |
| | `ServiceAndBindingAgree` | `NasSpec => []ServiceAgrees` |
| `ModelDownload` | `DownloadTypeCorrect` | types, and the flag is up exactly during a download |
| | `ModelsAreWhole` | `DownloadSpec => []ModelsWhole` |
| | `DownloadsMakeAvailable` | `DownloadSpec => DownloadMakesAvailable` |
| | `EngineIsChosen` | `DownloadSpec => []EngineFollowsSettings` |
| `FilesOps` | `FilesTypeCorrect` | `ServerSpec => []FilesTypeOK`: also, the tree stays a tree |
| | `ListingsLeadBack` | `ServerSpec => []ListedPathsResolve` |
| | `SharesStand` | `ServerSpec => []OuterSharesStand` |
| | `NothingIsLost` | `ServerSpec => []NothingLost` |
| | `MovesKeepOne` | `ServerSpec => []MovesLeaveOne` |
| | `StoreStandsInServer` | `ServerSpec => [](FileIsWhole /\ SettingsAgree)` |
| | `ServerIsRegister` | `ServerSpec => ActsAsRegister` |
| `FaceMigration` | `MigrationTypeCorrect` | types |
| | `ImportsKeepRelations` | `MigrationSpec => []RelationsSurvive` |
| `MCServices` | `ServicesAreBoth` | `ServicesSpec => CacheSpec /\ NasSpec` |
| | `ServicesTypeCorrect` | `ServicesSpec => []ServicesTypeOK` |
| | `ServicesStaySafe` | the safety properties of both components, together |
| `MCServer` | `PartsAreAll` | `PartsSpec => ServerSpec /\ DownloadSpec /\ MigrationSpec` |
| | `PartsTypeCorrect` | `PartsSpec => []PartsTypeOK` |
| | `PartsStaySafe`, `PartsActAsSpecified` | the invariants, and the action properties, of the three components, together |

Every invariant below was checked by TLC on the run's instance before it was proved.
That of `FaceMigration` was checked with three edits as well, where two persons of one name occur.
The proofs share a layout: a lemma says what the initial states give, one that a step
preserves the invariant, with one step per action; actions that leave an
invariant's variables alone are dealt with together by frame facts (`<1>a`, `<1>b`).

`Transcode`. `TypeOK` alone is not inductive: a worker that begins takes the
output name from the job, which is the empty name in a job that failed for want
of ffmpeg. `Bindings` adds that active and finished jobs, finished rows and busy
workers carry an output of their own key; `TypeInv == TypeOK /\ Bindings` is
inductive (`InitType`, `NextType`).

`ClaimsExclusive` is inductive relative to `TypeInv`. It concerns one manager at
a time, so the proof first states it of a job map, a channel and a worker map
(`Claims`) and proves what each kind of update does to it (`ClaimsFreeJob`,
`ClaimsAppend`, `ClaimsPick`, `ClaimsWorker`, `ClaimsRest`, `ClaimsFresh`,
`ClaimsStatus`); `NextClaims` then goes through the actions and names the lemma
for each. The heart is `ClaimsAppend`: a job enters the channel only when it is
not `Known`, so it is not queued, and by the invariant neither is it in the
channel nor has a worker taken it.

`RunningIsOwned` is inductive relative to both: a worker leaves its job only in
`Commit` and `Fail`, which end the job, and by `ClaimsExclusive` no second worker
is affected.

`ServedComplete` has two halves. That an output is not older than its name is
`Fresh`, which follows a modification time from the handler's stat over job,
worker and temporary file into the cache, and holds for any number of managers.
That it is whole needs `Writers`: who has a temporary file open is encoding that
output, or has failed and is about to remove it. With one manager and
`ClaimsExclusive` a temporary file then has one worker that writes it, so nothing is
ever torn. An orphan may still write beside it: where there is none, `Unspoilt` (no
temporary file is an orphan's, no output is spoilt) is inductive, because a crash that may
leave at most no file behind leaves none, and this gives `ServedUnspoilt`.

The refinement takes the task of a key to be the job of the current manager, and
its encoders the workers that own it. `EncodedOnce` says that there is one exactly
while the job runs; every action is a step of one task (`Ask`, `Work`, `Finish`), a
`Vanish` or `Recover` of all at a restart, or a stutter.

`MediaScan`. `Held` adds to the types what worker and walker hold when they are busy,
and that the channel is finite. `NeverBehind` needs `RowsInHand`: a row under
construction has the time of a stat, and its contents were read after it.
`KeepsSteadyRows` and half of `FullScanExact` come from `KeepInv`: where the goroutines
are in each phase of the scan (`Phases`: behind an uncancelled pool the walk is
complete), a steady file is still to be visited or seen (`Covered`), only files that
are there are seen (`SeenThere`), and the rows selected for deletion are those of files
that are not (`StaleGone`). A cancelled scan never comes to its deletion.
`FullScanExact` follows a file to its row: `OnItsWay` says that it is with the walker, in
the channel or with a worker, or that its row is fresh; `HandsRight` that a worker has
read a steady file as it is; `Flow` what is left of both when the pool is done, and what
the pairing makes of a photo and its companion. `ScanFindsAll` fails in `media_snapshot`
because a full scan comes between the startup scan's read of the index and its start.
`LoneInv` shows that it holds where no full scan is asked for: then the times are those of
the index (`Alone`), a file that the scan takes for known has a row (`Backed`), and
`KeepsSteadyRows` keeps it.

`FaceScan`. `OneLoop` is inductive as it stands. `CoverIsOwn` is not: between
`InsertFace` and `SetPersonCover` the loop holds the id of a row that a merge may
give to another person and a reload may delete. `FreshCover` says that the row
then still is of the person, or the person is gone: a merge that takes the row
away deletes the person in the same transaction, and no person is added before
the cover is set, so its id is not used again meanwhile. A reset deletes the faces first:
cut before the persons it leaves covers of nobody, which is what `halfReset` says, and a
later one that goes through clears it. `CoverInv` adds the shape
of rows and of the image at hand; `AppendedRow` and `MergedRows` say what the two
changes of the table faces leave in place.

`TypeInv` goes through the variables in groups (`WorldTyped`, `LoopTyped`, ...). Ids
are drawn above all others, so that they stay numbers rests on there being a
largest one: `Bounded`, `FacesBounded`, and a number that no id exceeds for each set that
`Max` is taken of. `SkippedAreRecognised` needs that no list is ahead of the files (`Behind`)
and, of the image at hand, that everybody on it is in the table, left to do, or the
face at hand (`InHand`).

A reset can leave processed images
without their faces in the same way; the images marked after it are recorded in full, but
the property speaks of all, so it holds while `halfReset` is down.

`HalfResetIsRepeated` is `HalfInv`: when the last reset broke off, the dimension in meta is still
the old one, which is given up, or a new reset is under way. Meta is deleted last, so a
crash before that leaves the old dimension there, and a crash after it leaves nothing else; the
next reload finds the old dimension, and by `NeverBack` its engine has another.

`PersonsAreIndividuals` is `PersonsInv`: the dimension that the table meta has is the
engine's outside a reload (`StoreFits`); as long as nothing failed and no reload met a
pass, all faces have it (`OneDim`); until a client merges, cluster, person and individual are
the same partition of the faces (`Grouped`); and the pass's copy of the clusters has all of
it, and the face at hand (`Copied`).

`ClustersAddUp` holds under reloads that do meet a pass, so its invariant is about
what a reset leaves behind: a copy of old clusters, an embedding of the old engine, and
a number that restarted. Every dimension around is the index's or never comes back
(`NoneAhead`), so a stale copy cannot match (`CopyAddsUp`), and a stale embedding is the
first row of an empty table (`JobAddsUp`).

`FacesHavePersons` fails in `face_merge`, and the last theorem says why: what the pass
remembers of the table persons, in its clusters and in the face at hand, ages only
through a merge or a reset (`PersonsStay`). Without these the property holds, whatever
else fails, crashes or is reloaded.

`Settings`. `FileIsWhole` and `SettingsAgree` need to know how far a request has
come: `StoreInv` says that, unless two requests met, at most one is in flight, and
`Standing` what each of its places promises. A request with the temporary file open
has emptied it and holds it under its temporary name; one that has written it finds
its own document there; after the rename `settings.json` is that document, and the
half it did not set is still the one of the memory (`Prepared`), so the memory comes
to agree with the file in `Remember`, and the live list in `GoLive`. The last
theorem is a refinement: the rename of a lone request is a `Put` of
`SettingsRegister` (`HalfReplaced`: the document is the old settings with one half
replaced), a second request is a `Meet`, every other step a stutter.

`CacheFill`. `CacheInv` has the types and the count of tokens (`Tokens`: the semaphore
is the number of requests inside). `NeverOlder` is inductive with `Sources`: the key of a
request is at most the version it reads, which is at most the source's. `NoTempLeft` needs
an owner for every temporary file (`Owned`). `HitsAreCurrent` is `Uncrowded`: while
requests for one entry have not met, each temporary file has one writer (`Alone`), holds
what that one put there (`PartsRight`), and every entry is one version, whole
(`EntriesWhole`); that it is the current one comes from the key.

`NasLifecycle`. `NasInv` says who holds the mutex of the binding (`Mutex`) and what
the binding knows (`Binding`). `OneServer` is `ServerInv`: what a server is in each stage
of its start (`Stages`), that no server is up but the binding's and the one just bound by
the holder of the mutex (`Current`), and that what answers probes has a listener
(`Probes`). `ServiceAgrees` adds `Shown`, the address on its way from the binding to the
service, and `Unanswered`: a start that has not returned has no address.

`ModelDownload`. `ModelsWhole` needs that a part about to be renamed is whole, and
`DownloadMakesAvailable` that what a download no longer looks for is there; both are
`ModelsPlaced`, which also keeps the pack of a download that reported success until its
`Reload`. `EngineFollowsSettings` is `Chosen`: a reload that read an old profile, or an
engine of one, leaves a request that has saved and is still to reload.

`FilesOps`. Paths are sequences, so the proof begins with what `IsPrefix`, `SubSeq`
and `Swap` (a path below one directory, taken below another) do to each other, and
with what the calls of the operating system do to a tree: `RenameParts` says in terms
of names what a rename leaves, `CreateParts`, `CopyParts` and `RemoveParts` the others.
`FilesInv` adds to the types what each place of a request holds (`Serves`).
`ListedPathsResolve` then follows for every tree and list: an entry comes back by the
first share that holds it, and the name of that share leads to its directory. `Sound`
adds that a request is at the files or at the settings, and, unless `overlapped`, that
at most one is in flight (`LoneInv`), which carries `StoreInv` over from `Settings`.

`OuterSharesStand` needs `OuterInv`: the shares stand in the live list, in the list on
disk, which a crash makes live, and in the one being saved; and a source that is being
taken away is `Guarded`, inside a share and the directory of none. A share below a
guarded source is nested (`GuardedNests`), so none that has to stand goes with it.

`NothingLost` is `NothingInv` together with `MoveInv`, which says how far a move between
volumes has come (`Copies`): source and target lie apart (`Placed`), what is copied
stands at the target with the source's content (`Mirrors`), the file being written is
the twin of one entry (`Filling`), and when the source is about to be removed nothing
is left to do (`Mirrored`). `RemoveEntry` therefore only removes entries whose twin is
whole. `MovesLeaveOne` is the converse and needs `UniqueInv`: two names with one content
are a source entry and its twin (`Twins`), and the only part of a file is the one
being written; when the last entry of the source is gone, there are no twins.

`FaceMigration`. The types need `AtRow`: an import that adds a person or a face is at a row
of the export; and, for what a merge leaves (`Without`), that a set of row numbers has a
largest one (`Largest`). `RelationsSurvive` is `MigrationInv`. `OldInv` says that the old
device, and so the export, hold each face once. `ImportsAreFaithful` says, of an import
that nothing has disturbed, how far it has come (`Faithful`): what `idMap` holds so far is a
row of the same name, and no two persons without a name share one (`Mapped`); who is not in
it is still to come (`Covered`); a person is only added when nobody has its name
(`Adding`); and the faces that were not there before are exported ones, once each, with the
person that `idMap` gives (`Brought`). Each step of the import keeps all four; every other
step either leaves the import and the tables of the new device alone, or ends its being
undisturbed (`DisturbedKept`). `Mapped` needs that the row taken is the first of its
name: if any row of the name could be taken, two persons of one name could become two, and
the proof of `FaithfulPersonLooked` would not go through. The code scans in the order of
the ids and takes the first.

`MCServices`, `MCServer`. A step of the composition is a step or a stutter of each part
(`ServicesStep`, `PartsStep`), so a behaviour of the composition is one of each
part, with the fairness of `MCServices` as that of its parts, and the theorems about
the parts carry over. In particular `ActsAsRegister` holds next to file requests
(`ServerIsRegister`): a step of a file request is a stutter of the settings.

Only model-checked is liveness, because fairness and `ENABLED` are beyond the prover:
`ClaimEnds`, `ScanEnds`, `FillsEnd`, `PortsReleased`, `CallsReturn`. Every other property of
a passing run is stated by a theorem.

## 6. Plan

1. Done: every component with state of its own on the server and in the Android
   service has a module.
2. Done: proofs of every safety property of every component, of the two refinements, and
   of the compositions that the runs check.
3. Composition of `NasLifecycle` with `Transcode` and `FaceScan`, as what a second
   start in one process finds.
4. View models of the Android client, if they turn out to hold more than rendering.

## 7. Not modelled

Byte parsing (EXIF, XMP, image and video headers, archives), the neural network and
its C library, HTML and view code, HTTP routing and JSON, building and packaging.
They are sequential, or their outcome appears in the models as a choice.
Login tokens are random names in a set that only grows under a mutex. The lazy
construction of modules is a `sync.Once` each. Linking by content hash (`HashFiles`)
fills a table of (path, hash) that nothing modelled here decides by, except which
photo a crop is cut from. Requests that only read (gallery pages, lists, status,
downloads, zip streams, browsing) change no state. Symbolic links and the internal
directory are left out of `FilesOps`: the rules for them are sequential path
arithmetic. Part by part, see `PROJECT.json`.
