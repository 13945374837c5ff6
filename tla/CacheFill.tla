------------------------------- MODULE CacheFill -------------------------------
(***************************************************************************)
(* The disk caches that requests fill on a miss: thumbnails                *)
(* (media/thumb.go), videos of live photos (livephoto/extract.go) and face *)
(* crops (faces/handlers.go).  A request looks for the entry, generates it *)
(* under one temporary name per entry, and renames it.  Two requests for   *)
(* one entry share the temporary name; the source may change meanwhile.    *)
(* A behaviour follows one of the caches, which share no state, and one    *)
(* source: a photo, or the face behind one face id.                        *)
(***************************************************************************)
EXTENDS Naturals, FiniteSets, Sequences

CONSTANTS Fills,       \* goroutines serving requests
          Workers,     \* capacities of the semaphore (thumbWorkers is 2): one of them
          Length,      \* Length[v]: length of the video in version v of the photo
          MaxVersion,  \* bound: versions of the source
          MaxFills,    \* bound: requests
          MaxCrashes,  \* bound: restarts
          MaxFaults    \* bound: generations that fail

Versions == 1 .. MaxVersion

ASSUME CacheAssumption ==
  /\ Length \in [Versions -> Nat \ {0}]
  /\ Workers \subseteq Nat \ {0}
  /\ {MaxVersion, MaxFills, MaxCrashes, MaxFaults} \subseteq Nat /\ MaxVersion # 0

\* Half a file: the version of the source that went into it and, in a live video, the
\* version whose byte range was cut.  Blank is the half of a file not written yet.
Blank == <<0, 0>>
Half == {Blank} \cup (Versions \X Versions)
NoFile == << >>
EmptyFile == <<Blank, Blank>>
CacheFile == {NoFile} \cup (Half \X Half)

NoFill == [at |-> "idle", key |-> 1, range |-> 1, src |-> 0, next |-> 1, holds |-> "nothing",
           ok |-> FALSE, orphan |-> FALSE]

VARIABLES
  cache,    \* the cache of this behaviour: "thumb", "live" or "crop"
  workers,  \* the capacity of the semaphore
  source,   \* version of the source, its modification time; a new one for a new face
  indexed,  \* version of the photo that media_index describes
  entry,    \* entry[k]: the cached file for modification time k (1 for a crop)
  temp,     \* temp[k]: the file under its temporary name
  fill,     \* fill[f]: the request goroutine f is serving, or the ffmpeg it left at a crash
  sem,      \* tokens in the semaphore channel of the thumbnailer
  asked, mishaps, restarted,  \* requests, failed generations and restarts so far
  stranded, \* history: the keys under which a request failed and left its temporary file
  crowded   \* history: two requests, or one and what a crash left, generated one entry at a time

cacheBounds == <<asked, mishaps, restarted>>
cacheVars == <<cache, workers, source, indexed, entry, temp, fill, sem, cacheBounds, stranded, crowded>>

CacheTypeOK ==
  /\ source \in Versions /\ indexed \in Versions /\ stranded \subseteq Versions
  /\ entry \in [Versions -> CacheFile] /\ temp \in [Versions -> CacheFile]
  /\ \A f \in Fills : fill[f].key \in Versions /\ fill[f].range \in Versions
  /\ sem = Cardinality({f \in Fills : /\ cache = "thumb" /\ ~ fill[f].orphan
                                      /\ fill[f].at \in {"rechecking", "opening", "creating",
                                                         "writing", "renaming", "cleaning"}})
  /\ sem <= workers

CacheInit ==
  /\ cache \in {"thumb", "live", "crop"} /\ workers \in Workers
  /\ source = 1 /\ indexed = 1
  /\ entry = [k \in Versions |-> NoFile] /\ temp = [k \in Versions |-> NoFile]
  /\ fill = [f \in Fills |-> NoFill]
  /\ sem = 0 /\ asked = 0 /\ mishaps = 0 /\ restarted = 0
  /\ stranded = {} /\ crowded = FALSE

\* cacheName: by path and modification time, or by face id.
KeyOf(version) == IF cache = "crop" THEN 1 ELSE version

\* What counts as a hit: a non-empty file, or one as long as the index says.
Hit(k, range) ==
  LET file == entry[k]
  IN /\ file # NoFile
     /\ IF cache = "live" THEN file[2] # Blank /\ Length[file[2][2]] = Length[range]
                          ELSE file # EmptyFile

----------------------------------------------------------------------------
(* A request                                                               *)

Step(f, at) == fill' = [fill EXCEPT ![f].at = at]
Keep(v) == UNCHANGED <<cache, workers, source, indexed, asked, restarted, v>>

\* os.Stat of the source, and the row of the index.
AskEntry(f) ==
  /\ fill[f].at = "idle" /\ asked < MaxFills
  /\ fill' = [fill EXCEPT ![f] = [NoFill EXCEPT !.at = "looking", !.key = KeyOf(source),
                                                !.range = indexed]]
  /\ asked' = asked + 1
  /\ UNCHANGED <<cache, workers, source, indexed, entry, temp, sem, mishaps, restarted, stranded, crowded>>

LookUp(f) ==
  /\ fill[f].at = "looking"
  /\ Step(f, IF Hit(fill[f].key, fill[f].range) THEN "serving"
             ELSE IF cache = "thumb" THEN "waiting" ELSE "opening")
  /\ Keep(<<entry, temp, sem, mishaps, stranded, crowded>>)

\* The semaphore of Get; a client that goes away stops waiting.
Acquire(f) ==
  /\ fill[f].at = "waiting"
  /\ sem < workers
  /\ sem' = sem + 1
  /\ Step(f, "rechecking")
  /\ Keep(<<entry, temp, mishaps, stranded, crowded>>)

Cancel(f) ==
  /\ fill[f].at = "waiting"
  /\ Step(f, "idle")
  /\ Keep(<<entry, temp, sem, mishaps, stranded, crowded>>)

\* Mutant: a failed generation keeps its token.
ReleaseNone == sem' = sem

Release == sem' = IF cache = "thumb" THEN sem - 1 ELSE sem

Recheck(f) ==
  /\ fill[f].at = "rechecking"
  /\ IF Hit(fill[f].key, fill[f].range) THEN Step(f, "serving") /\ Release
     ELSE Step(f, "opening") /\ UNCHANGED sem
  /\ Keep(<<entry, temp, mishaps, stranded, crowded>>)

Generating == {f \in Fills : fill[f].at \in {"creating", "writing", "renaming", "cleaning"}}

\* The source is opened as it is now; a face is looked up in the store as it is now.
OpenSource(f) ==
  /\ fill[f].at = "opening"
  /\ fill' = [fill EXCEPT ![f].at = "creating", ![f].src = source]
  /\ crowded' = (crowded \/ \E g \in Generating : fill[g].key = fill[f].key)
  /\ Keep(<<entry, temp, sem, mishaps, stranded>>)

\* Mutant: the entry itself is created.
CreateEntry(f) ==
  /\ fill[f].at = "creating"
  /\ entry' = [entry EXCEPT ![fill[f].key] = EmptyFile]
  /\ fill' = [fill EXCEPT ![f].at = "writing", ![f].holds = "entry"]
  /\ Keep(<<temp, sem, mishaps, stranded, crowded>>)

\* os.Create(tmp) empties the file of a request that is still writing it.
CreateTemp(f) ==
  /\ fill[f].at = "creating"
  /\ temp' = [temp EXCEPT ![fill[f].key] = EmptyFile]
  /\ fill' = [fill EXCEPT ![f].at = "writing", ![f].holds = "temp"]
  /\ Keep(<<entry, sem, mishaps, stranded, crowded>>)

\* Half by half, to the file that was created, under whatever name it is by now.
WriteHalf(f) ==
  LET q == fill[f]
      mark == <<q.src, IF cache = "live" THEN q.range ELSE q.src>>
      put(files) == [files EXCEPT ![q.key][q.next] = mark]
  IN /\ q.at = "writing"
     /\ temp' = IF q.holds = "temp" THEN put(temp) ELSE temp
     /\ entry' = IF q.holds = "entry" THEN put(entry) ELSE entry
     /\ fill' = [fill EXCEPT ![f].next = 2,
                             ![f].at = IF q.next = 1 THEN "writing" ELSE "renaming"]
     /\ Keep(<<sem, mishaps, stranded, crowded>>)

\* Mutant: a copy that fails leaves its file.
GiveUpUncleaned(f) ==
  /\ fill[f].at \in {"creating", "writing", "renaming"} /\ ~ fill[f].orphan
  /\ mishaps < MaxFaults
  /\ mishaps' = mishaps + 1
  /\ stranded' = IF cache # "thumb" /\ fill[f].at = "renaming" THEN stranded \cup {fill[f].key}
                 ELSE stranded
  /\ Step(f, IF cache = "thumb" THEN "cleaning" ELSE "idle")
  /\ Keep(<<entry, temp, sem, crowded>>)

\* A decoder, ffmpeg (60 s at most), a copy or the rename fails.  Get removes its temporary
\* file in any case, extractTo only after a failed copy, a crop never.
GiveUp(f) ==
  LET at == fill[f].at
      removes == cache = "thumb" \/ (cache = "live" /\ at = "writing")
  IN /\ at \in {"creating", "writing", "renaming"} /\ ~ fill[f].orphan
     /\ mishaps < MaxFaults
     /\ mishaps' = mishaps + 1
     /\ stranded' = IF at = "creating" \/ removes THEN stranded ELSE stranded \cup {fill[f].key}
     /\ Step(f, IF removes THEN "cleaning" ELSE "idle")
     /\ Keep(<<entry, temp, sem, crowded>>)

\* Mutant: the name of the entry is made from the modification time at its end.
RenameToNow(f) ==
  LET k == fill[f].key
  IN /\ fill[f].at = "renaming" /\ ~ fill[f].orphan /\ temp[k] # NoFile
     /\ entry' = [entry EXCEPT ![KeyOf(source)] = temp[k]]
     /\ temp' = [temp EXCEPT ![k] = NoFile]
     /\ fill' = [fill EXCEPT ![f].at = IF cache = "thumb" THEN "cleaning" ELSE "serving",
                             ![f].ok = TRUE]
     /\ Keep(<<sem, mishaps, stranded, crowded>>)

\* os.Rename moves what is under the temporary name; without one the request fails.  It may
\* fail with one, too: GiveUp.
RenameTemp(f) ==
  LET k == fill[f].key
      moved(q) == IF q.key = k /\ q.holds = "temp" THEN "entry"
                  ELSE IF q.key = k /\ q.holds = "entry" THEN "nothing" ELSE q.holds
      there == temp[k] # NoFile
      then == IF cache = "thumb" THEN "cleaning" ELSE IF there THEN "serving" ELSE "idle"
  IN /\ fill[f].at = "renaming" /\ ~ fill[f].orphan
     /\ IF there
        THEN /\ entry' = [entry EXCEPT ![k] = temp[k]]
             /\ temp' = [temp EXCEPT ![k] = NoFile]
             /\ fill' = [g \in Fills |-> [fill[g] EXCEPT
                           !.holds = moved(fill[g]),
                           !.at = IF g = f THEN then ELSE fill[g].at,
                           !.ok = IF g = f THEN TRUE ELSE fill[g].ok]]
        ELSE Step(f, then) /\ UNCHANGED <<entry, temp>>
     /\ Keep(<<sem, mishaps, stranded, crowded>>)

\* os.Remove(tmp): deferred in Get, after a failed copy in extractTo.
CleanTemp(f) ==
  LET k == fill[f].key
  IN /\ fill[f].at = "cleaning"
     /\ temp' = [temp EXCEPT ![k] = NoFile]
     /\ fill' = [g \in Fills |->
                   IF g = f THEN [fill[f] EXCEPT !.at = IF fill[f].ok THEN "serving" ELSE "idle"]
                   ELSE IF fill[g].key = k /\ fill[g].holds = "temp"
                        THEN [fill[g] EXCEPT !.holds = "nothing"] ELSE fill[g]]
     /\ Release
     /\ Keep(<<entry, mishaps, stranded, crowded>>)

Serve(f) ==
  /\ fill[f].at = "serving"
  /\ fill' = [fill EXCEPT ![f] = NoFill]
  /\ Keep(<<entry, temp, sem, mishaps, stranded, crowded>>)

\* An ffmpeg whose server died is done, or dies, after what it has written.
OrphanEnds(f) ==
  /\ fill[f].orphan
  /\ fill' = [fill EXCEPT ![f] = NoFill]
  /\ Keep(<<entry, temp, sem, mishaps, stranded, crowded>>)

FillStep(f) ==
  \/ LookUp(f) \/ Acquire(f) \/ Recheck(f) \/ OpenSource(f) \/ CreateTemp(f)
  \/ WriteHalf(f) \/ GiveUp(f) \/ RenameTemp(f) \/ CleanTemp(f) \/ Serve(f) \/ OrphanEnds(f)

----------------------------------------------------------------------------
(* The world                                                               *)

\* The photo is replaced; or Store.Reset, after which the id names another face.
Replace ==
  /\ source < MaxVersion
  /\ source' = source + 1
  /\ UNCHANGED <<cache, workers, indexed, entry, temp, fill, sem, cacheBounds, stranded, crowded>>

\* A scan brings the index up to date.
IndexSource ==
  /\ indexed # source
  /\ indexed' = source
  /\ UNCHANGED <<cache, workers, source, entry, temp, fill, sem, cacheBounds, stranded, crowded>>

\* A restart.  EvictLRU in NewThumber may remove any file of the thumbnail cache.  Nothing
\* kills the ffmpegs that generate thumbnails: those in left go on.
CacheRestart ==
  /\ restarted < MaxCrashes
  /\ restarted' = restarted + 1
  /\ sem' = 0
  /\ \E old \in SUBSET {k \in Versions : cache = "thumb" /\ entry[k] # NoFile},
        swept \in IF cache = "thumb" THEN BOOLEAN ELSE {FALSE},
        left \in SUBSET {f \in Fills : /\ cache = "thumb"
                                      /\ fill[f].at \in {"opening", "creating", "writing"}} :
       LET lost(q) == (q.holds = "temp" /\ swept) \/ (q.holds = "entry" /\ q.key \in old)
       IN /\ entry' = [k \in Versions |-> IF k \in old THEN NoFile ELSE entry[k]]
          /\ temp' = IF swept THEN [k \in Versions |-> NoFile] ELSE temp
          /\ fill' = [f \in Fills |->
                        IF f \in left
                        THEN [fill[f] EXCEPT !.orphan = TRUE,
                                !.holds = IF lost(fill[f]) THEN "nothing" ELSE fill[f].holds]
                        ELSE NoFill]
  /\ UNCHANGED <<cache, workers, source, indexed, asked, mishaps, stranded, crowded>>

CacheNext ==
  \/ \E f \in Fills : AskEntry(f) \/ FillStep(f) \/ Cancel(f)
  \/ Replace \/ IndexSource \/ CacheRestart

\* A request that can go on does; a client need not give up waiting.
CacheFairness == \A f \in Fills : WF_cacheVars(FillStep(f))

CacheSpec == CacheInit /\ [][CacheNext]_cacheVars /\ CacheFairness

----------------------------------------------------------------------------
(* Properties                                                              *)

\* Unless two writers met at the temporary name (requests, or one and an ffmpeg that outlived
\* its server), the entry that a request for the photo as it is now would hit shows that
\* photo, whole: a thumbnail always, a video once the index has caught up and if videos of
\* different versions differ in length.  Crashes, failures and replacements in the middle of
\* a generation included.
HitsAreCurrent ==
  LET k == source
      distinct == \A v, w \in Versions : Length[v] = Length[w] => v = w
  IN \/ crowded \/ cache = "crop" \/ ~ Hit(k, k)
     \/ cache = "live" /\ (indexed # source \/ ~ distinct)
     \/ entry[k] = << <<k, k>>, <<k, k>> >>

\* Even then, no half of an entry or of a temporary file is older than the modification time
\* it is kept under: a browser never sees a picture that an edit before its request replaced.
NeverOlder ==
  cache # "crop" =>
    \A k \in Versions, i \in 1 .. 2 :
      /\ entry[k] # NoFile => entry[k][i] = Blank \/ entry[k][i][1] >= k
      /\ temp[k] # NoFile => temp[k][i] = Blank \/ temp[k][i][1] >= k

\* When no request is under way, no temporary file is left, except after a crash and under a
\* name where a crop failed or the rename of a live video did: requests that share the name
\* remove it between them, whatever else fails.
NoTempLeft ==
  \/ restarted > 0
  \/ \E f \in Fills : fill[f].at # "idle"
  \/ \A k \in Versions \ stranded : temp[k] = NoFile

\* Every request for an entry ends: a failed generation gives its token back.
FillsEnd == \A f \in Fills : fill[f].at # "idle" ~> fill[f].at = "idle"
=============================================================================
