---------------------------- MODULE Services_proofs ----------------------------
(***************************************************************************)
(* Proofs about the disk caches (CacheFill), about the Android service and *)
(* the server it starts and stops (NasLifecycle), and about the two        *)
(* together: for any number of requests at a time, any capacity of the     *)
(* semaphore, any lengths of the videos, any number of starts and of ports *)
(* to try, whatever ports other programs hold, and any bounds on versions, *)
(* failures and restarts.                                                  *)
(***************************************************************************)
EXTENDS MCServices, FiniteSetTheorems, TLAPS

----------------------------------------------------------------------------
(* The caches: type correctness                                            *)

\* Where a request has not created a file yet, and where it holds a token.
Before == {"looking", "waiting", "rechecking", "opening", "creating"}
Inside == {"rechecking", "opening", "creating", "writing", "renaming", "cleaning"}

Request ==
  [at : Before \cup Inside \cup {"idle", "serving"}, key : Versions, range : Versions,
   src : {0} \cup Versions, next : 1 .. 2, holds : {"nothing", "temp", "entry"}, ok : BOOLEAN,
   orphan : BOOLEAN]

TokenHolders == {f \in Fills : cache = "thumb" /\ ~ fill[f].orphan /\ fill[f].at \in Inside}

\* A request that writes has opened a version of the source, and the file it holds is there;
\* what a crash left is an ffmpeg for a thumbnail.
Writer(f) ==
  /\ fill[f].at \in Before => fill[f].next = 1 /\ fill[f].holds = "nothing"
  /\ fill[f].at \in {"creating", "writing", "renaming"} => fill[f].src \in Versions
  /\ fill[f].at = "writing" =>
       /\ fill[f].holds = "temp" => temp[fill[f].key] # NoFile
       /\ fill[f].holds = "entry" => entry[fill[f].key] # NoFile
  /\ fill[f].orphan => /\ cache = "thumb"
                       /\ fill[f].at \in {"opening", "creating", "writing", "renaming"}

FilesTyped ==
  /\ cache \in {"thumb", "live", "crop"} /\ workers \in Nat \ {0}
  /\ source \in Versions /\ indexed \in Versions /\ stranded \subseteq Versions
  /\ entry \in [Versions -> CacheFile] /\ temp \in [Versions -> CacheFile]
  /\ fill \in [Fills -> Request]
  /\ \A f \in Fills : Writer(f)

Tokens ==
  /\ \A f \in Fills : fill[f].at = "waiting" => cache = "thumb"
  /\ IsFiniteSet(TokenHolders)
  /\ sem = Cardinality(TokenHolders)
  /\ sem <= workers

CacheInv == FilesTyped /\ Tokens

LEMMA HalfPut ==
  ASSUME NEW h \in Half \X Half, NEW i \in 1 .. 2, NEW m \in Half
  PROVE  /\ [h EXCEPT ![i] = m] \in Half \X Half
         /\ [h EXCEPT ![i] = m][i] = m
         /\ \A j \in (1 .. 2) \ {i} : [h EXCEPT ![i] = m][j] = h[j]
OBVIOUS

LEMMA FileKinds == /\ NoFile \notin Half \X Half /\ EmptyFile \in Half \X Half
                   /\ EmptyFile # NoFile /\ \A h \in CacheFile \ {NoFile} : h \in Half \X Half
BY DEF NoFile, EmptyFile, CacheFile, Half

LEMMA RestTyped == /\ NoFill \in Request /\ NoFill.at = "idle" /\ 1 \in Versions
                   /\ NoFill.next = 1 /\ NoFill.holds = "nothing" /\ NoFill.key = 1 /\ NoFill.src = 0
                   /\ NoFill.orphan = FALSE
BY CacheAssumption DEF NoFill, Request, Versions

\* A step that only moves a request on.
LEMMA StepTyped ==
  ASSUME fill \in [Fills -> Request], NEW f \in Fills,
         NEW place \in Before \cup Inside \cup {"idle", "serving"}, Step(f, place)
  PROVE  /\ fill' \in [Fills -> Request]
         /\ \A g \in Fills \ {f} : fill'[g] = fill[g]
         /\ fill'[f].at = place
         /\ fill'[f].key = fill[f].key /\ fill'[f].range = fill[f].range
         /\ fill'[f].src = fill[f].src /\ fill'[f].next = fill[f].next
         /\ fill'[f].holds = fill[f].holds /\ fill'[f].ok = fill[f].ok
         /\ fill'[f].orphan = fill[f].orphan
<1>1. [fill[f] EXCEPT !.at = place] \in Request
  BY DEF Request
<1>2. fill' = [fill EXCEPT ![f] = [fill[f] EXCEPT !.at = place]]
  BY DEF Step
<1> QED
  BY <1>1, <1>2 DEF Request

\* Half a file: f marks the file it holds, and goes on to the other half or to the rename.
Mark(f) == <<fill[f].src, IF cache = "live" THEN fill[f].range ELSE fill[f].src>>

LEMMA WriteSteps ==
  ASSUME fill \in [Fills -> Request], NEW f \in Fills, WriteHalf(f)
  PROVE  LET q == fill[f]
         IN /\ q.at = "writing" /\ UNCHANGED <<cache, workers, source, indexed, sem, mishaps, restarted, stranded, crowded>>
            /\ temp' = IF q.holds = "temp"
                       THEN [temp EXCEPT ![q.key] = [temp[q.key] EXCEPT ![q.next] = Mark(f)]] ELSE temp
            /\ entry' = IF q.holds = "entry"
                        THEN [entry EXCEPT ![q.key] = [entry[q.key] EXCEPT ![q.next] = Mark(f)]] ELSE entry
            /\ fill' \in [Fills -> Request]
            /\ \A g \in Fills \ {f} : fill'[g] = fill[g]
            /\ fill'[f].at = IF q.next = 1 THEN "writing" ELSE "renaming"
            /\ fill'[f].next = 2
            /\ fill'[f].key = q.key /\ fill'[f].range = q.range /\ fill'[f].src = q.src
            /\ fill'[f].holds = q.holds /\ fill'[f].orphan = q.orphan
<1> DEFINE q == fill[f]
           place == IF q.next = 1 THEN "writing" ELSE "renaming"
<1>1. /\ q.at = "writing" /\ fill' = [fill EXCEPT ![f] = [q EXCEPT !.next = 2, !.at = place]]
      /\ UNCHANGED <<cache, workers, source, indexed, sem, mishaps, restarted, stranded, crowded>>
      /\ temp' = IF q.holds = "temp"
                 THEN [temp EXCEPT ![q.key] = [temp[q.key] EXCEPT ![q.next] = Mark(f)]] ELSE temp
      /\ entry' = IF q.holds = "entry"
                  THEN [entry EXCEPT ![q.key] = [entry[q.key] EXCEPT ![q.next] = Mark(f)]] ELSE entry
  BY DEF WriteHalf, Mark, Keep
<1>2. place \in Before \cup Inside /\ 2 \in 1 .. 2 /\ q \in Request
  BY DEF Inside
<1> HIDE DEF place
<1>3. LET n == [q EXCEPT !.next = 2, !.at = place]
      IN /\ n \in Request /\ n.key = q.key /\ n.range = q.range /\ n.src = q.src
         /\ n.holds = q.holds /\ n.at = place /\ n.next = 2 /\ n.orphan = q.orphan
  BY <1>2 DEF Request
<1>4. /\ fill' \in [Fills -> Request] /\ \A g \in Fills \ {f} : fill'[g] = fill[g]
      /\ fill'[f] = [q EXCEPT !.next = 2, !.at = place]
  BY <1>1, <1>3
<1> QED
  BY <1>1, <1>3, <1>4 DEF place

\* A rename: the files move, and so does what other requests for the entry hold.
LEMMA RenameSteps ==
  ASSUME fill \in [Fills -> Request], NEW f \in Fills, RenameTemp(f)
  PROVE  LET k == fill[f].key
         IN /\ fill[f].at = "renaming" /\ ~ fill[f].orphan
            /\ UNCHANGED <<cache, workers, source, indexed, sem, mishaps, restarted, stranded, crowded>>
            /\ fill' \in [Fills -> Request]
            /\ \A g \in Fills : /\ fill'[g].key = fill[g].key /\ fill'[g].range = fill[g].range
                                /\ fill'[g].src = fill[g].src /\ fill'[g].next = fill[g].next
                                /\ fill'[g].orphan = fill[g].orphan
                                /\ g # f => fill'[g].at = fill[g].at
            /\ fill'[f].at \in {"cleaning", "serving", "idle"}
            /\ cache = "thumb" => fill'[f].at = "cleaning"
            /\ \/ /\ temp[k] = NoFile /\ UNCHANGED <<entry, temp>>
                  /\ \A g \in Fills : fill'[g].holds = fill[g].holds
               \/ /\ temp[k] # NoFile
                  /\ entry' = [entry EXCEPT ![k] = temp[k]] /\ temp' = [temp EXCEPT ![k] = NoFile]
                  /\ \A g \in Fills :
                       /\ fill[g].key # k => fill'[g].holds = fill[g].holds
                       /\ fill[g].key = k => fill'[g].holds =
                            IF fill[g].holds = "temp" THEN "entry" ELSE "nothing"
<1> DEFINE k == fill[f].key
           then == IF cache = "thumb" THEN "cleaning"
                   ELSE IF temp[k] # NoFile THEN "serving" ELSE "idle"
<1>1. /\ fill[f].at = "renaming" /\ ~ fill[f].orphan
      /\ UNCHANGED <<cache, workers, source, indexed, sem, mishaps, restarted, stranded, crowded>>
  BY DEF RenameTemp, Keep
<1>2. then \in {"cleaning", "serving", "idle"} /\ (cache = "thumb" => then = "cleaning")
  OBVIOUS
<1>3. CASE temp[k] = NoFile
  <2>1. Step(f, then) /\ UNCHANGED <<entry, temp>>
    BY <1>3 DEF RenameTemp
  <2> HIDE DEF then
  <2>2. then \in Before \cup Inside \cup {"idle", "serving"}
    BY <1>2 DEF Inside
  <2> QED
    BY <1>1, <1>2, <1>3, <2>1, <2>2, StepTyped
<1>4. CASE temp[k] # NoFile
  <2> DEFINE moved(q) == IF q.key = k /\ q.holds = "temp" THEN "entry"
                         ELSE IF q.key = k /\ q.holds = "entry" THEN "nothing" ELSE q.holds
             place(g) == IF g = f THEN then ELSE fill[g].at
             good(g) == IF g = f THEN TRUE ELSE fill[g].ok
  <2>1. /\ entry' = [entry EXCEPT ![k] = temp[k]] /\ temp' = [temp EXCEPT ![k] = NoFile]
        /\ fill' = [g \in Fills |-> [fill[g] EXCEPT !.holds = moved(fill[g]), !.at = place(g),
                                                    !.ok = good(g)]]
    BY <1>4 DEF RenameTemp
  <2>2. \A g \in Fills : /\ moved(fill[g]) \in {"nothing", "temp", "entry"}
                         /\ place(g) \in Before \cup Inside \cup {"idle", "serving"}
                         /\ good(g) \in BOOLEAN
    BY <1>2 DEF Request, Inside
  <2>3. \A g \in Fills :
          /\ fill[g].key # k => moved(fill[g]) = fill[g].holds
          /\ fill[g].key = k => moved(fill[g]) = IF fill[g].holds = "temp" THEN "entry" ELSE "nothing"
          /\ g # f => place(g) = fill[g].at
          /\ place(f) = then
    BY DEF Request
  <2> HIDE DEF moved, place, good, then, k
  <2>4. ASSUME NEW g \in Fills
        PROVE  LET n == [fill[g] EXCEPT !.holds = moved(fill[g]), !.at = place(g), !.ok = good(g)]
               IN /\ n \in Request /\ n.key = fill[g].key /\ n.range = fill[g].range
                  /\ n.src = fill[g].src /\ n.next = fill[g].next
                  /\ n.holds = moved(fill[g]) /\ n.at = place(g) /\ n.orphan = fill[g].orphan
    BY <2>2 DEF Request
  <2>5. /\ fill' \in [Fills -> Request]
        /\ \A g \in Fills : /\ fill'[g].key = fill[g].key /\ fill'[g].range = fill[g].range
                            /\ fill'[g].src = fill[g].src /\ fill'[g].next = fill[g].next
                            /\ fill'[g].holds = moved(fill[g]) /\ fill'[g].at = place(g)
                            /\ fill'[g].orphan = fill[g].orphan
    BY <2>1, <2>4
  <2> QED
    BY <1>1, <1>2, <1>4, <2>1, <2>3, <2>5 DEF k
<1> QED
  BY <1>3, <1>4

\* A removal: requests for the entry hold a file without a name.
LEMMA CleanSteps ==
  ASSUME fill \in [Fills -> Request], NEW f \in Fills, CleanTemp(f)
  PROVE  LET k == fill[f].key
         IN /\ fill[f].at = "cleaning" /\ Release
            /\ UNCHANGED <<cache, workers, source, indexed, entry, mishaps, restarted, stranded, crowded>>
            /\ temp' = [temp EXCEPT ![k] = NoFile]
            /\ fill' \in [Fills -> Request]
            /\ \A g \in Fills : /\ fill'[g].key = fill[g].key /\ fill'[g].range = fill[g].range
                                /\ fill'[g].src = fill[g].src /\ fill'[g].next = fill[g].next
                                /\ fill'[g].orphan = fill[g].orphan
            /\ fill'[f].at \in {"serving", "idle"}
            /\ \A g \in Fills \ {f} :
                 /\ fill'[g].at = fill[g].at
                 /\ fill'[g].holds = IF fill[g].key = k /\ fill[g].holds = "temp"
                                     THEN "nothing" ELSE fill[g].holds
<1> DEFINE k == fill[f].key
           new(g) == IF g = f THEN [fill[f] EXCEPT !.at = IF fill[f].ok THEN "serving" ELSE "idle"]
                     ELSE IF fill[g].key = k /\ fill[g].holds = "temp"
                          THEN [fill[g] EXCEPT !.holds = "nothing"] ELSE fill[g]
<1>1. /\ temp' = [temp EXCEPT ![k] = NoFile] /\ fill' = [g \in Fills |-> new(g)]
      /\ fill[f].at = "cleaning" /\ Release
      /\ UNCHANGED <<cache, workers, source, indexed, entry, mishaps, restarted, stranded, crowded>>
  BY DEF CleanTemp, Keep
<1>2. ASSUME NEW g \in Fills
      PROVE  /\ new(g) \in Request /\ new(g).key = fill[g].key /\ new(g).src = fill[g].src
             /\ new(g).next = fill[g].next /\ new(g).range = fill[g].range
             /\ new(g).orphan = fill[g].orphan
             /\ g # f => new(g).at = fill[g].at /\ new(g).holds =
                  IF fill[g].key = k /\ fill[g].holds = "temp" THEN "nothing" ELSE fill[g].holds
             /\ new(f).at \in {"serving", "idle"}
  BY DEF Request
<1> HIDE DEF new
<1> QED
  BY <1>1, <1>2

\* A crash: what it leaves goes on with the file it holds, if that still has a name.
Kept(f) ==
  /\ fill'[f] \in Request /\ fill'[f].orphan
  /\ fill'[f].at = fill[f].at /\ fill'[f].key = fill[f].key /\ fill'[f].range = fill[f].range
  /\ fill'[f].src = fill[f].src /\ fill'[f].next = fill[f].next
  /\ \/ fill'[f].holds = "nothing"
     \/ /\ fill'[f].holds = fill[f].holds
        /\ fill[f].holds = "temp" => temp' = temp
        /\ fill[f].holds = "entry" => entry'[fill[f].key] = entry[fill[f].key]

LEMMA RestartSteps ==
  ASSUME fill \in [Fills -> Request], entry \in [Versions -> CacheFile], CacheRestart
  PROVE  /\ UNCHANGED <<cache, workers, source, indexed, stranded, crowded>> /\ sem' = 0
         /\ fill' \in [Fills -> Request]
         /\ \A k \in Versions : /\ entry'[k] \in {NoFile, entry[k]}
                               /\ temp'[k] \in {NoFile, temp[k]}
         /\ \A f \in Fills :
              \/ fill'[f] = NoFill
              \/ cache = "thumb" /\ Kept(f) /\ fill[f].at \in {"opening", "creating", "writing"}
<1>1. PICK old \in SUBSET {k \in Versions : cache = "thumb" /\ entry[k] # NoFile},
           swept \in IF cache = "thumb" THEN BOOLEAN ELSE {FALSE},
           left \in SUBSET {f \in Fills : /\ cache = "thumb"
                                         /\ fill[f].at \in {"opening", "creating", "writing"}} :
        /\ entry' = [k \in Versions |-> IF k \in old THEN NoFile ELSE entry[k]]
        /\ temp' = IF swept THEN [k \in Versions |-> NoFile] ELSE temp
        /\ fill' = [f \in Fills |->
              IF f \in left
              THEN [fill[f] EXCEPT !.orphan = TRUE,
                      !.holds = IF \/ fill[f].holds = "temp" /\ swept
                                   \/ fill[f].holds = "entry" /\ fill[f].key \in old
                                THEN "nothing" ELSE fill[f].holds]
              ELSE NoFill]
  BY DEF CacheRestart
<1> DEFINE file(f) == IF \/ fill[f].holds = "temp" /\ swept
                         \/ fill[f].holds = "entry" /\ fill[f].key \in old
                      THEN "nothing" ELSE fill[f].holds
           new(f) == [fill[f] EXCEPT !.orphan = TRUE, !.holds = file(f)]
<1>2. ASSUME NEW f \in Fills
      PROVE  /\ new(f) \in Request /\ new(f).orphan /\ new(f).holds = file(f)
             /\ new(f).at = fill[f].at /\ new(f).key = fill[f].key /\ new(f).range = fill[f].range
             /\ new(f).src = fill[f].src /\ new(f).next = fill[f].next
  <2>1. fill[f] \in Request
    OBVIOUS
  <2>2. file(f) \in {"nothing", "temp", "entry"}
    BY <2>1 DEF Request
  <2> HIDE DEF file
  <2> QED
    BY <2>1, <2>2 DEF Request
<1>3. fill' = [f \in Fills |-> IF f \in left THEN new(f) ELSE NoFill]
  BY <1>1
<1> HIDE DEF new
<1>4. fill' \in [Fills -> Request]
  BY <1>2, <1>3, RestTyped
<1>5. ASSUME NEW f \in left PROVE Kept(f)
  <2>1. /\ f \in Fills /\ fill'[f] = new(f) /\ fill[f].key \in Versions
    BY <1>3 DEF Request
  <2>2. fill[f].holds = "temp" /\ ~ swept => temp' = temp
    BY <1>1
  <2>3. fill[f].holds = "entry" /\ fill[f].key \notin old => entry'[fill[f].key] = entry[fill[f].key]
    BY <1>1, <2>1
  <2> QED
    BY <1>2, <2>1, <2>2, <2>3 DEF Kept
<1>6. ASSUME NEW k \in Versions PROVE entry'[k] \in {NoFile, entry[k]} /\ temp'[k] \in {NoFile, temp[k]}
  BY <1>1
<1>7. ASSUME NEW f \in Fills
      PROVE  \/ fill'[f] = NoFill
             \/ cache = "thumb" /\ Kept(f) /\ fill[f].at \in {"opening", "creating", "writing"}
  <2>1. CASE f \in left
    BY <1>5, <2>1
  <2>2. CASE f \notin left
    <3>1. fill'[f] = IF f \in left THEN new(f) ELSE NoFill
      BY <1>3
    <3> QED
      BY <2>2, <3>1
  <2> QED
    BY <2>1, <2>2
<1>8. UNCHANGED <<cache, workers, source, indexed, stranded, crowded>> /\ sem' = 0
  BY DEF CacheRestart
<1> QED
  BY <1>4, <1>6, <1>7, <1>8

LEMMA FilesInit == CacheInit => FilesTyped
BY RestTyped, CacheAssumption DEF CacheInit, FilesTyped, Writer, Before, CacheFile

\* One step per action.
LEMMA FilesNext == FilesTyped /\ [CacheNext]_cacheVars => FilesTyped'
<1> SUFFICES ASSUME FilesTyped, [CacheNext]_cacheVars PROVE FilesTyped'
  OBVIOUS
<1> USE DEF FilesTyped, Keep
<1>1. ASSUME NEW f \in Fills, AskEntry(f) PROVE FilesTyped'
  <2> DEFINE new == [NoFill EXCEPT !.at = "looking", !.key = KeyOf(source), !.range = indexed]
  <2>1. new \in Request /\ new.next = 1 /\ new.holds = "nothing" /\ new.at = "looking"
       /\ new.orphan = FALSE
    BY RestTyped DEF KeyOf, Request, Before
  <2>2. fill' = [fill EXCEPT ![f] = new]
    BY <1>1 DEF AskEntry
  <2> QED
    BY <1>1, <2>1, <2>2 DEF AskEntry, Writer
<1>2. ASSUME NEW f \in Fills, LookUp(f) PROVE FilesTyped'
  <2>1. PICK place \in {"serving", "waiting", "opening"} : Step(f, place)
    BY <1>2 DEF LookUp
  <2> QED
    BY <1>2, <2>1, StepTyped DEF LookUp, Writer, Before, Inside
<1>3. ASSUME NEW f \in Fills, Acquire(f) \/ Cancel(f) PROVE FilesTyped'
  <2>1. PICK place \in {"rechecking", "idle"} : Step(f, place)
    BY <1>3 DEF Acquire, Cancel
  <2> QED
    BY <1>3, <2>1, StepTyped DEF Acquire, Cancel, Writer, Before, Inside
<1>4. ASSUME NEW f \in Fills, Recheck(f) PROVE FilesTyped'
  <2>1. PICK place \in {"serving", "opening"} : Step(f, place)
    BY <1>4 DEF Recheck
  <2> QED
    BY <1>4, <2>1, StepTyped DEF Recheck, Writer, Before, Inside
<1>5. ASSUME NEW f \in Fills, OpenSource(f) PROVE FilesTyped'
  <2> DEFINE new == [fill[f] EXCEPT !.at = "creating", !.src = source]
  <2>1. /\ new \in Request /\ new.at = "creating" /\ new.next = fill[f].next
        /\ new.holds = fill[f].holds /\ new.src \in Versions /\ new.orphan = fill[f].orphan
    BY DEF Request, Before
  <2>2. fill' = [fill EXCEPT ![f] = new]
    BY <1>5 DEF OpenSource
  <2> QED
    BY <1>5, <2>1, <2>2 DEF OpenSource, Writer, Before
<1>6. ASSUME NEW f \in Fills, CreateTemp(f) PROVE FilesTyped'
  <2> DEFINE new == [fill[f] EXCEPT !.at = "writing", !.holds = "temp"]
             k == fill[f].key
  <2>1. /\ new \in Request /\ new.at = "writing" /\ new.key = k /\ k \in Versions
        /\ new.holds = "temp" /\ new.src = fill[f].src /\ new.orphan = fill[f].orphan
    BY DEF Request, Inside
  <2>2. /\ fill' = [fill EXCEPT ![f] = new]
        /\ temp' = [temp EXCEPT ![k] = EmptyFile] /\ entry' = entry
    BY <1>6 DEF CreateTemp
  <2>3. temp' \in [Versions -> CacheFile] /\ \A v \in Versions : temp[v] # NoFile => temp'[v] # NoFile
    BY <2>1, <2>2, FileKinds DEF CacheFile
  <2>4. temp'[k] # NoFile
    BY <2>1, <2>2, FileKinds
  <2>5. \A g \in Fills : Writer(g)'
    BY <1>6, <2>1, <2>2, <2>3, <2>4 DEF CreateTemp, Writer, Before, Request
  <2> QED
    BY <1>6, <2>1, <2>2, <2>3, <2>5 DEF CreateTemp
<1>7. ASSUME NEW f \in Fills, WriteHalf(f) PROVE FilesTyped'
  <2> DEFINE q == fill[f]
  <2>1. /\ Mark(f) \in Half /\ q.key \in Versions /\ q.next \in 1 .. 2 /\ q.src \in Versions
        /\ q.at = "writing"
    BY <1>7 DEF WriteHalf, Half, Writer, Request, Mark
  <2>2. ASSUME NEW files \in [Versions -> CacheFile], files[q.key] # NoFile
        PROVE  LET put == [files EXCEPT ![q.key] = [files[q.key] EXCEPT ![q.next] = Mark(f)]]
               IN /\ put \in [Versions -> CacheFile]
                  /\ \A v \in Versions : files[v] # NoFile => put[v] # NoFile
    <3>1. [files[q.key] EXCEPT ![q.next] = Mark(f)] \in Half \X Half
      BY <2>1, <2>2, HalfPut, FileKinds
    <3>2. [files[q.key] EXCEPT ![q.next] = Mark(f)] \in CacheFile \ {NoFile}
      BY <3>1, FileKinds DEF CacheFile
    <3> QED
      BY <2>1, <3>2
  <2>3. /\ q.holds = "temp" => temp[q.key] # NoFile
        /\ q.holds = "entry" => entry[q.key] # NoFile
    BY <2>1 DEF Writer
  <2>4. /\ temp' \in [Versions -> CacheFile] /\ entry' \in [Versions -> CacheFile]
        /\ \A v \in Versions : /\ temp[v] # NoFile => temp'[v] # NoFile
                               /\ entry[v] # NoFile => entry'[v] # NoFile
    <3>1. /\ temp' = IF q.holds = "temp"
                     THEN [temp EXCEPT ![q.key] = [temp[q.key] EXCEPT ![q.next] = Mark(f)]] ELSE temp
          /\ entry' = IF q.holds = "entry"
                      THEN [entry EXCEPT ![q.key] = [entry[q.key] EXCEPT ![q.next] = Mark(f)]] ELSE entry
      BY <1>7, WriteSteps
    <3>2. temp' \in [Versions -> CacheFile] /\ \A v \in Versions : temp[v] # NoFile => temp'[v] # NoFile
      BY <2>2, <2>3, <3>1
    <3>3. entry' \in [Versions -> CacheFile] /\ \A v \in Versions : entry[v] # NoFile => entry'[v] # NoFile
      BY <2>2, <2>3, <3>1
    <3> QED
      BY <3>2, <3>3
  <2>5. ASSUME NEW g \in Fills \ {f} PROVE Writer(g)'
    <3>1. fill'[g] = fill[g] /\ Writer(g) /\ fill[g].key \in Versions /\ cache' = cache
      BY <1>7, WriteSteps DEF Request
    <3> QED
      BY <2>4, <3>1 DEF Writer
  <2>6. Writer(f)'
    <3>1. fill'[f].at \in {"writing", "renaming"} /\ fill'[f].src \in Versions
      BY <1>7, <2>1, WriteSteps
    <3>2. fill'[f].holds = q.holds /\ fill'[f].key = q.key /\ fill'[f].orphan = q.orphan
          /\ (q.orphan => cache' = "thumb")
      BY <1>7, WriteSteps DEF Writer
    <3> QED
      BY <2>1, <2>3, <2>4, <3>1, <3>2 DEF Writer, Before
  <2> QED
    BY <1>7, <2>4, <2>5, <2>6, WriteSteps
<1>8. ASSUME NEW f \in Fills, GiveUp(f) PROVE FilesTyped'
  <2>1. PICK place \in {"cleaning", "idle"} : Step(f, place) /\ stranded' \subseteq Versions
    BY <1>8 DEF GiveUp, Request
  <2> QED
    BY <1>8, <2>1, StepTyped DEF GiveUp, Writer, Before, Inside
<1>9. ASSUME NEW f \in Fills, RenameTemp(f) PROVE FilesTyped'
  <2>1. fill[f].key \in Versions
    BY DEF Request
  <2>2. entry' \in [Versions -> CacheFile] /\ temp' \in [Versions -> CacheFile]
    BY <1>9, <2>1, RenameSteps DEF CacheFile
  <2>3. ASSUME NEW g \in Fills PROVE Writer(g)'
    <3>1. Writer(g) /\ fill[g].key \in Versions
      BY DEF Request
    <3>2. g = f => fill'[g].at \notin Before \cup {"writing", "renaming"}
      BY <1>9, RenameSteps DEF Before
    <3>3. /\ fill'[g].at \in Before => fill'[g].next = 1 /\ fill'[g].holds = "nothing"
          /\ fill'[g].at \in {"creating", "writing", "renaming"} => fill'[g].src \in Versions
      BY <1>9, <3>1, <3>2, RenameSteps DEF Writer, Before
    <3>4. fill'[g].at = "writing" =>
             /\ fill'[g].holds = "temp" => temp'[fill'[g].key] # NoFile
             /\ fill'[g].holds = "entry" => entry'[fill'[g].key] # NoFile
      BY <1>9, <2>1, <3>1, <3>2, RenameSteps DEF Writer
    <3>5. fill'[g].orphan => /\ cache' = "thumb"
                             /\ fill'[g].at \in {"opening", "creating", "writing", "renaming"}
      BY <1>9, <3>1, RenameSteps DEF Writer
    <3> QED
      BY <3>3, <3>4, <3>5 DEF Writer
  <2> QED
    BY <1>9, <2>2, <2>3, RenameSteps
<1>10. ASSUME NEW f \in Fills, CleanTemp(f) PROVE FilesTyped'
  <2>1. temp' \in [Versions -> CacheFile]
    BY <1>10, CleanSteps DEF CacheFile
  <2>2. ASSUME NEW g \in Fills PROVE Writer(g)'
    <3>1. Writer(g) /\ fill[g].key \in Versions /\ fill[f].key \in Versions
      BY DEF Request
    <3>2. CASE g = f
      BY <1>10, <3>2, CleanSteps DEF Writer, Before
    <3>3. CASE g # f
      BY <1>10, <3>1, <3>3, CleanSteps DEF Writer, Before
    <3> QED
      BY <3>2, <3>3
  <2> QED
    BY <1>10, <2>1, <2>2, CleanSteps
<1>11. ASSUME NEW f \in Fills, Serve(f) PROVE FilesTyped'
  BY <1>11, RestTyped DEF Serve, Writer, Before
<1>15. ASSUME NEW f \in Fills, OrphanEnds(f) PROVE FilesTyped'
  BY <1>15, RestTyped DEF OrphanEnds, Writer, Before
<1>12. CASE Replace \/ IndexSource
  <2>1. MaxVersion \in Nat
    BY CacheAssumption
  <2>2. source' \in Versions /\ indexed' \in Versions
    BY <1>12, <2>1 DEF Replace, IndexSource, Versions
  <2> QED
    BY <1>12, <2>2 DEF Replace, IndexSource, Writer
<1>13. CASE CacheRestart
  <2>1. entry' \in [Versions -> CacheFile] /\ temp' \in [Versions -> CacheFile]
    BY <1>13 DEF CacheRestart, CacheFile
  <2>2. fill' \in [Fills -> Request] /\ \A f \in Fills : Writer(f)'
    <3>1. ASSUME NEW f \in Fills PROVE fill'[f] \in Request /\ Writer(f)'
      <4>1. CASE fill'[f] = NoFill
        BY <4>1, RestTyped DEF Writer, Before
      <4>2. CASE fill'[f] # NoFill
        <5>1. /\ cache' = "thumb" /\ cache = "thumb" /\ Kept(f)
              /\ fill[f].at \in {"opening", "creating", "writing", "renaming"}
          BY <1>13, <4>2, RestartSteps
        <5>2. Writer(f) /\ fill[f] \in Request /\ fill[f].key \in Versions
          BY DEF Request
        <5> QED
          BY <5>1, <5>2 DEF Kept, Writer, Before
      <4> QED
        BY <4>1, <4>2
    <3> QED
      BY <1>13, <3>1, RestartSteps
  <2> QED
    BY <1>13, <2>1, <2>2 DEF CacheRestart
<1>14. CASE UNCHANGED cacheVars
  BY <1>14 DEF cacheVars, Writer
<1> QED
  BY <1>1, <1>2, <1>3, <1>4, <1>5, <1>6, <1>7, <1>8, <1>9, <1>10, <1>11, <1>12, <1>13, <1>14, <1>15
  DEF CacheNext, FillStep

\* What a step does to the goroutines that hold a token.
LEMMA TokenCount ==
  ASSUME Tokens, workers \in Nat, UNCHANGED workers,
         \/ TokenHolders' = TokenHolders /\ sem' = sem
         \/ \E f \in Fills \ TokenHolders : TokenHolders' = TokenHolders \cup {f} /\ sem < workers /\ sem' = sem + 1
         \/ \E f \in TokenHolders : TokenHolders' = TokenHolders \ {f} /\ sem' = sem - 1,
         (\A f \in Fills : fill[f].at = "waiting" => cache = "thumb")'
  PROVE  Tokens'
<1> USE DEF Tokens
<1>1. sem \in Nat
  BY FS_CardinalityType
<1>2. CASE TokenHolders' = TokenHolders /\ sem' = sem
  BY <1>2
<1>3. ASSUME NEW f \in Fills \ TokenHolders, TokenHolders' = TokenHolders \cup {f}, sem < workers, sem' = sem + 1
      PROVE  Tokens'
  <2>1. IsFiniteSet(TokenHolders') /\ Cardinality(TokenHolders') = Cardinality(TokenHolders) + 1
    BY <1>3, FS_AddElement
  <2> QED
    BY <1>1, <1>3, <2>1
<1>4. ASSUME NEW f \in TokenHolders, TokenHolders' = TokenHolders \ {f}, sem' = sem - 1 PROVE Tokens'
  <2>1. IsFiniteSet(TokenHolders') /\ Cardinality(TokenHolders') = Cardinality(TokenHolders) - 1
    BY <1>4, FS_RemoveElement
  <2> QED
    BY <1>1, <1>4, <2>1
<1> QED
  BY <1>2, <1>3, <1>4

LEMMA TokensInit == CacheInit => Tokens
<1> SUFFICES ASSUME CacheInit PROVE Tokens
  OBVIOUS
<1>1. TokenHolders = {}
  BY RestTyped DEF CacheInit, TokenHolders, Inside
<1>2. IsFiniteSet({}) /\ Cardinality({}) = 0
  BY FS_EmptySet
<1>3. 0 <= workers
  BY CacheAssumption DEF CacheInit
<1> QED
  BY <1>1, <1>2, <1>3, RestTyped DEF CacheInit, Tokens

\* One step per action.
LEMMA TokensNext == FilesTyped /\ Tokens /\ [CacheNext]_cacheVars => Tokens'
<1> SUFFICES ASSUME FilesTyped, Tokens, [CacheNext]_cacheVars PROVE Tokens'
  OBVIOUS
<1> USE DEF Keep
<1>a. workers \in Nat /\ fill \in [Fills -> Request]
  BY DEF FilesTyped
<1>e. /\ \A f \in Fills : fill[f].orphan =>
             fill[f].at \in {"opening", "creating", "writing", "renaming"}
      /\ NoFill.orphan = FALSE /\ \A f \in Fills : fill[f].orphan \in BOOLEAN
  BY <1>a, RestTyped DEF FilesTyped, Writer, Request
<1>b. \A f \in Fills : fill[f].at = "waiting" => cache = "thumb"
  BY DEF Tokens
<1>c. ASSUME NEW f \in Fills, UNCHANGED <<cache, workers, sem>>,
             \A g \in Fills \ {f} : fill'[g].at = fill[g].at,
             \A g \in Fills : fill'[g].orphan = fill[g].orphan,
             cache = "thumb" => (fill[f].at \in Inside <=> fill'[f].at \in Inside),
             fill'[f].at = "waiting" => cache = "thumb"
      PROVE  Tokens'
  <2>1. TokenHolders' = TokenHolders
    BY <1>c DEF TokenHolders
  <2> QED
    BY <1>a, <1>b, <1>c, <2>1, TokenCount
<1>1. ASSUME NEW f \in Fills, AskEntry(f) PROVE Tokens'
  <2>1. fill'[f].at = "looking" /\ fill[f].at = "idle" /\ fill'[f].orphan = fill[f].orphan
    BY <1>1, <1>a, <1>e, RestTyped DEF AskEntry, Request
  <2>2. UNCHANGED <<cache, workers, sem>> /\ \A g \in Fills \ {f} : fill'[g] = fill[g]
    BY <1>1, <1>a DEF AskEntry
  <2> QED
    BY <1>c, <2>1, <2>2 DEF Inside
<1>2. ASSUME NEW f \in Fills, LookUp(f) PROVE Tokens'
  <2>1. PICK place \in {"serving", "waiting", "opening"} :
          /\ Step(f, place) /\ UNCHANGED <<cache, workers, sem>> /\ fill[f].at = "looking"
          /\ cache = "thumb" => place # "opening"
          /\ cache # "thumb" => place # "waiting"
    BY <1>2 DEF LookUp
  <2> QED
    BY <1>a, <1>c, <2>1, StepTyped DEF Before, Inside
<1>3. ASSUME NEW f \in Fills, Acquire(f) PROVE Tokens'
  <2>1. /\ fill[f].at = "waiting" /\ cache = "thumb" /\ sem < workers /\ sem' = sem + 1
        /\ UNCHANGED <<cache, workers>>
    BY <1>3, <1>b DEF Acquire
  <2>2. fill'[f].at = "rechecking" /\ ~ fill'[f].orphan /\ \A g \in Fills \ {f} : fill'[g] = fill[g]
    BY <1>3, <1>a, <1>e, <2>1, StepTyped DEF Acquire, Before
  <2>3. f \notin TokenHolders /\ TokenHolders' = TokenHolders \cup {f}
    BY <2>1, <2>2 DEF TokenHolders, Inside
  <2> QED
    BY <1>a, <1>b, <2>1, <2>2, <2>3, TokenCount
<1>4. ASSUME NEW f \in Fills, Cancel(f) PROVE Tokens'
  <2>1. /\ fill[f].at = "waiting" /\ fill'[f].at = "idle" /\ UNCHANGED <<cache, workers, sem>>
        /\ fill'[f].orphan = fill[f].orphan
        /\ \A g \in Fills \ {f} : fill'[g] = fill[g]
    BY <1>4, <1>a, StepTyped DEF Cancel
  <2> QED
    BY <1>c, <2>1 DEF Inside
<1>d. ASSUME NEW f \in Fills, fill[f].at \in Inside, fill'[f].at \in {"serving", "idle"}, Release,
             UNCHANGED <<cache, workers>>, \A g \in Fills \ {f} : fill'[g].at = fill[g].at,
             ~ fill[f].orphan, \A g \in Fills : fill'[g].orphan = fill[g].orphan
      PROVE  Tokens'
  <2>1. CASE cache = "thumb"
    <3>1. f \in TokenHolders /\ TokenHolders' = TokenHolders \ {f} /\ sem' = sem - 1
      BY <1>d, <2>1 DEF TokenHolders, Inside, Release
    <3> QED
      BY <1>a, <1>b, <1>d, <3>1, TokenCount
  <2>2. CASE cache # "thumb"
    <3>1. UNCHANGED sem /\ fill'[f].at # "waiting"
      BY <1>d, <2>2 DEF Release
    <3> QED
      BY <1>c, <1>d, <2>2, <3>1
  <2> QED
    BY <2>1, <2>2
<1>5. ASSUME NEW f \in Fills, Recheck(f) PROVE Tokens'
  <2>1. fill[f].at = "rechecking" /\ UNCHANGED <<cache, workers>>
    BY <1>5 DEF Recheck
  <2>2. CASE Step(f, "serving") /\ Release
    BY <1>a, <1>d, <1>e, <2>1, <2>2, StepTyped DEF Inside
  <2>3. CASE Step(f, "opening") /\ UNCHANGED sem
    BY <1>a, <1>c, <2>1, <2>3, StepTyped DEF Inside
  <2> QED
    BY <1>5, <2>2, <2>3 DEF Recheck
<1>6. ASSUME NEW f \in Fills, OpenSource(f) PROVE Tokens'
  <2>1. /\ fill[f].at = "opening" /\ fill'[f].at = "creating" /\ UNCHANGED <<cache, workers, sem>>
        /\ fill'[f].orphan = fill[f].orphan
        /\ \A g \in Fills \ {f} : fill'[g] = fill[g]
    BY <1>6, <1>a DEF OpenSource, Request
  <2> QED
    BY <1>c, <2>1 DEF Inside
<1>7. ASSUME NEW f \in Fills, CreateTemp(f) \/ WriteHalf(f) PROVE Tokens'
  <2>1. /\ fill[f].at \in {"creating", "writing"} /\ fill'[f].at \in {"writing", "renaming"}
        /\ UNCHANGED <<cache, workers, sem>> /\ fill'[f].orphan = fill[f].orphan
        /\ \A g \in Fills \ {f} : fill'[g] = fill[g]
    BY <1>7, <1>a DEF CreateTemp, WriteHalf, Request
  <2> QED
    BY <1>c, <2>1 DEF Inside
<1>8. ASSUME NEW f \in Fills, GiveUp(f) PROVE Tokens'
  <2>1. PICK place \in {"cleaning", "idle"} :
          /\ Step(f, place) /\ UNCHANGED <<cache, workers, sem>>
          /\ fill[f].at \in {"creating", "writing", "renaming"}
          /\ (cache = "thumb" => place = "cleaning")
    BY <1>8 DEF GiveUp
  <2> QED
    BY <1>a, <1>c, <2>1, StepTyped DEF Inside
<1>9. ASSUME NEW f \in Fills, RenameTemp(f) PROVE Tokens'
  BY <1>9, <1>a, <1>c, RenameSteps DEF Inside
<1>10. ASSUME NEW f \in Fills, CleanTemp(f) PROVE Tokens'
  BY <1>10, <1>a, <1>d, <1>e, CleanSteps DEF Inside
<1>11. ASSUME NEW f \in Fills, Serve(f) PROVE Tokens'
  <2>1. /\ fill[f].at = "serving" /\ fill'[f].at = "idle" /\ UNCHANGED <<cache, workers, sem>>
        /\ fill'[f].orphan = fill[f].orphan
        /\ \A g \in Fills \ {f} : fill'[g] = fill[g]
    BY <1>11, <1>a, <1>e, RestTyped DEF Serve
  <2> QED
    BY <1>c, <2>1 DEF Inside
<1>14. ASSUME NEW f \in Fills, OrphanEnds(f) PROVE Tokens'
  <2>1. /\ fill[f].orphan /\ ~ fill'[f].orphan /\ fill'[f].at = "idle"
        /\ UNCHANGED <<cache, workers, sem>>
        /\ \A g \in Fills \ {f} : fill'[g] = fill[g]
    BY <1>14, <1>a, <1>e, RestTyped DEF OrphanEnds
  <2>2. TokenHolders' = TokenHolders
    BY <2>1 DEF TokenHolders, Inside
  <2> QED
    BY <1>a, <1>b, <2>1, <2>2, TokenCount
<1>12. CASE Replace \/ IndexSource \/ UNCHANGED cacheVars
  <2>1. UNCHANGED <<cache, workers, sem, fill>>
    BY <1>12 DEF Replace, IndexSource, cacheVars
  <2> QED
    BY <2>1 DEF Tokens, TokenHolders
<1>13. CASE CacheRestart
  <2>1. /\ sem' = 0 /\ UNCHANGED <<cache, workers>>
        /\ \A f \in Fills : fill'[f] = NoFill \/ (Kept(f) /\ fill[f].at # "waiting")
    BY <1>13, RestartSteps DEF FilesTyped
  <2>2. TokenHolders' = {} /\ \A f \in Fills : fill'[f].at # "waiting"
    BY <2>1, RestTyped DEF TokenHolders, Inside, Kept
  <2>3. IsFiniteSet({}) /\ Cardinality({}) = 0
    BY FS_EmptySet
  <2> QED
    BY <1>a, <2>1, <2>2, <2>3 DEF Tokens
<1> QED
  BY <1>1, <1>2, <1>3, <1>4, <1>5, <1>6, <1>7, <1>8, <1>9, <1>10, <1>11, <1>12, <1>13, <1>14
  DEF CacheNext, FillStep

LEMMA CacheInvariant == CacheSpec => []CacheInv
<1>1. CacheInit => CacheInv
  BY FilesInit, TokensInit DEF CacheInv
<1>2. CacheInv /\ [CacheNext]_cacheVars => CacheInv'
  BY FilesNext, TokensNext DEF CacheInv
<1> QED
  BY <1>1, <1>2, PTL DEF CacheSpec

\* Every file of a cache is nothing or two halves of versions, and the semaphore holds one token
\* for each goroutine that generates, never more than its capacity.
THEOREM CacheTypeCorrect == CacheSpec => []CacheTypeOK
<1>1. CacheInv => CacheTypeOK
  BY DEF CacheInv, FilesTyped, Tokens, Request, CacheTypeOK, TokenHolders, Inside
<1> QED
  BY <1>1, CacheInvariant, PTL

----------------------------------------------------------------------------
(* The caches: NeverOlder                                                  *)

Reading == {"creating", "writing", "renaming"}

\* A request asks under the modification time of a source that is not newer than what it
\* will read, and nothing is newer than the source.
Sources ==
  cache # "crop" =>
    \A f \in Fills : /\ fill[f].key <= source
                     /\ fill[f].at \in Reading => /\ fill[f].key <= fill[f].src
                                                  /\ fill[f].src <= source

LEMMA VersionsAreNat == Versions \subseteq Nat /\ MaxVersion \in Nat
BY CacheAssumption DEF Versions

LEMMA SourcesInit == CacheInit => Sources
BY RestTyped DEF CacheInit, Sources, Reading

\* One step per action; most of them only move a request on.
LEMMA SourcesNext == FilesTyped /\ Sources /\ [CacheNext]_cacheVars => Sources'
<1> SUFFICES ASSUME FilesTyped, Sources, [CacheNext]_cacheVars PROVE Sources'
  OBVIOUS
<1> USE DEF Keep
<1>a. /\ fill \in [Fills -> Request] /\ source \in Nat
      /\ \A f \in Fills : fill[f].key \in Nat /\ fill[f].src \in Nat
  <2>1. fill \in [Fills -> Request] /\ source \in Nat
    BY VersionsAreNat DEF FilesTyped
  <2>2. ASSUME NEW f \in Fills PROVE fill[f].key \in Nat /\ fill[f].src \in Nat
    <3>1. fill[f].key \in Versions /\ fill[f].src \in {0} \cup Versions
      BY <2>1 DEF Request
    <3>2. \A v \in Versions : v \in Nat
      BY VersionsAreNat
    <3> QED
      BY <3>1, <3>2
  <2> QED
    BY <2>1, <2>2
<1>b. ASSUME UNCHANGED <<cache, source>>,
             \A f \in Fills : /\ fill'[f].key = fill[f].key /\ fill'[f].src = fill[f].src
                              /\ fill'[f].at \in Reading => fill[f].at \in Reading
      PROVE  Sources'
  BY <1>b DEF Sources
<1>1. ASSUME NEW f \in Fills, AskEntry(f) PROVE Sources'
  <2> DEFINE new == [NoFill EXCEPT !.at = "looking", !.key = KeyOf(source), !.range = indexed]
  <2>1. new.at = "looking" /\ new.key = KeyOf(source)
    BY DEF NoFill
  <2>2. fill' = [fill EXCEPT ![f] = new] /\ UNCHANGED <<cache, source>>
    BY <1>1 DEF AskEntry
  <2> QED
    BY <1>a, <2>1, <2>2 DEF Sources, Reading, KeyOf
<1>c. ASSUME NEW f \in Fills, NEW place \in (Before \cup Inside \cup {"idle", "serving"}) \ Reading,
             Step(f, place), UNCHANGED <<cache, source>>
      PROVE  Sources'
  BY <1>a, <1>b, <1>c, StepTyped
<1>2. ASSUME NEW f \in Fills, LookUp(f) PROVE Sources'
  <2>1. PICK place \in {"serving", "waiting", "opening"} : Step(f, place) /\ UNCHANGED <<cache, source>>
    BY <1>2 DEF LookUp
  <2> QED
    BY <1>c, <2>1 DEF Before, Reading
<1>3. ASSUME NEW f \in Fills, Acquire(f) \/ Cancel(f) \/ Recheck(f) PROVE Sources'
  <2>1. PICK place \in {"rechecking", "idle", "serving", "opening"} :
          Step(f, place) /\ UNCHANGED <<cache, source>>
    BY <1>3 DEF Acquire, Cancel, Recheck
  <2> QED
    BY <1>c, <2>1 DEF Before, Reading
<1>4. ASSUME NEW f \in Fills, OpenSource(f) PROVE Sources'
  <2>1. /\ fill' = [fill EXCEPT ![f] = [fill[f] EXCEPT !.at = "creating", !.src = source]]
        /\ UNCHANGED <<cache, source>>
    BY <1>4 DEF OpenSource
  <2>2. /\ \A g \in Fills \ {f} : fill'[g] = fill[g]
        /\ fill'[f].key = fill[f].key /\ fill'[f].src = source
    BY <1>a, <2>1 DEF Request
  <2> QED
    BY <1>a, <2>1, <2>2 DEF Sources
<1>5. ASSUME NEW f \in Fills, CreateTemp(f) PROVE Sources'
  <2>1. /\ fill' = [fill EXCEPT ![f] = [fill[f] EXCEPT !.at = "writing", !.holds = "temp"]]
        /\ UNCHANGED <<cache, source>> /\ fill[f].at = "creating"
    BY <1>5 DEF CreateTemp
  <2>2. /\ \A g \in Fills \ {f} : fill'[g] = fill[g]
        /\ fill'[f].key = fill[f].key /\ fill'[f].src = fill[f].src
    BY <1>a, <2>1 DEF Request
  <2> QED
    BY <1>b, <2>1, <2>2 DEF Reading
<1>6. ASSUME NEW f \in Fills, WriteHalf(f) PROVE Sources'
  BY <1>a, <1>b, <1>6, WriteSteps DEF Reading
<1>7. ASSUME NEW f \in Fills, GiveUp(f) PROVE Sources'
  <2>1. PICK place \in {"cleaning", "idle"} : Step(f, place) /\ UNCHANGED <<cache, source>>
    BY <1>7 DEF GiveUp
  <2> QED
    BY <1>c, <2>1 DEF Inside, Reading
<1>8. ASSUME NEW f \in Fills, RenameTemp(f) PROVE Sources'
  BY <1>a, <1>b, <1>8, RenameSteps DEF Reading
<1>9. ASSUME NEW f \in Fills, CleanTemp(f) PROVE Sources'
  BY <1>a, <1>b, <1>9, CleanSteps DEF Reading
<1>10. ASSUME NEW f \in Fills, Serve(f) PROVE Sources'
  <2>1. source \in 1 .. MaxVersion
    BY DEF FilesTyped, Versions
  <2> QED
    BY <1>a, <1>10, <2>1, VersionsAreNat, RestTyped DEF Serve, Sources, Reading
<1>11. CASE Replace
  <2>1. UNCHANGED <<cache, fill>> /\ source' = source + 1
    BY <1>11 DEF Replace
  <2> QED
    BY <1>a, <2>1 DEF Sources
<1>12. CASE IndexSource \/ UNCHANGED cacheVars
  BY <1>b, <1>12 DEF IndexSource, cacheVars
<1>13. CASE CacheRestart
  <2>1. source \in 1 .. MaxVersion /\ UNCHANGED <<cache, source>>
    BY <1>13 DEF CacheRestart, FilesTyped, Versions
  <2>2. \A f \in Fills : fill'[f] = NoFill \/ Kept(f)
    BY <1>13, RestartSteps DEF FilesTyped
  <2> QED
    BY <1>a, <2>1, <2>2, VersionsAreNat, RestTyped DEF Kept, Sources, Reading
<1>14. ASSUME NEW f \in Fills, OrphanEnds(f) PROVE Sources'
  <2>1. source \in 1 .. MaxVersion
    BY DEF FilesTyped, Versions
  <2> QED
    BY <1>a, <1>14, <2>1, VersionsAreNat, RestTyped DEF OrphanEnds, Sources, Reading
<1> QED
  BY <1>1, <1>2, <1>3, <1>4, <1>5, <1>6, <1>7, <1>8, <1>9, <1>10, <1>11, <1>12, <1>13, <1>14
  DEF CacheNext, FillStep

\* What NeverOlder says of one file.
NotOlder(file, k) == file # NoFile => \A i \in 1 .. 2 : file[i] = Blank \/ file[i][1] >= k

LEMMA NeverOlderFiles ==
  NeverOlder <=> (cache # "crop" => \A k \in Versions : NotOlder(entry[k], k) /\ NotOlder(temp[k], k))
BY DEF NeverOlder, NotOlder

\* A behaviour follows one cache.
LEMMA SameCache == [CacheNext]_cacheVars => cache' = cache
<1>1. ASSUME NEW f \in Fills, AskEntry(f) \/ Cancel(f) \/ LookUp(f) \/ Acquire(f) \/ Recheck(f)
      PROVE  cache' = cache
  BY <1>1 DEF AskEntry, Cancel, LookUp, Acquire, Recheck, Keep
<1>2. ASSUME NEW f \in Fills,
             \/ OpenSource(f) \/ CreateTemp(f) \/ GiveUp(f) \/ CleanTemp(f) \/ Serve(f) \/ OrphanEnds(f)
      PROVE  cache' = cache
  BY <1>2 DEF OpenSource, CreateTemp, GiveUp, CleanTemp, Serve, OrphanEnds, Keep
<1>3. ASSUME NEW f \in Fills, WriteHalf(f) \/ RenameTemp(f)
      PROVE  cache' = cache
  BY <1>3 DEF WriteHalf, RenameTemp, Keep
<1>4. CASE Replace \/ IndexSource \/ CacheRestart \/ UNCHANGED cacheVars
  BY <1>4 DEF Replace, IndexSource, CacheRestart, cacheVars
<1> QED
  BY <1>1, <1>2, <1>3, <1>4 DEF CacheNext, FillStep

LEMMA NeverOlderNext ==
  FilesTyped /\ Sources /\ NeverOlder /\ [CacheNext]_cacheVars => NeverOlder'
<1> SUFFICES ASSUME FilesTyped, Sources, NeverOlder, [CacheNext]_cacheVars, cache # "crop"
             PROVE  \A k \in Versions : NotOlder(entry'[k], k) /\ NotOlder(temp'[k], k)
  <2>1. CASE cache = "crop"
    BY <2>1, SameCache DEF NeverOlder
  <2>2. CASE cache # "crop"
    BY <2>2 DEF NeverOlder, NotOlder
  <2> QED
    BY <2>1, <2>2
<1> DEFINE Old == \A k \in Versions : NotOlder(entry'[k], k) /\ NotOlder(temp'[k], k)
<1>a. \A k \in Versions : NotOlder(entry[k], k) /\ NotOlder(temp[k], k)
  BY NeverOlderFiles
<1>b. /\ fill \in [Fills -> Request] /\ \A f \in Fills : fill[f].key \in Versions
      /\ entry \in [Versions -> CacheFile] /\ temp \in [Versions -> CacheFile]
  BY DEF FilesTyped, Request
<1>c. NotOlder(NoFile, 1) /\ \A k \in Versions : NotOlder(NoFile, k) /\ NotOlder(EmptyFile, k)
  BY DEF NotOlder, NoFile, EmptyFile
<1>1. CASE UNCHANGED <<entry, temp>>
  BY <1>a, <1>1
<1>2. ASSUME NEW f \in Fills, CreateTemp(f) PROVE Old
  BY <1>a, <1>b, <1>c, <1>2 DEF CreateTemp, Keep
<1>3. ASSUME NEW f \in Fills, WriteHalf(f) PROVE Old
  <2> DEFINE q == fill[f]
  <2>1. Mark(f) \in Half /\ q.next \in 1 .. 2 /\ Mark(f)[1] >= q.key /\ q.key \in Versions
    <3>1. /\ q.at = "writing" /\ q.src \in Versions /\ q.next \in 1 .. 2 /\ q.range \in Versions
          /\ q.key \in Versions
      BY <1>3 DEF WriteHalf, FilesTyped, Writer, Request
    <3>2. q.key <= q.src
      BY <3>1 DEF Sources, Reading
    <3> QED
      BY <3>1, <3>2, VersionsAreNat DEF Mark, Half
  <2>2. ASSUME NEW file \in CacheFile \ {NoFile}, NotOlder(file, q.key)
        PROVE  NotOlder([file EXCEPT ![q.next] = Mark(f)], q.key)
    <3>1. file \in Half \X Half
      BY FileKinds
    <3> QED
      BY <2>1, <2>2, <3>1, HalfPut DEF NotOlder
  <2>3. /\ q.holds = "temp" => temp[q.key] # NoFile
        /\ q.holds = "entry" => entry[q.key] # NoFile
    BY <1>3 DEF WriteHalf, FilesTyped, Writer
  <2>4. /\ temp' = IF q.holds = "temp"
                   THEN [temp EXCEPT ![q.key] = [temp[q.key] EXCEPT ![q.next] = Mark(f)]] ELSE temp
        /\ entry' = IF q.holds = "entry"
                    THEN [entry EXCEPT ![q.key] = [entry[q.key] EXCEPT ![q.next] = Mark(f)]] ELSE entry
    BY <1>b, <1>3, WriteSteps
  <2>5. \A k \in Versions : NotOlder(temp'[k], k)
    BY <1>a, <1>b, <2>1, <2>2, <2>3, <2>4
  <2>6. \A k \in Versions : NotOlder(entry'[k], k)
    BY <1>a, <1>b, <2>1, <2>2, <2>3, <2>4
  <2> QED
    BY <2>5, <2>6
<1>4. ASSUME NEW f \in Fills, RenameTemp(f) PROVE Old
  BY <1>a, <1>b, <1>c, <1>4, RenameSteps
<1>5. ASSUME NEW f \in Fills, CleanTemp(f) PROVE Old
  BY <1>a, <1>b, <1>c, <1>5, CleanSteps
<1>6. CASE CacheRestart
  BY <1>a, <1>b, <1>c, <1>6 DEF CacheRestart
<1> QED
  BY <1>1, <1>2, <1>3, <1>4, <1>5, <1>6
  DEF CacheNext, FillStep, AskEntry, LookUp, Acquire, Cancel, Recheck, OpenSource, GiveUp, Serve,
      OrphanEnds, Replace, IndexSource, Keep, cacheVars

LEMMA SourcesInvariant == CacheSpec => [](CacheInv /\ Sources)
<1>1. CacheInv /\ Sources /\ [CacheNext]_cacheVars => Sources'
  BY SourcesNext DEF CacheInv
<1> QED
  BY <1>1, SourcesInit, CacheInvariant, PTL DEF CacheSpec

\* Whatever requests, replacements, failures and restarts meet at a temporary name, no half of
\* a thumbnail or of a video is older than the modification time it is kept under.
THEOREM CacheNeverOlder == CacheSpec => []NeverOlder
<1>1. CacheInit => NeverOlder
  BY DEF CacheInit, NeverOlder
<1>2. CacheInv /\ Sources /\ NeverOlder /\ [CacheNext]_cacheVars => NeverOlder'
  BY NeverOlderNext DEF CacheInv
<1> QED
  BY <1>1, <1>2, SourcesInvariant, PTL DEF CacheSpec

----------------------------------------------------------------------------
(* The caches: NoTempLeft                                                  *)

\* A temporary file has a request that will rename or remove it.
Tidy == {"writing", "renaming", "cleaning"}

Owned ==
  /\ restarted \in Nat
  /\ \/ restarted > 0
     \/ \A k \in Versions \ stranded :
          temp[k] # NoFile => \E f \in Fills : fill[f].key = k /\ fill[f].at \in Tidy

\* Only a crash leaves an ffmpeg without its request.
OrphansCrashed == restarted \in Nat /\ (restarted > 0 \/ \A f \in Fills : ~ fill[f].orphan)

LEMMA OwnedInit == CacheInit => Owned /\ OrphansCrashed
BY RestTyped DEF CacheInit, Owned, OrphansCrashed

LEMMA OrphansNext == FilesTyped /\ OrphansCrashed /\ [CacheNext]_cacheVars => OrphansCrashed'
<1> SUFFICES ASSUME FilesTyped, OrphansCrashed, [CacheNext]_cacheVars PROVE OrphansCrashed'
  OBVIOUS
<1> USE DEF Keep
<1>a. fill \in [Fills -> Request]
  BY DEF FilesTyped
<1>b. ASSUME UNCHANGED restarted, \A f \in Fills : fill'[f].orphan => fill[f].orphan
      PROVE  OrphansCrashed'
  BY <1>b DEF OrphansCrashed
<1>c. ASSUME NEW f \in Fills, NEW place \in Before \cup Inside \cup {"idle", "serving"},
             Step(f, place), UNCHANGED restarted
      PROVE  OrphansCrashed'
  BY <1>a, <1>b, <1>c, StepTyped
<1>1. ASSUME NEW f \in Fills, AskEntry(f) \/ Serve(f) \/ OrphanEnds(f) PROVE OrphansCrashed'
  <2> DEFINE asked0 == [NoFill EXCEPT !.at = "looking", !.key = KeyOf(source), !.range = indexed]
  <2>1. asked0.orphan = FALSE /\ NoFill.orphan = FALSE
    BY DEF NoFill
  <2>2. UNCHANGED restarted /\ (fill' = [fill EXCEPT ![f] = asked0] \/ fill' = [fill EXCEPT ![f] = NoFill])
    BY <1>1 DEF AskEntry, Serve, OrphanEnds
  <2> HIDE DEF asked0
  <2> QED
    BY <1>a, <1>b, <2>1, <2>2
<1>2. ASSUME NEW f \in Fills, LookUp(f) \/ Acquire(f) \/ Cancel(f) \/ Recheck(f) \/ GiveUp(f)
      PROVE  OrphansCrashed'
  <2>1. PICK place \in {"serving", "waiting", "opening", "rechecking", "idle", "cleaning"} :
          Step(f, place) /\ UNCHANGED restarted
    BY <1>2 DEF LookUp, Acquire, Cancel, Recheck, GiveUp
  <2> QED
    BY <1>c, <2>1 DEF Before, Inside
<1>3. ASSUME NEW f \in Fills, OpenSource(f) PROVE OrphansCrashed'
  BY <1>a, <1>b, <1>3 DEF OpenSource, Request
<1>4. ASSUME NEW f \in Fills, CreateTemp(f) PROVE OrphansCrashed'
  BY <1>a, <1>b, <1>4 DEF CreateTemp, Request
<1>5. ASSUME NEW f \in Fills, WriteHalf(f) PROVE OrphansCrashed'
  BY <1>a, <1>b, <1>5, WriteSteps
<1>6. ASSUME NEW f \in Fills, RenameTemp(f) PROVE OrphansCrashed'
  BY <1>a, <1>b, <1>6, RenameSteps
<1>7. ASSUME NEW f \in Fills, CleanTemp(f) PROVE OrphansCrashed'
  BY <1>a, <1>b, <1>7, CleanSteps
<1>8. CASE Replace \/ IndexSource \/ UNCHANGED cacheVars
  BY <1>b, <1>8 DEF Replace, IndexSource, cacheVars, cacheBounds
<1>9. CASE CacheRestart
  <2>1. restarted' = restarted + 1
    BY <1>9 DEF CacheRestart
  <2> QED
    BY <2>1 DEF OrphansCrashed
<1> QED
  BY <1>1, <1>2, <1>3, <1>4, <1>5, <1>6, <1>7, <1>8, <1>9 DEF CacheNext, FillStep

\* One step per action; most of them let no request go that has a file to tidy up.
LEMMA OwnedNext == FilesTyped /\ OrphansCrashed /\ Owned /\ [CacheNext]_cacheVars => Owned'
<1> SUFFICES ASSUME FilesTyped, OrphansCrashed, Owned, [CacheNext]_cacheVars PROVE Owned'
  OBVIOUS
<1> USE DEF Keep
<1>a. fill \in [Fills -> Request] /\ \A f \in Fills : fill[f].key \in Versions
  BY DEF FilesTyped, Request
<1>b. ASSUME UNCHANGED <<restarted, stranded, temp>>,
             \A f \in Fills : fill[f].at \in Tidy => fill'[f].at \in Tidy /\ fill'[f].key = fill[f].key
      PROVE  Owned'
  BY <1>b DEF Owned
<1>c. ASSUME NEW f \in Fills, NEW place \in Before \cup Inside \cup {"idle", "serving"},
             Step(f, place), fill[f].at \notin Tidy, UNCHANGED <<restarted, stranded, temp>>
      PROVE  Owned'
  BY <1>a, <1>b, <1>c, StepTyped
<1>1. ASSUME NEW f \in Fills, AskEntry(f) \/ Serve(f) PROVE Owned'
  <2>1. /\ UNCHANGED <<restarted, stranded, temp>> /\ fill[f].at \notin Tidy
        /\ \A g \in Fills \ {f} : fill'[g] = fill[g]
    BY <1>a, <1>1 DEF AskEntry, Serve, Tidy
  <2> QED
    BY <1>b, <2>1
<1>2. ASSUME NEW f \in Fills, LookUp(f) PROVE Owned'
  <2>1. PICK place \in {"serving", "waiting", "opening"} : Step(f, place)
    BY <1>2 DEF LookUp
  <2> QED
    BY <1>2, <1>c, <2>1 DEF LookUp, Before, Tidy
<1>3. ASSUME NEW f \in Fills, Acquire(f) \/ Cancel(f) \/ Recheck(f) PROVE Owned'
  <2>1. PICK place \in {"rechecking", "idle", "serving", "opening"} : Step(f, place)
    BY <1>3 DEF Acquire, Cancel, Recheck
  <2> QED
    BY <1>3, <1>c, <2>1 DEF Acquire, Cancel, Recheck, Before, Tidy
<1>4. ASSUME NEW f \in Fills, OpenSource(f) PROVE Owned'
  <2>1. /\ UNCHANGED <<restarted, stranded, temp>> /\ fill[f].at \notin Tidy
        /\ \A g \in Fills \ {f} : fill'[g] = fill[g]
    BY <1>a, <1>4 DEF OpenSource, Tidy
  <2> QED
    BY <1>b, <2>1
<1>5. ASSUME NEW f \in Fills, CreateTemp(f) PROVE Owned'
  <2>1. /\ fill' = [fill EXCEPT ![f] = [fill[f] EXCEPT !.at = "writing", !.holds = "temp"]]
        /\ temp' = [temp EXCEPT ![fill[f].key] = EmptyFile]
        /\ UNCHANGED <<restarted, stranded>> /\ fill[f].at = "creating"
    BY <1>5 DEF CreateTemp
  <2>2. /\ \A g \in Fills \ {f} : fill'[g] = fill[g]
        /\ fill'[f].key = fill[f].key /\ fill'[f].at \in Tidy
    BY <1>a, <2>1 DEF Request, Tidy
  <2>3. \A k \in Versions \ {fill[f].key} : temp'[k] = temp[k]
    BY <2>1 DEF FilesTyped
  <2> QED
    BY <1>a, <2>1, <2>2, <2>3 DEF Owned, Tidy
<1>6. ASSUME NEW f \in Fills, WriteHalf(f) PROVE Owned'
  <2>1. /\ \A g \in Fills \ {f} : fill'[g] = fill[g]
        /\ fill'[f].key = fill[f].key /\ fill'[f].at \in Tidy
        /\ \A k \in Versions \ {fill[f].key} : temp'[k] = temp[k]
        /\ UNCHANGED <<restarted, stranded>>
    BY <1>a, <1>6, WriteSteps DEF Tidy, FilesTyped
  <2> QED
    BY <1>a, <2>1 DEF Owned
<1>7. ASSUME NEW f \in Fills, GiveUp(f) PROVE Owned'
  <2>1. PICK place \in {"cleaning", "idle"} :
          /\ Step(f, place) /\ UNCHANGED <<restarted, temp>> /\ stranded \subseteq stranded'
          /\ place = "cleaning" \/ fill[f].key \in stranded' \/ fill[f].at \notin Tidy
    <3>1. CASE cache = "thumb" \/ (cache = "live" /\ fill[f].at = "writing")
      BY <1>7, <3>1 DEF GiveUp
    <3>2. CASE ~ (cache = "thumb" \/ (cache = "live" /\ fill[f].at = "writing"))
      BY <1>7, <3>2 DEF GiveUp, Tidy
    <3> QED
      BY <3>1, <3>2
  <2>2. /\ \A g \in Fills \ {f} : fill'[g] = fill[g]
        /\ fill'[f].key = fill[f].key /\ fill'[f].at = place
    BY <1>a, <2>1, StepTyped DEF Inside
  <2> QED
    BY <1>a, <2>1, <2>2 DEF Owned, Tidy
<1>d. ASSUME NEW f \in Fills, UNCHANGED <<restarted, stranded>>,
             temp' = temp \/ temp' = [temp EXCEPT ![fill[f].key] = NoFile],
             temp'[fill[f].key] = NoFile,
             \A g \in Fills \ {f} : fill'[g].at = fill[g].at /\ fill'[g].key = fill[g].key
      PROVE  Owned'
  <2>1. temp \in [Versions -> CacheFile]
    BY DEF FilesTyped
  <2> QED
    BY <1>a, <1>d, <2>1 DEF Owned
<1>8. ASSUME NEW f \in Fills, RenameTemp(f) PROVE Owned'
  <2>1. temp \in [Versions -> CacheFile]
    BY DEF FilesTyped
  <2> QED
    BY <1>a, <1>d, <1>8, <2>1, RenameSteps
<1>9. ASSUME NEW f \in Fills, CleanTemp(f) PROVE Owned'
  <2>1. temp \in [Versions -> CacheFile]
    BY DEF FilesTyped
  <2> QED
    BY <1>a, <1>d, <1>9, <2>1, CleanSteps
<1>10. CASE Replace \/ IndexSource \/ UNCHANGED cacheVars
  BY <1>b, <1>10 DEF Replace, IndexSource, cacheVars, cacheBounds
<1>11. CASE CacheRestart
  <2>1. restarted' = restarted + 1
    BY <1>11 DEF CacheRestart
  <2> QED
    BY <2>1 DEF Owned
<1>12. ASSUME NEW f \in Fills, OrphanEnds(f) PROVE Owned'
  <2>1. UNCHANGED <<restarted, stranded, temp>> /\ fill[f].orphan
    BY <1>12 DEF OrphanEnds
  <2> QED
    BY <2>1 DEF Owned, OrphansCrashed
<1> QED
  BY <1>1, <1>2, <1>3, <1>4, <1>5, <1>6, <1>7, <1>8, <1>9, <1>10, <1>11, <1>12
  DEF CacheNext, FillStep

\* When no request is under way, no temporary file is left, but after a crash and under a name
\* where a crop failed or the rename of a live video did: requests that share the name remove
\* it between them.
THEOREM CacheLeavesNoTemp == CacheSpec => []NoTempLeft
<1>1. CacheInv /\ Owned => NoTempLeft
  <2> SUFFICES ASSUME Owned, ~ (restarted > 0), \A f \in Fills : fill[f].at = "idle"
               PROVE  \A k \in Versions \ stranded : temp[k] = NoFile
    BY DEF NoTempLeft
  <2> QED
    BY DEF Owned, Tidy
<1>2. /\ CacheInv /\ OrphansCrashed /\ [CacheNext]_cacheVars => OrphansCrashed'
      /\ CacheInv /\ OrphansCrashed /\ Owned /\ [CacheNext]_cacheVars => Owned'
  BY OrphansNext, OwnedNext DEF CacheInv
<1> QED
  BY <1>1, <1>2, OwnedInit, CacheInvariant, PTL DEF CacheSpec

----------------------------------------------------------------------------
(* The caches: HitsAreCurrent                                              *)

\* Two requests that generate at a time generate different entries.
Alone == \A f, g \in Generating : fill[f].key = fill[g].key => f = g

\* A temporary file has what its one writer put there; what a crash left may have lost it.
PartRight(f) ==
  /\ fill[f].at = "writing" => fill[f].holds # "entry"
  /\ fill[f].at = "writing" /\ ~ fill[f].orphan =>
       /\ fill[f].holds = "temp"
       /\ fill[f].next = 2 => temp[fill[f].key][1] = Mark(f)
  /\ fill[f].at = "renaming" /\ ~ fill[f].orphan => temp[fill[f].key] = <<Mark(f), Mark(f)>>

PartsRight == \A f \in Fills : PartRight(f)

\* The entry for k is one version of the source, from k on, whole.
Whole(k) ==
  \E v, r \in Versions :
    /\ k <= v /\ v <= source
    /\ cache = "thumb" => r = v
    /\ entry[k] = << <<v, r>>, <<v, r>> >>

EntriesWhole == \A k \in Versions : entry[k] = NoFile \/ Whole(k)

Uncrowded == ~ crowded /\ cache # "crop" => Alone /\ PartsRight /\ EntriesWhole

LEMMA UncrowdedInit == CacheInit => Uncrowded
BY RestTyped DEF CacheInit, Uncrowded, Alone, Generating, PartsRight, PartRight, EntriesWhole

\* One step per action; most of them leave files and generating requests alone.
LEMMA UncrowdedNext ==
  FilesTyped /\ Sources /\ Uncrowded /\ [CacheNext]_cacheVars => Uncrowded'
<1> SUFFICES ASSUME FilesTyped, Sources, Uncrowded, [CacheNext]_cacheVars, ~ crowded', cache # "crop"
             PROVE  Alone' /\ PartsRight' /\ EntriesWhole'
  BY SameCache DEF Uncrowded
<1> USE DEF Keep
<1> DEFINE Good == Alone' /\ PartsRight' /\ EntriesWhole'
           Busy(f) == fill[f].at \in {"creating", "writing", "renaming", "cleaning"}
<1>a. /\ fill \in [Fills -> Request] /\ \A f \in Fills : fill[f].key \in Versions
      /\ entry \in [Versions -> CacheFile] /\ temp \in [Versions -> CacheFile]
      /\ cache' = cache
  BY SameCache DEF FilesTyped, Request
<1>b. ASSUME ~ crowded PROVE Alone /\ PartsRight /\ EntriesWhole
  BY <1>b DEF Uncrowded
<1>c. ASSUME ~ crowded, UNCHANGED <<source, entry, temp>>,
             \A f \in Fills :
               \/ fill'[f] = fill[f]
               \/ /\ fill'[f].at \in {"looking", "waiting", "rechecking", "opening", "serving", "idle"}
               \/ fill'[f].at = "cleaning" /\ Busy(f) /\ fill'[f].key = fill[f].key
      PROVE  Good
  <2>1. Alone'
    BY <1>b, <1>c DEF Alone, Generating
  <2>2. PartsRight'
    BY <1>a, <1>b, <1>c DEF PartsRight, PartRight, Mark
  <2>3. EntriesWhole'
    BY <1>a, <1>b, <1>c DEF EntriesWhole, Whole
  <2> QED
    BY <2>1, <2>2, <2>3
<1>1. ASSUME NEW f \in Fills, AskEntry(f) \/ Serve(f) PROVE Good
  <2> DEFINE asked0 == [NoFill EXCEPT !.at = "looking", !.key = KeyOf(source), !.range = indexed]
  <2>1. asked0.at = "looking" /\ NoFill.at = "idle"
    BY DEF NoFill
  <2>2. /\ ~ crowded /\ UNCHANGED <<source, entry, temp>>
        /\ fill' = [fill EXCEPT ![f] = asked0] \/ fill' = [fill EXCEPT ![f] = NoFill]
    BY <1>1 DEF AskEntry, Serve
  <2> HIDE DEF asked0
  <2>3. /\ \A g \in Fills \ {f} : fill'[g] = fill[g]
        /\ fill'[f].at \in {"looking", "idle"}
    BY <1>a, <2>1, <2>2
  <2> QED
    BY <1>c, <2>2, <2>3
<1>2. ASSUME NEW f \in Fills, LookUp(f) PROVE Good
  <2>1. PICK place \in {"serving", "waiting", "opening"} : Step(f, place)
    BY <1>2 DEF LookUp
  <2> QED
    BY <1>2, <1>a, <1>c, <2>1, StepTyped DEF LookUp, Before
<1>3. ASSUME NEW f \in Fills, Acquire(f) \/ Cancel(f) \/ Recheck(f) PROVE Good
  <2>1. PICK place \in {"rechecking", "idle", "serving", "opening"} : Step(f, place)
    BY <1>3 DEF Acquire, Cancel, Recheck
  <2> QED
    BY <1>3, <1>a, <1>c, <2>1, StepTyped DEF Acquire, Cancel, Recheck, Before
<1>4. ASSUME NEW f \in Fills, OpenSource(f) PROVE Good
  <2>1. /\ fill' = [fill EXCEPT ![f] = [fill[f] EXCEPT !.at = "creating", !.src = source]]
        /\ UNCHANGED <<source, entry, temp>> /\ fill[f].at = "opening"
        /\ ~ crowded /\ \A g \in Generating : fill[g].key # fill[f].key
    BY <1>4 DEF OpenSource
  <2>2. /\ \A g \in Fills \ {f} : fill'[g] = fill[g]
        /\ fill'[f].key = fill[f].key /\ fill'[f].at = "creating"
    BY <1>a, <2>1 DEF Request
  <2>3. Alone'
    BY <1>b, <2>1, <2>2 DEF Alone, Generating
  <2>4. PartsRight'
    BY <1>a, <1>b, <2>1, <2>2 DEF PartsRight, PartRight, Mark
  <2>5. EntriesWhole'
    BY <1>a, <1>b, <2>1 DEF EntriesWhole, Whole
  <2> QED
    BY <2>3, <2>4, <2>5
<1>5. ASSUME NEW f \in Fills, CreateTemp(f) PROVE Good
  <2>1. /\ fill' = [fill EXCEPT ![f] = [fill[f] EXCEPT !.at = "writing", !.holds = "temp"]]
        /\ temp' = [temp EXCEPT ![fill[f].key] = EmptyFile]
        /\ UNCHANGED <<source, entry>> /\ fill[f].at = "creating" /\ ~ crowded
    BY <1>5 DEF CreateTemp
  <2>2. /\ \A g \in Fills \ {f} : fill'[g] = fill[g]
        /\ fill'[f].key = fill[f].key /\ fill'[f].at = "writing" /\ fill'[f].holds = "temp"
        /\ fill'[f].next = 1
    <3>1. fill[f].next = 1
      BY <2>1 DEF FilesTyped, Writer, Before
    <3> QED
      BY <1>a, <2>1, <3>1 DEF Request
  <2>3. Alone'
    BY <1>b, <2>1, <2>2 DEF Alone, Generating
  <2>4. \A g \in Fills \ {f} : Busy(g) => fill[g].key # fill[f].key
    BY <1>b, <2>1 DEF Alone, Generating
  <2>5. \A k \in Versions \ {fill[f].key} : temp'[k] = temp[k]
    BY <1>a, <2>1
  <2>6. PartsRight'
    BY <1>a, <1>b, <2>1, <2>2, <2>4, <2>5 DEF PartsRight, PartRight, Mark
  <2>7. EntriesWhole'
    BY <1>a, <1>b, <2>1 DEF EntriesWhole, Whole
  <2> QED
    BY <2>3, <2>6, <2>7
<1>6. ASSUME NEW f \in Fills, WriteHalf(f) PROVE Good
  <2> DEFINE q == fill[f]
  <2>1. /\ q.at = "writing" /\ q.key \in Versions /\ ~ crowded /\ UNCHANGED source
        /\ \A g \in Fills \ {f} : fill'[g] = fill[g]
        /\ fill'[f].at = IF q.next = 1 THEN "writing" ELSE "renaming"
        /\ fill'[f].next = 2
        /\ fill'[f].key = q.key /\ fill'[f].range = q.range /\ fill'[f].src = q.src
        /\ fill'[f].holds = q.holds /\ fill'[f].orphan = q.orphan
    BY <1>6, <1>a, WriteSteps
  <2>2. /\ q.holds # "entry"
        /\ ~ q.orphan => q.holds = "temp" /\ (q.next = 2 => temp[q.key][1] = Mark(f))
        /\ q.holds = "temp" => temp[q.key] # NoFile
    BY <1>b, <2>1 DEF PartsRight, PartRight, FilesTyped, Writer
  <2>3. /\ temp' = IF q.holds = "temp"
                   THEN [temp EXCEPT ![q.key] = [temp[q.key] EXCEPT ![q.next] = Mark(f)]] ELSE temp
        /\ entry' = entry
    BY <1>6, <1>a, <2>2, WriteSteps
  <2>4. /\ q.next \in 1 .. 2 /\ Mark(f) \in Half
        /\ q.holds = "temp" => temp[q.key] \in Half \X Half
    <3>1. q.next \in 1 .. 2 /\ q.src \in Versions /\ q.range \in Versions
      BY <2>1 DEF FilesTyped, Writer, Request
    <3> QED
      BY <1>a, <2>1, <2>2, <3>1, FileKinds DEF Mark, Half
  <2>5. /\ q.holds = "temp" => temp'[q.key] = [temp[q.key] EXCEPT ![q.next] = Mark(f)]
        /\ \A k \in Versions \ {q.key} : temp'[k] = temp[k]
    BY <1>a, <2>1, <2>3
  <2>6. ASSUME ~ q.orphan
        PROVE  /\ q.next = 1 => temp'[q.key][1] = Mark(f)
               /\ q.next = 2 => temp'[q.key] = <<Mark(f), Mark(f)>>
    <3>1. /\ [temp[q.key] EXCEPT ![q.next] = Mark(f)] \in Half \X Half
          /\ [temp[q.key] EXCEPT ![q.next] = Mark(f)][q.next] = Mark(f)
          /\ \A j \in (1 .. 2) \ {q.next} : [temp[q.key] EXCEPT ![q.next] = Mark(f)][j] = temp[q.key][j]
      BY <2>2, <2>4, <2>6, HalfPut
    <3>2. CASE q.next = 1
      BY <2>2, <2>5, <2>6, <3>1, <3>2
    <3>3. CASE q.next = 2
      <4>1. temp'[q.key] \in Half \X Half /\ temp'[q.key][1] = Mark(f) /\ temp'[q.key][2] = Mark(f)
        BY <2>2, <2>5, <2>6, <3>1, <3>3
      <4> QED
        BY <3>3, <4>1
    <3> QED
      BY <2>4, <3>2, <3>3
  <2>7. Alone' /\ Mark(f)' = Mark(f)
    BY <1>a, <1>b, <2>1 DEF Alone, Generating, Mark
  <2>8. \A g \in Fills \ {f} : Busy(g) => fill[g].key # q.key
    BY <1>b, <2>1 DEF Alone, Generating
  <2>9. PartsRight'
    <3>1. ASSUME NEW g \in Fills \ {f} PROVE PartRight(g)'
      <4>1. fill'[g] = fill[g] /\ Mark(g)' = Mark(g) /\ fill[g].key \in Versions
        BY <1>a, <2>1 DEF Mark
      <4>2. Busy(g) => temp'[fill[g].key] = temp[fill[g].key]
        BY <2>5, <2>8, <4>1
      <4> QED
        BY <1>b, <2>1, <4>1, <4>2 DEF PartsRight, PartRight
    <3>2. PartRight(f)'
      BY <2>1, <2>2, <2>4, <2>6, <2>7 DEF PartRight
    <3> QED
      BY <3>1, <3>2 DEF PartsRight
  <2>10. EntriesWhole'
    BY <1>a, <1>b, <2>1, <2>3 DEF EntriesWhole, Whole
  <2> QED
    BY <2>7, <2>9, <2>10
<1>7. ASSUME NEW f \in Fills, GiveUp(f) PROVE Good
  <2>1. PICK place \in {"cleaning", "idle"} :
          /\ Step(f, place) /\ fill[f].at \in {"creating", "writing", "renaming"} /\ ~ crowded
          /\ UNCHANGED <<source, entry, temp>>
    BY <1>7 DEF GiveUp
  <2> QED
    BY <1>a, <1>c, <2>1, StepTyped DEF Inside
<1>d. ASSUME NEW f \in Fills, ~ crowded, Busy(f), UNCHANGED source,
             \A g \in Fills : fill'[g].key = fill[g].key,
             ~ (fill'[f].at \in {"creating", "writing", "renaming"}),
             \A g \in Fills \ {f} :
               /\ fill'[g].at = fill[g].at /\ fill'[g].next = fill[g].next
               /\ fill'[g].range = fill[g].range /\ fill'[g].src = fill[g].src
               /\ fill'[g].orphan = fill[g].orphan
               /\ fill[g].key # fill[f].key => fill'[g].holds = fill[g].holds,
             \A k \in Versions \ {fill[f].key} : temp'[k] = temp[k]
      PROVE  Alone' /\ PartsRight'
  <2>1. Alone'
    BY <1>b, <1>d DEF Alone, Generating
  <2>2. \A g \in Fills \ {f} : Busy(g) => fill[g].key # fill[f].key
    BY <1>b, <1>d DEF Alone, Generating
  <2>3. ASSUME NEW g \in Fills, fill'[g].at \in {"writing", "renaming"} PROVE PartRight(g)'
    <3>1. g # f /\ fill[g].at = fill'[g].at /\ fill[g].key # fill[f].key
      BY <1>d, <2>2, <2>3
    <3>2. /\ Mark(g)' = Mark(g) /\ temp'[fill[g].key] = temp[fill[g].key]
          /\ fill'[g].holds = fill[g].holds /\ fill'[g].next = fill[g].next
          /\ fill'[g].key = fill[g].key
      BY <1>a, <1>d, <3>1 DEF Mark
    <3> QED
      BY <1>b, <1>d, <3>1, <3>2 DEF PartsRight, PartRight
  <2> QED
    BY <2>1, <2>3 DEF PartsRight, PartRight
<1>8. ASSUME NEW f \in Fills, RenameTemp(f) PROVE Good
  <2> DEFINE k == fill[f].key
  <2>1. fill[f].at = "renaming" /\ ~ fill[f].orphan /\ ~ crowded /\ UNCHANGED source /\ k \in Versions
    BY <1>a, <1>8, RenameSteps
  <2>2. /\ temp[k] = <<Mark(f), Mark(f)>> /\ temp[k] # NoFile
        /\ k <= fill[f].src /\ fill[f].src <= source
        /\ fill[f].src \in Versions /\ fill[f].range \in Versions
    <3>1. temp[k] = <<Mark(f), Mark(f)>>
      BY <1>b, <2>1 DEF PartsRight, PartRight
    <3>2. fill[f].src \in Versions /\ fill[f].range \in Versions
      BY <2>1 DEF FilesTyped, Writer, Request
    <3>3. k <= fill[f].src /\ fill[f].src <= source
      BY <2>1 DEF Sources, Reading
    <3>4. temp[k] \in Half \X Half
      BY <3>1, <3>2 DEF Mark, Half
    <3> QED
      BY <3>1, <3>2, <3>3, <3>4, FileKinds
  <2>3. entry' = [entry EXCEPT ![k] = temp[k]] /\ temp' = [temp EXCEPT ![k] = NoFile]
    BY <1>a, <1>8, <2>2, RenameSteps
  <2>4. Alone' /\ PartsRight'
    BY <1>a, <1>8, <1>d, <2>1, <2>3, RenameSteps
  <2>5. EntriesWhole'
    <3>1. ASSUME NEW v \in Versions \ {k} PROVE entry'[v] = NoFile \/ Whole(v)'
      <4>1. entry'[v] = entry[v]
        BY <1>a, <2>3
      <4> QED
        BY <1>a, <1>b, <2>1, <4>1 DEF EntriesWhole, Whole
    <3>2. ASSUME NEW v \in Versions, v = k PROVE Whole(v)'
      <4>1. entry'[v] = <<Mark(f), Mark(f)>>
        BY <1>a, <2>1, <2>2, <2>3, <3>2
      <4>2. PICK r \in Versions : Mark(f) = <<fill[f].src, r>> /\ (cache = "thumb" => r = fill[f].src)
        BY <2>2 DEF Mark
      <4> QED
        BY <1>a, <2>1, <2>2, <3>2, <4>1, <4>2 DEF Whole
    <3> QED
      BY <3>1, <3>2 DEF EntriesWhole
  <2> QED
    BY <2>4, <2>5
<1>9. ASSUME NEW f \in Fills, CleanTemp(f) PROVE Good
  <2>1. /\ fill[f].at = "cleaning" /\ ~ crowded /\ UNCHANGED <<source, entry>>
        /\ temp' = [temp EXCEPT ![fill[f].key] = NoFile]
    BY <1>a, <1>9, CleanSteps
  <2>2. Alone' /\ PartsRight'
    BY <1>a, <1>9, <1>d, <2>1, CleanSteps
  <2>3. EntriesWhole'
    BY <1>a, <1>b, <2>1 DEF EntriesWhole, Whole
  <2> QED
    BY <2>2, <2>3
<1>10. CASE Replace
  <2>1. UNCHANGED <<entry, temp, fill>> /\ source' = source + 1 /\ ~ crowded /\ source \in Nat
    BY <1>10, VersionsAreNat DEF Replace, FilesTyped
  <2>2. Alone' /\ PartsRight'
    BY <1>a, <1>b, <2>1 DEF Alone, Generating, PartsRight, PartRight, Mark
  <2>3. \A v \in Versions : v \in Nat
    BY VersionsAreNat
  <2>4. EntriesWhole'
    BY <1>a, <1>b, <2>1, <2>3 DEF EntriesWhole, Whole
  <2> QED
    BY <2>2, <2>4
<1>11. CASE IndexSource \/ UNCHANGED cacheVars
  BY <1>c, <1>11 DEF IndexSource, cacheVars
<1>12. CASE CacheRestart
  <2>1. /\ UNCHANGED source /\ ~ crowded /\ \A k \in Versions : entry'[k] \in {NoFile, entry[k]}
        /\ \A f \in Fills : fill'[f] = NoFill \/ Kept(f)
    BY <1>12, <1>a, RestartSteps
  <2>2. Alone'
    BY <1>b, <2>1, RestTyped DEF Alone, Generating, Kept
  <2>3. PartsRight'
    BY <1>b, <2>1, RestTyped DEF PartsRight, PartRight, Kept
  <2>4. EntriesWhole'
    BY <1>a, <1>b, <2>1 DEF EntriesWhole, Whole
  <2> QED
    BY <2>2, <2>3, <2>4
<1>13. ASSUME NEW f \in Fills, OrphanEnds(f) PROVE Good
  <2>1. /\ UNCHANGED <<source, entry, temp>> /\ ~ crowded
        /\ \A g \in Fills \ {f} : fill'[g] = fill[g]
        /\ fill'[f].at = "idle"
    BY <1>13, <1>a, RestTyped DEF OrphanEnds
  <2> QED
    BY <1>c, <2>1
<1> QED
  BY <1>1, <1>2, <1>3, <1>4, <1>5, <1>6, <1>7, <1>8, <1>9, <1>10, <1>11, <1>12, <1>13
  DEF CacheNext, FillStep

\* Unless two requests met at the temporary name, what a request for the photo as it is now
\* would hit shows that photo, whole: nothing under its modification time can be newer than
\* the source, nor older than the name says.
THEOREM CacheHitsAreCurrent == CacheSpec => []HitsAreCurrent
<1>1. CacheInv /\ Uncrowded => HitsAreCurrent
  <2> SUFFICES ASSUME CacheInv, EntriesWhole, cache # "crop", Hit(source, source),
                      cache = "live" => \A v, w \in Versions : Length[v] = Length[w] => v = w
               PROVE  entry[source] = << <<source, source>>, <<source, source>> >>
    BY DEF HitsAreCurrent, Uncrowded
  <2>1. source \in Versions /\ \A v \in Versions : v \in Nat
    BY VersionsAreNat DEF CacheInv, FilesTyped
  <2>2. entry[source] # NoFile
    BY DEF Hit
  <2>3. PICK v, r \in Versions :
          /\ source <= v /\ v <= source /\ (cache = "thumb" => r = v)
          /\ entry[source] = << <<v, r>>, <<v, r>> >>
    BY <2>1, <2>2 DEF EntriesWhole, Whole
  <2>4. v = source
    BY <2>1, <2>3
  <2>5. CASE cache = "thumb"
    BY <2>3, <2>4, <2>5
  <2>6. CASE cache = "live"
    <3>1. Length[r] = Length[source]
      BY <2>3, <2>6 DEF Hit
    <3> QED
      BY <2>1, <2>3, <2>4, <2>6, <3>1
  <2> QED
    BY <2>5, <2>6 DEF CacheInv, FilesTyped
<1>2. CacheInv /\ Sources /\ Uncrowded /\ [CacheNext]_cacheVars => Uncrowded'
  BY UncrowdedNext DEF CacheInv
<1> QED
  BY <1>1, <1>2, UncrowdedInit, SourcesInvariant, PTL DEF CacheSpec

----------------------------------------------------------------------------
(* The service: type correctness, and the mutex of the binding             *)

Thread == [at : {"none", "called", "listening", "bound", "returned", "cleared", "done"},
           port : Ports, got : Starts \cup {NoServer}]

\* The mutex is held by the start that is between its lock and its return, or by onDestroy
\* while the server shuts down.
Mutex ==
  /\ \A t \in Starts : thread[t].at \in {"listening", "bound"} <=> mu = t
  /\ main = "shutting down" <=> mu = Main

\* The binding runs a server or has none.
Binding ==
  /\ mobile.stop = mobile.addr
  /\ mobile.running <=> mobile.addr # NoServer
  /\ main = "shutting down" => mobile.running
  /\ mu \in Starts => ~ mobile.running

NasInv == NasTypeOK /\ Mutex /\ Binding

LEMMA Holders == /\ Free \notin Starts /\ Main \notin Starts /\ Free # Main /\ NoServer \notin Starts
                 /\ 0 \in Ports /\ MaxRetries \in Nat /\ MaxStarts \in Nat /\ MaxActive \in Nat
<1>1. MaxStarts \in Nat \ {0} /\ MaxRetries \in Nat /\ MaxActive \in Nat
  BY LifecycleAssumption
<1> QED
  BY <1>1 DEF Free, Main, Starts, NoServer, Ports

LEMMA CountUpDown ==
  ASSUME NEW max \in Nat, NEW n \in 0 .. max
  PROVE  (n < max => n + 1 \in 0 .. max) /\ (n > 0 => n - 1 \in 0 .. max)
OBVIOUS

LEMMA NotStartedTyped == NotStarted \in Server
BY Holders DEF NotStarted, Server

\* What a step of a server or of the binding makes of a server.
LEMMA ServerUpdates ==
  ASSUME NEW s \in Server
  PROVE  /\ \A port \in Ports : [s EXCEPT !.tcp = "bound", !.port = port] \in Server
         /\ \A tcp \in {"closed", "serving"} : [s EXCEPT !.tcp = tcp] \in Server
         /\ \A udp \in {"open", "closed"} : [s EXCEPT !.udp = udp] \in Server
         /\ [s EXCEPT !.tcp = "closed", !.failed = TRUE] \in Server
         /\ \A active \in 0 .. MaxActive : [s EXCEPT !.active = active] \in Server
         /\ Shutdown(s) \in Server
<1>1. /\ \A port \in Ports : [s EXCEPT !.tcp = "bound", !.port = port] \in Server
      /\ \A tcp \in {"closed", "serving"} : [s EXCEPT !.tcp = tcp] \in Server
      /\ \A udp \in {"open", "closed"} : [s EXCEPT !.udp = udp] \in Server
      /\ [s EXCEPT !.tcp = "closed", !.failed = TRUE] \in Server
  BY DEF Server
<1>2. ASSUME NEW active \in 0 .. MaxActive PROVE [s EXCEPT !.active = active] \in Server
  BY DEF Server
<1>3. Shutdown(s) \in Server
  <2> DEFINE tcp == IF s.tcp = "serving" THEN "closed" ELSE s.tcp
             udp == IF s.udp = "open" THEN "closing" ELSE s.udp
  <2>1. tcp \in {"none", "bound", "serving", "closed"} /\ udp \in {"none", "open", "closing", "closed"}
    BY DEF Server
  <2>2. Shutdown(s) = [s EXCEPT !.down = TRUE, !.tcp = tcp, !.udp = udp]
    BY DEF Shutdown, Server
  <2> HIDE DEF tcp, udp
  <2>3. [s EXCEPT !.down = TRUE, !.tcp = tcp, !.udp = udp] \in Server
    BY <2>1 DEF Server
  <2> QED
    BY <2>2, <2>3
<1> QED
  BY <1>1, <1>2, <1>3

LEMMA NasInvInit == NasInit => NasInv
<1> SUFFICES ASSUME NasInit PROVE NasInv
  OBVIOUS
<1>1. thread \in [Starts -> Thread]
  BY Holders DEF NasInit, Thread
<1>2. srv \in [Starts -> Server]
  BY NotStartedTyped DEF NasInit
<1>3. NasTypeOK
  BY <1>1, <1>2 DEF NasInit, NasTypeOK, Thread, NotRunning
<1> QED
  BY <1>3, Holders DEF NasInit, NasInv, Mutex, Binding, NotRunning

\* One step per action.
LEMMA NasInvNext == NasInv /\ [NasNext]_nasVars => NasInv'
<1> SUFFICES ASSUME NasInv, [NasNext]_nasVars PROVE NasInv'
  OBVIOUS
<1> USE DEF NasInv, NasTypeOK, Mutex, Binding
<1>a. thread \in [Starts -> Thread]
  BY DEF Thread
<1>b. ASSUME NEW t \in Starts, NEW new \in Thread, thread' = [thread EXCEPT ![t] = new]
      PROVE  /\ thread' \in [Starts -> Thread] /\ thread'[t] = new
             /\ \A s \in Starts \ {t} : thread'[s] = thread[s]
  BY <1>a, <1>b
<1>c. ASSUME UNCHANGED <<foreign, androidVars, bindingVars>>, srv' \in [Starts -> Server]
      PROVE  NasInv'
  BY <1>c DEF androidVars, bindingVars
<1>1. CASE OnStartCommand
  <2>1. CASE UNCHANGED thread
    BY <1>1, <2>1 DEF OnStartCommand, bindingVars
  <2>2. ASSUME NEW t \in Starts, thread[t].at = "none", thread' = [thread EXCEPT ![t].at = "called"]
        PROVE  NasInv'
    <3>1. LET n == [thread[t] EXCEPT !.at = "called"] IN n \in Thread /\ n.at = "called"
      BY <1>a DEF Thread
    <3>2. /\ thread' \in [Starts -> Thread] /\ thread'[t].at = "called"
          /\ \A s \in Starts \ {t} : thread'[s] = thread[s]
      BY <1>b, <2>2, <3>1
    <3> QED
      BY <1>1, <2>2, <3>2 DEF OnStartCommand, bindingVars, Thread
  <2> QED
    BY <1>1, <2>1, <2>2 DEF OnStartCommand
<1>2. ASSUME NEW t \in Starts, StartLocks(t) PROVE NasInv'
  <2>1. CASE mobile.running
    <3>1. LET n == [thread[t] EXCEPT !.at = "returned", !.got = mobile.addr]
          IN n \in Thread /\ n.at = "returned"
      BY <1>a DEF Thread
    <3>a. thread' = [thread EXCEPT ![t] = [thread[t] EXCEPT !.at = "returned", !.got = mobile.addr]]
      BY <1>2, <1>a, <2>1 DEF StartLocks
    <3>2. /\ thread' \in [Starts -> Thread] /\ thread'[t].at = "returned"
          /\ \A s \in Starts \ {t} : thread'[s] = thread[s]
      BY <1>b, <3>a, <3>1
    <3> QED
      BY <1>2, <2>1, <3>2 DEF StartLocks, Thread
  <2>2. CASE ~ mobile.running
    <3>1. LET n == [thread[t] EXCEPT !.at = "listening"] IN n \in Thread /\ n.at = "listening"
      BY <1>a DEF Thread
    <3>2. /\ thread' \in [Starts -> Thread] /\ thread'[t].at = "listening"
          /\ \A s \in Starts \ {t} : thread'[s] = thread[s]
      BY <1>2, <1>b, <2>2, <3>1 DEF StartLocks
    <3>3. UNCHANGED <<foreign, main, serverAddress, mobile, srv>> /\ mu = Free /\ mu' = t
      BY <1>2, <2>2 DEF StartLocks
    <3>4. NasTypeOK'
      BY <3>2, <3>3 DEF Thread
    <3>5. Mutex' /\ Binding'
      BY <2>2, <3>2, <3>3, Holders
    <3> QED
      BY <3>4, <3>5
  <2> QED
    BY <2>1, <2>2
<1>3. ASSUME NEW t \in Starts, Listen(t) PROVE NasInv'
  <2> DEFINE port == thread[t].port
  <2>0. /\ thread[t].at = "listening" /\ port \in Ports /\ mu = t
        /\ UNCHANGED <<foreign, main, serverAddress, mobile>>
    BY <1>a, <1>3 DEF Listen, Thread
  <2>1. CASE /\ srv' = [srv EXCEPT ![t].tcp = "bound", ![t].port = port]
             /\ thread' = [thread EXCEPT ![t].at = "bound"] /\ mu' = mu
    <3>1. LET n == [thread[t] EXCEPT !.at = "bound"] IN n \in Thread /\ n.at = "bound"
      BY <1>a DEF Thread
    <3>2. [srv[t] EXCEPT !.tcp = "bound", !.port = port] \in Server
      BY <2>0, ServerUpdates
    <3>3. srv' \in [Starts -> Server]
      BY <2>1, <3>2
    <3>4. /\ thread' \in [Starts -> Thread] /\ thread'[t].at = "bound"
          /\ \A s \in Starts \ {t} : thread'[s] = thread[s]
      BY <1>b, <2>1, <3>1
    <3> QED
      BY <2>0, <2>1, <3>3, <3>4 DEF Thread
  <2>2. CASE /\ port < MaxRetries /\ thread' = [thread EXCEPT ![t].port = port + 1]
             /\ UNCHANGED <<srv, mu>>
    <3>1. port + 1 \in Ports
      <4>1. port \in 0 .. MaxRetries /\ MaxRetries \in Nat
        BY <2>0, Holders DEF Ports
      <4>2. port < MaxRetries
        BY <2>2
      <4> HIDE DEF port
      <4> QED
        BY <4>1, <4>2, CountUpDown DEF Ports
    <3>2. LET n == [thread[t] EXCEPT !.port = port + 1] IN n \in Thread /\ n.at = "listening"
      BY <1>a, <2>0, <3>1 DEF Thread
    <3>3. /\ thread' \in [Starts -> Thread] /\ thread'[t].at = "listening"
          /\ \A s \in Starts \ {t} : thread'[s] = thread[s]
      BY <1>b, <2>2, <3>2
    <3> QED
      BY <2>0, <2>2, <3>3 DEF Thread
  <2>3. CASE /\ thread' = [thread EXCEPT ![t].at = "returned"] /\ mu' = Free /\ UNCHANGED srv
    <3>1. LET n == [thread[t] EXCEPT !.at = "returned"] IN n \in Thread /\ n.at = "returned"
      BY <1>a DEF Thread
    <3>2. /\ thread' \in [Starts -> Thread] /\ thread'[t].at = "returned"
          /\ \A s \in Starts \ {t} : thread'[s] = thread[s]
      BY <1>b, <2>3, <3>1
    <3> QED
      BY <2>0, <2>3, <3>2, Holders DEF Thread
  <2> QED
    BY <1>3, <2>1, <2>2, <2>3 DEF Listen
<1>4. ASSUME NEW t \in Starts, StartDiscovery(t) PROVE NasInv'
  <2>1. PICK udp \in {"open", "closed"} : srv' = [srv EXCEPT ![t].udp = udp]
    BY <1>4 DEF StartDiscovery
  <2>2. [srv[t] EXCEPT !.udp = udp] \in Server
    BY ServerUpdates
  <2> QED
    BY <1>4, <1>c, <2>1, <2>2 DEF StartDiscovery
<1>5. ASSUME NEW t \in Starts, StartReturns(t) PROVE NasInv'
  <2>1. LET n == [thread[t] EXCEPT !.at = "returned", !.got = t] IN n \in Thread /\ n.at = "returned"
    BY <1>a DEF Thread
  <2>a. thread' = [thread EXCEPT ![t] = [thread[t] EXCEPT !.at = "returned", !.got = t]]
    BY <1>5, <1>a DEF StartReturns
  <2>2. /\ thread' \in [Starts -> Thread] /\ thread'[t].at = "returned"
        /\ \A s \in Starts \ {t} : thread'[s] = thread[s]
    BY <1>b, <2>a, <2>1
  <2> QED
    BY <1>5, <2>2, Holders DEF StartReturns, Thread
<1>6. ASSUME NEW t \in Starts, ClearStarting(t) PROVE NasInv'
  <2>1. LET n == [thread[t] EXCEPT !.at = "cleared"] IN n \in Thread /\ n.at = "cleared"
    BY <1>a DEF Thread
  <2>2. /\ thread' \in [Starts -> Thread] /\ thread'[t].at = "cleared"
        /\ \A s \in Starts \ {t} : thread'[s] = thread[s]
    BY <1>6, <1>b, <2>1 DEF ClearStarting
  <2> QED
    BY <1>6, <2>2 DEF ClearStarting, bindingVars, Thread
<1>7. ASSUME NEW t \in Starts, Publish(t) PROVE NasInv'
  <2>1. LET n == [thread[t] EXCEPT !.at = "done"] IN n \in Thread /\ n.at = "done"
    BY <1>a DEF Thread
  <2>2. /\ thread' \in [Starts -> Thread] /\ thread'[t].at = "done"
        /\ \A s \in Starts \ {t} : thread'[s] = thread[s]
    BY <1>7, <1>b, <2>1 DEF Publish
  <2>3. serverAddress' \in Starts \cup {NoServer}
    BY <1>7, <1>a DEF Publish, Thread
  <2> QED
    BY <1>7, <2>2, <2>3 DEF Publish, bindingVars, Thread
<1>8. CASE OnDestroy
  BY <1>8 DEF OnDestroy, bindingVars
<1>9. CASE StopLocks
  <2>1. CASE mobile.running
    <3>1. mobile.stop \in Starts /\ Shutdown(srv[mobile.stop]) \in Server
      BY <2>1, ServerUpdates
    <3>2. srv' \in [Starts -> Server]
      BY <1>9, <2>1, <3>1 DEF StopLocks
    <3> QED
      BY <1>9, <2>1, <3>2, Holders DEF StopLocks
  <2>2. CASE ~ mobile.running
    BY <1>9, <2>2, Holders DEF StopLocks
  <2> QED
    BY <2>1, <2>2
<1>10. CASE StopReturns
  BY <1>10, Holders DEF StopReturns, NotRunning
<1>11. CASE Destroyed
  BY <1>11 DEF Destroyed, bindingVars
<1>12. ASSUME NEW i \in Starts, ServerStep(i) \/ ServeFails(i) PROVE NasInv'
  <2>1. PICK s \in Server : srv' = [srv EXCEPT ![i] = s]
    <3>1. CASE ServeBegins(i)
      BY <3>1, ServerUpdates DEF ServeBegins
    <3>2. CASE DiscoveryCloses(i)
      BY <3>2, ServerUpdates DEF DiscoveryCloses
    <3>3. CASE ServeFails(i)
      <4>1. srv' = [srv EXCEPT ![i] = [srv[i] EXCEPT !.tcp = "closed", !.failed = TRUE]]
        BY <3>3 DEF ServeFails
      <4> QED
        BY <4>1, ServerUpdates
    <3> QED
      BY <1>12, <3>1, <3>2, <3>3 DEF ServerStep
  <2> QED
    BY <1>12, <1>c, <2>1 DEF ServerStep, ServeBegins, DiscoveryCloses, ServeFails
<1>13. ASSUME NEW i \in Starts, AcceptRequest(i) \/ HandlerReturns(i) PROVE NasInv'
  <2>1. srv[i].active \in 0 .. MaxActive /\ srv[i] \in Server /\ MaxActive \in Nat
    BY Holders DEF Server
  <2>2. \/ srv[i].active < MaxActive /\ srv' = [srv EXCEPT ![i] = [srv[i] EXCEPT !.active = srv[i].active + 1]]
        \/ srv[i].active > 0 /\ srv' = [srv EXCEPT ![i] = [srv[i] EXCEPT !.active = srv[i].active - 1]]
    BY <1>13 DEF AcceptRequest, HandlerReturns
  <2>3. PICK active \in 0 .. MaxActive : srv' = [srv EXCEPT ![i] = [srv[i] EXCEPT !.active = active]]
    <3>1. CASE srv[i].active < MaxActive /\ srv' = [srv EXCEPT ![i] = [srv[i] EXCEPT !.active = srv[i].active + 1]]
      <4>1. srv[i].active + 1 \in 0 .. MaxActive
        BY <2>1, <3>1, CountUpDown
      <4> QED
        BY <3>1, <4>1
    <3>2. CASE srv[i].active > 0 /\ srv' = [srv EXCEPT ![i] = [srv[i] EXCEPT !.active = srv[i].active - 1]]
      <4>1. srv[i].active - 1 \in 0 .. MaxActive
        BY <2>1, <3>2, CountUpDown
      <4> QED
        BY <3>2, <4>1
    <3> QED
      BY <2>2, <3>1, <3>2
  <2>4. [srv[i] EXCEPT !.active = active] \in Server
    BY <2>1, ServerUpdates
  <2> QED
    BY <1>13, <1>c, <2>3, <2>4 DEF AcceptRequest, HandlerReturns
<1>14. CASE UNCHANGED nasVars
  BY <1>14, <1>c DEF nasVars
<1> QED
  BY <1>1, <1>2, <1>3, <1>4, <1>5, <1>6, <1>7, <1>8, <1>9, <1>10, <1>11, <1>12, <1>13, <1>14
  DEF NasNext, StartStep, DestroyStep

LEMMA NasInvariant == NasSpec => []NasInv
BY NasInvInit, NasInvNext, PTL DEF NasSpec

\* Every variable of the service, the binding and the servers keeps its type.
THEOREM NasTypeCorrect == NasSpec => []NasTypeOK
<1>1. NasInv => NasTypeOK
  BY DEF NasInv
<1> QED
  BY <1>1, NasInvariant, PTL

----------------------------------------------------------------------------
(* The service: OneServer                                                  *)

\* What a server is while its start thread runs, and after.
Stages ==
  \A t \in Starts :
    /\ thread[t].at \in {"none", "called", "listening"} => srv[t] = NotStarted
    /\ thread[t].at = "bound" => srv[t].tcp = "bound" /\ ~ srv[t].down
    /\ srv[t].tcp = "none" => srv[t].udp = "none"

\* The server of the binding is up, until Shutdown; no other server is up but the one that
\* the holder of the mutex has just bound.
Current ==
  /\ \A i \in Starts : mobile.addr = i =>
       /\ srv[i].tcp # "none" /\ (srv[i].tcp = "closed" => srv[i].down \/ srv[i].failed)
       /\ srv[i].down <=> main = "shutting down"
       /\ thread[i].at \in {"returned", "cleared", "done"}
  /\ \A i \in Starts : Open(i) /\ ~ srv[i].down => mobile.addr = i \/ thread[i].at = "bound"

\* Who is shut down does not answer discovery; who answers has a listener, unless Serve failed.
Probes ==
  \A i \in Starts : /\ srv[i].down => srv[i].udp # "open"
                    /\ srv[i].udp = "open" => Open(i) \/ srv[i].failed

ServerInv == Stages /\ Current /\ Probes

LEMMA ServerInvInit == NasInit => ServerInv
BY Holders DEF NasInit, ServerInv, Stages, Current, Probes, NotStarted, NotRunning, Open

\* One step per action; a step of the service leaves the servers alone.
LEMMA ServerInvNext == NasInv /\ ServerInv /\ [NasNext]_nasVars => ServerInv'
<1> SUFFICES ASSUME NasInv, ServerInv, [NasNext]_nasVars PROVE ServerInv'
  OBVIOUS
<1>a. /\ srv \in [Starts -> Server] /\ thread \in [Starts -> Thread]
      /\ NotStarted.tcp = "none" /\ NotStarted.udp = "none" /\ ~ NotStarted.down
  BY DEF NasInv, NasTypeOK, Thread, NotStarted
<1>b. Stages /\ Current /\ Probes /\ Mutex /\ Binding
  BY DEF ServerInv, NasInv
<1> USE DEF ServerInv
\* The place of one thread changes.
<1>c. ASSUME NEW t \in Starts, NEW place, srv' = srv, mobile' = mobile, main' = main,
             \A s \in Starts : thread'[s].at = IF s = t THEN place ELSE thread[s].at,
             \/ place \in {"called", "listening"} /\ thread[t].at \in {"none", "called", "listening"}
             \/ place \in {"returned", "cleared", "done"} /\ thread[t].at # "bound"
      PROVE  ServerInv'
  BY <1>b, <1>c DEF Stages, Current, Probes, Open
<1>1. CASE OnStartCommand
  <2>1. CASE UNCHANGED thread
    BY <1>1, <1>b, <2>1 DEF OnStartCommand, bindingVars, Stages, Current, Probes, Open
  <2>2. ASSUME NEW t \in Starts, thread[t].at = "none", thread' = [thread EXCEPT ![t].at = "called"]
        PROVE  ServerInv'
    <3>1. \A s \in Starts : thread'[s].at = IF s = t THEN "called" ELSE thread[s].at
      BY <1>a, <2>2 DEF Thread
    <3> QED
      BY <1>1, <1>c, <2>2, <3>1 DEF OnStartCommand, bindingVars
  <2> QED
    BY <1>1, <2>1, <2>2 DEF OnStartCommand
<1>2. ASSUME NEW t \in Starts, StartLocks(t) PROVE ServerInv'
  <2>1. PICK place \in {"returned", "listening"} :
          \A s \in Starts : thread'[s].at = IF s = t THEN place ELSE thread[s].at
    <3>1. CASE thread' = [thread EXCEPT ![t].at = "returned", ![t].got = mobile.addr]
      <4>1. thread' = [thread EXCEPT ![t] = [thread[t] EXCEPT !.at = "returned", !.got = mobile.addr]]
        BY <1>a, <3>1
      <4>2. [thread[t] EXCEPT !.at = "returned", !.got = mobile.addr].at = "returned"
        BY <1>a DEF Thread
      <4> QED
        BY <1>a, <4>1, <4>2
    <3>2. CASE thread' = [thread EXCEPT ![t].at = "listening"]
      BY <1>a, <3>2 DEF Thread
    <3> QED
      BY <1>2, <3>1, <3>2 DEF StartLocks
  <2> QED
    BY <1>2, <1>c, <2>1 DEF StartLocks
<1>3. ASSUME NEW t \in Starts, Listen(t) PROVE ServerInv'
  <2>1. CASE /\ srv' = srv
             /\ \/ thread' = [thread EXCEPT ![t].at = "returned"]
                \/ thread' = [thread EXCEPT ![t].port = thread[t].port + 1]
    <3>1. PICK place \in {"returned", "listening"} :
            \A s \in Starts : thread'[s].at = IF s = t THEN place ELSE thread[s].at
      <4>1. thread[t].at = "listening"
        BY <1>3 DEF Listen
      <4>2. /\ [thread[t] EXCEPT !.at = "returned"].at = "returned"
            /\ [thread[t] EXCEPT !.port = thread[t].port + 1].at = "listening"
        BY <1>a, <4>1 DEF Thread
      <4> QED
        BY <1>a, <2>1, <4>1, <4>2
    <3> QED
      BY <1>3, <1>c, <2>1, <3>1 DEF Listen
  <2>2. CASE /\ srv' = [srv EXCEPT ![t].tcp = "bound", ![t].port = thread[t].port]
             /\ thread' = [thread EXCEPT ![t].at = "bound"]
    <3>1. \A s \in Starts : thread'[s].at = IF s = t THEN "bound" ELSE thread[s].at
      BY <1>a, <2>2 DEF Thread
    <3>2. srv' = [srv EXCEPT ![t] = [srv[t] EXCEPT !.tcp = "bound", !.port = thread[t].port]]
      BY <1>a, <2>2
    <3>3. LET n == [srv[t] EXCEPT !.tcp = "bound", !.port = thread[t].port]
          IN n.tcp = "bound" /\ n.udp = srv[t].udp /\ n.down = srv[t].down
      BY <1>a DEF Server
    <3>4. /\ srv'[t].tcp = "bound" /\ srv'[t].udp = srv[t].udp /\ srv'[t].down = srv[t].down
          /\ \A s \in Starts \ {t} : srv'[s] = srv[s]
      BY <1>a, <3>2, <3>3
    <3>5. /\ thread[t].at = "listening" /\ srv[t] = NotStarted /\ mobile' = mobile /\ main' = main
          /\ mobile.addr # t
      BY <1>3, <1>b, Holders DEF Listen, Stages, Mutex, Binding
    <3>6. Stages'
      BY <1>a, <1>b, <3>1, <3>4, <3>5 DEF Stages
    <3>7. Current'
      BY <1>a, <1>b, <3>1, <3>4, <3>5 DEF Current, Open
    <3>8. Probes'
      BY <1>a, <1>b, <3>4, <3>5 DEF Probes, Open
    <3> QED
      BY <3>6, <3>7, <3>8
  <2> QED
    BY <1>3, <2>1, <2>2 DEF Listen
\* One server changes.
<1>d. ASSUME NEW i \in Starts, UNCHANGED <<thread, mobile, main>>,
             \A s \in Starts \ {i} : srv'[s] = srv[s],
             srv'[i].down = srv[i].down, srv[i].failed => srv'[i].failed,
             \/ srv'[i].tcp = srv[i].tcp
             \/ /\ thread[i].at \notin {"none", "called", "listening", "bound"}
                /\ srv[i].tcp = "bound" /\ srv'[i].tcp = "serving"
             \/ /\ srv[i].tcp # "none" /\ srv'[i].tcp = "closed" /\ (srv'[i].down \/ srv'[i].failed)
                /\ thread[i].at \notin {"none", "called", "listening", "bound"},
             \/ srv'[i].udp = srv[i].udp
             \/ srv'[i].udp # "open" /\ srv'[i].tcp # "none"
             \/ srv'[i].tcp = "bound" /\ ~ srv[i].down,
             thread[i].at \in {"none", "called", "listening"} => srv' = srv
      PROVE  ServerInv'
  <2>1. Stages'
    BY <1>b, <1>d DEF Stages
  <2>2. Current'
    BY <1>b, <1>d DEF Current, Open
  <2>3. Probes'
    BY <1>b, <1>d DEF Probes, Open
  <2> QED
    BY <2>1, <2>2, <2>3
<1>4. ASSUME NEW t \in Starts, StartDiscovery(t) PROVE ServerInv'
  <2>1. PICK udp \in {"open", "closed"} : srv' = [srv EXCEPT ![t] = [srv[t] EXCEPT !.udp = udp]]
    BY <1>4 DEF StartDiscovery
  <2>2. /\ srv'[t].tcp = srv[t].tcp /\ srv'[t].down = srv[t].down /\ srv'[t].failed = srv[t].failed
        /\ \A s \in Starts \ {t} : srv'[s] = srv[s]
    BY <1>a, <2>1 DEF Server
  <2>3. thread[t].at = "bound" /\ srv[t].tcp = "bound" /\ ~ srv[t].down
    BY <1>4, <1>b DEF StartDiscovery, Stages
  <2> QED
    BY <1>4, <1>d, <2>2, <2>3 DEF StartDiscovery, androidVars, bindingVars
<1>5. ASSUME NEW t \in Starts, StartReturns(t) PROVE ServerInv'
  <2>1. /\ \A s \in Starts : thread'[s].at = IF s = t THEN "returned" ELSE thread[s].at
        /\ mobile' = [running |-> TRUE, addr |-> t, stop |-> t]
        /\ UNCHANGED <<srv, main>>
    <3>1. thread' = [thread EXCEPT ![t] = [thread[t] EXCEPT !.at = "returned", !.got = t]]
      BY <1>5, <1>a DEF StartReturns
    <3>2. [thread[t] EXCEPT !.at = "returned", !.got = t].at = "returned"
      BY <1>a DEF Thread
    <3> QED
      BY <1>5, <1>a, <3>1, <3>2 DEF StartReturns
  <2>2. /\ thread[t].at = "bound" /\ srv[t].tcp = "bound" /\ ~ srv[t].down /\ mu = t
        /\ mobile.addr = NoServer /\ main # "shutting down"
        /\ \A s \in Starts \ {t} : thread[s].at # "bound"
    BY <1>5, <1>b, Holders DEF StartReturns, Stages, Mutex, Binding
  <2>3. Stages'
    BY <1>b, <2>1, <2>2 DEF Stages
  <2>4. Current'
    BY <1>b, <2>1, <2>2, Holders DEF Current, Open
  <2>5. Probes'
    BY <1>b, <2>1 DEF Probes, Open
  <2> QED
    BY <2>3, <2>4, <2>5
<1>6. ASSUME NEW t \in Starts, ClearStarting(t) \/ Publish(t) PROVE ServerInv'
  <2>1. PICK place \in {"cleared", "done"} :
          \A s \in Starts : thread'[s].at = IF s = t THEN place ELSE thread[s].at
    BY <1>6, <1>a DEF ClearStarting, Publish, Thread
  <2> QED
    BY <1>6, <1>c, <2>1 DEF ClearStarting, Publish, bindingVars
<1>e. ASSUME UNCHANGED <<thread, srv, mobile>>, main' = "shutting down" <=> main = "shutting down"
      PROVE  ServerInv'
  BY <1>b, <1>e DEF Stages, Current, Probes, Open
<1>7. CASE OnDestroy \/ Destroyed
  BY <1>7, <1>e DEF OnDestroy, Destroyed, bindingVars
<1>8. CASE StopLocks
  <2>1. CASE ~ mobile.running
    BY <1>8, <1>e, <2>1 DEF StopLocks
  <2>2. CASE mobile.running
    <3> DEFINE i == mobile.addr
    <3>1. /\ i \in Starts /\ main' = "shutting down" /\ main # "shutting down"
          /\ UNCHANGED <<thread, mobile>> /\ srv' = [srv EXCEPT ![i] = Shutdown(srv[i])]
      <4>1. i \in Starts /\ i = mobile.stop
        BY <1>b, <2>2 DEF Binding, NasInv, NasTypeOK
      <4> QED
        BY <1>8, <2>2, <4>1 DEF StopLocks
    <3>2. /\ thread[i].at \in {"returned", "cleared", "done"} /\ srv[i].tcp # "none" /\ ~ srv[i].down
          /\ srv[i].tcp = "closed" => srv[i].failed
      BY <1>b, <3>1 DEF Current
    <3>3. LET n == Shutdown(srv[i])
          IN /\ n.down /\ n.udp # "open" /\ n.tcp # "none"
             /\ n.failed = srv[i].failed
      BY <1>a, <3>1, <3>2 DEF Shutdown, Server
    <3> HIDE DEF i
    <3>4. /\ srv'[i].down /\ srv'[i].udp # "open" /\ srv'[i].tcp # "none"
          /\ srv'[i].failed = srv[i].failed
          /\ \A s \in Starts \ {i} : srv'[s] = srv[s]
      BY <1>a, <3>1, <3>3
    <3>5. Stages'
      BY <1>b, <3>1, <3>2, <3>4 DEF Stages
    <3>6. mobile.addr = i
      BY DEF i
    <3>7. Current'
      BY <1>b, <3>1, <3>2, <3>4, <3>6 DEF Current, Open
    <3>8. Probes'
      BY <1>b, <3>1, <3>4 DEF Probes, Open
    <3> QED
      BY <3>5, <3>7, <3>8
  <2> QED
    BY <2>1, <2>2
<1>9. CASE StopReturns
  <2>1. /\ mobile'.addr = NoServer /\ UNCHANGED <<thread, srv>>
        /\ main = "shutting down" /\ main' = "stopped"
    BY <1>9 DEF StopReturns, NotRunning
  <2> QED
    BY <1>b, <2>1, Holders DEF Stages, Current, Probes, Open
<1>10. ASSUME NEW i \in Starts, ServeBegins(i) PROVE ServerInv'
  <2>1. srv[i].tcp = "bound" /\ (mobile.addr = i \/ srv[i].down)
    BY <1>10, <1>b DEF ServeBegins, Spawned, Binding
  <2>2. thread[i].at \notin {"none", "called", "listening", "bound"}
    BY <1>a, <1>b, <2>1 DEF Stages, Current
  <2>3. /\ srv'[i].tcp = IF srv[i].down THEN "closed" ELSE "serving"
        /\ srv'[i].udp = srv[i].udp /\ srv'[i].down = srv[i].down /\ srv'[i].failed = srv[i].failed
        /\ \A s \in Starts \ {i} : srv'[s] = srv[s]
    BY <1>10, <1>a DEF ServeBegins, Server
  <2>4. UNCHANGED <<thread, mobile, main>>
    BY <1>10 DEF ServeBegins, androidVars, bindingVars
  <2> QED
    BY <1>d, <2>1, <2>2, <2>3, <2>4
<1>11. ASSUME NEW i \in Starts, ServeFails(i) PROVE ServerInv'
  <2>1. /\ srv[i].tcp = "serving" /\ UNCHANGED <<thread, mobile, main>>
        /\ srv' = [srv EXCEPT ![i] = [srv[i] EXCEPT !.tcp = "closed", !.failed = TRUE]]
    BY <1>11, <1>a DEF ServeFails, androidVars, bindingVars
  <2>2. LET n == [srv[i] EXCEPT !.tcp = "closed", !.failed = TRUE]
        IN n.tcp = "closed" /\ n.failed /\ n.udp = srv[i].udp /\ n.down = srv[i].down
    BY <1>a DEF Server
  <2>3. /\ srv'[i].tcp = "closed" /\ srv'[i].failed
        /\ srv'[i].udp = srv[i].udp /\ srv'[i].down = srv[i].down
        /\ \A s \in Starts \ {i} : srv'[s] = srv[s]
    BY <1>a, <2>1, <2>2
  <2>4. thread[i].at \notin {"none", "called", "listening", "bound"}
    BY <1>a, <1>b, <2>1 DEF Stages
  <2> QED
    BY <1>d, <2>1, <2>3, <2>4
<1>12. ASSUME NEW i \in Starts, AcceptRequest(i) \/ HandlerReturns(i) PROVE ServerInv'
  <2>1. /\ UNCHANGED <<thread, mobile, main>>
        /\ srv'[i].tcp = srv[i].tcp /\ srv'[i].udp = srv[i].udp
        /\ srv'[i].down = srv[i].down /\ srv'[i].failed = srv[i].failed
        /\ \A s \in Starts \ {i} : srv'[s] = srv[s]
    BY <1>12, <1>a DEF AcceptRequest, HandlerReturns, androidVars, bindingVars, Server
  <2>2. thread[i].at \notin {"none", "called", "listening"}
    <3>1. NotStarted.active = 0
      BY DEF NotStarted
    <3> QED
      BY <1>12, <1>a, <1>b, <3>1 DEF AcceptRequest, HandlerReturns, Stages
  <2> QED
    BY <1>d, <2>1, <2>2
<1>13. ASSUME NEW i \in Starts, DiscoveryCloses(i) PROVE ServerInv'
  <2>1. /\ UNCHANGED <<thread, mobile, main>> /\ srv[i].udp = "closing" /\ srv'[i].udp = "closed"
        /\ srv'[i].tcp = srv[i].tcp
        /\ srv'[i].down = srv[i].down /\ srv'[i].failed = srv[i].failed
        /\ \A s \in Starts \ {i} : srv'[s] = srv[s]
    BY <1>13, <1>a DEF DiscoveryCloses, androidVars, bindingVars, Server
  <2>2. srv[i].tcp # "none" /\ thread[i].at \notin {"none", "called", "listening"}
    BY <1>a, <1>b, <2>1 DEF Stages
  <2> QED
    BY <1>d, <2>1, <2>2
<1>14. CASE UNCHANGED nasVars
  BY <1>14, <1>e DEF nasVars, androidVars, bindingVars
<1> QED
  BY <1>1, <1>2, <1>3, <1>4, <1>5, <1>6, <1>7, <1>8, <1>9, <1>10, <1>11, <1>12, <1>13, <1>14
  DEF NasNext, StartStep, DestroyStep, ServerStep

LEMMA ServerInvariant == NasSpec => [](NasInv /\ ServerInv)
<1>1. NasInit => NasInv /\ ServerInv
  BY NasInvInit, ServerInvInit
<1>2. NasInv /\ ServerInv /\ [NasNext]_nasVars => (NasInv /\ ServerInv)'
  BY NasInvNext, ServerInvNext
<1> QED
  BY <1>1, <1>2, PTL DEF NasSpec

\* At any number of starts and stops there is one server that listens and is not being shut
\* down; it is the one the binding names and stops, and discovery names no other.
THEOREM OneServerAtATime == NasSpec => []OneServer
<1>1. NasInv /\ ServerInv => OneServer
  <2> SUFFICES ASSUME NasInv, ServerInv PROVE OneServer
    OBVIOUS
  <2> USE DEF NasInv, ServerInv
  <2>1. ASSUME mu = Free
        PROVE  /\ mobile.addr = mobile.stop
               /\ mobile.addr # NoServer => /\ ~ srv[mobile.addr].down
                                            /\ Open(mobile.addr) \/ srv[mobile.addr].failed
    <3>1. main # "shutting down" /\ mobile.addr \in Starts \cup {NoServer}
      BY <2>1, Holders DEF Mutex, NasTypeOK
    <3>2. \A i \in Starts : srv[i].tcp \in {"none", "bound", "serving", "closed"}
      BY DEF NasTypeOK, Server
    <3> QED
      BY <3>1, <3>2 DEF Binding, Current, Open
  <2>2. ASSUME NEW i \in Starts, NEW j \in Starts, Open(i), Open(j), i # j
        PROVE  srv[i].down \/ srv[j].down
    BY <2>2, Holders DEF Current, Mutex, Binding
  <2> QED
    BY <2>1, <2>2 DEF OneServer, Probes
<1> QED
  BY <1>1, ServerInvariant, PTL

----------------------------------------------------------------------------
(* The service: ServiceAgrees                                              *)

Answered(t) == thread[t].at \in {"returned", "cleared"}

\* Unless onDestroy ran into a start: the binding's address is the one the service shows, or a
\* start is about to publish it; onDestroy and a start do not meet.
Shown ==
  crossed \/
    /\ main # "idle" => StartsUnderWay = {}
    /\ main = "stopped" => ~ mobile.running
    /\ ~ service => StartsUnderWay = {} /\ ~ mobile.running
    /\ main # "stopped" =>
         \/ serverAddress = mobile.addr
         \/ /\ serverAddress = NoServer
            /\ \E t \in Starts : Answered(t) /\ thread[t].got = mobile.addr
    /\ \A t \in Starts : Answered(t) => thread[t].got \in {NoServer, mobile.addr}

\* A start that has not returned has no address.
Unanswered ==
  \A t \in Starts : thread[t].at \in {"none", "called", "listening", "bound"} => thread[t].got = NoServer

LEMMA UnansweredInit == NasInit => Unanswered
BY DEF NasInit, Unanswered

\* Listening on a port changes no address that a start got, nor another thread.
LEMMA ListenKeepsGot ==
  ASSUME NasInv, NEW t \in Starts, Listen(t)
  PROVE  /\ \A s \in Starts \ {t} : thread'[s] = thread[s]
         /\ thread[t].at = "listening" /\ thread'[t].got = thread[t].got
<1>1. thread \in [Starts -> Thread] /\ thread[t].at = "listening"
  BY DEF NasInv, NasTypeOK, Thread, Listen
<1>2. CASE thread' = [thread EXCEPT ![t].at = "bound"]
  BY <1>1, <1>2 DEF Thread
<1>3. CASE thread' = [thread EXCEPT ![t].at = "returned"]
  BY <1>1, <1>3 DEF Thread
<1>4. CASE thread' = [thread EXCEPT ![t].port = thread[t].port + 1]
  BY <1>1, <1>4 DEF Thread
<1> QED
  BY <1>2, <1>3, <1>4 DEF Listen

LEMMA UnansweredNext == NasInv /\ Unanswered /\ [NasNext]_nasVars => Unanswered'
<1> SUFFICES ASSUME NasInv, Unanswered, [NasNext]_nasVars PROVE Unanswered'
  OBVIOUS
<1>a. thread \in [Starts -> Thread]
  BY DEF NasInv, NasTypeOK, Thread
<1>b. ASSUME NEW t \in Starts, \A s \in Starts \ {t} : thread'[s] = thread[s],
             \/ thread'[t].at \in {"returned", "cleared", "done"}
             \/ /\ thread[t].at \in {"none", "called", "listening", "bound"}
                /\ thread'[t].got = thread[t].got
      PROVE  Unanswered'
  BY <1>b DEF Unanswered
<1>1. CASE UNCHANGED thread
  BY <1>1 DEF Unanswered
<1>2. CASE OnStartCommand
  <2>1. ASSUME NEW t \in Starts, thread[t].at = "none", thread' = [thread EXCEPT ![t].at = "called"]
        PROVE  Unanswered'
    <3>1. /\ \A s \in Starts \ {t} : thread'[s] = thread[s]
          /\ thread'[t].got = thread[t].got
      BY <1>a, <2>1 DEF Thread
    <3> QED
      BY <1>b, <2>1, <3>1
  <2> QED
    BY <1>1, <1>2, <2>1 DEF OnStartCommand
<1>3. ASSUME NEW t \in Starts, StartLocks(t) PROVE Unanswered'
  <2>1. CASE thread' = [thread EXCEPT ![t].at = "returned", ![t].got = mobile.addr]
    <3>1. thread' = [thread EXCEPT ![t] = [thread[t] EXCEPT !.at = "returned", !.got = mobile.addr]]
      BY <1>a, <2>1
    <3>2. [thread[t] EXCEPT !.at = "returned", !.got = mobile.addr].at = "returned"
      BY <1>a DEF Thread
    <3> QED
      BY <1>a, <1>b, <3>1, <3>2
  <2>2. CASE thread' = [thread EXCEPT ![t].at = "listening"]
    <3>1. /\ \A s \in Starts \ {t} : thread'[s] = thread[s]
          /\ thread'[t].got = thread[t].got /\ thread[t].at = "called"
      BY <1>3, <1>a, <2>2 DEF Thread, StartLocks
    <3> QED
      BY <1>b, <3>1
  <2> QED
    BY <1>3, <2>1, <2>2 DEF StartLocks
<1>4. ASSUME NEW t \in Starts, Listen(t) PROVE Unanswered'
  BY <1>4, <1>b, ListenKeepsGot
<1>5. ASSUME NEW t \in Starts, StartReturns(t) PROVE Unanswered'
  <2>1. thread' = [thread EXCEPT ![t] = [thread[t] EXCEPT !.at = "returned", !.got = t]]
    BY <1>5, <1>a DEF StartReturns
  <2>2. [thread[t] EXCEPT !.at = "returned", !.got = t].at = "returned"
    BY <1>a DEF Thread
  <2> QED
    BY <1>a, <1>b, <2>1, <2>2
<1>6. ASSUME NEW t \in Starts, ClearStarting(t) \/ Publish(t) PROVE Unanswered'
  <2>1. /\ \A s \in Starts \ {t} : thread'[s] = thread[s]
        /\ thread'[t].at \in {"returned", "cleared", "done"}
    BY <1>6, <1>a DEF ClearStarting, Publish, Thread
  <2> QED
    BY <1>b, <2>1
<1> QED
  BY <1>1, <1>2, <1>3, <1>4, <1>5, <1>6
  DEF NasNext, StartStep, DestroyStep, ServerStep, StartDiscovery, OnDestroy, StopLocks, StopReturns,
      Destroyed, ServeBegins, DiscoveryCloses, ServeFails, AcceptRequest, HandlerReturns, nasVars,
      androidVars

LEMMA ShownInit == NasInit => Shown
BY DEF NasInit, Shown, StartsUnderWay, NotRunning, Answered

\* One step per action; the servers do not matter.
LEMMA ShownNext == NasInv /\ Unanswered /\ Shown /\ [NasNext]_nasVars => Shown'
<1> SUFFICES ASSUME NasInv, Unanswered, Shown, [NasNext]_nasVars PROVE Shown'
  OBVIOUS
<1>a. /\ thread \in [Starts -> Thread] /\ serverAddress \in Starts \cup {NoServer}
      /\ mobile.addr \in Starts \cup {NoServer} /\ (~ mobile.running <=> mobile.addr = NoServer)
      /\ Mutex /\ Binding
  BY DEF NasInv, NasTypeOK, Thread, Binding
<1>b. CASE UNCHANGED <<androidVars, mobile>>
  BY <1>b DEF androidVars, Shown, StartsUnderWay, Answered
<1>1. CASE OnStartCommand
  <2>1. CASE UNCHANGED thread
    BY <1>1, <2>1 DEF OnStartCommand, bindingVars, Shown, StartsUnderWay, Answered
  <2>2. ASSUME NEW t \in Starts, thread[t].at = "none", thread' = [thread EXCEPT ![t].at = "called"]
        PROVE  Shown'
    <3>1. /\ \A s \in Starts \ {t} : thread'[s] = thread[s]
          /\ thread'[t].at = "called" /\ thread'[t].got = thread[t].got
      BY <1>a, <2>2 DEF Thread
    <3>2. main = "idle" /\ main' = "idle" /\ service' = TRUE
          /\ UNCHANGED <<serverAddress, mobile, crossed>>
      BY <1>1 DEF OnStartCommand, bindingVars
    <3>3. \A s \in Starts : Answered(s)' <=> Answered(s)
      BY <2>2, <3>1 DEF Answered
    <3>4. \A s \in Starts : Answered(s) => thread'[s].got = thread[s].got
      BY <3>1
    <3> QED
      BY <3>2, <3>3, <3>4 DEF Shown
  <2> QED
    BY <1>1, <2>1, <2>2 DEF OnStartCommand
<1>2. ASSUME NEW t \in Starts, StartLocks(t) PROVE Shown'
  <2>1. /\ thread[t].at = "called" /\ t \in StartsUnderWay
        /\ UNCHANGED <<service, main, serverAddress, mobile, crossed>>
    BY <1>2 DEF StartLocks, StartsUnderWay
  <2>2. /\ \A s \in Starts \ {t} : thread'[s] = thread[s]
        /\ \/ thread'[t].at = "returned" /\ thread'[t].got = mobile.addr
           \/ thread'[t].at = "listening"
    <3>1. CASE thread' = [thread EXCEPT ![t].at = "returned", ![t].got = mobile.addr]
      <4>1. thread' = [thread EXCEPT ![t] = [thread[t] EXCEPT !.at = "returned", !.got = mobile.addr]]
        BY <1>a, <3>1
      <4>2. LET n == [thread[t] EXCEPT !.at = "returned", !.got = mobile.addr]
            IN n.at = "returned" /\ n.got = mobile.addr
        BY <1>a DEF Thread
      <4> QED
        BY <1>a, <4>1, <4>2
    <3>2. CASE thread' = [thread EXCEPT ![t].at = "listening"]
      BY <1>a, <3>2 DEF Thread
    <3> QED
      BY <1>2, <3>1, <3>2 DEF StartLocks
  <2>3. crossed \/ (main = "idle" /\ service)
    BY <2>1 DEF Shown
  <2> QED
    BY <1>a, <2>1, <2>2, <2>3 DEF Shown, Answered
<1>3. ASSUME NEW t \in Starts, Listen(t) PROVE Shown'
  <2>1. /\ thread[t].at = "listening" /\ t \in StartsUnderWay
        /\ UNCHANGED <<service, main, serverAddress, mobile, crossed>>
        /\ mobile.addr = NoServer
    BY <1>3, <1>a DEF Listen, StartsUnderWay, Mutex, Binding
  <2>2. /\ \A s \in Starts \ {t} : thread'[s] = thread[s]
        /\ thread'[t].got = thread[t].got
    BY <1>3, ListenKeepsGot
  <2>3. crossed \/ (main = "idle" /\ service)
    BY <2>1 DEF Shown
  <2>4. crossed \/ serverAddress = NoServer
    BY <2>1, <2>3 DEF Shown
  <2>5. ASSUME NEW s \in Starts, ~ crossed, Answered(s)' PROVE thread'[s].got \in {NoServer, mobile.addr}
    <3>1. CASE s = t
      BY <2>1, <2>2, <3>1 DEF Unanswered
    <3>2. CASE s # t
      BY <2>2, <2>5, <3>2 DEF Shown, Answered
    <3> QED
      BY <3>1, <3>2
  <2> QED
    BY <2>1, <2>3, <2>4, <2>5 DEF Shown
<1>4. ASSUME NEW t \in Starts, StartDiscovery(t) PROVE Shown'
  BY <1>4, <1>b DEF StartDiscovery, bindingVars
<1>5. ASSUME NEW t \in Starts, StartReturns(t) PROVE Shown'
  <2>1. /\ thread[t].at = "bound" /\ t \in StartsUnderWay /\ mobile.addr = NoServer
        /\ mobile'.addr = t /\ mobile'.running
        /\ UNCHANGED <<service, main, serverAddress, crossed>>
    BY <1>5, <1>a DEF StartReturns, StartsUnderWay, Mutex, Binding
  <2>2. /\ \A s \in Starts \ {t} : thread'[s] = thread[s]
        /\ thread'[t].at = "returned" /\ thread'[t].got = t
    <3>1. thread' = [thread EXCEPT ![t] = [thread[t] EXCEPT !.at = "returned", !.got = t]]
      BY <1>5, <1>a DEF StartReturns
    <3>2. LET n == [thread[t] EXCEPT !.at = "returned", !.got = t]
          IN n.at = "returned" /\ n.got = t
      BY <1>a DEF Thread
    <3> QED
      BY <1>a, <3>1, <3>2
  <2>3. crossed \/ (main = "idle" /\ service /\ serverAddress = NoServer)
    BY <2>1 DEF Shown
  <2> QED
    BY <2>1, <2>2, <2>3 DEF Shown, Answered
<1>6. ASSUME NEW t \in Starts, ClearStarting(t) PROVE Shown'
  <2>1. /\ \A s \in Starts \ {t} : thread'[s] = thread[s]
        /\ thread[t].at = "returned" /\ thread'[t].at = "cleared" /\ thread'[t].got = thread[t].got
        /\ UNCHANGED <<service, main, serverAddress, mobile, crossed>>
    BY <1>6, <1>a DEF ClearStarting, bindingVars, Thread
  <2>2. StartsUnderWay' = StartsUnderWay
    BY <2>1 DEF StartsUnderWay
  <2>3. \A s \in Starts : (Answered(s)' <=> Answered(s)) /\ thread'[s].got = thread[s].got
    BY <2>1 DEF Answered
  <2> QED
    BY <2>1, <2>2, <2>3 DEF Shown
<1>7. ASSUME NEW t \in Starts, Publish(t) PROVE Shown'
  <2>1. /\ \A s \in Starts \ {t} : thread'[s] = thread[s]
        /\ thread[t].at = "cleared" /\ thread'[t].at = "done" /\ thread'[t].got = thread[t].got
        /\ UNCHANGED <<service, main, mobile, crossed>>
        /\ serverAddress' = IF thread[t].got = NoServer THEN serverAddress ELSE thread[t].got
    BY <1>7, <1>a DEF Publish, bindingVars, Thread
  <2>2. t \in StartsUnderWay /\ Answered(t) /\ StartsUnderWay' \subseteq StartsUnderWay
    BY <2>1 DEF StartsUnderWay, Answered
  <2>3. \A s \in Starts : (Answered(s)' <=> Answered(s) /\ s # t) /\ thread'[s].got = thread[s].got
    BY <2>1 DEF Answered
  <2>4. crossed \/ (main = "idle" /\ service /\ thread[t].got \in {NoServer, mobile.addr})
    BY <2>2 DEF Shown
  <2>5. CASE thread[t].got = NoServer
    BY <2>1, <2>2, <2>3, <2>4, <2>5 DEF Shown
  <2>6. CASE thread[t].got # NoServer
    BY <2>1, <2>2, <2>3, <2>4, <2>6 DEF Shown
  <2> QED
    BY <2>5, <2>6
<1>8. CASE OnDestroy
  <2>1. /\ main = "idle" /\ service /\ main' = "stop called"
        /\ UNCHANGED <<service, thread, serverAddress, mobile>>
        /\ crossed' = (crossed \/ StartsUnderWay # {})
    BY <1>8 DEF OnDestroy, bindingVars
  <2>2. CASE crossed'
    BY <2>2 DEF Shown
  <2>3. CASE ~ crossed'
    <3>1. ~ crossed /\ StartsUnderWay = {}
      BY <2>1, <2>3
    <3>2. StartsUnderWay' = StartsUnderWay /\ \A t \in Starts : Answered(t)' <=> Answered(t)
      BY <2>1 DEF StartsUnderWay, Answered
    <3> QED
      BY <2>1, <3>1, <3>2 DEF Shown
  <2> QED
    BY <2>2, <2>3
<1>9. CASE StopLocks
  <2>1. /\ main = "stop called" /\ UNCHANGED <<service, thread, serverAddress, mobile, crossed>>
        /\ \/ mobile.running /\ main' = "shutting down"
           \/ ~ mobile.running /\ main' = "stopped"
    BY <1>9 DEF StopLocks
  <2>2. StartsUnderWay' = StartsUnderWay /\ \A t \in Starts : Answered(t)' <=> Answered(t)
    BY <2>1 DEF StartsUnderWay, Answered
  <2> QED
    BY <2>1, <2>2 DEF Shown
<1>10. CASE StopReturns
  <2>1. /\ main = "shutting down" /\ main' = "stopped" /\ ~ mobile'.running
        /\ UNCHANGED <<service, thread, serverAddress, crossed>>
    BY <1>10 DEF StopReturns, NotRunning
  <2>2. StartsUnderWay' = StartsUnderWay /\ \A t \in Starts : Answered(t)' <=> Answered(t)
    BY <2>1 DEF StartsUnderWay, Answered
  <2>3. \A t \in Starts : Answered(t) => t \in StartsUnderWay
    BY DEF Answered, StartsUnderWay
  <2> QED
    BY <2>1, <2>2, <2>3 DEF Shown
<1>11. CASE Destroyed
  <2>1. /\ main = "stopped" /\ main' = "idle" /\ serverAddress' = NoServer /\ service' = FALSE
        /\ UNCHANGED <<thread, mobile, crossed>>
    BY <1>11 DEF Destroyed, bindingVars
  <2>2. StartsUnderWay' = StartsUnderWay /\ \A t \in Starts : Answered(t)' <=> Answered(t)
    BY <2>1 DEF StartsUnderWay, Answered
  <2> QED
    BY <1>a, <2>1, <2>2 DEF Shown
<1>12. ASSUME NEW i \in Starts, ServerStep(i) \/ ServeFails(i) \/ AcceptRequest(i) \/ HandlerReturns(i)
       PROVE  Shown'
  BY <1>12, <1>b DEF ServerStep, ServeBegins, DiscoveryCloses, ServeFails, AcceptRequest,
     HandlerReturns, bindingVars
<1>13. CASE UNCHANGED nasVars
  BY <1>13, <1>b DEF nasVars, bindingVars
<1> QED
  BY <1>1, <1>2, <1>3, <1>4, <1>5, <1>6, <1>7, <1>8, <1>9, <1>10, <1>11, <1>12, <1>13
  DEF NasNext, StartStep, DestroyStep

\* Unless onDestroy once ran into a start: when neither is under way, the service shows the
\* address of the server that runs, and a destroyed service has left no server running.
THEOREM ServiceAndBindingAgree == NasSpec => []ServiceAgrees
<1>1. NasInv /\ Shown => ServiceAgrees
  <2> SUFFICES ASSUME NasInv, Shown, ~ crossed, main = "idle", StartsUnderWay = {}
               PROVE  serverAddress = mobile.addr /\ (~ service => ~ mobile.running)
    BY DEF ServiceAgrees
  <2>1. \A t \in Starts : ~ Answered(t)
    BY DEF StartsUnderWay, Answered
  <2> QED
    BY <2>1 DEF Shown
<1>2. NasInit => Unanswered /\ Shown
  BY UnansweredInit, ShownInit
<1>3. NasInv /\ Unanswered /\ Shown /\ [NasNext]_nasVars => (Unanswered /\ Shown)'
  BY UnansweredNext, ShownNext
<1> QED
  BY <1>1, <1>2, <1>3, NasInvariant, PTL DEF NasSpec

----------------------------------------------------------------------------
(* The two together                                                        *)

\* A step of the two is one of each, or one of them stutters.
LEMMA ServicesStep ==
  [ServicesNext]_servicesVars => [CacheNext]_cacheVars /\ [NasNext]_nasVars
<1>1. CASE ServicesNext
  BY <1>1 DEF ServicesNext
<1>2. CASE UNCHANGED servicesVars
  BY <1>2 DEF servicesVars
<1> QED
  BY <1>1, <1>2

\* The caches and the service behave next to each other as each does by itself, their fairness
\* included.
THEOREM ServicesAreBoth == ServicesSpec => CacheSpec /\ NasSpec
<1>1. ServicesInit => CacheInit /\ NasInit
  BY DEF ServicesInit
<1> QED
  BY <1>1, ServicesStep, PTL DEF ServicesSpec, CacheSpec, NasSpec

\* Every variable of the two keeps its type; in particular the thumbnailer's semaphore holds
\* one token for each goroutine that generates, never more than its capacity.
THEOREM ServicesTypeCorrect == ServicesSpec => []ServicesTypeOK
<1>1. CacheTypeOK /\ NasTypeOK => ServicesTypeOK
  BY DEF ServicesTypeOK
<1> QED
  BY <1>1, ServicesAreBoth, CacheTypeCorrect, NasTypeCorrect, PTL

\* What holds of each holds of the two together.
THEOREM ServicesStaySafe ==
  ServicesSpec => [](HitsAreCurrent /\ NeverOlder /\ NoTempLeft /\ OneServer /\ ServiceAgrees)
BY ServicesAreBoth, CacheHitsAreCurrent, CacheNeverOlder, CacheLeavesNoTemp, OneServerAtATime,
   ServiceAndBindingAgree, PTL
=============================================================================
