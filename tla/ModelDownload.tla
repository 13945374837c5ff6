---------------------------- MODULE ModelDownload ----------------------------
(***************************************************************************)
(* internal/faces: the download of the runtime library and the models      *)
(* (download.go), PUT /api/faces/models (SetModels) and Reload, which      *)
(* opens the engine of the current settings on what is in the models       *)
(* directory.  One download goroutine, several requests, one mutex.        *)
(***************************************************************************)
EXTENDS Naturals, FiniteSets, Functions

CONSTANTS Setters,      \* goroutines that serve SetModels
          ModelProfiles,\* profiles
          Pack,         \* Pack[p]: members of the model pack of profile p
          Needs,        \* Needs[p]: the models that profile p opens
          Library,      \* name of the runtime library
          NoProfileYet, \* no profile, no engine
          MaxSets,      \* bound: SetModels requests
          MaxDownloads, \* bound: downloads
          MaxMisses,    \* bound: reads, writes and connections that fail
          MaxKills      \* bound: crashes of the process

ModelFiles == (UNION {Pack[p] \cup Needs[p] : p \in ModelProfiles}) \cup {Library}

ASSUME DownloadAssumption ==
  /\ DOMAIN Pack = ModelProfiles /\ DOMAIN Needs = ModelProfiles
  /\ NoProfileYet \notin ModelProfiles
  /\ Setters \cap 1 .. MaxDownloads + 2 = {}  \* so that <<c>> and <<n>> tell who reloads
  /\ {MaxSets, MaxDownloads, MaxMisses, MaxKills} \subseteq Nat

NoDownload == [at |-> "off", number |-> 0, profile |-> NoProfileYet, left |-> {}, pack |-> {}, file |-> Library]

NoSetting == [at |-> "idle", profile |-> NoProfileYet]

VARIABLES
  final,     \* final[m]: "absent", "torn" or "whole" under its own name,
  part,      \* and under its temporary name
  hostLib,   \* a library is found outside the models directory
  chosen,    \* the profile in the settings
  opened,    \* the profile of the open engine
  reloader,  \* who holds the mutex in Reload, and the profile it read
  setter,    \* setter[c]: "idle", or a place in SetModels
  download,  \* the download goroutine
  downloading, \* its flag
  finishing, \* downloads that reported success and have not reloaded: number |-> profile
  sets, downloads, misses, kills  \* how often so far

filesOnDisk == <<final, part, hostLib>>
engineVars == <<opened, reloader>>
downloadBounds == <<sets, downloads, misses, kills>>
downloadVars == <<filesOnDisk, chosen, engineVars, setter, download, downloading, finishing,
                  downloadBounds>>

Downloads == 1 .. MaxDownloads
Nobody == MaxDownloads + 1
NewService == MaxDownloads + 2
NoReload == [who |-> <<Nobody>>, profile |-> NoProfileYet]

DownloadTypeOK ==
  /\ final \in [ModelFiles -> {"absent", "torn", "whole"}]
  /\ part \in [ModelFiles -> {"absent", "torn", "whole"}]
  /\ chosen \in ModelProfiles /\ opened \in ModelProfiles \cup {NoProfileYet}
  /\ reloader.who \in {<<c>> : c \in Setters} \cup {<<n>> : n \in 1 .. NewService}
  /\ reloader.profile \in ModelProfiles \cup {NoProfileYet}
  /\ \A c \in Setters : setter[c].at \in {"idle", "edited", "saved"}
  /\ download.left \subseteq ModelFiles /\ download.pack \subseteq ModelFiles
  /\ downloading = (download.at # "off")
  /\ DOMAIN finishing \subseteq Downloads /\ Range(finishing) \subseteq ModelProfiles

\* The user may have put whole models there.
DownloadInit ==
  /\ \E there \in {{}, ModelFiles \ {Library}, ModelFiles} :
       final = [m \in ModelFiles |-> IF m \in there THEN "whole" ELSE "absent"]
  /\ part = [m \in ModelFiles |-> "absent"]
  /\ hostLib \in BOOLEAN
  /\ chosen \in ModelProfiles /\ opened = NoProfileYet
  /\ reloader = NoReload
  /\ setter = [c \in Setters |-> NoSetting]
  /\ download = NoDownload /\ downloading = FALSE /\ finishing = << >>
  /\ sets = 0 /\ downloads = 0 /\ misses = 0 /\ kills = 0

There(m) == final[m] # "absent"

----------------------------------------------------------------------------
(* Reload                                                                  *)

SetterReloads == {<<c>> : c \in {d \in Setters : setter[d].at = "saved"}}
DownloadReloads == {<<n>> : n \in DOMAIN finishing}

\* Mutant: SetModels hands its own profile to Reload, which does not read the settings.
ReloadGiven(who) ==
  /\ reloader = NoReload
  /\ opened' = NoProfileYet
  /\ reloader' = [who |-> who,
                  profile |-> IF who \in SetterReloads THEN setter[who[1]].profile ELSE chosen]
  /\ UNCHANGED <<filesOnDisk, chosen, setter, download, downloading, finishing, downloadBounds>>

\* The mutex is taken, the engine closed, and the profile read.
ReloadReads(who) ==
  /\ reloader = NoReload
  /\ opened' = NoProfileYet
  /\ reloader' = [who |-> who, profile |-> chosen]
  /\ UNCHANGED <<filesOnDisk, chosen, setter, download, downloading, finishing, downloadBounds>>

\* The library and the models are looked for; the runtime refuses a torn file.
CanOpen(p) ==
  /\ hostLib \/ final[Library] = "whole"
  /\ \A m \in Needs[p] : final[m] = "whole"

ReloadOpens ==
  /\ reloader # NoReload
  /\ opened' = IF CanOpen(reloader.profile) THEN reloader.profile ELSE NoProfileYet
  /\ reloader' = NoReload
  /\ setter' = [c \in Setters |-> IF <<c>> = reloader.who THEN NoSetting ELSE setter[c]]
  /\ finishing' = Restrict(finishing, {n \in DOMAIN finishing : <<n>> # reloader.who})
  /\ UNCHANGED <<filesOnDisk, chosen, download, downloading, downloadBounds>>

----------------------------------------------------------------------------
(* SetModels                                                               *)

\* The settings are read and edited; a request without a profile keeps the one it read.
EditModels(c) ==
  /\ setter[c].at = "idle" /\ sets < MaxSets
  /\ \E p \in ModelProfiles : setter' = [setter EXCEPT ![c] = [at |-> "edited", profile |-> p]]
  /\ sets' = sets + 1
  /\ UNCHANGED <<filesOnDisk, chosen, engineVars, download, downloading, finishing, downloads, misses, kills>>

\* setCfg: the settings are saved, or the request fails.
SaveModels(c) ==
  /\ setter[c].at = "edited"
  /\ \/ /\ chosen' = setter[c].profile
        /\ setter' = [setter EXCEPT ![c].at = "saved"]
        /\ UNCHANGED misses
     \/ /\ misses < MaxMisses /\ misses' = misses + 1
        /\ setter' = [setter EXCEPT ![c] = NoSetting]
        /\ UNCHANGED chosen
  /\ UNCHANGED <<filesOnDisk, engineVars, download, downloading, finishing, sets, downloads, kills>>

----------------------------------------------------------------------------
(* The download                                                            *)

Still == UNCHANGED <<hostLib, chosen, engineVars, setter, sets, downloads, kills>>
Goes(d) == download' = d /\ UNCHANGED <<downloading, finishing>>
Ends == download' = NoDownload /\ downloading' = FALSE

\* Mutant: a failed download leaves the flag up.
FailsSilently ==
  /\ misses < MaxMisses /\ misses' = misses + 1
  /\ download' = NoDownload /\ UNCHANGED <<downloading, finishing>>

\* An error is noted for the status, and the goroutine ends.
Fails == misses < MaxMisses /\ misses' = misses + 1 /\ Ends /\ UNCHANGED finishing

\* StartDownload: one at a time.
StartDownload ==
  /\ downloads < MaxDownloads /\ downloads' = downloads + 1
  /\ IF downloading THEN UNCHANGED <<download, downloading>>
     ELSE /\ download' = [NoDownload EXCEPT !.at = "runtime", !.number = downloads']
          /\ downloading' = TRUE
  /\ UNCHANGED <<filesOnDisk, chosen, engineVars, setter, finishing, sets, misses, kills>>

\* The runtime: already there, or its archive is fetched.
FetchRuntime ==
  /\ download.at = "runtime"
  /\ \/ /\ There(Library)
        /\ Goes([download EXCEPT !.at = "profile"]) /\ UNCHANGED <<part, misses>>
     \/ /\ ~ There(Library)
        /\ part' = [part EXCEPT ![Library] = "torn"]
        /\ Goes([download EXCEPT !.at = "runtime body"]) /\ UNCHANGED misses
     \/ ~ There(Library) /\ Fails /\ UNCHANGED part
  /\ UNCHANGED final /\ Still

\* downloadArchiveMember writes the member under the temporary name and removes that file
\* as it returns; nothing gives the library its own name.
ExtractRuntime ==
  /\ download.at = "runtime body"
  /\ \/ Goes([download EXCEPT !.at = "profile"]) /\ UNCHANGED misses
     \/ Fails
  /\ part' = [part EXCEPT ![Library] = "absent"]
  /\ UNCHANGED final /\ Still

\* The profile of the settings, and the members of its pack that are not there.
ListMissing ==
  /\ download.at = "profile"
  /\ Goes([download EXCEPT !.at = "pack", !.profile = chosen,
                           !.left = {m \in Pack[chosen] : ~ There(m)}])
  /\ UNCHANGED <<final, part, misses>> /\ Still

\* The pack is fetched into a temporary file; a member may not be in it.
FetchPack ==
  /\ download.at = "pack" /\ download.left # {}
  /\ \/ \E inside \in {download.left} \cup {download.left \ {m} : m \in download.left} :
          Goes([download EXCEPT !.at = "extracting", !.pack = inside]) /\ UNCHANGED misses
     \/ Fails
  /\ UNCHANGED <<final, part>> /\ Still

\* Mutant: a member is written under its own name.
OpenFinal(m) ==
  /\ download.at = "extracting" /\ m \in download.pack
  /\ final' = [final EXCEPT ![m] = "torn"]
  /\ Goes([download EXCEPT !.at = "writing", !.file = m])
  /\ UNCHANGED <<part, misses>> /\ Still

OpenPart(m) ==
  /\ download.at = "extracting" /\ m \in download.pack
  /\ part' = [part EXCEPT ![m] = "torn"]
  /\ Goes([download EXCEPT !.at = "writing", !.file = m])
  /\ UNCHANGED <<final, misses>> /\ Still

\* writeStream; after a failure the temporary file stays.
WritePart ==
  /\ download.at = "writing"
  /\ \/ /\ part' = [part EXCEPT ![download.file] = "whole"]
        /\ Goes([download EXCEPT !.at = "naming"]) /\ UNCHANGED misses
     \/ Fails /\ UNCHANGED part
  /\ UNCHANGED final /\ Still

NamePart ==
  /\ download.at = "naming"
  /\ \/ /\ final' = [final EXCEPT ![download.file] = part[download.file]]
        /\ part' = [part EXCEPT ![download.file] = "absent"]
        /\ Goes([download EXCEPT !.at = "extracting", !.pack = @ \ {download.file},
                                 !.left = @ \ {download.file}])
        /\ UNCHANGED misses
     \/ Fails /\ UNCHANGED <<final, part>>
  /\ Still

PackOver == \/ download.at = "pack" /\ download.left = {}
            \/ download.at = "extracting" /\ download.pack = {}
Succeeds ==
  finishing' = [n \in DOMAIN finishing \cup {download.number} |->
                  IF n = download.number THEN download.profile ELSE finishing[n]]

\* Mutant: nothing compares what was found with what was missing.
PackDoneAnyway ==
  /\ PackOver /\ Ends /\ Succeeds
  /\ UNCHANGED <<final, part, misses>> /\ Still

\* A missing member that was not found is an error.  The flag comes down, and after a
\* success the goroutine goes on to Reload.
PackDone ==
  /\ PackOver /\ Ends
  /\ IF download.left = {} THEN Succeeds ELSE UNCHANGED finishing
  /\ UNCHANGED <<final, part, misses>> /\ Still

----------------------------------------------------------------------------
(* A crash, and NewService of the next process, which reloads              *)

Kill ==
  /\ kills < MaxKills /\ kills' = kills + 1
  /\ opened' = NoProfileYet
  /\ reloader' = [who |-> <<NewService>>, profile |-> chosen]
  /\ setter' = [c \in Setters |-> NoSetting]
  /\ Ends /\ finishing' = << >>
  /\ UNCHANGED <<filesOnDisk, chosen, sets, downloads, misses>>

DownloadStep ==
  \/ FetchRuntime \/ ExtractRuntime \/ ListMissing \/ FetchPack
  \/ \E m \in ModelFiles : OpenPart(m)
  \/ WritePart \/ NamePart \/ PackDone

DownloadNext ==
  \/ StartDownload \/ DownloadStep \/ ReloadOpens \/ Kill
  \/ \E c \in Setters : EditModels(c) \/ SaveModels(c)
  \/ \E who \in SetterReloads \cup DownloadReloads : ReloadReads(who)

DownloadSpec == DownloadInit /\ [][DownloadNext]_downloadVars

----------------------------------------------------------------------------
(* Properties                                                              *)

\* A model or a library under its own name is whole, also after a failed download and after
\* a crash in the middle of one: the next download looks only whether the name is there.
ModelsWhole == \A m \in ModelFiles : final[m] # "torn"

\* When no request, no Reload and no download is under way, an open engine is the one of the
\* settings, whichever requests raced to save and to reload.
EngineFollowsSettings ==
  reloader = NoReload /\ SetterReloads \cup DownloadReloads = {} => opened \in {chosen, NoProfileYet}

\* The Reload of a download that reported no error opens the engine, if the library comes
\* from the host, the pack has all the profile needs, and the profile was not changed.
DownloadMakesAvailable ==
  [][ /\ reloader.who \in DownloadReloads /\ reloader' = NoReload /\ kills' = kills
      /\ hostLib /\ finishing[reloader.who[1]] = reloader.profile
      /\ Needs[reloader.profile] \subseteq Pack[reloader.profile]
      => opened' = reloader.profile ]_downloadVars
=============================================================================
