------------------------ MODULE ModelDownload_proofs ------------------------
(***************************************************************************)
(* Theorems about the download of the models, SetModels and Reload, for    *)
(* any profiles and models, any number of requests and downloads, any      *)
(* number of failures and crashes.                                         *)
(***************************************************************************)
EXTENDS ModelDownload, TLAPS

USE DownloadAssumption

----------------------------------------------------------------------------
(* Types                                                                   *)

Packing == {"pack", "extracting", "writing", "naming"}
Places == {"off", "runtime", "runtime body", "profile"} \cup Packing

SetterState == [at : {"idle", "edited", "saved"}, profile : ModelProfiles \cup {NoProfileYet}]
Goroutine == [at : Places, number : 0 .. MaxDownloads, profile : ModelProfiles \cup {NoProfileYet},
              left : SUBSET ModelFiles, pack : SUBSET ModelFiles, file : ModelFiles]

\* The types in full: a request that has edited has a profile, a download a number, and one
\* that packs has a profile.
DownloadInv ==
  /\ DownloadTypeOK
  /\ setter \in [Setters -> SetterState] /\ download \in Goroutine
  /\ downloads \in 0 .. MaxDownloads /\ kills \in Nat
  /\ \A c \in Setters : setter[c].at # "idle" => setter[c].profile \in ModelProfiles
  /\ download.at # "off" => download.number \in Downloads
  /\ download.at \in Packing => download.profile \in ModelProfiles

LEMMA PackFiles ==
  /\ Library \in ModelFiles
  /\ \A p \in ModelProfiles : Pack[p] \subseteq ModelFiles /\ Needs[p] \subseteq ModelFiles
<1>1. Library \in ModelFiles
  BY DEF ModelFiles
<1>2. ASSUME NEW p \in ModelProfiles PROVE Pack[p] \subseteq ModelFiles /\ Needs[p] \subseteq ModelFiles
  <2>1. Pack[p] \cup Needs[p] \in {Pack[q] \cup Needs[q] : q \in ModelProfiles}
    OBVIOUS
  <2>2. Pack[p] \cup Needs[p] \subseteq ModelFiles
    BY <2>1, Zenon DEF ModelFiles
  <2> QED
    BY <2>2
<1> QED
  BY <1>1, <1>2

LEMMA NoDownloadType == NoDownload \in Goroutine /\ NoDownload.at = "off"
BY PackFiles DEF NoDownload, Goroutine, Places

LEMMA NoSettingType == NoSetting \in SetterState /\ NoSetting.at = "idle"
BY DEF NoSetting, SetterState

LEMMA DownloadInvInit == DownloadInit => DownloadInv
<1> SUFFICES ASSUME DownloadInit PROVE DownloadInv
  OBVIOUS
<1>1. final \in [ModelFiles -> {"absent", "torn", "whole"}]
  BY DEF DownloadInit
<1>2. /\ reloader.who \in {<<n>> : n \in 1 .. NewService}
      /\ reloader.profile \in ModelProfiles \cup {NoProfileYet}
  BY DEF DownloadInit, NoReload, Nobody, NewService
<1>3. setter \in [Setters -> SetterState] /\ \A c \in Setters : setter[c].at = "idle"
  BY NoSettingType DEF DownloadInit
<1>4. DOMAIN finishing = {} /\ Range(finishing) = {}
  BY DEF DownloadInit, Range
<1>5. download = NoDownload /\ download.left = {} /\ download.pack = {}
  BY DEF DownloadInit, NoDownload
<1>6. downloads = 0 /\ 0 \in 0 .. MaxDownloads /\ kills \in Nat
  BY DEF DownloadInit
<1>7. downloading = FALSE /\ download.at = "off"
  BY <1>5, NoDownloadType DEF DownloadInit
<1>8. part \in [ModelFiles -> {"absent", "torn", "whole"}] /\ chosen \in ModelProfiles
      /\ opened = NoProfileYet
  BY DEF DownloadInit
<1>9. DownloadTypeOK
  BY <1>1, <1>2, <1>3, <1>4, <1>5, <1>7, <1>8 DEF DownloadTypeOK
<1> QED
  BY <1>3, <1>5, <1>6, <1>7, <1>9, NoDownloadType DEF DownloadInv, Packing

----------------------------------------------------------------------------
(* What a step does to the download goroutine and to finishing             *)

\* The goroutine goes on from one place to the next.
LEMMA Moves ==
  ASSUME download \in Goroutine, NEW a \in Places
  PROVE  LET d == [download EXCEPT !.at = a]
         IN /\ d \in Goroutine /\ d.at = a /\ d.number = download.number
            /\ d.profile = download.profile /\ d.left = download.left /\ d.pack = download.pack
            /\ d.file = download.file
BY DEF Goroutine

LEMMA Fetches ==
  ASSUME download \in Goroutine, NEW l \in SUBSET ModelFiles
  PROVE  LET d == [download EXCEPT !.at = "extracting", !.pack = l]
         IN /\ d \in Goroutine /\ d.at = "extracting" /\ d.number = download.number
            /\ d.profile = download.profile /\ d.left = download.left
BY DEF Goroutine, Places, Packing

LEMMA OpensFile ==
  ASSUME download \in Goroutine, NEW m \in ModelFiles
  PROVE  LET d == [download EXCEPT !.at = "writing", !.file = m]
         IN /\ d \in Goroutine /\ d.at = "writing" /\ d.number = download.number
            /\ d.profile = download.profile /\ d.left = download.left
BY DEF Goroutine, Places, Packing

LEMMA NamesFile ==
  ASSUME download \in Goroutine
  PROVE  LET f == download.file
             d == [download EXCEPT !.at = "extracting", !.pack = @ \ {download.file},
                                   !.left = @ \ {download.file}]
         IN /\ d \in Goroutine /\ d.at = "extracting" /\ d.number = download.number
            /\ d.profile = download.profile /\ d.left = download.left \ {f}
BY DEF Goroutine, Places, Packing

\* The goroutine goes on, with its number; while it packs, with its profile.
Continues ==
  /\ download' \in Goroutine /\ download'.at # "off" /\ download'.number = download.number
  /\ download.at # "off" /\ UNCHANGED <<downloading, finishing>>
  /\ download'.at \in Packing => download'.profile \in ModelProfiles

GivesUp == Ends /\ UNCHANGED finishing
Reports == Ends /\ Succeeds /\ PackOver /\ download.left = {}

\* One step of the download goroutine, as the other parts of the system see it.
LEMMA StepOfDownload ==
  ASSUME DownloadInv, DownloadStep
  PROVE  /\ Still /\ (Continues \/ GivesUp \/ Reports)
         /\ final' \in [ModelFiles -> {"absent", "torn", "whole"}]
         /\ part' \in [ModelFiles -> {"absent", "torn", "whole"}]
<1>a. /\ download \in Goroutine /\ chosen \in ModelProfiles
      /\ download.file \in ModelFiles /\ download.left \subseteq ModelFiles
      /\ final \in [ModelFiles -> {"absent", "torn", "whole"}]
      /\ part \in [ModelFiles -> {"absent", "torn", "whole"}]
      /\ download.at \in Packing => download.profile \in ModelProfiles
  BY DEF DownloadInv, DownloadTypeOK, Goroutine
<1>b. Fails => GivesUp
  BY DEF Fails, GivesUp
<1>1. CASE FetchRuntime
  <2>1. Still /\ final' = final /\ part' \in [ModelFiles -> {"absent", "torn", "whole"}]
    BY <1>1, <1>a, PackFiles DEF FetchRuntime
  <2>2. CASE Goes([download EXCEPT !.at = "profile"])
    BY <1>1, <1>a, <2>2, Moves DEF FetchRuntime, Goes, Continues, Places, Packing
  <2>3. CASE Goes([download EXCEPT !.at = "runtime body"])
    BY <1>1, <1>a, <2>3, Moves DEF FetchRuntime, Goes, Continues, Places, Packing
  <2> QED
    BY <1>1, <1>a, <1>b, <2>1, <2>2, <2>3 DEF FetchRuntime
<1>2. CASE ExtractRuntime
  <2>1. Still /\ final' = final /\ part' \in [ModelFiles -> {"absent", "torn", "whole"}]
    BY <1>2, <1>a, PackFiles DEF ExtractRuntime
  <2>2. CASE Goes([download EXCEPT !.at = "profile"])
    BY <1>2, <1>a, <2>2, Moves DEF ExtractRuntime, Goes, Continues, Places, Packing
  <2> QED
    BY <1>2, <1>a, <1>b, <2>1, <2>2 DEF ExtractRuntime
<1>3. CASE ListMissing
  <2>1. Still /\ UNCHANGED <<final, part>> /\ download.at = "profile"
    BY <1>3 DEF ListMissing
  <2> DEFINE l == {m \in Pack[chosen] : ~ There(m)}
  <2>2. l \in SUBSET ModelFiles
    BY <1>a, PackFiles
  <2>4. download' = [download EXCEPT !.at = "pack", !.profile = chosen, !.left = l]
        /\ UNCHANGED <<downloading, finishing>>
    BY <1>3 DEF ListMissing, Goes
  <2> HIDE DEF l
  <2>3. /\ download' \in Goroutine /\ download'.at = "pack" /\ download'.number = download.number
        /\ download'.profile = chosen
    <3>1. LET d == [download EXCEPT !.at = "pack", !.profile = chosen, !.left = l]
          IN /\ d \in Goroutine /\ d.at = "pack" /\ d.number = download.number
             /\ d.profile = chosen
      BY <1>a, <2>2 DEF Goroutine, Places, Packing
    <3> QED
      BY <2>4, <3>1
  <2> QED
    BY <1>a, <2>1, <2>3, <2>4 DEF Continues
<1>4. CASE FetchPack
  <2>1. Still /\ UNCHANGED <<final, part>> /\ download.at = "pack"
    BY <1>4 DEF FetchPack
  <2>2. ASSUME NEW inside \in {download.left} \cup {download.left \ {m} : m \in download.left},
               Goes([download EXCEPT !.at = "extracting", !.pack = inside])
        PROVE  Continues
    <3>1. inside \in SUBSET ModelFiles
      BY <1>a
    <3> QED
      BY <1>a, <2>1, <2>2, <3>1, Fetches DEF Goes, Continues, Packing
  <2> QED
    BY <1>4, <1>a, <1>b, <2>1, <2>2 DEF FetchPack
<1>5. ASSUME NEW m \in ModelFiles, OpenPart(m)
      PROVE  /\ Still /\ Continues /\ final' = final
             /\ part' \in [ModelFiles -> {"absent", "torn", "whole"}]
  BY <1>5, <1>a, OpensFile DEF OpenPart, Goes, Continues, Packing
<1>6. CASE WritePart
  <2>1. Still /\ final' = final /\ part' \in [ModelFiles -> {"absent", "torn", "whole"}]
    BY <1>6, <1>a DEF WritePart
  <2>2. CASE Goes([download EXCEPT !.at = "naming"])
    BY <1>6, <1>a, <2>2, Moves DEF WritePart, Goes, Continues, Places, Packing
  <2> QED
    BY <1>6, <1>a, <1>b, <2>1, <2>2 DEF WritePart
<1>7. CASE NamePart
  <2>1. /\ Still /\ final' \in [ModelFiles -> {"absent", "torn", "whole"}]
        /\ part' \in [ModelFiles -> {"absent", "torn", "whole"}]
    BY <1>7, <1>a DEF NamePart
  <2>2. CASE Goes([download EXCEPT !.at = "extracting", !.pack = @ \ {download.file},
                                   !.left = @ \ {download.file}])
    BY <1>7, <1>a, <2>2, NamesFile DEF NamePart, Goes, Continues, Packing
  <2> QED
    BY <1>7, <1>b, <2>1, <2>2 DEF NamePart
<1>8. CASE PackDone
  BY <1>8, <1>a DEF PackDone, Reports, GivesUp
<1> QED
  BY <1>1, <1>2, <1>3, <1>4, <1>5, <1>6, <1>7, <1>8, <1>a DEF DownloadStep

\* What is needed of the other steps: who reloads, and what a request has read.
LEMMA DownloadInvNext == DownloadInv /\ [DownloadNext]_downloadVars => DownloadInv'
<1> SUFFICES ASSUME DownloadInv, [DownloadNext]_downloadVars PROVE DownloadInv'
  OBVIOUS
<1>a. /\ setter \in [Setters -> SetterState] /\ download \in Goroutine
      /\ downloads \in 0 .. MaxDownloads /\ kills \in Nat
      /\ DownloadTypeOK
      /\ \A c \in Setters : setter[c].at # "idle" => setter[c].profile \in ModelProfiles
  BY DEF DownloadInv
<1>b. Downloads \subseteq 1 .. NewService /\ NewService \in 1 .. NewService
  BY DEF Downloads, NewService
<1>1. CASE StartDownload
  <2>1. downloads' \in Downloads /\ downloads' \in 0 .. MaxDownloads
    BY <1>1, <1>a DEF StartDownload, Downloads
  <2>2. CASE downloading
    <3>1. UNCHANGED <<download, downloading>>
      BY <1>1, <2>2 DEF StartDownload
    <3> QED
      BY <1>1, <2>1, <3>1 DEF StartDownload, DownloadInv, DownloadTypeOK, filesOnDisk, engineVars
  <2>3. CASE ~ downloading
    <3>1. /\ download' = [NoDownload EXCEPT !.at = "runtime", !.number = downloads']
          /\ downloading' = TRUE
      BY <1>1, <2>3 DEF StartDownload
    <3>2. download' \in Goroutine /\ download'.at = "runtime" /\ download'.number = downloads'
      BY <2>1, <3>1, PackFiles DEF NoDownload, Goroutine, Places, Downloads
    <3>3. /\ download'.left \subseteq ModelFiles /\ download'.pack \subseteq ModelFiles
          /\ downloading' = (download'.at # "off")
      BY <3>1, <3>2 DEF Goroutine
    <3> QED
      BY <1>1, <2>1, <3>2, <3>3
      DEF StartDownload, DownloadInv, DownloadTypeOK, filesOnDisk, engineVars, Packing
  <2> QED
    BY <2>2, <2>3
<1>2. CASE DownloadStep
  <2>1. /\ Still /\ (Continues \/ GivesUp \/ Reports)
        /\ final' \in [ModelFiles -> {"absent", "torn", "whole"}]
        /\ part' \in [ModelFiles -> {"absent", "torn", "whole"}]
    BY <1>2, StepOfDownload
  <2>2. /\ download' \in Goroutine
        /\ downloading' = (download'.at # "off")
        /\ download'.at # "off" => download'.number \in Downloads
        /\ download'.at \in Packing => download'.profile \in ModelProfiles
    <3>1. CASE Continues
      BY <3>1, <1>a DEF Continues, DownloadInv, DownloadTypeOK
    <3>2. CASE GivesUp \/ Reports
      BY <3>2, NoDownloadType DEF GivesUp, Reports, Ends, Packing
    <3> QED
      BY <2>1, <3>1, <3>2
  <2>3. download'.left \subseteq ModelFiles /\ download'.pack \subseteq ModelFiles
    BY <2>2 DEF Goroutine
  <2>4. DOMAIN finishing' \subseteq Downloads /\ Range(finishing') \subseteq ModelProfiles
    <3>1. CASE Reports
      <4>1. download.number \in Downloads /\ download.profile \in ModelProfiles
        BY <3>1 DEF Reports, PackOver, DownloadInv, Packing
      <4>2. finishing' = [n \in DOMAIN finishing \cup {download.number} |->
                            IF n = download.number THEN download.profile ELSE finishing[n]]
        BY <3>1 DEF Reports, Succeeds
      <4>3. \A n \in DOMAIN finishing : finishing[n] \in ModelProfiles
        BY <1>a DEF DownloadTypeOK, Range
      <4>4. DOMAIN finishing' \subseteq Downloads
        BY <1>a, <4>1, <4>2 DEF DownloadTypeOK
      <4>5. \A n \in DOMAIN finishing' : finishing'[n] \in ModelProfiles
        BY <4>1, <4>2, <4>3
      <4> QED
        BY <4>4, <4>5 DEF Range
    <3>2. CASE ~ Reports
      BY <1>a, <2>1, <3>2 DEF DownloadTypeOK, Continues, GivesUp
    <3> QED
      BY <3>1, <3>2
  <2>5. UNCHANGED <<chosen, opened, reloader, setter, downloads, kills>>
    BY <2>1 DEF Still, engineVars
  <2>6. DownloadTypeOK'
    BY <1>a, <2>1, <2>2, <2>3, <2>4, <2>5 DEF DownloadTypeOK
  <2> QED
    BY <1>a, <2>2, <2>5, <2>6 DEF DownloadInv
<1>3. CASE ReloadOpens
  <2>1. opened' \in ModelProfiles \cup {NoProfileYet} /\ reloader' = NoReload
    BY <1>3, <1>a DEF ReloadOpens, DownloadTypeOK
  <2>2. /\ setter' \in [Setters -> SetterState]
        /\ \A c \in Setters : setter'[c].at # "idle" => setter'[c].profile \in ModelProfiles
    BY <1>3, <1>a, NoSettingType DEF ReloadOpens
  <2>3. \A c \in Setters : setter'[c].at \in {"idle", "edited", "saved"}
    BY <2>2 DEF SetterState
  <2>4. DOMAIN finishing' \subseteq Downloads /\ Range(finishing') \subseteq ModelProfiles
    BY <1>3, <1>a DEF ReloadOpens, Restrict, Range, DownloadTypeOK
  <2>5. /\ reloader'.who \in {<<n>> : n \in 1 .. NewService}
        /\ reloader'.profile \in ModelProfiles \cup {NoProfileYet}
    BY <2>1 DEF NoReload, Nobody, NewService
  <2> QED
    BY <1>3, <2>1, <2>2, <2>3, <2>4, <2>5
    DEF ReloadOpens, DownloadInv, DownloadTypeOK, filesOnDisk, downloadBounds
<1>4. CASE Kill
  <2>1. reloader'.who \in {<<n>> : n \in 1 .. NewService} /\ reloader'.profile = chosen
    BY <1>4, <1>b DEF Kill
  <2>2. /\ setter' \in [Setters -> SetterState] /\ \A c \in Setters : setter'[c].at = "idle"
    BY <1>4, NoSettingType DEF Kill
  <2>3. DOMAIN finishing' = {} /\ Range(finishing') = {}
    BY <1>4 DEF Kill, Range
  <2>4. /\ download' \in Goroutine /\ download'.at = "off" /\ downloading' = FALSE
        /\ download'.left \subseteq ModelFiles /\ download'.pack \subseteq ModelFiles
    BY <1>4, NoDownloadType DEF Kill, Ends, Goroutine
  <2>5. UNCHANGED <<final, part, chosen, downloads>> /\ opened' = NoProfileYet /\ kills' \in Nat
    BY <1>4, <1>a DEF Kill, filesOnDisk
  <2>6. DownloadTypeOK'
    BY <1>a, <2>1, <2>2, <2>3, <2>4, <2>5 DEF DownloadTypeOK
  <2> QED
    BY <1>a, <2>2, <2>4, <2>5, <2>6 DEF DownloadInv, Packing
<1>5. ASSUME NEW c \in Setters, EditModels(c) PROVE DownloadInv'
  <2>1. PICK p \in ModelProfiles : setter' = [setter EXCEPT ![c] = [at |-> "edited", profile |-> p]]
    BY <1>5 DEF EditModels
  <2>2. /\ setter' \in [Setters -> SetterState]
        /\ \A x \in Setters : setter'[x].at # "idle" => setter'[x].profile \in ModelProfiles
        /\ \A x \in Setters : setter'[x].at \in {"idle", "edited", "saved"}
    BY <1>a, <2>1 DEF SetterState
  <2> QED
    BY <1>5, <2>2 DEF EditModels, DownloadInv, DownloadTypeOK, filesOnDisk, engineVars
<1>6. ASSUME NEW c \in Setters, SaveModels(c) PROVE DownloadInv'
  <2>1. setter[c].at = "edited" /\ setter[c].profile \in ModelProfiles
    BY <1>6, <1>a DEF SaveModels
  <2>2. /\ setter' \in [Setters -> SetterState]
        /\ \A x \in Setters : setter'[x].at # "idle" => setter'[x].profile \in ModelProfiles
        /\ \A x \in Setters : setter'[x].at \in {"idle", "edited", "saved"}
    BY <1>6, <1>a, <2>1, NoSettingType DEF SaveModels, SetterState
  <2>3. chosen' \in ModelProfiles
    BY <1>6, <1>a, <2>1 DEF SaveModels, DownloadTypeOK
  <2> QED
    BY <1>6, <2>2, <2>3 DEF SaveModels, DownloadInv, DownloadTypeOK, filesOnDisk, engineVars
<1>7. ASSUME NEW who \in SetterReloads \cup DownloadReloads, ReloadReads(who) PROVE DownloadInv'
  <2>1. who \in {<<c>> : c \in Setters} \cup {<<n>> : n \in 1 .. NewService}
    BY <1>a, <1>b DEF SetterReloads, DownloadReloads, DownloadTypeOK
  <2>2. reloader'.who = who /\ reloader'.profile = chosen /\ opened' = NoProfileYet
    BY <1>7 DEF ReloadReads
  <2> QED
    BY <1>7, <2>1, <2>2 DEF ReloadReads, DownloadInv, DownloadTypeOK, filesOnDisk, downloadBounds
<1>8. CASE UNCHANGED downloadVars
  BY <1>8 DEF downloadVars, filesOnDisk, engineVars, downloadBounds, DownloadInv, DownloadTypeOK
<1> QED
  BY <1>1, <1>2, <1>3, <1>4, <1>5, <1>6, <1>7, <1>8 DEF DownloadNext

LEMMA DownloadInvariant == DownloadSpec => []DownloadInv
<1> QED
  BY DownloadInvInit, DownloadInvNext, PTL DEF DownloadSpec

\* The flag of the download, the mutex of Reload and the files keep their types.
THEOREM DownloadTypeCorrect == DownloadSpec => []DownloadTypeOK
<1>1. DownloadInv => DownloadTypeOK
  BY DEF DownloadInv
<1> QED
  BY <1>1, DownloadInvariant, PTL

----------------------------------------------------------------------------
(* ModelsWhole                                                             *)

\* What is there is whole: under its own name always, under its temporary name when it is
\* about to be renamed.  What a packing download does not look for any more is there, and so
\* is the pack of a download that reported success.
ModelsPlaced ==
  /\ ModelsWhole
  /\ download.at = "naming" => part[download.file] = "whole"
  /\ download.at \in Packing => \A m \in Pack[download.profile] \ download.left : final[m] = "whole"
  /\ \A n \in DOMAIN finishing : \A m \in Pack[finishing[n]] : final[m] = "whole"

LEMMA PlacedInit == DownloadInit => ModelsPlaced
<1> SUFFICES ASSUME DownloadInit PROVE ModelsPlaced
  OBVIOUS
<1>1. \A m \in ModelFiles : final[m] \in {"absent", "whole"}
  BY DEF DownloadInit
<1>2. DOMAIN finishing = {}
  BY DEF DownloadInit
<1>3. download.at = "off"
  BY DEF DownloadInit, NoDownload
<1> QED
  BY <1>1, <1>2, <1>3 DEF ModelsPlaced, ModelsWhole, Packing

LEMMA PlacedNext == DownloadInv /\ ModelsPlaced /\ [DownloadNext]_downloadVars => ModelsPlaced'
<1> SUFFICES ASSUME DownloadInv, ModelsPlaced, [DownloadNext]_downloadVars PROVE ModelsPlaced'
  OBVIOUS
<1>a. /\ download \in Goroutine /\ download.file \in ModelFiles /\ chosen \in ModelProfiles
      /\ final \in [ModelFiles -> {"absent", "torn", "whole"}]
      /\ part \in [ModelFiles -> {"absent", "torn", "whole"}]
      /\ Range(finishing) \subseteq ModelProfiles
      /\ download.at \in Packing => download.profile \in ModelProfiles
  BY DEF DownloadInv, DownloadTypeOK, Goroutine
<1>b. ASSUME UNCHANGED <<final, finishing>>, download'.at \notin Packing
      PROVE  ModelsPlaced'
  BY <1>b DEF ModelsPlaced, ModelsWhole, Packing
<1>c. ASSUME UNCHANGED <<final, part, download, finishing>> PROVE ModelsPlaced'
  BY <1>c DEF ModelsPlaced, ModelsWhole
<1>d. ASSUME Fails, UNCHANGED final PROVE ModelsPlaced'
  BY <1>b, <1>d, NoDownloadType DEF Fails, Ends, Packing
<1>e. ASSUME UNCHANGED <<final, finishing>>, download'.at \in Packing \ {"naming"},
             download.at \in Packing,
             download'.profile = download.profile, download'.left = download.left
      PROVE  ModelsPlaced'
  BY <1>e DEF ModelsPlaced, ModelsWhole
<1>1. CASE StartDownload
  <2>1. CASE UNCHANGED download
    BY <1>1, <1>c, <2>1 DEF StartDownload, filesOnDisk
  <2>2. CASE download' = [NoDownload EXCEPT !.at = "runtime", !.number = downloads']
    <3>1. download'.at = "runtime"
      BY <2>2 DEF NoDownload
    <3> QED
      BY <1>1, <1>b, <3>1 DEF StartDownload, filesOnDisk, Packing
  <2> QED
    BY <1>1, <2>1, <2>2 DEF StartDownload
<1>2. CASE FetchRuntime
  <2>1. CASE Goes([download EXCEPT !.at = "profile"])
    BY <1>2, <1>a, <1>b, <2>1, Moves DEF FetchRuntime, Goes, Places, Packing
  <2>2. CASE Goes([download EXCEPT !.at = "runtime body"])
    BY <1>2, <1>a, <1>b, <2>2, Moves DEF FetchRuntime, Goes, Places, Packing
  <2> QED
    BY <1>2, <1>d, <2>1, <2>2 DEF FetchRuntime
<1>3. CASE ExtractRuntime
  <2>1. CASE Goes([download EXCEPT !.at = "profile"])
    BY <1>3, <1>a, <1>b, <2>1, Moves DEF ExtractRuntime, Goes, Places, Packing
  <2> QED
    BY <1>3, <1>d, <2>1 DEF ExtractRuntime
<1>4. CASE ListMissing
  <2> DEFINE l == {m \in Pack[chosen] : ~ There(m)}
  <2>1. download' = [download EXCEPT !.at = "pack", !.profile = chosen, !.left = l]
        /\ UNCHANGED <<final, part, finishing>>
    BY <1>4 DEF ListMissing, Goes
  <2>2. \A m \in Pack[chosen] \ l : final[m] = "whole"
    BY <1>a, PackFiles DEF ModelsPlaced, ModelsWhole, There
  <2> HIDE DEF l
  <2>3. download'.at = "pack" /\ download'.profile = chosen /\ download'.left = l
    BY <1>a, <2>1 DEF Goroutine
  <2> QED
    BY <2>1, <2>2, <2>3 DEF ModelsPlaced, ModelsWhole
<1>5. CASE FetchPack
  <2>1. ASSUME NEW inside \in {download.left} \cup {download.left \ {m} : m \in download.left},
               Goes([download EXCEPT !.at = "extracting", !.pack = inside])
        PROVE  ModelsPlaced'
    <3>1. inside \in SUBSET ModelFiles
      BY <1>a DEF Goroutine
    <3> QED
      BY <1>5, <1>a, <1>e, <2>1, <3>1, Fetches DEF FetchPack, Goes, Packing
  <2> QED
    BY <1>5, <1>d, <2>1 DEF FetchPack
<1>6. ASSUME NEW m \in ModelFiles, OpenPart(m) PROVE ModelsPlaced'
  BY <1>6, <1>a, <1>e, OpensFile DEF OpenPart, Goes, Packing
<1>7. CASE WritePart
  <2>1. ASSUME Goes([download EXCEPT !.at = "naming"]),
               part' = [part EXCEPT ![download.file] = "whole"]
        PROVE  ModelsPlaced'
    <3>1. /\ download'.at = "naming" /\ download'.file = download.file
          /\ download'.profile = download.profile /\ download'.left = download.left
      BY <1>a, <2>1, Moves DEF Goes, Places, Packing
    <3>2. part'[download'.file] = "whole"
      BY <1>a, <2>1, <3>1
    <3> QED
      BY <1>7, <2>1, <3>1, <3>2 DEF WritePart, Goes, ModelsPlaced, ModelsWhole, Packing
  <2> QED
    BY <1>7, <1>d, <2>1 DEF WritePart
<1>8. CASE NamePart
  <2>1. ASSUME Goes([download EXCEPT !.at = "extracting", !.pack = @ \ {download.file},
                                   !.left = @ \ {download.file}]),
               final' = [final EXCEPT ![download.file] = part[download.file]]
        PROVE  ModelsPlaced'
    <3>1. /\ download'.at = "extracting" /\ download'.profile = download.profile
          /\ download'.left = download.left \ {download.file} /\ finishing' = finishing
      BY <1>a, <2>1, NamesFile DEF Goes
    <3>2. part[download.file] = "whole" /\ download.at = "naming"
      BY <1>8 DEF NamePart, ModelsPlaced
    <3>3. \A m \in ModelFiles : final'[m] = IF m = download.file THEN "whole" ELSE final[m]
      BY <1>a, <2>1, <3>2
    <3>4. ModelsWhole'
      BY <3>3 DEF ModelsPlaced, ModelsWhole
    <3>5. \A m \in Pack[download'.profile] \ download'.left : final'[m] = "whole"
      BY <1>a, <3>1, <3>2, <3>3, PackFiles DEF ModelsPlaced, Packing
    <3>6. \A n \in DOMAIN finishing : \A m \in Pack[finishing[n]] : final'[m] = "whole"
      BY <1>a, <3>3, PackFiles DEF ModelsPlaced, Range
    <3> QED
      BY <3>1, <3>4, <3>5, <3>6 DEF ModelsPlaced
  <2> QED
    BY <1>8, <1>d, <2>1 DEF NamePart
<1>9. CASE PackDone
  <2>1. download'.at = "off" /\ UNCHANGED final
    BY <1>9, NoDownloadType DEF PackDone, Ends
  <2>2. CASE download.left = {}
    <3>1. finishing' = [n \in DOMAIN finishing \cup {download.number} |->
                          IF n = download.number THEN download.profile ELSE finishing[n]]
      BY <1>9, <2>2 DEF PackDone, Succeeds
    <3>2. \A m \in Pack[download.profile] : final[m] = "whole"
      BY <1>9, <2>2 DEF PackDone, PackOver, ModelsPlaced, Packing
    <3>3. \A n \in DOMAIN finishing' : \A m \in Pack[finishing'[n]] : final[m] = "whole"
      BY <3>1, <3>2 DEF ModelsPlaced
    <3> QED
      BY <2>1, <3>3 DEF ModelsPlaced, ModelsWhole, Packing
  <2>3. CASE download.left # {}
    BY <1>9, <1>b, <2>1, <2>3 DEF PackDone, Packing
  <2> QED
    BY <2>2, <2>3
<1>10. CASE ReloadOpens
  <2>1. UNCHANGED <<final, part, download>>
    BY <1>10 DEF ReloadOpens, filesOnDisk
  <2>2. /\ DOMAIN finishing' \subseteq DOMAIN finishing
        /\ \A n \in DOMAIN finishing' : finishing'[n] = finishing[n]
    BY <1>10 DEF ReloadOpens, Restrict
  <2> QED
    BY <2>1, <2>2 DEF ModelsPlaced, ModelsWhole
<1>11. CASE Kill
  <2>1. DOMAIN finishing' = {} /\ download'.at = "off" /\ UNCHANGED final
    BY <1>11, NoDownloadType DEF Kill, Ends, filesOnDisk
  <2> QED
    BY <2>1 DEF ModelsPlaced, ModelsWhole, Packing
<1>12. ASSUME NEW c \in Setters, EditModels(c) \/ SaveModels(c) PROVE ModelsPlaced'
  BY <1>12, <1>c DEF EditModels, SaveModels, filesOnDisk
<1>13. ASSUME NEW who \in SetterReloads \cup DownloadReloads, ReloadReads(who) PROVE ModelsPlaced'
  BY <1>13, <1>c DEF ReloadReads, filesOnDisk
<1>14. CASE UNCHANGED downloadVars
  BY <1>14, <1>c DEF downloadVars, filesOnDisk
<1> QED
  BY <1>1, <1>2, <1>3, <1>4, <1>5, <1>6, <1>7, <1>8, <1>9, <1>10, <1>11, <1>12, <1>13, <1>14
  DEF DownloadNext, DownloadStep

LEMMA PlacedInvariant == DownloadSpec => [](DownloadInv /\ ModelsPlaced)
<1>1. DownloadInit => DownloadInv /\ ModelsPlaced
  BY DownloadInvInit, PlacedInit
<1>2. DownloadInv /\ ModelsPlaced /\ [DownloadNext]_downloadVars => (DownloadInv /\ ModelsPlaced)'
  BY DownloadInvNext, PlacedNext
<1> QED
  BY <1>1, <1>2, PTL DEF DownloadSpec

\* A model under its own name is whole, however often a download failed or the process
\* crashed in the middle of one.
THEOREM ModelsAreWhole == DownloadSpec => []ModelsWhole
<1>1. ModelsPlaced => ModelsWhole
  BY DEF ModelsPlaced
<1> QED
  BY <1>1, PlacedInvariant, PTL

\* The Reload of a download that reported no error opens the engine, if the library comes
\* from the host, the pack has all the profile needs, and the profile was not changed.
THEOREM DownloadsMakeAvailable == DownloadSpec => DownloadMakesAvailable
<1> DEFINE Opens == /\ reloader.who \in DownloadReloads /\ reloader' = NoReload /\ kills' = kills
                    /\ hostLib /\ finishing[reloader.who[1]] = reloader.profile
                    /\ Needs[reloader.profile] \subseteq Pack[reloader.profile]
                    => opened' = reloader.profile
<1>1. DownloadInv /\ ModelsPlaced /\ [DownloadNext]_downloadVars => [Opens]_downloadVars
  <2> SUFFICES ASSUME DownloadInv, ModelsPlaced, [DownloadNext]_downloadVars,
                      reloader.who \in DownloadReloads, reloader' = NoReload, kills' = kills,
                      hostLib, finishing[reloader.who[1]] = reloader.profile,
                      Needs[reloader.profile] \subseteq Pack[reloader.profile],
                      ~ UNCHANGED downloadVars
               PROVE  opened' = reloader.profile
    OBVIOUS
  <2>1. PICK n \in DOMAIN finishing : reloader.who = <<n>>
    BY DEF DownloadReloads
  <2>2. n \in Downloads /\ n # Nobody
    BY <2>1 DEF DownloadInv, DownloadTypeOK, Downloads, Nobody
  <2>3. reloader # NoReload
    BY <2>1, <2>2 DEF NoReload
  <2>4. CASE ReloadOpens
    <3>1. finishing[n] = reloader.profile
      BY <2>1
    <3>2. \A m \in Needs[reloader.profile] : final[m] = "whole"
      BY <3>1 DEF ModelsPlaced
    <3>3. CanOpen(reloader.profile)
      BY <3>2 DEF CanOpen
    <3> QED
      BY <2>4, <3>3 DEF ReloadOpens
  <2>5. ~ DownloadStep
    BY <2>3, StepOfDownload DEF Still, engineVars
  <2>6. ~ StartDownload /\ \A c \in Setters : ~ EditModels(c) /\ ~ SaveModels(c)
    BY <2>3 DEF StartDownload, EditModels, SaveModels, engineVars
  <2>7. \A who \in SetterReloads \cup DownloadReloads : ~ ReloadReads(who)
    BY <2>3 DEF ReloadReads
  <2>8. ~ Kill
    <3>1. kills \in Nat => kills + 1 # kills
      OBVIOUS
    <3> QED
      BY <3>1 DEF Kill, DownloadInv
  <2> QED
    BY <2>4, <2>5, <2>6, <2>7, <2>8 DEF DownloadNext
<1>2. [][Opens]_downloadVars => DownloadMakesAvailable
  BY DEF DownloadMakesAvailable
<1> QED
  BY <1>1, <1>2, PlacedInvariant, PTL DEF DownloadSpec

----------------------------------------------------------------------------
(* EngineFollowsSettings                                                   *)

\* Who reloads for a request has saved; a Reload that read an old profile, and an engine of
\* an old profile, leave a request that has saved and is still to reload.
Chosen ==
  /\ \A c \in Setters : reloader.who = <<c>> => setter[c].at = "saved"
  /\ reloader # NoReload /\ reloader.profile # chosen => SetterReloads \ {reloader.who} # {}
  /\ reloader = NoReload /\ opened \notin {chosen, NoProfileYet} => SetterReloads # {}

LEMMA NoSetterIsNumber == \A c \in Setters : c # Nobody /\ c # NewService /\ \A n \in Downloads : c # n
<1>1. Downloads \cup {Nobody, NewService} \subseteq 1 .. MaxDownloads + 2
  BY DEF Downloads, Nobody, NewService
<1> QED
  BY <1>1

LEMMA ChosenInit == DownloadInit => Chosen
BY NoSetterIsNumber DEF DownloadInit, Chosen, NoReload

LEMMA ChosenNext == DownloadInv /\ Chosen /\ [DownloadNext]_downloadVars => Chosen'
<1> SUFFICES ASSUME DownloadInv, Chosen, [DownloadNext]_downloadVars PROVE Chosen'
  OBVIOUS
<1>a. setter \in [Setters -> SetterState]
  BY DEF DownloadInv
<1>b. CASE UNCHANGED <<chosen, engineVars, setter>>
  BY <1>b DEF engineVars, Chosen, SetterReloads
<1>1. CASE StartDownload \/ DownloadStep
  BY <1>1, <1>b, StepOfDownload DEF StartDownload, Still, engineVars
<1>2. CASE ReloadOpens
  <2>1. /\ reloader # NoReload /\ reloader' = NoReload /\ chosen' = chosen
        /\ opened' \in {reloader.profile, NoProfileYet}
        /\ setter' = [c \in Setters |-> IF <<c>> = reloader.who THEN NoSetting ELSE setter[c]]
    BY <1>2 DEF ReloadOpens
  <2>2. SetterReloads \ {reloader.who} \subseteq SetterReloads'
    BY <2>1 DEF SetterReloads
  <2>3. \A c \in Setters : reloader'.who # <<c>>
    BY <2>1, NoSetterIsNumber DEF NoReload
  <2> QED
    BY <2>1, <2>2, <2>3 DEF Chosen
<1>3. CASE Kill
  <2>1. reloader'.who = <<NewService>> /\ reloader'.profile = chosen /\ chosen' = chosen
        /\ opened' = NoProfileYet
    BY <1>3 DEF Kill
  <2> QED
    BY <2>1, NoSetterIsNumber DEF Chosen
<1>4. ASSUME NEW c \in Setters, EditModels(c) PROVE Chosen'
  <2>1. PICK p \in ModelProfiles : setter' = [setter EXCEPT ![c] = [at |-> "edited", profile |-> p]]
    BY <1>4 DEF EditModels
  <2>2. \A x \in Setters : setter'[x].at = "saved" <=> setter[x].at = "saved"
    BY <1>4, <1>a, <2>1 DEF EditModels
  <2>3. SetterReloads' = SetterReloads
    BY <2>2 DEF SetterReloads
  <2> QED
    BY <1>4, <2>2, <2>3 DEF EditModels, engineVars, Chosen
<1>5. ASSUME NEW c \in Setters, SaveModels(c) PROVE Chosen'
  <2>1. setter[c].at = "edited" /\ UNCHANGED engineVars /\ reloader.who # <<c>>
    BY <1>5 DEF SaveModels, Chosen
  <2>2. CASE setter' = [setter EXCEPT ![c].at = "saved"]
    <3>1. /\ \A x \in Setters \ {c} : setter'[x] = setter[x]
          /\ setter'[c].at = "saved"
      BY <1>a, <2>2 DEF SetterState
    <3>2. <<c>> \in SetterReloads'
      BY <3>1 DEF SetterReloads
    <3> QED
      BY <2>1, <3>1, <3>2 DEF engineVars, Chosen
  <2>3. CASE setter' = [setter EXCEPT ![c] = NoSetting] /\ UNCHANGED chosen
    <3>1. \A x \in Setters : setter'[x].at = "saved" <=> setter[x].at = "saved"
      BY <1>a, <2>1, <2>3, NoSettingType
    <3>2. SetterReloads' = SetterReloads
      BY <3>1 DEF SetterReloads
    <3> QED
      BY <2>1, <2>3, <3>1, <3>2 DEF engineVars, Chosen
  <2> QED
    BY <1>5, <2>2, <2>3 DEF SaveModels
<1>6. ASSUME NEW who \in SetterReloads \cup DownloadReloads, ReloadReads(who) PROVE Chosen'
  <2>1. reloader'.who = who /\ reloader'.profile = chosen /\ opened' = NoProfileYet
        /\ UNCHANGED <<chosen, setter>>
    BY <1>6 DEF ReloadReads
  <2>2. ASSUME NEW c \in Setters, who = <<c>> PROVE setter[c].at = "saved"
    <3>1. who \notin DownloadReloads
      BY <2>2, NoSetterIsNumber DEF DownloadReloads, DownloadInv, DownloadTypeOK
    <3> QED
      BY <2>2, <3>1 DEF SetterReloads
  <2> QED
    BY <2>1, <2>2 DEF Chosen
<1>7. CASE UNCHANGED downloadVars
  BY <1>7, <1>b DEF downloadVars
<1> QED
  BY <1>1, <1>2, <1>3, <1>4, <1>5, <1>6, <1>7 DEF DownloadNext

\* When no request, no Reload and no download is under way, an open engine is the one of the
\* settings, whichever requests raced to save and to reload.
THEOREM EngineIsChosen == DownloadSpec => []EngineFollowsSettings
<1>1. DownloadInit => DownloadInv /\ Chosen
  BY DownloadInvInit, ChosenInit
<1>2. DownloadInv /\ Chosen /\ [DownloadNext]_downloadVars => (DownloadInv /\ Chosen)'
  BY DownloadInvNext, ChosenNext
<1>3. Chosen => EngineFollowsSettings
  BY DEF Chosen, EngineFollowsSettings
<1> QED
  BY <1>1, <1>2, <1>3, PTL DEF DownloadSpec

================================================================================
