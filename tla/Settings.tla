------------------------------- MODULE Settings -------------------------------
(***************************************************************************)
(* internal/settings: the share list and the faces settings, one JSON file *)
(* written through one temporary name, and the store's copy in memory;     *)
(* PUT /api/settings/shares also publishes the list to the file service.   *)
(* A request is a goroutine that runs SetShares or SetFaces: it marshals   *)
(* the document, opens, writes and renames the temporary file, and then    *)
(* updates the memory.  The process may crash between any two of these.    *)
(***************************************************************************)
EXTENDS Naturals, FiniteSets

CONSTANTS Requests,     \* goroutines of the HTTP server
          ShareLists,   \* share lists of clients, << >> for legacy mode
          Profiles,     \* faces settings
          NoProfile,    \* the zero faces settings
          Absent,       \* what a file name leads to if there is no file,
          Torn,         \* and if the file does not parse
          MaxPuts,      \* bound: settings requests
          MaxRestarts,  \* bound: crashes and restarts of the process
          MaxErrors     \* bound: file operations that fail

ASSUME SettingsAssumption ==
  /\ << >> \in ShareLists
  /\ NoProfile \in Profiles
  /\ {MaxPuts, MaxRestarts, MaxErrors} \subseteq Nat
  /\ Absent # Torn
  /\ {Absent, Torn} \cap [shares : ShareLists, faces : Profiles] = {}

Document == [shares : ShareLists, faces : Profiles]
Empty == [shares |-> << >>, faces |-> NoProfile]
Text == Document \cup {Absent, Torn}

\* A request: where it is, the half it sets, its document, and the name under which the
\* file it opened is found now.
NoWrite == [at |-> "idle", half |-> "shares", doc |-> Empty, holds |-> "nothing"]
Write == [at : {"idle", "marshalled", "open", "written", "cleaning", "renamed",
                "publishing", "going live"},
          half : {"shares", "faces"}, doc : Document,
          holds : {"nothing", "tmp", "file"}]

VARIABLES
  onFile,    \* settings.json
  onTmp,     \* settings.json.tmp
  stored,    \* Store.shares and Store.faces
  live,      \* Service.shares of the file service
  writer,    \* writer[r]: the settings request r is serving
  puts,      \* settings requests so far
  restarts,  \* restarts so far
  errors,    \* failed file operations so far
  raced      \* history: two settings requests were in flight at once

disk == <<onFile, onTmp>>
memory == <<stored, live>>
settingsBounds == <<puts, restarts, errors>>
settingsVars == <<disk, memory, writer, settingsBounds, raced>>

SettingsTypeOK ==
  /\ onFile \in Text /\ onTmp \in Text
  /\ stored \in Document /\ live \in ShareLists
  /\ writer \in [Requests -> Write]
  /\ puts \in 0 .. MaxPuts /\ restarts \in 0 .. MaxRestarts /\ errors \in 0 .. MaxErrors
  /\ raced \in BOOLEAN

\* Load: a missing file is empty settings, and so is a corrupt one (newRouter falls back).
Load(text) == IF text \in {Absent, Torn} THEN Empty ELSE text

SettingsInit ==
  /\ onFile = Absent /\ onTmp = Absent
  /\ stored = Load(onFile) /\ live = stored.shares
  /\ writer = [r \in Requests |-> NoWrite]
  /\ puts = 0 /\ restarts = 0 /\ errors = 0
  /\ raced = FALSE

Writing == {r \in Requests : writer[r].at # "idle"}

----------------------------------------------------------------------------
(* SetShares and SetFaces                                                  *)

\* Mutant: the faces settings are written without the shares.
EditedAlone(half, new) ==
  IF half = "shares" THEN [shares |-> new, faces |-> stored.faces]
                     ELSE [shares |-> << >>, faces |-> new]

\* The document has the new half and the other half of the memory, read outside any lock
\* that the rest of the call would hold.
Edited(half, new) ==
  IF half = "shares" THEN [shares |-> new, faces |-> stored.faces]
                     ELSE [shares |-> stored.shares, faces |-> new]

Marshal(r) ==
  /\ writer[r].at = "idle" /\ puts < MaxPuts
  /\ \E half \in {"shares", "faces"} : \E new \in IF half = "shares" THEN ShareLists ELSE Profiles :
       writer' = [writer EXCEPT ![r] = [at |-> "marshalled", half |-> half,
                                        doc |-> Edited(half, new), holds |-> "nothing"]]
  /\ puts' = puts + 1
  /\ raced' = (raced \/ Writing # {})
  /\ UNCHANGED <<disk, memory, restarts, errors>>

\* A call returns its error; the client may repeat it.
Fail(r) == errors < MaxErrors /\ errors' = errors + 1 /\ writer' = [writer EXCEPT ![r] = NoWrite]
At(r, place) == writer' = [writer EXCEPT ![r].at = place]

\* Mutant: the document is written to settings.json itself.
OpenFileItself(r) ==
  /\ writer[r].at = "marshalled"
  /\ onFile' = Torn
  /\ writer' = [writer EXCEPT ![r].at = "open", ![r].holds = "file"]
  /\ UNCHANGED <<onTmp, memory, settingsBounds, raced>>

\* os.WriteFile opens with O_TRUNC: the file that is there, if one is, or a new one.
OpenTmp(r) ==
  /\ writer[r].at = "marshalled"
  /\ \/ /\ onTmp' = Torn
        /\ writer' = [writer EXCEPT ![r].at = "open", ![r].holds = "tmp"]
        /\ UNCHANGED errors
     \/ Fail(r) /\ UNCHANGED onTmp
  /\ UNCHANGED <<onFile, memory, puts, restarts, raced>>

\* The text goes to the file that was opened, whatever its name is by now.
SetText(r, text) ==
  /\ onTmp' = IF writer[r].holds = "tmp" THEN text ELSE onTmp
  /\ onFile' = IF writer[r].holds = "file" THEN text ELSE onFile

\* Over the text of another request, a longer rest of that text may stay behind.
WriteTmp(r) ==
  LET under == IF writer[r].holds = "tmp" THEN onTmp ELSE onFile
  IN /\ writer[r].at = "open"
     /\ \/ \E text \in {writer[r].doc} \cup (IF under = Torn THEN {} ELSE {Torn}) :
             SetText(r, text) /\ At(r, "written") /\ UNCHANGED errors
        \/ SetText(r, Torn) /\ Fail(r)
     /\ UNCHANGED <<memory, puts, restarts, raced>>

\* The name settings.json now leads to the temporary file; who has it open keeps it open.
Moved(w) == [w EXCEPT !.holds = IF w.holds = "tmp" THEN "file" ELSE "nothing"]

RenameTmp(r) ==
  /\ writer[r].at = "written"
  /\ \/ /\ onTmp # Absent
        /\ onFile' = onTmp /\ onTmp' = Absent
        /\ writer' = [q \in Requests |-> [Moved(writer[q]) EXCEPT
                        !.at = IF q = r THEN "renamed" ELSE writer[q].at]]
        /\ UNCHANGED errors
     \/ /\ onTmp = Absent
        /\ At(r, "cleaning") /\ UNCHANGED <<disk, errors>>
     \/ /\ errors < MaxErrors /\ errors' = errors + 1
        /\ At(r, "cleaning") /\ UNCHANGED disk
  /\ UNCHANGED <<memory, puts, restarts, raced>>

\* os.Remove(tmp), and the error.
RemoveTmp(r) ==
  /\ writer[r].at = "cleaning"
  /\ onTmp' = Absent
  /\ writer' = [q \in Requests |->
                  IF q = r THEN NoWrite
                  ELSE [writer[q] EXCEPT !.holds = IF @ = "tmp" THEN "nothing" ELSE @]]
  /\ UNCHANGED <<onFile, memory, settingsBounds, raced>>

\* The memory follows the file, under the mutex.
Remember(r) ==
  LET w == writer[r]
  IN /\ w.at = "renamed"
     /\ stored' = [stored EXCEPT ![w.half] = w.doc[w.half]]
     /\ writer' = IF w.half = "shares" THEN [writer EXCEPT ![r].at = "publishing"]
                                       ELSE [writer EXCEPT ![r] = NoWrite]
     /\ UNCHANGED <<disk, live, settingsBounds, raced>>

----------------------------------------------------------------------------
(* PUT /api/settings/shares: svc.SetShares(settingsStore.Shares())         *)

ReadBack(r) ==
  /\ writer[r].at = "publishing"
  /\ writer' = [writer EXCEPT ![r].at = "going live", ![r].doc.shares = stored.shares]
  /\ UNCHANGED <<disk, memory, settingsBounds, raced>>

\* Mutant: the handler forgets the file service.
GoNowhere(r) ==
  /\ writer[r].at = "going live"
  /\ writer' = [writer EXCEPT ![r] = NoWrite]
  /\ UNCHANGED <<disk, memory, settingsBounds, raced>>

GoLive(r) ==
  /\ writer[r].at = "going live"
  /\ live' = writer[r].doc.shares
  /\ writer' = [writer EXCEPT ![r] = NoWrite]
  /\ UNCHANGED <<disk, stored, settingsBounds, raced>>

----------------------------------------------------------------------------
(* A crash at any point, and newRouter of the next process                 *)

Restart ==
  /\ restarts < MaxRestarts
  /\ restarts' = restarts + 1
  /\ stored' = Load(onFile)
  /\ live' = stored'.shares
  /\ writer' = [r \in Requests |-> NoWrite]
  /\ UNCHANGED <<disk, puts, errors, raced>>

WriteStep(r) ==
  \/ OpenTmp(r) \/ WriteTmp(r) \/ RenameTmp(r) \/ RemoveTmp(r)
  \/ Remember(r) \/ ReadBack(r) \/ GoLive(r)

SettingsNext == (\E r \in Requests : Marshal(r) \/ WriteStep(r)) \/ Restart

SettingsSpec == SettingsInit /\ [][SettingsNext]_settingsVars

----------------------------------------------------------------------------
(* Properties                                                              *)

\* Unless two requests meet at the temporary file, settings.json is absent or a whole
\* document at every instant, also after a failed write and after a crash: "validates and
\* atomically persists the share list" (a corrupt file would expose the whole root).
FileIsWhole == raced \/ onFile # Torn

\* Unless two requests met: when none is in flight, the file, the memory and the list the
\* file service works with agree, whichever calls failed and wherever a crash struck.
SettingsAgree ==
  raced \/ Writing # {} \/ (Load(onFile) = stored /\ live = stored.shares)

Register == INSTANCE SettingsRegister WITH
  Lists <- ShareLists, value <- Load(onFile), met <- raced

\* What a restart would find changes at the rename alone, one half at a time, unless two
\* requests met: the store implements the register.
ActsAsRegister == Register!RegisterSpec
=============================================================================
