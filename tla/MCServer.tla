------------------------------- MODULE MCServer -------------------------------
(***************************************************************************)
(* Small instances of three components that share no state, and one run    *)
(* for the three: file management with the settings (FilesOps), the        *)
(* download of the models (ModelDownload) and the migration of faces       *)
(* (FaceMigration).  A behaviour moves one of them; the others stay as     *)
(* they begin.                                                             *)
(***************************************************************************)
EXTENDS FilesOps, ModelDownload, FaceMigration

CONSTANTS small, mobile, det, mbf, mfn

VARIABLE moving  \* the component that this behaviour moves

\* Volumes c (the storage root) and d; a file c/x, a directory c/y with a file and a directory.
Tree == (<<"c">> :> Dir) @@ (<<"d">> :> Dir) @@ (<<"c", "x">> :> 1)
        @@ (<<"c", "y">> :> Dir) @@ (<<"c", "y", "x">> :> 2) @@ (<<"c", "y", "y">> :> Dir)
Bodies == <<"one", "two">>
StorageRoot == <<"c">>
Paths == {<<"x">>, <<"y">>, <<"x", "y">>, <<"y", "x">>}

\* Legacy mode; two shares on two volumes; a share deep inside another.
Lists ==
  { << >>,
    << [name |-> "x", dir |-> <<"c">>], [name |-> "y", dir |-> <<"d">>] >>,
    << [name |-> "x", dir |-> <<"c">>], [name |-> "y", dir |-> <<"c", "y", "y">>] >> }

\* buffalo_s, and mobilefacenet, whose recognizer is not in the pack.
Packs == (small :> {det, mbf}) @@ (mobile :> {det, mbf})
Models == (small :> {det, mbf}) @@ (mobile :> {det, mfn})

Symmetry == Permutations(Requests) \cup Permutations(Setters) \cup Permutations(FaceKeys)

partsVars == <<serverVars, downloadVars, migrationVars, moving>>

PartsInit ==
  /\ ServerInit /\ DownloadInit /\ MigrationInit
  /\ moving \in {"server", "models", "faces"}
  /\ moving # "models" => /\ chosen = small /\ hostLib
                          /\ \A m \in ModelFiles : final[m] = "absent"

PartsNext ==
  \/ moving = "server" /\ ServerNext /\ UNCHANGED <<downloadVars, migrationVars, moving>>
  \/ moving = "models" /\ DownloadNext /\ UNCHANGED <<serverVars, migrationVars, moving>>
  \/ moving = "faces" /\ MigrationNext /\ UNCHANGED <<serverVars, downloadVars, moving>>

PartsSpec == PartsInit /\ [][PartsNext]_partsVars

\* Every variable of the three components keeps its type; in particular the file system stays
\* a tree in which no two names lead to one file, and the flag of the download is up exactly
\* while a download is under way.
PartsTypeOK == FilesTypeOK /\ DownloadTypeOK /\ MigrationTypeOK
=============================================================================
