------------------------------- MODULE FilesOps -------------------------------
(***************************************************************************)
(* internal/files: upload, rename, move, mkdir and delete on the file      *)
(* system, while PUT /api/settings/shares (Settings) replaces the list     *)
(* that maps the first name of a client's path to a directory.  A request  *)
(* is a goroutine that looks and then acts: every action is one look or    *)
(* one call that changes the file system.                                  *)
(*                                                                         *)
(* A path is a sequence of names, its first one the volume.  A client's    *)
(* path is a sequence of names too.  There are no symbolic links.          *)
(***************************************************************************)
EXTENDS Settings, Sequences, SequencesExt

CONSTANTS Names,      \* of files, directories, volumes and shares
          Root,       \* the storage root
          FirstTree,  \* the file system at first: path |-> Dir or a file
          FirstBody,  \* FirstBody[f]: content of file f of FirstTree
          Dir,        \* what the path of a directory leads to
          Partial,    \* the content of a file that is being written
          Fresh,      \* the content of an upload
          ClientPaths,\* paths that clients name,
          NewNames,   \* and names they give
          MaxFiles,   \* bound: files ever created
          MaxOps,     \* bound: file requests
          MaxTogether \* bound: file and settings requests together

Files == 1 .. MaxFiles
Contents == Range(FirstBody) \cup {Partial, Fresh}

\* A file system: entries lie in directories, and no two names lead to one file.
IsTree(t) ==
  /\ \A p \in DOMAIN t :
       /\ p \in Seq(Names) /\ Len(p) > 0 /\ t[p] \in Files \cup {Dir}
       /\ \A n \in 1 .. Len(p) - 1 : SubSeq(p, 1, n) \in DOMAIN t /\ t[SubSeq(p, 1, n)] = Dir
  /\ \A p, q \in DOMAIN t : t[p] = t[q] => t[p] = Dir \/ p = q

ASSUME FilesAssumption ==
  /\ Dir \notin Files /\ IsTree(FirstTree) /\ Root \in DOMAIN FirstTree
  /\ FirstBody \in [Range(FirstTree) \ {Dir} -> Range(FirstBody)]
  /\ \A f, g \in DOMAIN FirstBody : FirstBody[f] = FirstBody[g] => f = g
  /\ Partial # Fresh /\ {Partial, Fresh} \cap Range(FirstBody) = {}
  /\ ClientPaths \subseteq Seq(Names) /\ NewNames \subseteq Names
  /\ ShareLists \subseteq Seq([name : Names, dir : Seq(Names)])
  /\ \A l \in ShareLists : \A i, j \in DOMAIN l :  \* validate: no name twice
       i # j => l[i].name # l[j].name
  /\ {MaxFiles, MaxOps, MaxTogether} \subseteq Nat

\* A request: where it is, the paths it has still to serve, the files it works on, and the
\* entries it has still to copy.
FileRequest == [at : {"idle", "named", "resolving", "receiving", "making", "renaming", "next",
                      "moving", "copying", "copying file", "removing"},
                op : {"none", "upload", "mkdir", "rename", "move", "delete"},
                rels : Seq(Seq(Names)), from : Seq(Names), to : Seq(Names),
                left : SUBSET Seq(Names), reads : 0 .. MaxFiles, writes : 0 .. MaxFiles]
NoRequest == [at |-> "idle", op |-> "none", rels |-> << >>, from |-> << >>,
              to |-> << >>, left |-> {}, reads |-> 0, writes |-> 0]

VARIABLES
  tree,       \* path |-> Dir or the file there
  body,       \* body[f]: the content of file f
  req,        \* req[r]: the file request r is serving
  ops,        \* file requests so far
  taken,      \* history: contents that a delete or an upload was to remove
  overlapped  \* history: two requests of any kind were in flight at once

filesVars == <<tree, body, req, ops, taken, overlapped>>
serverVars == <<settingsVars, filesVars>>

FilesTypeOK ==
  /\ SettingsTypeOK
  /\ IsTree(tree)
  /\ body \in [Files -> Contents] /\ req \in [Requests -> FileRequest]
  /\ ops \in 0 .. MaxOps /\ taken \subseteq Contents /\ overlapped \in BOOLEAN

FilesInit ==
  /\ tree = FirstTree
  /\ body = [f \in Files |-> IF f \in DOMAIN FirstBody THEN FirstBody[f] ELSE Partial]
  /\ req = [r \in Requests |-> NoRequest]
  /\ ops = 0 /\ taken = {} /\ overlapped = FALSE

Busy == Writing \cup {r \in Requests : req[r].at # "idle"}

----------------------------------------------------------------------------
(* Paths                                                                   *)

Nowhere == << >>
Exists(p) == p \in DOMAIN tree
IsDir(p) == Exists(p) /\ tree[p] = Dir
Under(d) == {p \in DOMAIN tree : IsPrefix(d, p)}
Children(d) == {p \in Under(d) : Len(p) = Len(d) + 1}

\* resolve below a directory: cleaned, and without links joined.
Inside(dir, rel) == dir \o rel

\* resolve: inside the share of the first name, or the storage root in legacy mode.
Resolve(rel) ==
  IF live = << >> THEN Inside(Root, rel)
  ELSE IF rel # << >> /\ \E i \in DOMAIN live : live[i].name = Head(rel)
       THEN Inside(live[CHOOSE i \in DOMAIN live : live[i].name = Head(rel)].dir, Tail(rel))
       ELSE Nowhere

\* Mutant: the way back names the share and the last name only.
ShortRelPath(abs) ==
  LET holders == {i \in DOMAIN live : IsPrefix(live[i].dir, abs)}
  IN IF holders # {} THEN <<live[CHOOSE i \in holders : TRUE].name, Last(abs)>>
     ELSE SubSeq(abs, Len(Root) + 1, Len(abs))

\* relPath: the way back, by the first share of the list that contains the path.
RelPath(abs) ==
  LET holders == {i \in DOMAIN live : IsPrefix(live[i].dir, abs)}
      rest(d) == SubSeq(abs, Len(d) + 1, Len(abs))
  IN IF holders # {}
     THEN LET first == CHOOSE i \in holders : \A j \in holders : i <= j
          IN <<live[first].name>> \o rest(live[first].dir)
     ELSE IF IsPrefix(Root, abs) THEN rest(Root) ELSE abs

\* List: the shares, or the entries of a directory, by the paths that clients get.
Listed(rel) ==
  IF rel = << >> /\ live # << >> THEN {<<live[i].name>> : i \in DOMAIN live}
  ELSE {RelPath(p) : p \in Children(Resolve(rel))}

\* Mutant: only the storage root is protected.
IsStorageRoot(abs) == abs = Root

IsVirtualRoot(abs) == abs = Root \/ \E i \in DOMAIN live : live[i].dir = abs

----------------------------------------------------------------------------
(* File system calls of the operating system                               *)

CanCreate(p) == Len(p) > 1 /\ IsDir(Front(p))
Bind(p, node) == [q \in DOMAIN tree \cup {p} |-> IF q = p THEN node ELSE tree[q]]

Unused == Files \ (DOMAIN FirstBody \cup Range(tree) \cup {req[r].writes : r \in Requests})

\* os.Create: an existing file is emptied in place.
Create(p, f) ==
  /\ CanCreate(p) /\ ~ IsDir(p)
  /\ IF Exists(p) THEN f = tree[p] /\ UNCHANGED tree
     ELSE f \in Unused /\ (\A g \in Unused : f <= g) /\ tree' = Bind(p, f)
  /\ body' = [body EXCEPT ![f] = Partial]

\* os.Rename: within a volume; over a file, or with a directory over an empty one.
CanRename(from, to) ==
  /\ Exists(from) /\ CanCreate(to) /\ Head(from) = Head(to) /\ ~ IsPrefix(from, to)
  /\ Exists(to) => IF IsDir(from) THEN IsDir(to) /\ Children(to) = {} ELSE ~ IsDir(to)

Renamed(from, to) ==
  LET stay == DOMAIN tree \ Under(from)
      new(p) == to \o SubSeq(p, Len(from) + 1, Len(p))
      moved == {new(p) : p \in Under(from)}
      old(q) == from \o SubSeq(q, Len(to) + 1, Len(q))
  IN [q \in stay \cup moved |-> IF q \in moved THEN tree[old(q)] ELSE tree[q]]

----------------------------------------------------------------------------
(* Requests                                                                *)

Set(r, q) == req' = [req EXCEPT ![r] = q]
Done(r) == Set(r, NoRequest)
Disturb == errors < MaxErrors /\ errors' = errors + 1
           /\ UNCHANGED <<disk, memory, writer, puts, restarts, raced>>
\* A look: no file changes.
Look == UNCHANGED <<settingsVars, tree, body, ops, taken, overlapped>>

Begin(r) == /\ req[r].at = "idle" /\ writer[r].at = "idle"
            /\ ops < MaxOps /\ ops + puts < MaxTogether
            /\ ops' = ops + 1
            /\ overlapped' = (overlapped \/ Busy # {})
            /\ UNCHANGED <<settingsVars, tree, body, taken>>

\* SaveUpload and Mkdir: the directory is resolved and stat-ed ...
StartNew(r, op, rel, name) ==
  /\ Begin(r) /\ IsDir(Resolve(rel))
  /\ Set(r, [NoRequest EXCEPT !.at = "named", !.op = op, !.to = Resolve(rel) \o <<name>>])

\* ... its path and the new name go back to a client's path ...
NameNew(r) ==
  /\ req[r].at = "named"
  /\ Set(r, [req[r] EXCEPT !.at = "resolving", !.rels = <<RelPath(req[r].to)>>])
  /\ Look

\* ... and that path is resolved again.
OpenUpload(r) ==
  LET dst == Resolve(req[r].rels[1])
  IN /\ req[r].at = "resolving" /\ req[r].op = "upload"
     /\ IF CanCreate(dst) /\ ~ IsDir(dst)
        THEN \E f \in Files :
               /\ Create(dst, f)
               /\ Set(r, [req[r] EXCEPT !.at = "receiving", !.from = dst, !.writes = f])
               /\ taken' = taken \cup (IF Exists(dst) THEN {body[f]} ELSE {})
        ELSE Done(r) /\ UNCHANGED <<tree, body, taken>>
     /\ UNCHANGED <<settingsVars, ops, overlapped>>

Receive(r) ==
  /\ req[r].at = "receiving"
  /\ \/ body' = [body EXCEPT ![req[r].writes] = Fresh] /\ UNCHANGED settingsVars
     \/ Disturb /\ UNCHANGED body
  /\ Done(r)
  /\ UNCHANGED <<tree, ops, taken, overlapped>>

StatNewDir(r) ==
  LET dst == Resolve(req[r].rels[1])
  IN /\ req[r].at = "resolving" /\ req[r].op = "mkdir"
     /\ IF dst # Nowhere /\ ~ Exists(dst) THEN Set(r, [req[r] EXCEPT !.at = "making", !.to = dst])
        ELSE Done(r)
     /\ Look

MakeDir(r) ==
  /\ req[r].at = "making"
  /\ IF CanCreate(req[r].to) /\ ~ Exists(req[r].to) THEN tree' = Bind(req[r].to, Dir)
     ELSE UNCHANGED tree
  /\ Done(r)
  /\ UNCHANGED <<settingsVars, body, ops, taken, overlapped>>

\* Rename: the source exists and is no root, the target is free.
Free(target) == ~ Exists(target)

StartRename(r, rel, name) ==
  LET abs == Resolve(rel)
      target == Front(abs) \o <<name>>
  IN /\ Begin(r) /\ abs # Nowhere
     /\ ~ IsVirtualRoot(abs) /\ Exists(abs) /\ Free(target)
     /\ Set(r, [NoRequest EXCEPT !.at = "renaming", !.op = "rename", !.from = abs, !.to = target])

DoRename(r) ==
  /\ req[r].at = "renaming"
  /\ IF CanRename(req[r].from, req[r].to) THEN tree' = Renamed(req[r].from, req[r].to)
     ELSE UNCHANGED tree
  /\ Done(r)
  /\ UNCHANGED <<settingsVars, body, ops, taken, overlapped>>

\* Move and Delete take their sources one by one; a failure leaves the earlier ones done.
StartMove(r, rels, dest) ==
  /\ Begin(r) /\ IsDir(Resolve(dest))
  /\ Set(r, [NoRequest EXCEPT !.at = "next", !.op = "move", !.rels = rels, !.to = Resolve(dest)])

StartDelete(r, rels) ==
  /\ Begin(r)
  /\ Set(r, [NoRequest EXCEPT !.at = "next", !.op = "delete", !.rels = rels])

Target(r) == req[r].to \o <<Last(req[r].from)>>

\* The checks on the next source.
NextSource(r) ==
  LET q == req[r]
      abs == Resolve(Head(q.rels))
      rest == [q EXCEPT !.rels = Tail(q.rels), !.from = abs]
      target == q.to \o <<Last(abs)>>
  IN /\ q.at = "next"
     /\ IF q.rels = << >> \/ abs = Nowhere \/ IsVirtualRoot(abs) \/ ~ Exists(abs) THEN Done(r)
        ELSE IF q.op = "delete" THEN Set(r, [rest EXCEPT !.at = "removing"])
        ELSE IF IsDir(abs) /\ IsPrefix(abs, q.to) THEN Done(r)
        ELSE IF target = abs THEN Set(r, rest)
        ELSE IF ~ Free(target) THEN Done(r)
        ELSE Set(r, [rest EXCEPT !.at = "moving"])
     /\ Look

\* os.Rename; where it fails, as it does between volumes, the source is copied.
MoveSource(r) ==
  /\ req[r].at = "moving"
  /\ IF CanRename(req[r].from, Target(r))
     THEN tree' = Renamed(req[r].from, Target(r)) /\ Set(r, [req[r] EXCEPT !.at = "next"])
     ELSE UNCHANGED tree /\ Set(r, [req[r] EXCEPT !.at = "copying", !.left = {req[r].from}])
  /\ UNCHANGED <<settingsVars, body, ops, taken, overlapped>>

Twin(r, p) == Target(r) \o SubSeq(p, Len(req[r].from) + 1, Len(p))

\* copyTree on one entry: a directory is made and read, a file is opened and created.
CopyEntry(r, p) ==
  /\ req[r].at = "copying" /\ p \in req[r].left
  /\ LET dst == Twin(r, p)
         others == req[r].left \ {p}
     IN \/ /\ IsDir(p) /\ (IsDir(dst) \/ (CanCreate(dst) /\ ~ Exists(dst)))
           /\ tree' = Bind(dst, Dir) /\ UNCHANGED body
           /\ Set(r, [req[r] EXCEPT !.left = others \cup Children(p)])
        \/ /\ Exists(p) /\ ~ IsDir(p) /\ CanCreate(dst) /\ ~ IsDir(dst)
           /\ \E f \in Files :
                /\ Create(dst, f)
                /\ Set(r, [req[r] EXCEPT !.at = "copying file", !.left = others,
                                         !.reads = tree[p], !.writes = f])
        \/ /\ \/ ~ Exists(p)
              \/ ~ IsDir(dst) /\ (~ CanCreate(dst) \/ (IsDir(p) /\ Exists(dst)))
              \/ ~ IsDir(p) /\ IsDir(dst)
           /\ Done(r) /\ UNCHANGED <<tree, body>>
  /\ UNCHANGED <<settingsVars, ops, taken, overlapped>>

\* io.Copy ends, or fails and the target stays as it is.
CopyFile(r) ==
  /\ req[r].at = "copying file"
  /\ \/ /\ body' = [body EXCEPT ![req[r].writes] = body[req[r].reads]]
        /\ Set(r, [req[r] EXCEPT !.at = "copying", !.reads = 0, !.writes = 0])
        /\ UNCHANGED settingsVars
     \/ Disturb /\ Done(r) /\ UNCHANGED body
  /\ UNCHANGED <<tree, ops, taken, overlapped>>

\* Mutant: a source is removed once its copy has begun.
CopiedEarly(r) ==
  /\ req[r].at = "copying" /\ req[r].from \notin req[r].left
  /\ Set(r, [req[r] EXCEPT !.at = "removing", !.left = {}])
  /\ Look

\* Mutant: a copied source stays.
CopiedOnly(r) ==
  /\ req[r].at = "copying" /\ req[r].left = {}
  /\ Set(r, [req[r] EXCEPT !.at = "next"])
  /\ Look

Copied(r) ==
  /\ req[r].at = "copying" /\ req[r].left = {}
  /\ Set(r, [req[r] EXCEPT !.at = "removing"])
  /\ Look

\* os.RemoveAll unlinks the entries below a path one by one, itself last.
RemoveEntry(r, p) ==
  /\ req[r].at = "removing" /\ p \in Under(req[r].from) /\ Children(p) = {}
  /\ \/ /\ tree' = [q \in DOMAIN tree \ {p} |-> tree[q]]
        /\ taken' = taken \cup (IF req[r].op = "delete" /\ ~ IsDir(p) THEN {body[tree[p]]} ELSE {})
        /\ UNCHANGED <<settingsVars, req>>
     \/ Disturb /\ Done(r) /\ UNCHANGED <<tree, taken>>
  /\ UNCHANGED <<body, ops, overlapped>>

Removed(r) ==
  /\ req[r].at = "removing" /\ ~ Exists(req[r].from)
  /\ Set(r, [req[r] EXCEPT !.at = "next"])
  /\ Look

FileStep(r) ==
  \/ \E rel \in ClientPaths, name \in NewNames, op \in {"upload", "mkdir"} : StartNew(r, op, rel, name)
  \/ \E rel \in ClientPaths, name \in NewNames : StartRename(r, rel, name)
  \/ \E a, b \in ClientPaths, dest \in ClientPaths :
       StartMove(r, IF a = b THEN <<a>> ELSE <<a, b>>, dest)
  \/ \E a \in ClientPaths : StartDelete(r, <<a>>)
  \/ NameNew(r) \/ OpenUpload(r) \/ Receive(r) \/ StatNewDir(r) \/ MakeDir(r) \/ DoRename(r)
  \/ NextSource(r) \/ MoveSource(r) \/ CopyFile(r) \/ Copied(r) \/ Removed(r)
  \/ \E p \in DOMAIN tree \cup req[r].left : CopyEntry(r, p) \/ RemoveEntry(r, p)

\* validate stats the directories of a new share list.
ValidList(r) == \A i \in DOMAIN writer'[r].doc.shares :
                  writer'[r].half = "shares" => IsDir(writer'[r].doc.shares[i].dir)

ServerNext ==
  \/ \E r \in Requests : FileStep(r)
  \/ \E r \in Requests : /\ Marshal(r) /\ req[r].at = "idle" /\ ValidList(r)
                         /\ ops + puts < MaxTogether
                         /\ overlapped' = (overlapped \/ Busy # {})
                         /\ UNCHANGED <<tree, body, req, ops, taken>>
  \/ \E r \in Requests : WriteStep(r) /\ UNCHANGED filesVars
  \/ /\ Restart
     /\ req' = [r \in Requests |-> NoRequest]
     /\ UNCHANGED <<tree, body, ops, taken, overlapped>>

ServerInit == SettingsInit /\ FilesInit

ServerSpec == ServerInit /\ [][ServerNext]_serverVars

----------------------------------------------------------------------------
(* Properties                                                              *)

Whole(c) == {p \in DOMAIN tree : tree[p] # Dir /\ body[tree[p]] = c}

\* Unless requests overlapped, a content that no delete and no upload was aimed at has a
\* whole file, whatever was renamed or moved, between volumes too, whichever call failed and
\* wherever a crash struck.
NothingLost ==
  overlapped \/ \A c \in Range(FirstBody) : c \in taken \/ Whole(c) # {}

\* Unless requests overlapped or a call failed or a crash struck, a move between volumes
\* leaves no second copy behind, and no request leaves a part of a file.
MovesLeaveOne ==
  \/ overlapped \/ errors > 0 \/ restarts > 0 \/ Busy # {}
  \/ /\ \A c \in Range(FirstBody) : Cardinality(Whole(c)) <= 1
     /\ Whole(Partial) = {}

\* Unless requests overlapped, the directory of a live share stands, unless it lies in the
\* directory of another live share: "such paths cannot be renamed/moved/deleted".
OuterSharesStand ==
  \/ overlapped
  \/ \A i \in DOMAIN live :
       \/ IsDir(live[i].dir)
       \/ \E j \in DOMAIN live : j # i /\ IsPrefix(live[j].dir, live[i].dir)

\* The paths that a listing shows lead back to exactly the entries of the directory it lists,
\* with nested shares and in legacy mode too; those of the virtual root lead to the shares.
ListedPathsResolve ==
  \A rel \in ClientPaths \cup {<< >>} :
    LET shown == {Resolve(q) : q \in Listed(rel)}
    IN IF rel = << >> /\ live # << >> THEN shown = {live[i].dir : i \in DOMAIN live}
       ELSE IsDir(Resolve(rel)) => shown = Children(Resolve(rel))
=============================================================================
