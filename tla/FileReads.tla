----------------------------- MODULE FileReads -----------------------------
(***************************************************************************)
(* StatFile, ReadFile and ReadDir of the three drivers (pkg/drivers): what *)
(* each answers about a path of an image, and what a process in a          *)
(* container of the image would be told.                                   *)
(*                                                                         *)
(* A node of a tree has the classes that may execute it and its owner; a   *)
(* regular file has its contents.                                          *)
(***************************************************************************)
EXTENDS RootPath

Answer(value) == [end |-> "ok", value |-> value]
NoAnswer      == [end |-> "error"]
Circle        == [end |-> "circle"]

IsOk(answer) == answer.end = "ok"

\* What there is to say of a node: os.FileInfo, which the docker driver makes
\* from the header of a tar archive.
Info(node, hasHeader) ==
  [type |-> node.type, exec |-> node.exec, owner |-> node.owner, hasHeader |-> hasHeader]

Children(tree, dir) == {q \in DOMAIN tree : Len(q) = Len(dir) + 1 /\ IsPrefix(dir, q)}

Entries(tree, dir)    == {[name |-> Last(q), isDir |-> IsA(tree, q, "dir")] : q \in Children(tree, dir)}
DirEntries(tree, dir) == {e \in Entries(tree, dir) : e.isDir}

\* An answer about the place where a look-up ends.
StatAt(tree, end, hasHeader) ==
  With(end, LAMBDA r :
    IF r.ok /\ r.place \in DOMAIN tree THEN Answer(Info(tree[r.place], hasHeader)) ELSE NoAnswer)

ReadAt(tree, end) ==
  With(end, LAMBDA r :
    IF r.ok /\ IsA(tree, r.place, "reg") THEN Answer(tree[r.place].contents) ELSE NoAnswer)

ListAt(tree, end) ==
  With(end, LAMBDA r :
    IF r.ok /\ IsA(tree, r.place, "dir") THEN Answer(Entries(tree, r.place)) ELSE NoAnswer)

-----------------------------------------------------------------------------
(* In a container, and on the host, whose file system is a tree as well:   *)
(* the kernel walks.                                                       *)

Walked(tree, path, followFinal) ==
  With(Walk(tree, path.parts, followFinal, TRUE, Fuel),
       LAMBDA w : IF w.end = "at" THEN Found(w.at) ELSE Refused)

\* HostDriver: os.Lstat, os.ReadFile and os.ReadDir.
HostStat(tree, path) == StatAt(tree, Walked(tree, path, FALSE), FALSE)
HostRead(tree, path) == ReadAt(tree, Walked(tree, path, TRUE))
HostList(tree, path) == ListAt(tree, Walked(tree, path, TRUE))

-----------------------------------------------------------------------------
(* TarDriver.  The tree it looks at is the one that was extracted: the     *)
(* owner can go through each directory.                                    *)

Extracted(tree) ==
  [q \in DOMAIN tree |->
     IF tree[q].type = "dir" THEN [tree[q] EXCEPT !.exec = @ \union {"owner"}] ELSE tree[q]]

\* MUTANT of TarStat: a link is followed to the end.
TarStatFollows(tree, path) == StatAt(tree, ResolvePathInRoot(tree, path, TRUE), FALSE)

TarStat(tree, path) == StatAt(tree, ResolvePathInRoot(tree, path, FALSE), FALSE)
TarRead(tree, path) == ReadAt(tree, ResolvePathInRoot(tree, path, TRUE))
TarList(tree, path) == ListAt(tree, ResolvePathInRoot(tree, path, TRUE))

-----------------------------------------------------------------------------
(* DockerDriver: an archive is downloaded from a container and searched.   *)

\* The daemon's answer to DownloadFromContainer: a path is taken from the top
\* of the container and made clean, links are followed but for the last
\* component, and the archive begins with what is there.
Child(tree, dir, name) ==
  IF dir.ok /\ Append(dir.place, name) \in DOMAIN tree THEN Found(Append(dir.place, name)) ELSE Refused

Archived(tree, path) ==
  With(Clean(Written(TRUE, path.parts)), LAMBDA parts :
    IF parts = << >> THEN Found(<< >>)
    ELSE With(Walked(tree, Written(TRUE, Front(parts)), TRUE), LAMBDA dir : Child(tree, dir, Last(parts))))

\* The first header is that of the path itself; no entry is named "..", which is
\* looked for when the path ends in it.
EndsInName(path) == path.parts = << >> \/ Last(path.parts) # ".."

DockerStat(tree, path) ==
  IF EndsInName(path) THEN StatAt(tree, Archived(tree, path), TRUE) ELSE NoAnswer

\* ReadFile calls itself with the target of a link as it is written, wherever
\* the link is.  (Neither the path nor a link on the way ends in "..".)
IsLink(tree, r) == r.ok /\ IsA(tree, r.place, "sym")

FollowAsWritten(tree, path) ==
  With(Archived(tree, path), LAMBDA r : IF IsLink(tree, r) THEN tree[r.place].link ELSE path)

DockerRead(tree, path) ==
  With(Archived(tree, Iterate(LAMBDA p, i : FollowAsWritten(tree, p), path, Fuel)),
       LAMBDA last : IF IsLink(tree, last) THEN Circle ELSE ReadAt(tree, last))

\* Only the directories in the archive count: a file, or a link, has none.
DockerList(tree, path) ==
  With(Archived(tree, path), LAMBDA r :
    IF r.ok THEN Answer(IF IsA(tree, r.place, "dir") THEN DirEntries(tree, r.place) ELSE {})
            ELSE NoAnswer)

-----------------------------------------------------------------------------
(* The operations of a view: who looks, and the tree that is looked at.    *)
(* "container" is a process with the tree as its root, which the drivers   *)
(* are compared with; "nothing" is a driver whose every call fails.        *)

View(by, tree) == [by |-> by, tree |-> tree]

StatFile(view, path) ==
  CASE view.by = "docker"    -> DockerStat(view.tree, path)
    [] view.by = "tar"       -> TarStat(view.tree, path)
    [] view.by = "host"      -> HostStat(view.tree, path)
    [] view.by = "container" -> StatAt(view.tree, Walked(view.tree, path, FALSE), TRUE)
    [] view.by = "nothing"   -> NoAnswer

ReadFile(view, path) ==
  CASE view.by = "docker"              -> DockerRead(view.tree, path)
    [] view.by = "tar"                 -> TarRead(view.tree, path)
    [] view.by \in {"host", "container"} -> HostRead(view.tree, path)
    [] view.by = "nothing"             -> NoAnswer

ReadDir(view, path) ==
  CASE view.by = "docker"              -> DockerList(view.tree, path)
    [] view.by = "tar"                 -> TarList(view.tree, path)
    [] view.by \in {"host", "container"} -> HostList(view.tree, path)
    [] view.by = "nothing"             -> NoAnswer
=============================================================================
