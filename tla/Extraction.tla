----------------------------- MODULE Extraction -----------------------------
(***************************************************************************)
(* unpackTar (internal/pkgutil/tar_utils.go): the file system of an image  *)
(* is written to a directory for the tar driver to look at.                *)
(*                                                                         *)
(* The entries come as a layer holds them, or from the top layer down, each *)
(* name once: a file may come before its directory, a hard link before its *)
(* source, and a path may lead through a link.  What an absolute link      *)
(* means to the host is not known: where the code asks the host, it may be *)
(* told either; nothing is linked across such a link.                      *)
(***************************************************************************)
EXTENDS RootPath, Functions

CONSTANT Archives \* the archives considered

\* A mode is its owner's bits.
Full == {"r", "w", "x"}

TarEntry == [type: {"dir", "reg", "sym", "link"}, name: Path, mode: SUBSET Full, link: Path]

\* At the top of a file system is a directory, and nothing is called "..".
ASSUME ArchivesAssumption ==
  \A shipped \in Archives :
    /\ shipped \in Seq(TarEntry)
    /\ \A i \in DOMAIN shipped :
         shipped[i].type # "dir" => shipped[i].name.parts # << >> /\ Last(shipped[i].name.parts) # ".."

\* Fuel is enough for the names and the links.
ASSUME ReachAssumption ==
  \A shipped \in Archives : \A i \in DOMAIN shipped :
    Len(shipped[i].name.parts) <= Reach /\ Len(shipped[i].link.parts) <= Reach

VARIABLES
  archive, \* the archive, never changed
  next,    \* the entry that is read next
  tree,    \* what was written
  pending, \* hardlinks: the source of each link that had none yet
  perms,   \* originalPerms: directories with their modes, to be restored
  pc

vars == <<archive, next, tree, pending, perms, pc>>

Dir(mode, from) == [type |-> "dir", mode |-> mode, from |-> from]
Reg(from)       == [type |-> "reg", from |-> from]
Sym(link, from) == [type |-> "sym", link |-> link, from |-> from]

-----------------------------------------------------------------------------
(* Calls to the operating system.                                          *)

Put(t, place, node) == [q \in DOMAIN t \union {place} |-> IF q = place THEN node ELSE t[q]]

RemoveAll(t, place) == Restrict(t, {q \in DOMAIN t : ~IsPrefix(place, q)})

IsEmptyDir(t, place) == \A q \in DOMAIN t : ~IsStrictPrefix(place, q)

\* The directories that MkdirAll makes on the way to a place; from is the
\* entry that asked for the last one.
MkdirAll(t, place, from) ==
  LET new == {Prefix(place, n) : n \in 0..Len(place)} \ DOMAIN t
  IN [q \in DOMAIN t \union new |->
        IF q \in new THEN Dir(Full, IF q = place THEN from ELSE 0) ELSE t[q]]

\* os.Stat and os.Chmod follow links as the host does; os.Lstat and os.Link
\* follow those on the way.
OnHost(place)  == Walk(tree, place, TRUE, FALSE, Fuel)
HostLink(place) == Walk(tree, place, FALSE, FALSE, Fuel)

\* !os.IsNotExist(err) of os.Stat: any other error counts as finding something.
\* What it is when the walk leaves the tree is not known.
StatFinds(place, finds) ==
  OnHost(place).end # "outside" => finds = (OnHost(place).end # "missing")

-----------------------------------------------------------------------------
(* The entries.                                                            *)

Init ==
  /\ archive \in Archives
  /\ next = 1
  /\ tree = [place \in {<< >>} |-> Dir(Full, 0)]
  /\ pending = << >> /\ perms = << >>
  /\ pc = "unpack"

Entry  == archive[next]
Target == ResolvePathInRoot(tree, Entry.name, FALSE)
Place  == Target.place

Read(type) == pc = "unpack" /\ next <= Len(archive) /\ Entry.type = type /\ Target.ok

Skip == next' = next + 1 /\ UNCHANGED <<archive, tree, pending, perms, pc>>

Fail == pc' = "failed" /\ UNCHANGED <<archive, next, tree, pending, perms>>

\* The archive cannot be read, or the name of an entry leads out of the tree.
ReadError ==
  /\ pc = "unpack" /\ next <= Len(archive) + 1
  /\ Fail

\* MUTANT of UnpackDir: the mode that was shipped is not noted.
UnpackDirForgets ==
  /\ Read("dir")
  /\ IF Lstat(tree, Place) # "missing" THEN Skip
     ELSE /\ tree' = MkdirAll(tree, Place, next)
          /\ next' = next + 1
          /\ UNCHANGED <<archive, pending, perms, pc>>

\* tar.TypeDir: a directory that is there already, as a file below it came
\* first, is left as it is.
UnpackDir ==
  /\ Read("dir")
  /\ IF Lstat(tree, Place) # "missing" THEN Skip
     ELSE /\ tree' = MkdirAll(tree, Place, next)
          /\ perms' = IF Entry.mode = Full THEN perms
                      ELSE Append(perms, [place |-> Place, mode |-> Entry.mode])
          /\ next' = next + 1
          /\ UNCHANGED <<archive, pending, pc>>

\* An empty directory in the place of a file is removed like a file.
Removable == CASE Lstat(tree, Place) = "dir" -> IsEmptyDir(tree, Place)
               [] Lstat(tree, Place) = "notdir" -> FALSE
               [] OTHER -> TRUE

\* MUTANT of UnpackReg: the directory of the file is expected to be there.
UnpackRegNoParents ==
  /\ Read("reg")
  /\ IF ~Removable THEN Fail
     ELSE /\ tree' = Put(tree, Place, Reg(next))
          /\ next' = next + 1
          /\ UNCHANGED <<archive, pending, perms, pc>>

\* tar.TypeReg.
UnpackReg ==
  /\ Read("reg")
  /\ IF ~Removable THEN Fail
     ELSE /\ tree' = Put(MkdirAll(tree, Front(Place), 0), Place, Reg(next))
          /\ next' = next + 1
          /\ UNCHANGED <<archive, pending, perms, pc>>

\* tarLinkTarget: a relative link is seen from the directory it is in.
TarLinkTarget(name, link) ==
  IF link.abs THEN link ELSE Written(name.abs, Front(name.parts) \o link.parts)

\* Whatever is in the place is removed.  A link that cannot be made, as its
\* directory is not there, is logged.
UnpackSym ==
  /\ Read("sym")
  /\ IF ~ResolvePathInRoot(tree, TarLinkTarget(Entry.name, Entry.link), TRUE).ok THEN Fail
     ELSE /\ tree' = IF IsA(tree, Front(Place), "dir")
                     THEN Put(RemoveAll(tree, Place), Place, Sym(Entry.link, next))
                     ELSE tree
          /\ next' = next + 1
          /\ UNCHANGED <<archive, pending, perms, pc>>

\* resolveHardlink makes a link at place to what is at source: a symbolic link
\* is made again, with its own target.
CanLink(source, place) ==
  LET from == HostLink(source)
      dir  == OnHost(Front(place))
  IN /\ from.end = "at" /\ tree[from.at].type # "dir"
     /\ dir.end = "at" /\ IsA(tree, dir.at, "dir")
     /\ Append(dir.at, Last(place)) \notin DOMAIN tree
     /\ IsA(tree, from.at, "sym") =>
          ResolvePathInRoot(tree, TarLinkTarget(Written(FALSE, source), tree[from.at].link), TRUE).ok

ResolveHardlink(source, place) ==
  IF CanLink(source, place)
  THEN tree' = Put(tree, Append(OnHost(Front(place)).at, Last(place)), tree[HostLink(source).at])
       /\ UNCHANGED pc
  ELSE pc' = "failed" /\ UNCHANGED tree

\* MUTANT of UnpackLink: a link that comes before its source is dropped.
UnpackLinkNow ==
  /\ Read("link")
  /\ LET source == ResolvePathInRoot(tree, Entry.link, FALSE) IN
       IF ~source.ok THEN Fail
       ELSE \E finds \in BOOLEAN :
              /\ StatFinds(source.place, finds)
              /\ IF finds THEN ResolveHardlink(source.place, Place) ELSE UNCHANGED <<tree, pc>>
              /\ next' = next + 1
              /\ UNCHANGED <<archive, pending, perms>>

\* tar.TypeLink.  os.Stat follows a source that is a symbolic link, so a link to
\* one whose target is not there is put off, and in the end dropped.
UnpackLink ==
  /\ Read("link")
  /\ LET source == ResolvePathInRoot(tree, Entry.link, FALSE) IN
       IF ~source.ok THEN Fail
       ELSE \E finds \in BOOLEAN :
              /\ StatFinds(source.place, finds)
              /\ IF finds
                 THEN ResolveHardlink(source.place, Place) /\ UNCHANGED pending
                 ELSE pending' = Put(pending, Place, source.place) /\ UNCHANGED <<tree, pc>>
              /\ next' = next + 1
              /\ UNCHANGED <<archive, perms>>

EndOfArchive ==
  /\ pc = "unpack" /\ next > Len(archive)
  /\ pc' = "links"
  /\ UNCHANGED <<archive, next, tree, pending, perms>>

\* hardlinks.Range: the links that were put off, in no order.  One that still
\* has no source is dropped.
PendingLink ==
  /\ pc = "links"
  /\ \E place \in DOMAIN pending, finds \in BOOLEAN :
       /\ StatFinds(pending[place], finds)
       /\ IF finds THEN ResolveHardlink(pending[place], place) ELSE UNCHANGED <<tree, pc>>
       /\ pending' = Restrict(pending, DOMAIN pending \ {place})
  /\ UNCHANGED <<archive, next, perms>>

EndOfLinks ==
  /\ pc = "links" /\ DOMAIN pending = {}
  /\ pc' = "perms"
  /\ UNCHANGED <<archive, next, tree, pending, perms>>

\* MUTANT of RestorePerm: exactly the mode that was shipped.
RestorePermExact ==
  /\ pc = "perms" /\ perms # << >>
  /\ LET w == OnHost(Head(perms).place) IN
       \/ /\ w.end \in {"at", "outside"}
          /\ tree' = IF w.end = "at" /\ IsA(tree, w.at, "dir")
                     THEN [tree EXCEPT ![w.at].mode = Head(perms).mode]
                     ELSE tree
          /\ perms' = Tail(perms)
          /\ UNCHANGED <<archive, next, pending, pc>>
       \/ w.end # "at" /\ Fail

\* The owner keeps the right to go through the directory.
RestorePerm ==
  /\ pc = "perms" /\ perms # << >>
  /\ LET w == OnHost(Head(perms).place) IN
       \/ /\ w.end \in {"at", "outside"}
          /\ tree' = IF w.end = "at" /\ IsA(tree, w.at, "dir")
                     THEN [tree EXCEPT ![w.at].mode = Head(perms).mode \union {"x"}]
                     ELSE tree
          /\ perms' = Tail(perms)
          /\ UNCHANGED <<archive, next, pending, pc>>
       \/ w.end # "at" /\ Fail

EndOfPerms ==
  /\ pc = "perms" /\ perms = << >>
  /\ pc' = "done"
  /\ UNCHANGED <<archive, next, tree, pending, perms>>

Finished == pc \in {"done", "failed"} /\ UNCHANGED vars

Next ==
  \/ ReadError \/ UnpackDir \/ UnpackReg \/ UnpackSym \/ UnpackLink \/ EndOfArchive
  \/ PendingLink \/ EndOfLinks \/ RestorePerm \/ EndOfPerms \/ Finished

Spec == Init /\ [][Next]_vars

-----------------------------------------------------------------------------
(* Properties.                                                             *)

\* The tree is one: everything in it is in a directory (files and links come
\* before their directories, and links take the place of directories).
TypeOK ==
  /\ pc \in {"unpack", "links", "perms", "done", "failed"}
  /\ next \in 1..(Len(archive) + 1)
  /\ IsA(tree, << >>, "dir")
  /\ \A q \in DOMAIN tree \ {<< >>} : IsA(tree, Front(q), "dir")

\* A directory can be written to for as long as files may still come, and gone
\* through at any time, whatever mode it was shipped with.
DirsStayOpen ==
  \A q \in DOMAIN tree : tree[q].type = "dir" =>
    /\ "x" \in tree[q].mode
    /\ pc \in {"unpack", "links"} => tree[q].mode = Full

IsEntry(i, type) == i \in DOMAIN archive /\ archive[i].type = type

\* Nothing that entry i made is in the tree.
Gone(i) == \A q \in DOMAIN tree : tree[q].from # i

HasModeOf(q, i) == tree[q].mode = archive[i].mode \union {"x"}

\* In the end a directory that its own entry made has the mode of the entry,
\* but for the right to go through it.  Left out is what a link does that takes
\* the place of a directory whose mode was noted by its name: the mode is given
\* to the directory that the link leads to.
ModesAsShipped ==
  pc = "done" =>
    \A q \in DOMAIN tree : tree[q].type = "dir" /\ tree[q].from # 0 =>
      \/ HasModeOf(q, tree[q].from)
      \/ \E i \in DOMAIN archive : IsEntry(i, "dir") /\ Gone(i) /\ HasModeOf(q, i)

\* What an entry says by name.
NamedBy(i) == {archive[i].name} \union (IF archive[i].type = "link" THEN {archive[i].link} ELSE {})

\* The archive means by a name what is in the place of that name: each is there
\* once, and none leads up, or through a link.
Straight ==
  /\ \A i, j \in DOMAIN archive : archive[i].name.parts = archive[j].name.parts => i = j
  /\ \A i \in DOMAIN archive : \A path \in NamedBy(i) :
       /\ ~HasUp(path)
       /\ \A j \in DOMAIN archive :
            archive[j].type \in {"sym", "link"} => ~IsStrictPrefix(archive[j].name.parts, path.parts)

\* A hard link to a file of the archive is in the end that very file, and it does
\* not matter where in the archive they are, and what else is there.  A file may
\* also be written, and written again, by a name that leads through a symbolic
\* link, as in a/f, b linked to a/f, the symbolic link x to a, x/f: then b is the
\* file that a/f was before, so such archives are left out.
HardLinksAreMade ==
  pc = "done" /\ Straight =>
    \A i, j \in DOMAIN archive :
      IsEntry(i, "link") /\ IsEntry(j, "reg") /\ archive[i].link.parts = archive[j].name.parts =>
        \A name \in {archive[i].name.parts, archive[j].name.parts} :
          name \in DOMAIN tree /\ tree[name] = Reg(j)

Links == {q \in DOMAIN tree : tree[q].type = "sym"}

\* Wherever the resolution of a path ends up, a process with the tree as its
\* root ends up there too; and it finds whatever such a process finds, unless
\* there are too many links on the way.  Left out are paths and links with ".."
\* after a name, and for the second part those that lead above the top.
ResolutionIsWalk ==
  (\A q \in Links : Plain(tree[q].link)) =>
    \A i \in DOMAIN archive, followFinal \in BOOLEAN :
      LET path == archive[i].name
          r    == ResolvePathInRoot(tree, path, followFinal)
          w    == Walk(tree, path.parts, followFinal, TRUE, Fuel)
      IN Plain(path) =>
           /\ r.ok /\ r.place \in DOMAIN tree => w.end = "at" /\ w.at = r.place
           /\ w.end = "at" /\ ~HasUp(path) /\ (\A q \in Links : StaysInside(tree, q)) =>
                r = Found(w.at) \/ LinksLeft(tree, path, followFinal)

\* "It's possible for a file to be included before the directory it's in is
\* created": a symbolic link whose directory is in the archive too is made,
\* wherever in the archive the directory is.
SymlinksAreMade ==
  pc = "done" =>
    \A i, j \in DOMAIN archive :
      IsEntry(i, "sym") /\ IsEntry(j, "dir") /\ archive[j].name.parts = Front(archive[i].name.parts)
      => \E q \in DOMAIN tree : tree[q].type = "sym" /\ tree[q].from = i
=============================================================================
