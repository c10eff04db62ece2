------------------------------ MODULE RootPath ------------------------------
(***************************************************************************)
(* Paths of an image in the directory it was extracted to:                 *)
(* ResolvePathInRoot (internal/pkgutil/root_path.go), and the walk of the  *)
(* kernel it stands in for.                                                *)
(*                                                                         *)
(* A path as it is written is a sequence of names and "..", absolute or    *)
(* not; a place in the tree is a sequence of names.  A tree is a function  *)
(* from the places where something is to a node: a directory, a regular    *)
(* file or a symbolic link.                                                *)
(***************************************************************************)
EXTENDS Iteration, Integers, Sequences, SequencesExt, FiniteSetsExt

CONSTANTS
  Names,    \* the names of files
  MaxLinks, \* the links followed before giving up (the code's value is 255)
  Fuel      \* enough steps for any walk, or chain of links, that has an end

ASSUME NamesAssumption == ".." \notin Names

ASSUME MaxLinksAssumption == MaxLinks \in Nat \ {0}

ASSUME FuelAssumption == Fuel \in Nat \ {0}

\* A walk has a step for each part of its path and of the links it follows, and
\* one to end: Fuel is enough for MaxLinks links and parts that are no longer.
Reach == (Fuel - 1) \div (MaxLinks + 1)

AllPlaces == Seq(Names)
Path      == [abs: BOOLEAN, parts: Seq(Names \union {".."})]

Written(abs, parts) == [abs |-> abs, parts |-> parts]

HasUp(path) == ".." \in ToSet(path.parts)

Found(place) == [ok |-> TRUE, place |-> place]
Refused      == [ok |-> FALSE, place |-> << >>]

-----------------------------------------------------------------------------
(* The tree.                                                               *)

Prefix(place, n) == SubSeq(place, 1, n)

IsA(tree, place, type) == place \in DOMAIN tree /\ tree[place].type = type

\* At the top is a directory, and whatever else there is is in one.
IsTree(tree) ==
  /\ DOMAIN tree \subseteq AllPlaces /\ IsA(tree, << >>, "dir")
  /\ \A q \in DOMAIN tree :
       /\ tree[q].type \in {"dir", "reg", "sym"}
       /\ tree[q].type = "sym" => tree[q].link \in Path
       /\ q # << >> => IsA(tree, Front(q), "dir")

\* What os.Lstat says of a place: "notdir" is an error other than "missing".
Lstat(tree, place) ==
  IF place \in DOMAIN tree THEN tree[place].type
  ELSE IF \E n \in 1..(Len(place) - 1) : IsA(tree, Prefix(place, n), "reg") THEN "notdir"
  ELSE "missing"

-----------------------------------------------------------------------------
(* ResolvePathInRoot.                                                      *)

\* path.Clean: each ".." takes the name before it with it, and is dropped at
\* the top of an absolute path.  All that is left of them is at the front.
Clean(path) ==
  LET add(parts, part) == CASE part # ".." -> Append(parts, part)
                            [] part = ".." /\ parts # << >> /\ Last(parts) # ".." -> Front(parts)
                            [] OTHER -> IF path.abs THEN parts ELSE Append(parts, part)
  IN Iterate(LAMBDA parts, i : add(parts, path.parts[i]), << >>, Len(path.parts))

\* A path without ".." after a name.
Plain(path) == Clean(path) = path.parts

\* A link without ".." after a name that does not lead above the top.
StaysInside(tree, q) ==
  LET link == tree[q].link
  IN Plain(link) /\ \A i \in DOMAIN link.parts : link.parts[i] = ".." => i < Len(q)

\* resolveRootPathParts: the place that path names, seen from base.
RootPathParts(base, path) ==
  LET add(r, part) == CASE ~r.ok -> r
                        [] r.ok /\ part # ".." -> Found(Append(r.place, part))
                        [] OTHER -> IF r.place = << >> THEN Refused ELSE Found(Front(r.place))
  IN With(Clean(path), LAMBDA parts :
       Iterate(LAMBDA r, i : add(r, parts[i]), Found(IF path.abs THEN << >> ELSE base), Len(parts)))

\* The components the loop stops at: a link, or what is below a file.
Stops(tree, place, followFinal) ==
  {i \in 1..(IF followFinal THEN Len(place) ELSE Len(place) - 1) :
     Lstat(tree, Prefix(place, i)) \in {"sym", "notdir"}}

Below(r, rest) == IF r.ok THEN Found(r.place \o rest) ELSE Refused

\* MUTANT of FollowLink: a relative target is seen from the top of the tree.
FollowLinkFromTop(tree, place, i) ==
  IF IsA(tree, Prefix(place, i), "sym")
  THEN Below(RootPathParts(<< >>, tree[Prefix(place, i)].link), SubSeq(place, i + 1, Len(place)))
  ELSE Refused

\* The link at the i-th component is replaced by its target, seen from where
\* the link is; below a file os.Lstat fails.
FollowLink(tree, place, i) ==
  IF IsA(tree, Prefix(place, i), "sym")
  THEN Below(RootPathParts(Prefix(place, i - 1), tree[Prefix(place, i)].link),
             SubSeq(place, i + 1, Len(place)))
  ELSE Refused

\* One time around the loop, which starts over after the first link.
Around(tree, r, followFinal) ==
  IF ~r.ok \/ Stops(tree, r.place, followFinal) = {} THEN r
  ELSE FollowLink(tree, r.place, Min(Stops(tree, r.place, followFinal)))

Rounds(tree, path, followFinal) ==
  Iterate(LAMBDA s, i : Around(tree, s, followFinal), RootPathParts(<< >>, path), MaxLinks)

ResolvePathInRoot(tree, path, followFinal) ==
  With(Rounds(tree, path, followFinal),
       LAMBDA r : IF r.ok /\ Stops(tree, r.place, followFinal) # {} THEN Refused ELSE r)

\* MaxLinks links were followed, and there is one more.
LinksLeft(tree, path, followFinal) ==
  LET r     == Rounds(tree, path, followFinal)
      stops == Stops(tree, r.place, followFinal)
  IN r.ok /\ stops # {} /\ IsA(tree, Prefix(r.place, Min(stops)), "sym")

-----------------------------------------------------------------------------
(* The kernel's walk, a component at a time.  Confined to the tree it is   *)
(* what a process with the tree as its root sees; on the host, an absolute *)
(* link or one too many ".." leaves the tree.                              *)

WalkStep(tree, w, followFinal, confined) ==
  LET part  == Head(w.todo)
      rest  == Tail(w.todo)
      child == Append(w.at, part)
      outside == [w EXCEPT !.end = "outside"]
  IN CASE w.end # "no" -> w
       [] w.end = "no" /\ w.todo = << >> -> [w EXCEPT !.end = "at"]
       [] w.end = "no" /\ w.todo # << >> /\ part = ".." ->
            IF w.at # << >> THEN [w EXCEPT !.at = Front(@), !.todo = rest]
            ELSE IF confined THEN [w EXCEPT !.todo = rest]
            ELSE outside
       [] w.end = "no" /\ w.todo # << >> /\ part # ".." ->
            IF ~IsA(tree, w.at, "dir") THEN [w EXCEPT !.end = "notdir"]
            ELSE IF child \notin DOMAIN tree THEN [w EXCEPT !.end = "missing"]
            ELSE IF tree[child].type # "sym" \/ (rest = << >> /\ ~followFinal)
            THEN [w EXCEPT !.at = child, !.todo = rest]
            ELSE IF tree[child].link.abs /\ ~confined THEN outside
            ELSE [w EXCEPT !.at = IF tree[child].link.abs THEN << >> ELSE @,
                           !.todo = tree[child].link.parts \o rest]

\* Where the walk along parts from the top of the tree ends ("no": it did not
\* within fuel steps, so it goes in a circle).
Walk(tree, parts, followFinal, confined, fuel) ==
  Iterate(LAMBDA w, i : WalkStep(tree, w, followFinal, confined),
          [at |-> << >>, todo |-> parts, end |-> "no"], fuel)
=============================================================================
