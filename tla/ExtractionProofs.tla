-------------------------- MODULE ExtractionProofs --------------------------
(***************************************************************************)
(* Proofs about Extraction, for archives of any length, any names in them  *)
(* and any number of links that are followed.                              *)
(*                                                                         *)
(* First come the tree and its modes (IInv), then the hard links (HInv),   *)
(* and last that the tree keeps to the hypotheses under which              *)
(* RootPathProofs compares a resolved path with the walk of the kernel.    *)
(***************************************************************************)
EXTENDS Extraction, RootPathProofs

-----------------------------------------------------------------------------
(* Trees.                                                                  *)

Nodes == [type: {"dir"}, mode: SUBSET Full, from: Nat]
           \union [type: {"reg"}, from: Nat] \union [type: {"sym"}, link: Path, from: Nat]

IsUnpacked(t) ==
  /\ DOMAIN t \subseteq AllPlaces /\ \A q \in DOMAIN t : t[q] \in Nodes
  /\ IsA(t, << >>, "dir") /\ \A q \in DOMAIN t \ {<< >>} : IsA(t, Front(q), "dir")

LEMMA NodesTyped ==
  ASSUME NEW t, IsUnpacked(t)
  PROVE  LinksTyped(t) /\ \A q \in DOMAIN t : t[q].type \in {"dir", "reg", "sym"} /\ t[q].from \in Nat
BY DEF IsUnpacked, Nodes, LinksTyped

LEMMA UnpackedIsTree ==
  ASSUME NEW t, IsUnpacked(t)
  PROVE  IsTree(t)
BY NodesTyped DEF IsUnpacked, IsTree, LinksTyped, IsA

\* The directories that are made on the way to a place with nothing but
\* directories above it.
LEMMA TreeWithDirs ==
  ASSUME NEW t, IsUnpacked(t), NEW place \in AllPlaces, NEW from \in Nat,
         \A n \in 0..Len(place) : Prefix(place, n) \in DOMAIN t => t[Prefix(place, n)].type = "dir"
  PROVE  LET u == MkdirAll(t, place, from)
         IN /\ IsUnpacked(u) /\ IsA(u, place, "dir")
            /\ \A q \in DOMAIN t : q \in DOMAIN u /\ u[q] = t[q]
            /\ \A q \in DOMAIN u : \/ q \in DOMAIN t /\ u[q] = t[q]
                                   \/ u[q] = Dir(Full, 0)
                                   \/ q = place /\ u[q] = Dir(Full, from)
            /\ place \notin DOMAIN t => u[place] = Dir(Full, from)
            /\ \A q \in DOMAIN u : q \in DOMAIN t \/ Len(q) <= Len(place)
<1>0. PICK u : u = MkdirAll(t, place, from)
  OBVIOUS
<1>. DEFINE new == {Prefix(place, n) : n \in 0..Len(place)} \ DOMAIN t
<1>1. /\ DOMAIN u = DOMAIN t \union new
      /\ \A q \in DOMAIN u : u[q] = IF q \in new THEN Dir(Full, IF q = place THEN from ELSE 0) ELSE t[q]
  BY <1>0 DEF MkdirAll
<1>2. /\ Len(place) \in Nat /\ Prefix(place, 0) = << >> /\ Prefix(place, Len(place)) = place
      /\ \A n \in 0..Len(place) : Prefix(place, n) \in AllPlaces
      /\ \A n \in 1..Len(place) : Front(Prefix(place, n)) = Prefix(place, n - 1)
  BY PrefixesOf
<1>3. /\ \A q \in DOMAIN t : t[q] \in Nodes /\ q \in AllPlaces
      /\ IsA(t, << >>, "dir") /\ \A q \in DOMAIN t \ {<< >>} : IsA(t, Front(q), "dir")
  BY DEF IsUnpacked
<1>. HIDE DEF new
<1>4. /\ \A q \in DOMAIN t : q \in DOMAIN u /\ u[q] = t[q]
      /\ \A q \in DOMAIN u : \/ q \in DOMAIN t /\ u[q] = t[q]
                             \/ q \in new /\ (u[q] = Dir(Full, 0) \/ (q = place /\ u[q] = Dir(Full, from)))
  <2>1. \A q \in DOMAIN t : q \notin new
    BY DEF new
  <2>2. \A q \in DOMAIN t : q \in DOMAIN u /\ u[q] = t[q]
    BY <1>1, <2>1
  <2>3. ASSUME NEW q \in DOMAIN u, ~(q \in DOMAIN t)
        PROVE  q \in new /\ (u[q] = Dir(Full, 0) \/ (q = place /\ u[q] = Dir(Full, from)))
    <3>1. q \in new
      BY <1>1, <2>3
    <3>2. u[q] = Dir(Full, IF q = place THEN from ELSE 0)
      BY <1>1, <3>1
    <3>3. CASE q = place
      BY <3>1, <3>2, <3>3
    <3>4. CASE q # place
      BY <3>1, <3>2, <3>4
    <3>. QED
      BY <3>3, <3>4
  <2>4. ASSUME NEW q \in DOMAIN u
        PROVE  \/ q \in DOMAIN t /\ u[q] = t[q]
               \/ q \in new /\ (u[q] = Dir(Full, 0) \/ (q = place /\ u[q] = Dir(Full, from)))
    <3>1. CASE q \in DOMAIN t
      BY <2>2, <3>1
    <3>2. CASE q \notin DOMAIN t
      BY <2>3, <3>2
    <3>. QED
      BY <3>1, <3>2
  <2>. QED
    BY <2>2, <2>4
<1>5. \A n \in 0..Len(place) : IsA(u, Prefix(place, n), "dir")
  <2>1. SUFFICES ASSUME NEW n \in 0..Len(place) PROVE IsA(u, Prefix(place, n), "dir")
    OBVIOUS
  <2>2. CASE Prefix(place, n) \in DOMAIN t
    BY <1>4, <2>2 DEF IsA
  <2>3. CASE Prefix(place, n) \notin DOMAIN t
    <3>1. Prefix(place, n) \in new
      BY <2>3 DEF new
    <3>2. Prefix(place, n) \in DOMAIN u
      BY <1>1, <3>1
    <3>3. \A k : Dir(Full, k).type = "dir"
      BY DEF Dir
    <3>4. u[Prefix(place, n)].type = "dir"
      BY <1>4, <2>3, <3>2, <3>3
    <3>. QED
      BY <3>2, <3>4 DEF IsA
  <2>. QED
    BY <2>2, <2>3
<1>6. \A q \in new : \E n \in 0..Len(place) : q = Prefix(place, n)
  BY DEF new
<1>7. Dir(Full, 0) \in Nodes /\ Dir(Full, from) \in Nodes
  BY DEF Dir, Nodes, Full
<1>8. DOMAIN u \subseteq AllPlaces /\ \A q \in DOMAIN u : u[q] \in Nodes
  <2>1. SUFFICES ASSUME NEW q \in DOMAIN u PROVE q \in AllPlaces /\ u[q] \in Nodes
    OBVIOUS
  <2>2. CASE q \in DOMAIN t
    BY <1>3, <1>4, <2>2
  <2>3. CASE q \notin DOMAIN t
    BY <1>2, <1>4, <1>6, <1>7, <2>3
  <2>. QED
    BY <2>2, <2>3
<1>9. ASSUME NEW q \in DOMAIN u \ {<< >>} PROVE IsA(u, Front(q), "dir")
  <2>1. CASE q \in DOMAIN t
    BY <1>3, <1>4, <2>1 DEF IsA
  <2>2. ASSUME NEW n \in 0..Len(place), q = Prefix(place, n) PROVE IsA(u, Front(q), "dir")
    <3>1. n # 0
      BY <1>2, <1>9, <2>2
    <3>2. n \in 1..Len(place) /\ n - 1 \in 0..Len(place)
      BY <1>2, <3>1
    <3>. QED
      BY <1>2, <1>5, <2>2, <3>2
  <2>. QED
    BY <1>4, <1>6, <2>1, <2>2
<1>10. IsUnpacked(u) /\ IsA(u, place, "dir")
  <2>1. IsA(u, << >>, "dir")
    BY <1>3, <1>4 DEF IsA
  <2>2. IsA(u, place, "dir")
    BY <1>2, <1>5
  <2>. QED
    BY <1>8, <1>9, <2>1, <2>2 DEF IsUnpacked
<1>11. \A q \in DOMAIN u : \/ q \in DOMAIN t /\ u[q] = t[q]
                           \/ u[q] = Dir(Full, 0)
                           \/ q = place /\ u[q] = Dir(Full, from)
  BY <1>4
<1>12. \A q \in DOMAIN t : q \in DOMAIN u /\ u[q] = t[q]
  BY <1>4
<1>13. place \notin DOMAIN t => u[place] = Dir(Full, from)
  <2>1. SUFFICES ASSUME ~(place \in DOMAIN t) PROVE u[place] = Dir(Full, from)
    OBVIOUS
  <2>2. Len(place) \in 0..Len(place)
    BY <1>2
  <2>3. place \in new
    BY <1>2, <2>1, <2>2 DEF new
  <2>. QED
    BY <1>1, <2>3
<1>14. \A q \in DOMAIN u : q \in DOMAIN t \/ Len(q) <= Len(place)
  <2>1. \A n \in 0..Len(place) : Len(Prefix(place, n)) = n
    BY PrefixesOf
  <2>. QED
    BY <1>2, <1>4, <1>6, <2>1
<1>. QED
  BY <1>0, <1>10, <1>11, <1>12, <1>13, <1>14

\* Something that is no directory is put in a directory, where there is nothing
\* below it.
LEMMA TreeWithLeaf ==
  ASSUME NEW t, IsUnpacked(t), NEW place \in AllPlaces \ {<< >>}, IsA(t, Front(place), "dir"),
         NEW node \in Nodes, \A q \in DOMAIN t \ {<< >>} : Front(q) # place
  PROVE  IsUnpacked(Put(t, place, node))
<1>. DEFINE u == Put(t, place, node)
<1>1. DOMAIN u = DOMAIN t \union {place} /\ \A q \in DOMAIN u : u[q] = IF q = place THEN node ELSE t[q]
  BY DEF Put
<1>. HIDE DEF u
<1>2. Front(place) # place
  <2>1. Len(place) \in Nat /\ place # << >> /\ Len(place) > 0 /\ Front(place) = Prefix(place, Len(place) - 1)
    BY PrefixesOf
  <2>2. Len(place) - 1 \in 0..Len(place)
    BY <2>1
  <2>3. Len(Front(place)) = Len(place) - 1
    BY <2>1, <2>2, PrefixesOf
  <2>. QED
    BY <2>1, <2>3
<1>3. \A q : q # place /\ IsA(t, q, "dir") => IsA(u, q, "dir")
  BY <1>1 DEF IsA
<1>4. DOMAIN u \subseteq AllPlaces /\ \A q \in DOMAIN u : u[q] \in Nodes
  BY <1>1 DEF IsUnpacked
<1>5. IsA(u, << >>, "dir") /\ \A q \in DOMAIN u \ {<< >>} : IsA(u, Front(q), "dir")
  BY <1>1, <1>2, <1>3 DEF IsUnpacked
<1>. QED
  BY <1>4, <1>5 DEF IsUnpacked, u

\* A place is removed with all that is below it.
LEMMA TreeWithout ==
  ASSUME NEW t, IsUnpacked(t), NEW place \in AllPlaces \ {<< >>}
  PROVE  LET u == RemoveAll(t, place)
         IN /\ IsUnpacked(u) /\ \A q \in DOMAIN u : q \in DOMAIN t /\ u[q] = t[q]
            /\ \A q \in DOMAIN u \ {<< >>} : Front(q) # place
            /\ IsA(t, Front(place), "dir") => IsA(u, Front(place), "dir")
<1>. DEFINE u == RemoveAll(t, place)
<1>1. /\ DOMAIN u = {q \in DOMAIN t : ~IsPrefix(place, q)} /\ \A q \in DOMAIN u : u[q] = t[q]
  BY DEF RemoveAll, Restrict
<1>. HIDE DEF u
<1>2. /\ place \in AllPlaces /\ Len(place) \in Nat /\ Len(place) > 0 /\ Prefix(place, Len(place)) = place
      /\ Front(place) = Prefix(place, Len(place) - 1)
  BY PrefixesOf
<1>3. ~IsPrefix(place, << >>)
  BY <1>2 DEF IsPrefix
<1>4. ~IsPrefix(place, Front(place))
  <2>1. Len(place) - 1 \in 0..Len(place)
    BY <1>2
  <2>2. Len(Front(place)) = Len(place) - 1
    BY <1>2, <2>1, PrefixesOf
  <2>. QED
    BY <1>2, <2>2 DEF IsPrefix
<1>5. ASSUME NEW q \in AllPlaces \ {<< >>}, IsPrefix(place, Front(q)) PROVE IsPrefix(place, q)
  <2>1. Len(q) \in Nat /\ Len(q) > 0 /\ Front(q) = Prefix(q, Len(q) - 1) /\ q \in Seq(Names)
    BY PrefixesOf DEF AllPlaces
  <2>2. Len(q) - 1 \in 0..Len(q)
    BY <2>1
  <2>3. Len(Front(q)) = Len(q) - 1
    BY <2>1, <2>2, PrefixesOf
  <2>4. Len(place) <= Len(q) - 1 /\ SubSeq(place, 1, Len(place)) = SubSeq(Front(q), 1, Len(place))
    BY <1>5, <2>3 DEF IsPrefix
  <2>5. SubSeq(Front(q), 1, Len(place)) = SubSeq(q, 1, Len(place))
    <3>1. Front(q) = SubSeq(q, 1, Len(q) - 1)
      BY <2>1 DEF Prefix
    <3>2. /\ 1 \in 1..Len(q) /\ Len(q) - 1 \in 1..Len(q) /\ 1 \in 1..((Len(q) - 1) - 1 + 1)
          /\ Len(place) \in 1..((Len(q) - 1) - 1 + 1)
      BY <1>2, <2>1, <2>4
    <3>3. SubSeq(SubSeq(q, 1, Len(q) - 1), 1, Len(place)) = SubSeq(q, 1 + 1 - 1, 1 + Len(place) - 1)
      BY <2>1, <3>2, SubSeqOfSubSeq
    <3>4. 1 + 1 - 1 = 1 /\ 1 + Len(place) - 1 = Len(place)
      BY <1>2
    <3>. QED
      BY <3>1, <3>3, <3>4
  <2>. QED
    BY <1>2, <2>1, <2>4, <2>5 DEF IsPrefix
<1>6. IsPrefix(place, place)
  BY <1>2 DEF IsPrefix
<1>7. /\ \A q \in DOMAIN t : t[q] \in Nodes /\ q \in AllPlaces
      /\ IsA(t, << >>, "dir") /\ \A q \in DOMAIN t \ {<< >>} : IsA(t, Front(q), "dir")
  BY DEF IsUnpacked
<1>8. ASSUME NEW q \in DOMAIN u \ {<< >>}
      PROVE  IsA(u, Front(q), "dir") /\ Front(q) # place
  <2>1. q \in DOMAIN t /\ q \in AllPlaces \ {<< >>} /\ ~IsPrefix(place, q)
    BY <1>1, <1>7
  <2>2. ~IsPrefix(place, Front(q))
    BY <1>5, <2>1
  <2>3. IsA(t, Front(q), "dir")
    BY <1>7, <2>1
  <2>. QED
    BY <1>1, <1>6, <2>2, <2>3 DEF IsA
<1>9. IsA(u, << >>, "dir")
  BY <1>1, <1>3, <1>7 DEF IsA
<1>10. IsA(t, Front(place), "dir") => IsA(u, Front(place), "dir")
  BY <1>1, <1>4 DEF IsA
<1>11. IsUnpacked(u)
  BY <1>1, <1>7, <1>8, <1>9 DEF IsUnpacked
<1>. QED
  BY <1>1, <1>8, <1>10, <1>11 DEF u
-----------------------------------------------------------------------------
(* The invariant.                                                          *)

Types ==
  /\ archive \in Archives
  /\ pc \in {"unpack", "links", "perms", "done", "failed"}
  /\ next \in 1..(Len(archive) + 1)
  /\ IsUnpacked(tree)
  /\ DOMAIN pending \subseteq AllPlaces \ {<< >>} /\ \A q \in DOMAIN pending : pending[q] \in AllPlaces
  /\ perms \in Seq([place : AllPlaces, mode : SUBSET Full])

\* What an entry made is known by it: directories were made by directories.
Made ==
  \A q \in DOMAIN tree : tree[q].from # 0 =>
    /\ tree[q].from \in DOMAIN archive /\ tree[q].from < next
    /\ archive[tree[q].from].type = "dir" <=> tree[q].type = "dir"

\* An entry makes one directory that is known by it.
Once ==
  \A p, q \in DOMAIN tree :
    /\ tree[p].type = "dir" /\ tree[q].type = "dir"
    /\ tree[p].from # 0 /\ tree[p].from = tree[q].from
    => p = q

\* A mode that was noted is the one of an entry: of the one that made the
\* directory that is still there, or of one that nothing is left of.
Noted ==
  \A k \in DOMAIN perms : \E i \in DOMAIN archive :
    /\ i < next /\ archive[i].type = "dir" /\ perms[k].mode = archive[i].mode
    /\ Gone(i) \/ (IsA(tree, perms[k].place, "dir") /\ tree[perms[k].place].from = i)

\* A directory has the mode of its entry, or that is noted and to be restored,
\* or it was given the mode of an entry that nothing is left of.
Owed ==
  \A q \in DOMAIN tree : tree[q].type = "dir" /\ tree[q].from # 0 =>
    \/ HasModeOf(q, tree[q].from)
    \/ \E k \in DOMAIN perms : perms[k].place = q /\ perms[k].mode = archive[tree[q].from].mode
    \/ \E i \in DOMAIN archive : i < next /\ archive[i].type = "dir" /\ Gone(i) /\ HasModeOf(q, i)

IInv ==
  /\ Types /\ DirsStayOpen
  /\ Made /\ Once /\ Noted /\ Owed
  /\ pc = "done" => perms = << >>
-----------------------------------------------------------------------------
(* What a step does to the tree.                                           *)

\* From t to u, things were removed, directories made that no entry is known
\* by, other things linked, and node was put in place.
Grown(t, u, place, node) ==
  \A q \in DOMAIN u :
    \/ q \in DOMAIN t /\ u[q] = t[q]
    \/ u[q] = Dir(Full, 0)
    \/ \E p \in DOMAIN t : t[p].type # "dir" /\ u[q] = t[p]
    \/ q = place /\ u[q] = node

\* The next entry is known by nothing, or by node.
NothingMade(node) == node = Dir(Full, 0) /\ next' \in {next, next + 1} /\ perms' = perms

NodeMade(place, node) ==
  /\ next \in DOMAIN archive /\ next' = next + 1 /\ node.from = next
  /\ archive[next].type = "dir" <=> node.type = "dir"
  /\ node.type = "dir" => node = Dir(Full, next)
  /\ \/ perms' = perms /\ (node.type = "dir" => archive[next].mode = Full)
     \/ /\ perms' = Append(perms, [place |-> place, mode |-> archive[next].mode])
        /\ IsA(tree', place, "dir") /\ tree'[place] = node

LEMMA GrownKeeps ==
  ASSUME IInv, pc \in {"unpack", "links"}, archive' = archive, IsUnpacked(tree'),
         NEW place \in AllPlaces, NEW node, Grown(tree, tree', place, node),
         NothingMade(node) \/ NodeMade(place, node)
  PROVE  (DirsStayOpen /\ Made /\ Once /\ Noted /\ Owed)'
<1>0. /\ archive \in Seq(TarEntry) /\ DOMAIN archive = 1..Len(archive) /\ Len(archive) \in Nat /\ next \in Nat
      /\ perms \in Seq([place : AllPlaces, mode : SUBSET Full])
  BY ArchivesAssumption, LenProperties DEF IInv, Types
<1>1. /\ Dir(Full, 0).type = "dir" /\ Dir(Full, 0).mode = Full /\ Dir(Full, 0).from = 0
      /\ Dir(Full, next).type = "dir" /\ Dir(Full, next).mode = Full /\ Dir(Full, next).from = next
      /\ "x" \in Full
  BY DEF Dir, Full
<1>2. node.from \in {0, next} /\ (node.type = "dir" => node.mode = Full) /\ next' \in {next, next + 1}
  BY <1>1 DEF NothingMade, NodeMade
<1>3. \A q \in DOMAIN tree' :
        \/ q \in DOMAIN tree /\ tree'[q] = tree[q]
        \/ tree'[q] = Dir(Full, 0)
        \/ \E p \in DOMAIN tree : tree[p].type # "dir" /\ tree'[q] = tree[p]
        \/ q = place /\ tree'[q] = node
  BY DEF Grown
<1>4. /\ \A q \in DOMAIN tree : tree[q].from # 0 =>
           /\ tree[q].from \in DOMAIN archive /\ tree[q].from < next
           /\ archive[tree[q].from].type = "dir" <=> tree[q].type = "dir"
      /\ \A p, q \in DOMAIN tree :
           tree[p].type = "dir" /\ tree[q].type = "dir" /\ tree[p].from # 0 /\ tree[p].from = tree[q].from => p = q
  BY DEF IInv, Made, Once
<1>5. \A q \in DOMAIN tree : tree[q].type = "dir" => tree[q].mode = Full
  BY DEF IInv, DirsStayOpen
<1>6. DirsStayOpen'
  <2>1. ASSUME NEW q \in DOMAIN tree', tree'[q].type = "dir" PROVE tree'[q].mode = Full
    BY <1>1, <1>2, <1>3, <1>5, <2>1
  <2>. QED
    BY <1>1, <2>1 DEF DirsStayOpen
<1>7. Made'
  <2>1. ASSUME NEW q \in DOMAIN tree', tree'[q].from # 0
        PROVE  /\ tree'[q].from \in DOMAIN archive /\ tree'[q].from < next'
               /\ archive[tree'[q].from].type = "dir" <=> tree'[q].type = "dir"
    <3>1. CASE \E p \in DOMAIN tree : tree'[q] = tree[p]
      BY <1>0, <1>2, <1>4, <2>1, <3>1
    <3>2. CASE tree'[q] = node
      <4>1. NodeMade(place, node)
        BY <1>1, <2>1, <3>2 DEF NothingMade
      <4>. QED
        BY <1>0, <3>2, <4>1 DEF NodeMade
    <3>. QED
      BY <1>1, <1>3, <2>1, <3>1, <3>2
  <2>. QED
    BY <2>1 DEF Made
\* A directory that is known by an entry stayed, or is the new node.
<1>8. ASSUME NEW q \in DOMAIN tree', tree'[q].type = "dir", tree'[q].from # 0
      PROVE  \/ q \in DOMAIN tree /\ tree'[q] = tree[q] /\ tree'[q].from < next
             \/ q = place /\ tree'[q] = node /\ tree'[q].from = next /\ NodeMade(place, node)
  <2>1. CASE q \in DOMAIN tree /\ tree'[q] = tree[q]
    BY <1>4, <1>8, <2>1
  <2>2. CASE q = place /\ tree'[q] = node
    BY <1>1, <1>2, <1>8, <2>2 DEF NothingMade
  <2>. QED
    BY <1>1, <1>3, <1>8, <2>1, <2>2
<1>9. Once'
  <2>1. ASSUME NEW p \in DOMAIN tree', NEW q \in DOMAIN tree', tree'[p].type = "dir", tree'[q].type = "dir",
               tree'[p].from # 0, tree'[p].from = tree'[q].from
        PROVE  p = q
    <3>1. \/ p \in DOMAIN tree /\ tree'[p] = tree[p] /\ tree'[p].from < next
          \/ p = place /\ tree'[p].from = next
      BY <1>8, <2>1
    <3>2. \/ q \in DOMAIN tree /\ tree'[q] = tree[q] /\ tree'[q].from < next
          \/ q = place /\ tree'[q].from = next
      BY <1>8, <2>1
    <3>. QED
      BY <1>0, <1>4, <2>1, <3>1, <3>2
  <2>. QED
    BY <2>1 DEF Once
\* What nothing is left of does not come back; and nothing is left of a
\* directory that is not there any more.
<1>10. ASSUME NEW i \in DOMAIN archive, i < next, archive[i].type = "dir",
              \A p \in DOMAIN tree : tree[p].from = i => ~(p \in DOMAIN tree' /\ tree'[p] = tree[p])
       PROVE  Gone(i)'
  <2>1. ASSUME NEW q \in DOMAIN tree', tree'[q].from = i PROVE FALSE
    <3>1. i # 0
      BY <1>0
    <3>2. ~(q \in DOMAIN tree /\ tree'[q] = tree[q])
      BY <1>10, <2>1
    <3>3. \A p \in DOMAIN tree : tree[p].type # "dir" => tree'[q] # tree[p]
      BY <1>4, <1>10, <2>1, <3>1
    <3>4. tree'[q] # node
      BY <1>0, <1>2, <1>10, <2>1, <3>1
    <3>. QED
      BY <1>1, <1>3, <2>1, <3>1, <3>2, <3>3, <3>4
  <2>. QED
    BY <2>1 DEF Gone
<1>11. ASSUME NEW i \in DOMAIN archive, i < next, archive[i].type = "dir", Gone(i) PROVE Gone(i)'
  BY <1>10, <1>11 DEF Gone
<1>12. \/ perms' = perms
       \/ /\ NodeMade(place, node) /\ IsA(tree', place, "dir") /\ tree'[place] = node
          /\ perms' = Append(perms, [place |-> place, mode |-> archive[next].mode])
  BY DEF NothingMade, NodeMade
<1>13. /\ \A k \in DOMAIN perms : k \in DOMAIN perms' /\ perms'[k] = perms[k]
       /\ \A k \in DOMAIN perms' :
            \/ k \in DOMAIN perms /\ perms'[k] = perms[k]
            \/ /\ NodeMade(place, node) /\ IsA(tree', place, "dir") /\ tree'[place] = node
               /\ perms'[k] = [place |-> place, mode |-> archive[next].mode]
  <2>1. CASE perms' = perms
    BY <2>1
  <2>2. ASSUME NodeMade(place, node), IsA(tree', place, "dir"), tree'[place] = node,
               perms' = Append(perms, [place |-> place, mode |-> archive[next].mode])
        PROVE  /\ \A k \in DOMAIN perms : k \in DOMAIN perms' /\ perms'[k] = perms[k]
               /\ \A k \in DOMAIN perms' :
                    \/ k \in DOMAIN perms /\ perms'[k] = perms[k]
                    \/ perms'[k] = [place |-> place, mode |-> archive[next].mode]
    <3>1. archive[next] \in TarEntry
      BY <1>0, <2>2, ElementOfSeq DEF NodeMade
    <3>2. [place |-> place, mode |-> archive[next].mode] \in [place : AllPlaces, mode : SUBSET Full]
      BY <3>1 DEF TarEntry
    <3>. HIDE DEF AllPlaces, Full
    <3>3. /\ DOMAIN perms = 1..Len(perms) /\ Len(perms) \in Nat
          /\ DOMAIN perms' = 1..(Len(perms) + 1)
          /\ \A k \in 1..Len(perms) : perms'[k] = perms[k]
          /\ perms'[Len(perms) + 1] = [place |-> place, mode |-> archive[next].mode]
      BY <1>0, <2>2, <3>2, AppendProperties, LenProperties
    <3>. QED
      BY <3>3
  <2>. QED
    BY <1>12, <2>1, <2>2
<1>14. Noted'
  <2>1. ASSUME NEW k \in DOMAIN perms'
        PROVE  \E i \in DOMAIN archive :
                 /\ i < next' /\ archive[i].type = "dir" /\ perms'[k].mode = archive[i].mode
                 /\ Gone(i)' \/ (IsA(tree', perms'[k].place, "dir") /\ tree'[perms'[k].place].from = i)
    <3>1. CASE k \in DOMAIN perms /\ perms'[k] = perms[k]
      <4>1. PICK i \in DOMAIN archive :
              /\ i < next /\ archive[i].type = "dir" /\ perms[k].mode = archive[i].mode
              /\ Gone(i) \/ (IsA(tree, perms[k].place, "dir") /\ tree[perms[k].place].from = i)
        BY <3>1 DEF IInv, Noted
      <4>2. PICK p : p = perms[k].place
        OBVIOUS
      <4>3. i \in Nat /\ i < next' /\ i # 0
        BY <1>0, <1>2, <4>1
      <4>4. CASE Gone(i)
        BY <1>11, <3>1, <4>1, <4>3, <4>4
      <4>5. ASSUME IsA(tree, p, "dir"), tree[p].from = i
            PROVE  Gone(i)' \/ (IsA(tree', p, "dir") /\ tree'[p].from = i)
        <5>1. CASE p \in DOMAIN tree' /\ tree'[p] = tree[p]
          BY <4>5, <5>1 DEF IsA
        <5>2. CASE ~(p \in DOMAIN tree' /\ tree'[p] = tree[p])
          <6>1. \A q \in DOMAIN tree : tree[q].from = i => q = p
            BY <1>4, <4>1, <4>3, <4>5 DEF IsA
          <6>. QED
            BY <1>10, <4>1, <5>2, <6>1
        <5>. QED
          BY <5>1, <5>2
      <4>. QED
        BY <3>1, <4>1, <4>2, <4>3, <4>4, <4>5
    <3>2. ASSUME NodeMade(place, node), IsA(tree', place, "dir"), tree'[place] = node,
                 perms'[k] = [place |-> place, mode |-> archive[next].mode]
          PROVE  /\ next \in DOMAIN archive /\ next < next' /\ archive[next].type = "dir"
                 /\ perms'[k].mode = archive[next].mode
                 /\ IsA(tree', perms'[k].place, "dir") /\ tree'[perms'[k].place].from = next
      BY <1>0, <3>2 DEF NodeMade, IsA
    <3>. QED
      BY <1>13, <3>1, <3>2
  <2>. QED
    BY <2>1 DEF Noted
<1>15. Owed'
  <2>1. ASSUME NEW q \in DOMAIN tree', tree'[q].type = "dir", tree'[q].from # 0
        PROVE  \/ HasModeOf(q, tree[q].from)'
               \/ \E k \in DOMAIN perms' : perms'[k].place = q /\ perms'[k].mode = archive[tree'[q].from].mode
               \/ \E i \in DOMAIN archive : i < next' /\ archive[i].type = "dir" /\ Gone(i)' /\ HasModeOf(q, i)'
    <3>1. CASE q \in DOMAIN tree /\ tree'[q] = tree[q]
      <4>1. \/ HasModeOf(q, tree[q].from)
            \/ \E k \in DOMAIN perms : perms[k].place = q /\ perms[k].mode = archive[tree[q].from].mode
            \/ \E i \in DOMAIN archive : i < next /\ archive[i].type = "dir" /\ Gone(i) /\ HasModeOf(q, i)
        BY <2>1, <3>1 DEF IInv, Owed
      <4>2. \A i : HasModeOf(q, i) => HasModeOf(q, i)'
        BY <3>1 DEF HasModeOf
      <4>3. CASE HasModeOf(q, tree[q].from)
        BY <3>1, <4>3 DEF HasModeOf
      <4>4. CASE \E k \in DOMAIN perms : perms[k].place = q /\ perms[k].mode = archive[tree[q].from].mode
        BY <1>13, <3>1, <4>4
      <4>5. CASE \E i \in DOMAIN archive : i < next /\ archive[i].type = "dir" /\ Gone(i) /\ HasModeOf(q, i)
        BY <1>0, <1>2, <1>11, <4>2, <4>5
      <4>. QED
        BY <4>1, <4>3, <4>4, <4>5
    <3>2. CASE q = place /\ tree'[q] = node /\ tree'[q].from = next /\ NodeMade(place, node)
      <4>1. node.type = "dir" /\ node.mode = Full /\ Full = Full \union {"x"}
        BY <1>1, <2>1, <3>2 DEF NodeMade
      <4>2. CASE archive[next].mode = Full
        BY <3>2, <4>1, <4>2 DEF HasModeOf
      <4>3. CASE archive[next].mode # Full
        <5>1. perms' = Append(perms, [place |-> place, mode |-> archive[next].mode])
          BY <3>2, <4>1, <4>3 DEF NodeMade
        <5>2. archive[next] \in TarEntry
          BY <1>0, <3>2, ElementOfSeq DEF NodeMade
        <5>3. [place |-> place, mode |-> archive[next].mode] \in [place : AllPlaces, mode : SUBSET Full]
          BY <5>2 DEF TarEntry
        <5>4. /\ Len(perms) + 1 \in DOMAIN perms'
              /\ perms'[Len(perms) + 1] = [place |-> place, mode |-> archive[next].mode]
          BY <1>0, <5>1, <5>3, AppendProperties, LenProperties
        <5>. QED
          BY <3>2, <5>4
      <4>. QED
        BY <4>2, <4>3
    <3>. QED
      BY <1>8, <2>1, <3>1, <3>2
  <2>. QED
    BY <2>1 DEF Owed
<1>. QED
  BY <1>6, <1>7, <1>9, <1>14, <1>15
-----------------------------------------------------------------------------
(* The steps.                                                              *)

LEMMA EntryRead ==
  ASSUME Types, NEW type, Read(type)
  PROVE  /\ next \in DOMAIN archive /\ next \in Nat /\ next # 0 /\ archive[next].type = type
         /\ archive[next] \in TarEntry /\ Entry = archive[next]
         /\ Place \in AllPlaces /\ Stops(tree, Place, FALSE) = {}
         /\ type = "dir" \/ Place # << >>
<1>1. /\ archive \in Seq(TarEntry) /\ DOMAIN archive = 1..Len(archive) /\ Len(archive) \in Nat
      /\ \A i \in DOMAIN archive : archive[i].type # "dir" => EndsNamed(archive[i].name.parts)
  BY ArchivesAssumption, LenProperties DEF Types, EndsNamed
<1>2. next \in DOMAIN archive /\ next \in Nat /\ next # 0 /\ archive[next].type = type /\ Entry = archive[next]
  BY <1>1 DEF Types, Read, Entry
<1>3. archive[next] \in TarEntry
  BY <1>1, <1>2, ElementOfSeq
<1>4. archive[next].name \in Path
  BY <1>3 DEF TarEntry
<1>5. PICK kind : kind = IF type = "dir" THEN AllPlaces ELSE AllPlaces \ {<< >>}
  OBVIOUS
<1>6. kind \in Kinds
  BY <1>5 DEF Kinds
<1>7. RootPathParts(<< >>, archive[next].name) \in ResolvedTo(kind)
  <2>1. << >> \in AllPlaces
    BY EmptySeq DEF AllPlaces
  <2>2. type # "dir" => EndsNamed(archive[next].name.parts)
    BY <1>1, <1>2
  <2>. QED
    BY <1>4, <1>5, <2>1, <2>2, RootPathResolves
<1>8. ResolvePathInRoot(tree, archive[next].name, FALSE).ok
  BY <1>2 DEF Read, Target
<1>9. LinksTyped(tree)
  BY NodesTyped DEF Types
<1>10. Place = ResolvePathInRoot(tree, archive[next].name, FALSE).place
  BY <1>2 DEF Place, Target
<1>11. Place \in kind /\ Stops(tree, Place, FALSE) = {}
  BY <1>4, <1>6, <1>7, <1>8, <1>9, <1>10, PathResolves
<1>. QED
  BY <1>2, <1>3, <1>5, <1>11

\* Nothing but directories is above a place that is resolved and not below a file.
LEMMA DirsAbovePlace ==
  ASSUME NEW t, IsUnpacked(t), NEW place \in AllPlaces, Stops(t, place, FALSE) = {}, Lstat(t, place) # "notdir",
         NEW n \in 0..(Len(place) - 1), Prefix(place, n) \in DOMAIN t
  PROVE  t[Prefix(place, n)].type = "dir"
<1>1. Len(place) \in Nat /\ Prefix(place, 0) = << >>
  BY PrefixesOf
<1>2. CASE n = 0
  BY <1>1, <1>2 DEF IsUnpacked, IsA
<1>3. CASE n # 0
  <2>1. n \in 1..(Len(place) - 1)
    BY <1>1, <1>3
  <2>2. t[Prefix(place, n)].type # "sym"
    <3>1. Lstat(t, Prefix(place, n)) = t[Prefix(place, n)].type
      BY DEF Lstat
    <3>2. ~(n \in Stops(t, place, FALSE))
      OBVIOUS
    <3>. QED
      BY <2>1, <3>1, <3>2 DEF Stops
  <2>3. t[Prefix(place, n)].type # "reg"
    <3>1. CASE place \in DOMAIN t
      <4>1. IsA(t, Prefix(place, n), "dir")
        BY <3>1, UnpackedIsTree, DirsAbove
      <4>. QED
        BY <4>1 DEF IsA
    <3>2. CASE place \notin DOMAIN t
      BY <2>1, <3>2 DEF Lstat, IsA
    <3>. QED
      BY <3>1, <3>2
  <2>. QED
    BY <2>2, <2>3, NodesTyped
<1>. QED
  BY <1>2, <1>3

LEMMA UnpackDirKeeps ==
  ASSUME IInv, UnpackDir
  PROVE  IInv'
<1>1. /\ Read("dir") /\ archive' = archive /\ pending' = pending /\ pc' = pc /\ next' = next + 1
      /\ \/ tree' = tree /\ perms' = perms
         \/ /\ Lstat(tree, Place) = "missing" /\ tree' = MkdirAll(tree, Place, next)
            /\ perms' = IF Entry.mode = Full THEN perms
                        ELSE Append(perms, [place |-> Place, mode |-> Entry.mode])
  BY DEF UnpackDir, Skip
<1>2. Types /\ IsUnpacked(tree) /\ pc = "unpack" /\ perms \in Seq([place : AllPlaces, mode : SUBSET Full])
  BY <1>1 DEF IInv, Types, Read
<1>3. /\ next \in DOMAIN archive /\ next \in Nat /\ next # 0 /\ archive[next].type = "dir"
      /\ archive[next] \in TarEntry /\ Entry = archive[next]
      /\ Place \in AllPlaces /\ Stops(tree, Place, FALSE) = {}
  BY <1>1, <1>2, EntryRead
<1>4. PICK place : place = Place
  OBVIOUS
<1>5. PICK node : node = Dir(Full, next)
  OBVIOUS
<1>6. node.type = "dir" /\ node.from = next /\ Dir(Full, 0).type = "dir"
  BY <1>5 DEF Dir
<1>7. CASE tree' = tree /\ perms' = perms
  <2>1. IsUnpacked(tree') /\ Grown(tree, tree', place, Dir(Full, 0)) /\ NothingMade(Dir(Full, 0))
    BY <1>1, <1>2, <1>7 DEF Grown, NothingMade
  <2>2. (DirsStayOpen /\ Made /\ Once /\ Noted /\ Owed)'
    BY <1>1, <1>2, <1>3, <1>4, <2>1, GrownKeeps
  <2>3. Types'
    BY <1>1, <1>2, <1>3, <1>7, LenProperties, ArchivesAssumption DEF Types
  <2>. QED
    BY <1>1, <1>2, <2>2, <2>3 DEF IInv
<1>8. CASE /\ Lstat(tree, Place) = "missing" /\ tree' = MkdirAll(tree, Place, next)
           /\ perms' = IF Entry.mode = Full THEN perms ELSE Append(perms, [place |-> Place, mode |-> Entry.mode])
  <2>1. \A n \in 0..Len(place) : Prefix(place, n) \in DOMAIN tree => tree[Prefix(place, n)].type = "dir"
    <3>1. ASSUME NEW n \in 0..Len(place), Prefix(place, n) \in DOMAIN tree
          PROVE  tree[Prefix(place, n)].type = "dir"
      <4>1. Len(place) \in Nat /\ Prefix(place, Len(place)) = place
        BY <1>3, <1>4, PrefixesOf
      <4>2. ~(place \in DOMAIN tree)
        <5>1. \A q \in DOMAIN tree : tree[q].type # "missing"
          BY <1>2, NodesTyped
        <5>. QED
          BY <1>4, <1>8, <5>1 DEF Lstat
      <4>3. n \in 0..(Len(place) - 1)
        BY <3>1, <4>1, <4>2
      <4>. QED
        BY <1>2, <1>3, <1>4, <1>8, <3>1, <4>3, DirsAbovePlace
    <3>. QED
      BY <3>1
  <2>2. PICK u : u = MkdirAll(tree, place, next)
    OBVIOUS
  <2>3. /\ IsUnpacked(u) /\ IsA(u, place, "dir")
        /\ \A q \in DOMAIN u : \/ q \in DOMAIN tree /\ u[q] = tree[q]
                               \/ u[q] = Dir(Full, 0)
                               \/ q = place /\ u[q] = Dir(Full, next)
        /\ place \notin DOMAIN tree => u[place] = Dir(Full, next)
    BY <1>2, <1>3, <1>4, <2>1, <2>2, TreeWithDirs
  <2>4. Grown(tree, u, place, node) /\ tree' = u
    BY <1>4, <1>5, <1>8, <2>2, <2>3 DEF Grown
  <2>5. u[place] = node
    <3>1. \A q \in DOMAIN tree : tree[q].type # "missing"
      BY <1>2, NodesTyped
    <3>2. ~(place \in DOMAIN tree)
      BY <1>4, <1>8, <3>1 DEF Lstat
    <3>. QED
      BY <1>5, <2>3, <3>2
  <2>6. NodeMade(place, node)
    <3>1. CASE Entry.mode = Full
      BY <1>1, <1>3, <1>5, <1>6, <1>8, <3>1 DEF NodeMade
    <3>2. CASE Entry.mode # Full
      BY <1>1, <1>3, <1>4, <1>5, <1>6, <1>8, <2>3, <2>4, <2>5, <3>2 DEF NodeMade
    <3>. QED
      BY <3>1, <3>2
  <2>7. (DirsStayOpen /\ Made /\ Once /\ Noted /\ Owed)'
    BY <1>1, <1>2, <1>3, <1>4, <2>3, <2>4, <2>6, GrownKeeps
  <2>8. perms' \in Seq([place : AllPlaces, mode : SUBSET Full])
    <3>1. [place |-> Place, mode |-> Entry.mode] \in [place : AllPlaces, mode : SUBSET Full]
      BY <1>3 DEF TarEntry
    <3>. QED
      BY <1>2, <1>8, <3>1, AppendProperties
  <2>9. Types'
    BY <1>1, <1>2, <1>3, <2>3, <2>4, <2>8, LenProperties, ArchivesAssumption DEF Types
  <2>. QED
    BY <1>1, <1>2, <2>7, <2>9 DEF IInv
<1>. QED
  BY <1>1, <1>7, <1>8

\* A step that makes no directory known by an entry, and reads at most one entry.
LEMMA OtherStepKeeps ==
  ASSUME IInv, pc \in {"unpack", "links"}, archive' = archive, perms' = perms, IsUnpacked(tree'),
         NEW place \in AllPlaces, NEW node, Grown(tree, tree', place, node),
         \/ node = Dir(Full, 0) /\ (next' = next \/ (next' = next + 1 /\ next \in DOMAIN archive))
         \/ /\ node.from = next /\ node.type # "dir" /\ next' = next + 1
            /\ next \in DOMAIN archive /\ archive[next].type # "dir",
         DOMAIN pending' \subseteq AllPlaces \ {<< >>}, \A q \in DOMAIN pending' : pending'[q] \in AllPlaces,
         pc' \in {"unpack", "links", "failed"}
  PROVE  IInv'
<1>1. archive \in Seq(TarEntry) /\ DOMAIN archive = 1..Len(archive) /\ Len(archive) \in Nat /\ next \in Nat
  BY ArchivesAssumption, LenProperties DEF IInv, Types
<1>2. NothingMade(node) \/ NodeMade(place, node)
  BY DEF NothingMade, NodeMade
<1>3. (DirsStayOpen /\ Made /\ Once /\ Noted /\ Owed)'
  BY <1>2, GrownKeeps
<1>4. Types'
  BY <1>1 DEF IInv, Types
<1>. QED
  BY <1>3, <1>4 DEF IInv
\* A step that leaves everything as it is, or goes on to what is next.
LEMMA QuietStepKeeps ==
  ASSUME IInv, UNCHANGED <<archive, next, tree, pending, perms>>,
         pc' \in {"unpack", "links", "perms", "done", "failed"},
         pc' \in {"unpack", "links"} => pc \in {"unpack", "links"},
         pc' = "done" => perms = << >>
  PROVE  IInv'
<1>. USE DEF IInv
<1>1. Types'
  BY DEF Types
<1>2. DirsStayOpen'
  BY DEF DirsStayOpen
<1>3. Made' /\ Once'
  BY DEF Made, Once
<1>4. Noted'
  BY DEF Noted, Gone
<1>5. Owed'
  BY DEF Owed, Gone, HasModeOf
<1>. QED
  BY <1>1, <1>2, <1>3, <1>4, <1>5

LEMMA FrontOf ==
  ASSUME NEW place \in AllPlaces \ {<< >>}
  PROVE  /\ Len(place) \in Nat /\ Len(place) > 0
         /\ Front(place) \in AllPlaces /\ Len(Front(place)) = Len(place) - 1
         /\ \A n \in 0..(Len(place) - 1) : Prefix(Front(place), n) = Prefix(place, n)
         /\ IsStrictPrefix(Front(place), place)
<1>1. /\ place \in Seq(Names) /\ Len(place) \in Nat /\ Len(place) > 0
      /\ \A i \in 1..Len(place) : place[i] \in Names
  BY LenProperties, EmptySeq, ElementOfSeq DEF AllPlaces
<1>2. Front(place) = Prefix(place, Len(place) - 1)
  BY PrefixesOf
<1>3. ASSUME NEW n \in 0..Len(place)
      PROVE  /\ Prefix(place, n) \in Seq(Names) /\ Len(Prefix(place, n)) = n
             /\ \A i \in 1..n : Prefix(place, n)[i] = place[i]
  <2>1. n \in Int /\ \A i \in 1..n : place[i] \in Names
    BY <1>1
  <2>. QED
    BY <2>1, SubSeqProperties DEF Prefix
<1>4. /\ Front(place) \in Seq(Names) /\ Len(Front(place)) = Len(place) - 1
      /\ \A i \in 1..(Len(place) - 1) : Front(place)[i] = place[i]
  <2>1. Len(place) - 1 \in 0..Len(place)
    BY <1>1
  <2>. QED
    BY <1>2, <1>3, <2>1
<1>5. ASSUME NEW n \in 0..(Len(place) - 1) PROVE Prefix(Front(place), n) = Prefix(place, n)
  <2>1. n \in Int /\ \A i \in 1..n : Front(place)[i] \in Names
    BY <1>1, <1>4
  <2>2. /\ Prefix(Front(place), n) \in Seq(Names) /\ Len(Prefix(Front(place), n)) = n
        /\ \A i \in 1..n : Prefix(Front(place), n)[i] = Front(place)[i]
    BY <2>1, SubSeqProperties DEF Prefix
  <2>3. /\ Prefix(place, n) \in Seq(Names) /\ Len(Prefix(place, n)) = n
        /\ \A i \in 1..n : Prefix(place, n)[i] = place[i]
    BY <1>1, <1>3
  <2>4. \A i \in 1..n : Prefix(Front(place), n)[i] = Prefix(place, n)[i]
    <3>1. \A i \in 1..n : i \in 1..(Len(place) - 1)
      BY <1>1
    <3>. QED
      BY <1>4, <2>2, <2>3, <3>1
  <2>. QED
    BY <2>2, <2>3, <2>4, SeqEqual
<1>6. IsStrictPrefix(Front(place), place)
  <2>1. SubSeq(Front(place), 1, Len(Front(place))) = Front(place)
    BY <1>4, SubSeqFull
  <2>2. SubSeq(place, 1, Len(Front(place))) = Front(place)
    BY <1>2, <1>4 DEF Prefix
  <2>3. Len(Front(place)) <= Len(place) /\ Front(place) # place
    BY <1>1, <1>4
  <2>. QED
    BY <2>1, <2>2, <2>3 DEF IsStrictPrefix, IsPrefix
<1>. QED
  BY <1>1, <1>4, <1>5, <1>6 DEF AllPlaces

LEMMA UnpackRegKeeps ==
  ASSUME IInv, UnpackReg
  PROVE  IInv'
<1>1. Read("reg") /\ Types /\ IsUnpacked(tree) /\ pc = "unpack"
  BY DEF IInv, Types, UnpackReg, Read
<1>2. /\ next \in DOMAIN archive /\ next \in Nat /\ next # 0 /\ archive[next].type = "reg"
      /\ Place \in AllPlaces /\ Stops(tree, Place, FALSE) = {} /\ Place # << >>
  <2>1. /\ next \in DOMAIN archive /\ next \in Nat /\ next # 0 /\ archive[next].type = "reg"
        /\ Place \in AllPlaces /\ Stops(tree, Place, FALSE) = {} /\ ("reg" = "dir" \/ Place # << >>)
    BY <1>1, EntryRead
  <2>. QED
    BY <2>1
<1>3. CASE ~Removable
  BY <1>1, <1>3, QuietStepKeeps DEF UnpackReg, Fail
<1>4. CASE Removable
  <2>1. /\ tree' = Put(MkdirAll(tree, Front(Place), 0), Place, Reg(next)) /\ next' = next + 1
        /\ UNCHANGED <<archive, pending, perms, pc>>
    BY <1>4 DEF UnpackReg
  <2>2. PICK place, node, u : place = Place /\ node = Reg(next) /\ u = MkdirAll(tree, Front(Place), 0)
    OBVIOUS
  <2>3. place \in AllPlaces \ {<< >>} /\ Len(place) \in Nat /\ Len(place) > 0
        /\ Front(place) \in AllPlaces /\ Len(Front(place)) = Len(place) - 1
        /\ \A n \in 0..(Len(place) - 1) : Prefix(Front(place), n) = Prefix(place, n)
    BY <1>2, <2>2, FrontOf
  <2>4. node \in Nodes /\ node.type = "reg" /\ node.from = next
    BY <1>2, <2>2 DEF Reg, Nodes
  <2>5. Lstat(tree, place) # "notdir"
    BY <1>4, <2>2 DEF Removable
  <2>6. \A n \in 0..Len(Front(place)) :
          Prefix(Front(place), n) \in DOMAIN tree => tree[Prefix(Front(place), n)].type = "dir"
    <3>1. \A n \in 0..Len(Front(place)) : n \in 0..(Len(place) - 1)
      BY <2>3
    <3>2. \A n \in 0..(Len(place) - 1) : Prefix(place, n) \in DOMAIN tree => tree[Prefix(place, n)].type = "dir"
      BY <1>1, <1>2, <2>2, <2>5, DirsAbovePlace
    <3>. QED
      BY <2>3, <3>1, <3>2
  <2>7. /\ IsUnpacked(u) /\ IsA(u, Front(place), "dir")
        /\ \A q \in DOMAIN u : \/ q \in DOMAIN tree /\ u[q] = tree[q]
                               \/ u[q] = Dir(Full, 0)
        /\ \A q \in DOMAIN u : q \in DOMAIN tree \/ Len(q) <= Len(place) - 1
    BY <1>1, <2>2, <2>3, <2>6, TreeWithDirs
  <2>8. ASSUME NEW q \in DOMAIN u \ {<< >>}, Front(q) = place PROVE FALSE
    <3>1. q \in AllPlaces \ {<< >>} /\ Len(q) \in Nat
      BY <2>7, FrontOf DEF IsUnpacked
    <3>2. Len(Front(q)) = Len(q) - 1 /\ IsStrictPrefix(place, q)
      BY <2>8, <3>1, FrontOf
    <3>3. CASE q \in DOMAIN tree
      <4>1. IsA(tree, place, "dir")
        BY <1>1, <2>8, <3>3 DEF IsUnpacked
      <4>2. Lstat(tree, place) = "dir"
        BY <4>1 DEF Lstat, IsA
      <4>3. IsEmptyDir(tree, place)
        BY <1>4, <2>2, <4>2 DEF Removable
      <4>. QED
        BY <3>2, <3>3, <4>3 DEF IsEmptyDir
    <3>4. CASE ~(q \in DOMAIN tree)
      BY <2>3, <2>7, <2>8, <3>1, <3>2, <3>4
    <3>. QED
      BY <3>3, <3>4
  <2>9. tree' = Put(u, place, node)
    BY <2>1, <2>2
  <2>10. IsUnpacked(tree')
    BY <2>3, <2>4, <2>7, <2>8, <2>9, TreeWithLeaf
  <2>11. Grown(tree, tree', place, node)
    BY <2>7, <2>9 DEF Put, Grown
  <2>. QED
    BY <1>1, <1>2, <2>1, <2>3, <2>4, <2>10, <2>11, OtherStepKeeps DEF IInv, Types
<1>. QED
  BY <1>3, <1>4

LEMMA UnpackSymKeeps ==
  ASSUME IInv, UnpackSym
  PROVE  IInv'
<1>1. Read("sym") /\ Types /\ IsUnpacked(tree) /\ pc = "unpack"
  BY DEF IInv, Types, UnpackSym, Read
<1>2. /\ next \in DOMAIN archive /\ next \in Nat /\ next # 0 /\ archive[next].type = "sym"
      /\ archive[next] \in TarEntry /\ Entry = archive[next]
      /\ Place \in AllPlaces /\ Stops(tree, Place, FALSE) = {} /\ Place # << >>
  <2>1. /\ next \in DOMAIN archive /\ next \in Nat /\ next # 0 /\ archive[next].type = "sym"
        /\ archive[next] \in TarEntry /\ Entry = archive[next]
        /\ Place \in AllPlaces /\ Stops(tree, Place, FALSE) = {} /\ ("sym" = "dir" \/ Place # << >>)
    BY <1>1, EntryRead
  <2>. QED
    BY <2>1
<1>3. CASE Fail
  BY <1>1, <1>3, QuietStepKeeps DEF Fail
<1>4. ASSUME /\ tree' = IF IsA(tree, Front(Place), "dir")
                        THEN Put(RemoveAll(tree, Place), Place, Sym(Entry.link, next)) ELSE tree
             /\ next' = next + 1 /\ UNCHANGED <<archive, pending, perms, pc>>
      PROVE  IInv'
  <2>1. CASE ~IsA(tree, Front(Place), "dir")
    <3>1. IsUnpacked(tree') /\ Grown(tree, tree', Place, Dir(Full, 0))
      BY <1>1, <1>4, <2>1 DEF Grown
    <3>2. PICK place \in AllPlaces : Grown(tree, tree', place, Dir(Full, 0))
      BY <1>2, <3>1
    <3>. QED
      BY <1>1, <1>2, <1>4, <3>1, <3>2, OtherStepKeeps DEF IInv, Types
  <2>2. CASE IsA(tree, Front(Place), "dir")
    <3>1. PICK place, node, u : place = Place /\ node = Sym(Entry.link, next) /\ u = RemoveAll(tree, Place)
      OBVIOUS
    <3>2. node \in Nodes /\ node.type = "sym" /\ node.from = next
      BY <1>2, <3>1 DEF Sym, Nodes, TarEntry
    <3>3. /\ IsUnpacked(u) /\ IsA(u, Front(place), "dir")
          /\ \A q \in DOMAIN u : q \in DOMAIN tree /\ u[q] = tree[q]
          /\ \A q \in DOMAIN u \ {<< >>} : Front(q) # place
      BY <1>1, <1>2, <2>2, <3>1, TreeWithout
    <3>4. tree' = Put(u, place, node)
      BY <1>4, <2>2, <3>1
    <3>5. place \in AllPlaces \ {<< >>}
      BY <1>2, <3>1
    <3>6. IsUnpacked(tree')
      BY <3>2, <3>3, <3>4, <3>5, TreeWithLeaf
    <3>7. Grown(tree, tree', place, node)
      BY <3>3, <3>4 DEF Put, Grown
    <3>. QED
      BY <1>1, <1>2, <1>4, <3>2, <3>5, <3>6, <3>7, OtherStepKeeps DEF IInv, Types
  <2>. QED
    BY <2>1, <2>2
<1>. QED
  BY <1>3, <1>4 DEF UnpackSym

LEMMA ResolveHardlinkGrows ==
  ASSUME IsUnpacked(tree), NEW source \in AllPlaces, NEW place \in AllPlaces \ {<< >>},
         ResolveHardlink(source, place)
  PROVE  IsUnpacked(tree') /\ Grown(tree, tree', place, Dir(Full, 0)) /\ pc' \in {pc, "failed"}
<1>1. CASE ~CanLink(source, place)
  BY <1>1 DEF ResolveHardlink, Grown
<1>2. CASE CanLink(source, place)
  <2>1. PICK from, dir : from = HostLink(source) /\ dir = OnHost(Front(place))
    OBVIOUS
  <2>2. PICK child : child = Append(dir.at, Last(place))
    OBVIOUS
  <2>3. /\ tree[from.at].type # "dir" /\ IsA(tree, dir.at, "dir") /\ child \notin DOMAIN tree
        /\ tree' = Put(tree, child, tree[from.at]) /\ pc' = pc
    BY <1>2, <2>1, <2>2 DEF CanLink, ResolveHardlink
  <2>4. from.at \in DOMAIN tree
    <3>1. source \in Seq(Parts)
      BY DEF AllPlaces, Parts
    <3>. QED
      BY <2>1, <3>1, UnpackedIsTree, WalkTyped DEF HostLink
  <2>5. dir.at \in AllPlaces /\ Last(place) \in Names
    <3>1. Len(place) \in 1..Len(place) /\ place \in Seq(Names)
      BY FrontOf DEF AllPlaces
    <3>2. Last(place) \in Names
      BY <3>1, ElementOfSeq DEF Last
    <3>. QED
      BY <2>3, <3>2 DEF IsUnpacked, IsA
  <2>6. child \in AllPlaces \ {<< >>} /\ Front(child) = dir.at
    BY <2>2, <2>5, FrontOfAppend
  <2>7. \A q \in DOMAIN tree \ {<< >>} : Front(q) # child
    BY <2>3 DEF IsUnpacked, IsA
  <2>8. tree[from.at] \in Nodes
    BY <2>4 DEF IsUnpacked
  <2>9. IsUnpacked(tree')
    BY <2>3, <2>6, <2>7, <2>8, TreeWithLeaf
  <2>10. Grown(tree, tree', place, Dir(Full, 0))
    BY <2>3, <2>4 DEF Put, Grown
  <2>. QED
    BY <2>3, <2>9, <2>10
<1>. QED
  BY <1>1, <1>2
LEMMA UnpackLinkKeeps ==
  ASSUME IInv, UnpackLink
  PROVE  IInv'
<1>1. /\ Read("link") /\ Types /\ IsUnpacked(tree) /\ pc = "unpack"
      /\ DOMAIN pending \subseteq AllPlaces \ {<< >>} /\ \A q \in DOMAIN pending : pending[q] \in AllPlaces
  BY DEF IInv, Types, UnpackLink, Read
<1>2. /\ next \in DOMAIN archive /\ next \in Nat /\ archive[next] \in TarEntry /\ Entry = archive[next]
      /\ Place \in AllPlaces \ {<< >>}
  <2>1. /\ next \in DOMAIN archive /\ next \in Nat /\ archive[next] \in TarEntry /\ Entry = archive[next]
        /\ Place \in AllPlaces /\ ("link" = "dir" \/ Place # << >>)
    BY <1>1, EntryRead
  <2>. QED
    BY <2>1
<1>3. CASE Fail
  BY <1>1, <1>3, QuietStepKeeps DEF Fail
<1>4. ASSUME ResolvePathInRoot(tree, Entry.link, FALSE).ok, NEW finds \in BOOLEAN,
             IF finds
             THEN ResolveHardlink(ResolvePathInRoot(tree, Entry.link, FALSE).place, Place) /\ UNCHANGED pending
             ELSE /\ pending' = Put(pending, Place, ResolvePathInRoot(tree, Entry.link, FALSE).place)
                  /\ UNCHANGED <<tree, pc>>,
             next' = next + 1, UNCHANGED <<archive, perms>>
      PROVE  IInv'
  <2>1. PICK source, place : source = ResolvePathInRoot(tree, Entry.link, FALSE).place /\ place = Place
    OBVIOUS
  <2>2. source \in AllPlaces
    <3>1. archive[next].link \in Path /\ << >> \in AllPlaces /\ AllPlaces \in Kinds /\ LinksTyped(tree)
      BY <1>1, <1>2, NodesTyped, EmptySeq DEF TarEntry, Kinds, AllPlaces
    <3>2. RootPathParts(<< >>, archive[next].link) \in ResolvedTo(AllPlaces)
      BY <3>1, RootPathResolves
    <3>. QED
      BY <1>2, <1>4, <2>1, <3>1, <3>2, PathResolves
  <2>3. place \in AllPlaces \ {<< >>}
    BY <1>2, <2>1
  <2>4. CASE finds
    <3>1. ResolveHardlink(source, place) /\ pending' = pending
      BY <1>4, <2>1, <2>4
    <3>2. IsUnpacked(tree') /\ Grown(tree, tree', place, Dir(Full, 0)) /\ pc' \in {pc, "failed"}
      BY <1>1, <2>2, <2>3, <3>1, ResolveHardlinkGrows
    <3>. QED
      BY <1>1, <1>2, <1>4, <2>3, <3>1, <3>2, OtherStepKeeps
  <2>5. CASE ~finds
    <3>1. pending' = Put(pending, place, source) /\ tree' = tree /\ pc' = pc
      BY <1>4, <2>1, <2>5
    <3>2. DOMAIN pending' \subseteq AllPlaces \ {<< >>} /\ \A q \in DOMAIN pending' : pending'[q] \in AllPlaces
      BY <1>1, <2>2, <2>3, <3>1 DEF Put
    <3>3. IsUnpacked(tree') /\ Grown(tree, tree', place, Dir(Full, 0))
      BY <1>1, <3>1 DEF Grown
    <3>. QED
      BY <1>1, <1>2, <1>4, <2>3, <3>1, <3>2, <3>3, OtherStepKeeps
  <2>. QED
    BY <2>4, <2>5
<1>. QED
  BY <1>3, <1>4 DEF UnpackLink

LEMMA PendingLinkKeeps ==
  ASSUME IInv, PendingLink
  PROVE  IInv'
<1>1. /\ pc = "links" /\ IsUnpacked(tree) /\ UNCHANGED <<archive, next, perms>>
      /\ DOMAIN pending \subseteq AllPlaces \ {<< >>} /\ \A q \in DOMAIN pending : pending[q] \in AllPlaces
  BY DEF IInv, Types, PendingLink
<1>2. PICK place \in DOMAIN pending, finds \in BOOLEAN :
        /\ IF finds THEN ResolveHardlink(pending[place], place) ELSE UNCHANGED <<tree, pc>>
        /\ pending' = Restrict(pending, DOMAIN pending \ {place})
  BY DEF PendingLink
<1>3. place \in AllPlaces \ {<< >>} /\ pending[place] \in AllPlaces
  BY <1>1
<1>4. DOMAIN pending' \subseteq AllPlaces \ {<< >>} /\ \A q \in DOMAIN pending' : pending'[q] \in AllPlaces
  BY <1>1, <1>2 DEF Restrict
<1>5. IsUnpacked(tree') /\ Grown(tree, tree', place, Dir(Full, 0)) /\ pc' \in {pc, "failed"}
  <2>1. CASE finds
    BY <1>1, <1>2, <1>3, <2>1, ResolveHardlinkGrows
  <2>2. CASE ~finds
    BY <1>1, <1>2, <2>2 DEF Grown
  <2>. QED
    BY <2>1, <2>2
<1>. QED
  BY <1>1, <1>3, <1>4, <1>5, OtherStepKeeps

\* The name that a mode was noted by leads to the directory, where it is still
\* there.
LEMMA RestorePermKeeps ==
  ASSUME IInv, RestorePerm
  PROVE  IInv'
<1>1. /\ pc = "perms" /\ IsUnpacked(tree) /\ perms # << >>
      /\ perms \in Seq([place : AllPlaces, mode : SUBSET Full])
      /\ archive \in Seq(TarEntry) /\ DOMAIN archive = 1..Len(archive)
  BY ArchivesAssumption, LenProperties DEF IInv, Types, RestorePerm
<1>2. PICK w, place, mode : w = OnHost(Head(perms).place) /\ place = Head(perms).place /\ mode = Head(perms).mode
  OBVIOUS
<1>3. CASE Fail
  BY <1>1, <1>3, QuietStepKeeps DEF Fail
<1>4. ASSUME w.end \in {"at", "outside"},
             tree' = IF w.end = "at" /\ IsA(tree, w.at, "dir")
                     THEN [tree EXCEPT ![w.at].mode = mode \union {"x"}] ELSE tree,
             perms' = Tail(perms), UNCHANGED <<archive, next, pending, pc>>
      PROVE  IInv'
  <2>1. /\ DOMAIN perms = 1..Len(perms) /\ Len(perms) \in Nat /\ perms[1] = Head(perms) /\ 1 \in DOMAIN perms
        /\ perms' \in Seq([place : AllPlaces, mode : SUBSET Full])
        /\ DOMAIN perms' = 1..(Len(perms) - 1) /\ \A k \in 1..(Len(perms) - 1) : perms'[k] = perms[k + 1]
    <3>. HIDE DEF AllPlaces, Full
    <3>1. DOMAIN perms = 1..Len(perms) /\ Len(perms) \in Nat /\ Len(perms) > 0
      BY <1>1, LenProperties, EmptySeq
    <3>2. perms[1] = Head(perms)
      BY <1>1
    <3>3. /\ perms' \in Seq([place : AllPlaces, mode : SUBSET Full]) /\ Len(perms') = Len(perms) - 1
          /\ \A k \in 1..(Len(perms) - 1) : perms'[k] = perms[k + 1]
      BY <1>1, <1>4, HeadTailProperties
    <3>4. DOMAIN perms' = 1..(Len(perms) - 1)
      BY <3>3, LenProperties
    <3>. QED
      BY <3>1, <3>2, <3>3, <3>4
  <2>2. mode \in SUBSET Full
    <3>1. perms[1] \in [place : AllPlaces, mode : SUBSET Full]
      BY <1>1, <2>1, ElementOfSeq
    <3>. QED
      BY <1>2, <2>1, <3>1
  <2>3. IsA(tree, place, "dir") => w.end = "at" /\ w.at = place
    BY <1>1, <1>2, <1>4, UnpackedIsTree, WalkStraight DEF OnHost
  <2>4. \A q \in DOMAIN tree : tree[q] \in Nodes
    BY <1>1 DEF IsUnpacked
  <2>5. /\ DOMAIN tree' = DOMAIN tree
        /\ \A q \in DOMAIN tree :
             /\ tree'[q] \in Nodes /\ tree'[q].type = tree[q].type /\ tree'[q].from = tree[q].from
             /\ tree[q].type # "dir" \/ q # w.at \/ w.end # "at" => tree'[q] = tree[q]
             /\ tree[q].type = "dir" /\ q = w.at /\ w.end = "at" => tree'[q].mode = mode \union {"x"}
    <3>1. CASE w.end = "at" /\ IsA(tree, w.at, "dir")
      <4>1. tree' = [tree EXCEPT ![w.at] = [tree[w.at] EXCEPT !.mode = mode \union {"x"}]]
        BY <1>4, <3>1
      <4>2. PICK node : node = [tree[w.at] EXCEPT !.mode = mode \union {"x"}]
        OBVIOUS
      <4>3. tree[w.at] \in [type : {"dir"}, mode : SUBSET Full, from : Nat]
        BY <2>4, <3>1 DEF IsA, Nodes
      <4>4. node \in [type : {"dir"}, mode : SUBSET Full, from : Nat]
        BY <2>2, <4>2, <4>3 DEF Full
      <4>5. node \in Nodes /\ node.type = "dir" /\ node.from = tree[w.at].from /\ node.mode = mode \union {"x"}
        BY <4>2, <4>3, <4>4 DEF Nodes
      <4>6. DOMAIN tree' = DOMAIN tree /\ \A q \in DOMAIN tree : tree'[q] = IF q = w.at THEN node ELSE tree[q]
        BY <4>1, <4>2
      <4>. QED
        BY <2>4, <3>1, <4>5, <4>6 DEF IsA
    <3>2. CASE ~(w.end = "at" /\ IsA(tree, w.at, "dir"))
      BY <1>4, <2>4, <3>2 DEF IsA
    <3>. QED
      BY <3>1, <3>2
  <2>6. Types'
    <3>1. IsUnpacked(tree')
      BY <1>1, <2>5 DEF IsUnpacked, IsA
    <3>. QED
      BY <1>4, <2>1, <3>1 DEF IInv, Types
  <2>7. DirsStayOpen'
    BY <1>1, <1>4, <2>5 DEF IInv, DirsStayOpen
  <2>8. Made' /\ Once'
    BY <1>4, <2>5 DEF IInv, Made, Once
  <2>9. \A i : Gone(i)' <=> Gone(i)
    BY <2>5 DEF Gone
  <2>10. \A q : IsA(tree', q, "dir") <=> IsA(tree, q, "dir")
    BY <2>5 DEF IsA
  <2>11. \A k \in DOMAIN perms : \E i \in DOMAIN archive :
           /\ i < next /\ archive[i].type = "dir" /\ perms[k].mode = archive[i].mode
           /\ Gone(i) \/ (IsA(tree, perms[k].place, "dir") /\ tree[perms[k].place].from = i)
    BY DEF IInv, Noted
  <2>12. Noted'
    <3>1. ASSUME NEW k \in DOMAIN perms'
          PROVE  \E i \in DOMAIN archive :
                   /\ i < next /\ archive[i].type = "dir" /\ perms'[k].mode = archive[i].mode
                   /\ Gone(i)' \/ (IsA(tree', perms'[k].place, "dir") /\ tree'[perms'[k].place].from = i)
      <4>1. k + 1 \in DOMAIN perms /\ perms'[k] = perms[k + 1]
        BY <2>1
      <4>2. PICK i \in DOMAIN archive :
              /\ i < next /\ archive[i].type = "dir" /\ perms[k + 1].mode = archive[i].mode
              /\ Gone(i) \/ (IsA(tree, perms[k + 1].place, "dir") /\ tree[perms[k + 1].place].from = i)
        BY <2>11, <4>1
      <4>. QED
        BY <2>5, <2>9, <2>10, <4>1, <4>2 DEF IsA
    <3>. QED
      BY <1>4, <3>1 DEF Noted
  <2>13. Owed'
    <3>1. ASSUME NEW q \in DOMAIN tree, tree[q].type = "dir", tree[q].from # 0
          PROVE  \/ tree'[q].mode = archive[tree[q].from].mode \union {"x"}
                 \/ \E k \in DOMAIN perms' : perms'[k].place = q /\ perms'[k].mode = archive[tree[q].from].mode
                 \/ \E i \in DOMAIN archive :
                      i < next /\ archive[i].type = "dir" /\ Gone(i) /\ tree'[q].mode = archive[i].mode \union {"x"}
      <4>1. CASE q = w.at /\ w.end = "at"
        <5>1. tree'[q].mode = mode \union {"x"}
          BY <2>5, <3>1, <4>1
        <5>2. PICK i \in DOMAIN archive :
                /\ i < next /\ archive[i].type = "dir" /\ mode = archive[i].mode
                /\ Gone(i) \/ (IsA(tree, place, "dir") /\ tree[place].from = i)
          BY <1>2, <2>1, <2>11
        <5>. QED
          BY <2>3, <4>1, <5>1, <5>2
      <4>2. CASE ~(q = w.at /\ w.end = "at")
        <5>1. tree'[q] = tree[q] /\ q # place
          BY <2>3, <2>5, <3>1, <4>2 DEF IsA
        <5>2. \/ HasModeOf(q, tree[q].from)
              \/ \E k \in DOMAIN perms : perms[k].place = q /\ perms[k].mode = archive[tree[q].from].mode
              \/ \E i \in DOMAIN archive : i < next /\ archive[i].type = "dir" /\ Gone(i) /\ HasModeOf(q, i)
          BY <3>1 DEF IInv, Owed
        <5>3. ASSUME NEW k \in DOMAIN perms, perms[k].place = q, perms[k].mode = archive[tree[q].from].mode
              PROVE  \E l \in DOMAIN perms' : perms'[l].place = q /\ perms'[l].mode = archive[tree[q].from].mode
          <6>1. k # 1
            BY <1>2, <2>1, <5>1, <5>3
          <6>2. k - 1 \in DOMAIN perms' /\ perms'[k - 1] = perms[k]
            BY <2>1, <6>1
          <6>. QED
            BY <5>3, <6>2
        <5>. QED
          BY <5>1, <5>2, <5>3 DEF HasModeOf
      <4>. QED
        BY <4>1, <4>2
    <3>2. \A q \in DOMAIN tree' : tree'[q].type = tree[q].type /\ tree'[q].from = tree[q].from /\ q \in DOMAIN tree
      BY <2>5
    <3>. QED
      BY <1>4, <2>9, <3>1, <3>2 DEF Owed, HasModeOf
  <2>. QED
    BY <1>1, <1>4, <2>6, <2>7, <2>8, <2>12, <2>13 DEF IInv
<1>. QED
  BY <1>2, <1>3, <1>4 DEF RestorePerm

-----------------------------------------------------------------------------
(* The theorems.                                                           *)

LEMMA InitInv == Init => IInv
<1>1. SUFFICES ASSUME Init PROVE IInv
  OBVIOUS
<1>2. PICK root : root = Dir(Full, 0)
  OBVIOUS
<1>3. root \in Nodes /\ root.type = "dir" /\ root.mode = Full /\ root.from = 0 /\ "x" \in Full
  BY <1>2 DEF Dir, Nodes, Full
<1>4. DOMAIN tree = {<< >>} /\ tree[<< >>] = root
  BY <1>1, <1>2 DEF Init
<1>5. IsUnpacked(tree)
  BY <1>3, <1>4, EmptySeq DEF IsUnpacked, IsA, AllPlaces
<1>6. /\ archive \in Archives /\ next = 1 /\ pending = << >> /\ perms = << >> /\ pc = "unpack"
      /\ archive \in Seq(TarEntry)
  BY <1>1, ArchivesAssumption DEF Init
<1>7. DOMAIN pending = {} /\ DOMAIN perms = {} /\ perms \in Seq([place : AllPlaces, mode : SUBSET Full])
  BY <1>6, EmptySeq
<1>8. Types
  <2>1. Len(archive) \in Nat
    BY <1>6, LenProperties
  <2>. QED
    BY <1>5, <1>6, <1>7, <2>1 DEF Types
<1>9. DirsStayOpen /\ Made /\ Once /\ Owed
  BY <1>3, <1>4 DEF DirsStayOpen, Made, Once, Owed
<1>10. Noted
  BY <1>7 DEF Noted
<1>. QED
  BY <1>6, <1>8, <1>9, <1>10 DEF IInv

LEMMA StepKeeps == IInv /\ [Next]_vars => IInv'
<1>1. SUFFICES ASSUME IInv, [Next]_vars PROVE IInv'
  OBVIOUS
<1>2. pc \in {"unpack", "links", "perms", "done", "failed"} /\ (pc = "done" => perms = << >>)
  BY <1>1 DEF IInv, Types
<1>3. CASE ReadError
  BY <1>1, <1>3, QuietStepKeeps DEF ReadError, Fail
<1>4. CASE UnpackDir
  BY <1>1, <1>4, UnpackDirKeeps
<1>5. CASE UnpackReg
  BY <1>1, <1>5, UnpackRegKeeps
<1>6. CASE UnpackSym
  BY <1>1, <1>6, UnpackSymKeeps
<1>7. CASE UnpackLink
  BY <1>1, <1>7, UnpackLinkKeeps
<1>8. CASE EndOfArchive
  BY <1>1, <1>8, QuietStepKeeps DEF EndOfArchive
<1>9. CASE PendingLink
  BY <1>1, <1>9, PendingLinkKeeps
<1>10. CASE EndOfLinks
  BY <1>1, <1>10, QuietStepKeeps DEF EndOfLinks
<1>11. CASE RestorePerm
  BY <1>1, <1>11, RestorePermKeeps
<1>12. CASE EndOfPerms
  BY <1>1, <1>12, QuietStepKeeps DEF EndOfPerms
<1>13. CASE Finished \/ UNCHANGED vars
  BY <1>1, <1>2, <1>13, QuietStepKeeps DEF Finished, vars
<1>. QED
  BY <1>1, <1>3, <1>4, <1>5, <1>6, <1>7, <1>8, <1>9, <1>10, <1>11, <1>12, <1>13 DEF Next

\* Whatever is unpacked in whatever order, the invariant is kept.
THEOREM Inductive == Spec => []IInv
BY InitInv, StepKeeps, PTL DEF Spec

\* What was written is a tree: everything is in a directory.
THEOREM TypeCorrect == Spec => []TypeOK
<1>1. IInv => TypeOK
  BY DEF IInv, Types, TypeOK, IsUnpacked
<1>. QED
  BY <1>1, Inductive, PTL

\* No directory that is unpacked keeps the files in it from being written.
THEOREM DirsOpen == Spec => []DirsStayOpen
<1>1. IInv => DirsStayOpen
  BY DEF IInv
<1>. QED
  BY <1>1, Inductive, PTL

\* In the end the directories have the modes that they were shipped with.
THEOREM ModesRestored == Spec => []ModesAsShipped
<1>1. IInv => ModesAsShipped
  <2>1. SUFFICES ASSUME IInv, pc = "done", NEW q \in DOMAIN tree, tree[q].type = "dir", tree[q].from # 0
                 PROVE  \/ HasModeOf(q, tree[q].from)
                        \/ \E i \in DOMAIN archive : IsEntry(i, "dir") /\ Gone(i) /\ HasModeOf(q, i)
    BY DEF ModesAsShipped
  <2>2. DOMAIN perms = {}
    BY <2>1 DEF IInv
  <2>3. \/ HasModeOf(q, tree[q].from)
        \/ \E i \in DOMAIN archive : archive[i].type = "dir" /\ Gone(i) /\ HasModeOf(q, i)
    BY <2>1, <2>2 DEF IInv, Owed
  <2>. QED
    BY <2>3 DEF IsEntry
<1>. QED
  BY <1>1, Inductive, PTL

-----------------------------------------------------------------------------
(* Hard links.                                                             *)

NameOf(i)   == archive[i].name.parts
SourceOf(i) == archive[i].link.parts

\* Every file in the tree has the name of an entry that was read, and is of its
\* type or was linked.
FilesNamed ==
  \A q \in DOMAIN tree : tree[q].type # "dir" =>
    \E k \in DOMAIN archive : k < next /\ NameOf(k) = q /\ archive[k].type \in {tree[q].type, "link"}

\* Every file that was read is there, and stays.
FilesThere ==
  \A j \in DOMAIN archive : j < next /\ archive[j].type = "reg" =>
    NameOf(j) \in DOMAIN tree /\ tree[NameOf(j)] = Reg(j)

PutOff ==
  \A q \in DOMAIN pending : \E k \in DOMAIN archive :
    k < next /\ archive[k].type = "link" /\ NameOf(k) = q /\ pending[q] = SourceOf(k)

\* A link to a file that was read was made or put off.
LinksThere ==
  \A i, j \in DOMAIN archive :
    i < next /\ archive[i].type = "link" /\ archive[j].type = "reg" /\ SourceOf(i) = NameOf(j) =>
      NameOf(i) \in DOMAIN pending \/ (NameOf(i) \in DOMAIN tree /\ tree[NameOf(i)] = Reg(j))

AtEnd ==
  /\ pc \in {"links", "perms", "done"} => next = Len(archive) + 1
  /\ pc \in {"perms", "done"} => DOMAIN pending = {}

Placed == FilesNamed /\ FilesThere /\ PutOff /\ LinksThere

HInv == Straight /\ pc # "failed" => Placed /\ AtEnd

\* What the names of a straight archive are like.
LEMMA NamesAre ==
  ASSUME Types, Straight
  PROVE  /\ \A i, j \in DOMAIN archive : NameOf(i) = NameOf(j) => i = j
         /\ \A i \in DOMAIN archive :
              /\ i \in Nat /\ archive[i] \in TarEntry
              /\ ~HasUp(archive[i].name) /\ NameOf(i) \in AllPlaces
              /\ archive[i].type # "dir" => NameOf(i) # << >>
              /\ archive[i].type = "link" => ~HasUp(archive[i].link) /\ SourceOf(i) \in AllPlaces
         /\ \A i, j \in DOMAIN archive : archive[j].type \in {"sym", "link"} =>
              /\ ~IsStrictPrefix(NameOf(j), NameOf(i))
              /\ archive[i].type = "link" => ~IsStrictPrefix(NameOf(j), SourceOf(i))
<1>1. /\ archive \in Seq(TarEntry) /\ DOMAIN archive = 1..Len(archive) /\ Len(archive) \in Nat
      /\ \A i \in DOMAIN archive : archive[i].type # "dir" => archive[i].name.parts # << >>
  BY ArchivesAssumption, LenProperties DEF Types
<1>2. \A i \in DOMAIN archive : archive[i] \in TarEntry
  BY <1>1, ElementOfSeq
<1>3. \A i \in DOMAIN archive : archive[i].name \in Path /\ archive[i].link \in Path
  BY <1>2 DEF TarEntry
<1>4. /\ \A i, j \in DOMAIN archive : NameOf(i) = NameOf(j) => i = j
      /\ \A i \in DOMAIN archive : \A path \in NamedBy(i) :
           /\ ~HasUp(path)
           /\ \A j \in DOMAIN archive :
                archive[j].type \in {"sym", "link"} => ~IsStrictPrefix(NameOf(j), path.parts)
  BY DEF Straight, NameOf
<1>5. \A i \in DOMAIN archive : /\ archive[i].name \in NamedBy(i)
                                /\ archive[i].type = "link" => archive[i].link \in NamedBy(i)
  BY DEF NamedBy
<1>6. \A i \in DOMAIN archive : ~HasUp(archive[i].name) /\ (archive[i].type = "link" => ~HasUp(archive[i].link))
  BY <1>4, <1>5
<1>7. ASSUME NEW i \in DOMAIN archive
      PROVE  NameOf(i) \in AllPlaces /\ (archive[i].type = "link" => SourceOf(i) \in AllPlaces)
  BY <1>3, <1>6, CleanStraight DEF NameOf, SourceOf
<1>8. \A i, j \in DOMAIN archive : archive[j].type \in {"sym", "link"} =>
        /\ ~IsStrictPrefix(NameOf(j), NameOf(i))
        /\ archive[i].type = "link" => ~IsStrictPrefix(NameOf(j), SourceOf(i))
  BY <1>4, <1>5 DEF NameOf, SourceOf
<1>. QED
  BY <1>1, <1>2, <1>4, <1>6, <1>7, <1>8 DEF NameOf

LEMMA PrefixIsStrict ==
  ASSUME NEW place \in AllPlaces, NEW n \in 0..(Len(place) - 1)
  PROVE  IsStrictPrefix(Prefix(place, n), place)
<1>1. Len(place) \in Nat
  BY PrefixesOf
<1>2. n \in 0..Len(place)
  BY <1>1
<1>3. PICK p : p = Prefix(place, n)
  OBVIOUS
<1>4. p \in Seq(Names) /\ Len(p) = n
  BY <1>2, <1>3, PrefixesOf DEF AllPlaces
<1>5. SubSeq(p, 1, n) = p
  BY <1>4, SubSeqFull
<1>6. p # place /\ Len(p) <= Len(place)
  BY <1>1, <1>4
<1>. QED
  BY <1>3, <1>4, <1>5, <1>6 DEF IsStrictPrefix, IsPrefix, Prefix

\* No link is on the way to what a straight archive names.
LEMMA WaysAreFree ==
  ASSUME Types, Straight, FilesNamed, NEW i \in DOMAIN archive
  PROVE  /\ NoLinkAbove(tree, NameOf(i)) /\ \A n \in 0..(Len(NameOf(i)) - 1) : ~IsA(tree, Prefix(NameOf(i), n), "sym")
         /\ archive[i].type = "link" => NoLinkAbove(tree, SourceOf(i))
<1>1. /\ NameOf(i) \in AllPlaces /\ (archive[i].type = "link" => SourceOf(i) \in AllPlaces)
      /\ \A j \in DOMAIN archive : archive[j].type \in {"sym", "link"} =>
           /\ ~IsStrictPrefix(NameOf(j), NameOf(i))
           /\ archive[i].type = "link" => ~IsStrictPrefix(NameOf(j), SourceOf(i))
  BY NamesAre
<1>2. \A q : IsA(tree, q, "sym") =>
        \E k \in DOMAIN archive : NameOf(k) = q /\ archive[k].type \in {"sym", "link"}
  BY DEF FilesNamed, IsA
<1>3. \A n \in 0..(Len(NameOf(i)) - 1) : ~IsA(tree, Prefix(NameOf(i), n), "sym")
  BY <1>1, <1>2, PrefixIsStrict
<1>4. archive[i].type = "link" => \A n \in 0..(Len(SourceOf(i)) - 1) : ~IsA(tree, Prefix(SourceOf(i), n), "sym")
  BY <1>1, <1>2, PrefixIsStrict
<1>5. \A m \in Int : \A n \in 1..m : n \in 0..m
  OBVIOUS
<1>6. Len(NameOf(i)) - 1 \in Int /\ (archive[i].type = "link" => Len(SourceOf(i)) - 1 \in Int)
  BY <1>1, PrefixesOf
<1>. QED
  BY <1>3, <1>4, <1>5, <1>6 DEF NoLinkAbove

\* An entry of a straight archive is unpacked to the place of its name.
LEMMA StraightEntry ==
  ASSUME Types, Straight, FilesNamed, NEW type, Read(type)
  PROVE  /\ next \in DOMAIN archive /\ next \in Nat /\ archive[next].type = type /\ Entry = archive[next]
         /\ Place = NameOf(next) /\ Place \in AllPlaces
<1>1. /\ next \in DOMAIN archive /\ next \in Nat /\ archive[next].type = type
      /\ archive[next] \in TarEntry /\ Entry = archive[next] /\ Place \in AllPlaces
  BY EntryRead
<1>2. archive[next].name \in Path /\ ~HasUp(archive[next].name)
  BY <1>1, NamesAre DEF TarEntry
<1>3. NoLinkAbove(tree, archive[next].name.parts)
  BY <1>1, WaysAreFree DEF NameOf
<1>4. ResolvePathInRoot(tree, archive[next].name, FALSE).ok
  BY <1>1 DEF Read, Target
<1>5. Place = ResolvePathInRoot(tree, archive[next].name, FALSE).place
  BY <1>1 DEF Place, Target
<1>. QED
  BY <1>1, <1>2, <1>3, <1>4, <1>5, ResolveStraight DEF NameOf

LEMMA StraightStays == archive' = archive => (Straight' <=> Straight)
BY DEF Straight, NamedBy, HasUp

\* A step that takes no file away, and makes none but those that entries that
\* were read are named for.
LEMMA FilesKept ==
  ASSUME Types, Placed, archive' = archive, next' \in {next, next + 1},
         \A q \in DOMAIN tree : tree[q].type # "dir" => q \in DOMAIN tree' /\ tree'[q] = tree[q],
         \A q \in DOMAIN tree' : tree'[q].type # "dir" =>
           \/ q \in DOMAIN tree /\ tree'[q] = tree[q]
           \/ \E k \in DOMAIN archive :
                k < next' /\ NameOf(k) = q /\ archive[k].type \in {tree'[q].type, "link"},
         next' = next + 1 /\ archive[next].type = "reg" =>
           NameOf(next) \in DOMAIN tree' /\ tree'[NameOf(next)] = Reg(next)
  PROVE  /\ FilesNamed' /\ FilesThere'
         /\ \A i, j \in DOMAIN archive :
              i < next /\ archive[i].type = "link" /\ archive[j].type = "reg" /\ SourceOf(i) = NameOf(j) =>
                NameOf(i) \in DOMAIN pending \/ (NameOf(i) \in DOMAIN tree' /\ tree'[NameOf(i)] = Reg(j))
<1>1. DOMAIN archive \subseteq Nat /\ next \in Nat
  BY ArchivesAssumption, LenProperties DEF Types
<1>2. \A k : NameOf(k)' = NameOf(k) /\ SourceOf(k)' = SourceOf(k)
  BY DEF NameOf, SourceOf
<1>3. \A k : Reg(k).type = "reg" /\ Reg(k)' = Reg(k)
  BY DEF Reg
<1>4. /\ \A q \in DOMAIN tree : tree[q].type # "dir" =>
           \E k \in DOMAIN archive : k < next /\ NameOf(k) = q /\ archive[k].type \in {tree[q].type, "link"}
      /\ \A j \in DOMAIN archive : j < next /\ archive[j].type = "reg" =>
           NameOf(j) \in DOMAIN tree /\ tree[NameOf(j)] = Reg(j)
      /\ \A i, j \in DOMAIN archive :
           i < next /\ archive[i].type = "link" /\ archive[j].type = "reg" /\ SourceOf(i) = NameOf(j) =>
             NameOf(i) \in DOMAIN pending \/ (NameOf(i) \in DOMAIN tree /\ tree[NameOf(i)] = Reg(j))
  BY DEF Placed, FilesNamed, FilesThere, LinksThere
<1>5. \A k \in DOMAIN archive : k < next => k < next'
  BY <1>1
<1>6. \A k \in DOMAIN archive : k < next' => k < next \/ (k = next /\ next' = next + 1)
  BY <1>1
<1>7. FilesNamed'
  <2>1. ASSUME NEW q \in DOMAIN tree', tree'[q].type # "dir"
        PROVE  \E k \in DOMAIN archive : k < next' /\ NameOf(k) = q /\ archive[k].type \in {tree'[q].type, "link"}
    <3>1. CASE q \in DOMAIN tree /\ tree'[q] = tree[q]
      BY <1>4, <1>5, <2>1, <3>1
    <3>. QED
      BY <2>1, <3>1
  <2>. QED
    BY <1>2, <2>1 DEF FilesNamed
<1>8. ASSUME NEW q \in DOMAIN tree, NEW j, tree[q] = Reg(j) PROVE q \in DOMAIN tree' /\ tree'[q] = Reg(j)
  BY <1>3, <1>8
<1>9. FilesThere'
  <2>1. ASSUME NEW j \in DOMAIN archive, j < next', archive[j].type = "reg"
        PROVE  NameOf(j) \in DOMAIN tree' /\ tree'[NameOf(j)] = Reg(j)
    BY <1>4, <1>6, <1>8, <2>1
  <2>. QED
    BY <1>2, <1>3, <2>1 DEF FilesThere
<1>10. \A i, j \in DOMAIN archive :
         i < next /\ archive[i].type = "link" /\ archive[j].type = "reg" /\ SourceOf(i) = NameOf(j) =>
           NameOf(i) \in DOMAIN pending \/ (NameOf(i) \in DOMAIN tree' /\ tree'[NameOf(i)] = Reg(j))
  BY <1>4, <1>8
<1>. QED
  BY <1>7, <1>9, <1>10

\* What was put off is in place for as long as no link is read.
LEMMA StillPlaced ==
  ASSUME Types, Placed, archive' = archive, pending' = pending,
         next' = next \/ (next' = next + 1 /\ archive[next].type # "link"),
         FilesNamed', FilesThere',
         \A i, j \in DOMAIN archive :
           i < next /\ archive[i].type = "link" /\ archive[j].type = "reg" /\ SourceOf(i) = NameOf(j) =>
             NameOf(i) \in DOMAIN pending \/ (NameOf(i) \in DOMAIN tree' /\ tree'[NameOf(i)] = Reg(j))
  PROVE  Placed'
<1>1. DOMAIN archive \subseteq Nat /\ next \in Nat
  BY ArchivesAssumption, LenProperties DEF Types
<1>2. \A k : NameOf(k)' = NameOf(k) /\ SourceOf(k)' = SourceOf(k) /\ Reg(k)' = Reg(k)
  BY DEF NameOf, SourceOf, Reg
<1>3. PutOff'
  <2>1. \A k \in DOMAIN archive : k < next => k < next'
    BY <1>1
  <2>. QED
    BY <1>2, <2>1 DEF Placed, PutOff
<1>4. LinksThere'
  <2>1. \A k \in DOMAIN archive : k < next' /\ archive[k].type = "link" => k < next
    BY <1>1
  <2>. QED
    BY <1>2, <2>1 DEF LinksThere
<1>. QED
  BY <1>3, <1>4 DEF Placed

\* A step that changes directories only, and reads no more than a directory or a
\* symbolic link.
LEMMA DirStepPlaces ==
  ASSUME Types, Placed, archive' = archive, pending' = pending,
         next' = next \/ (next' = next + 1 /\ archive[next].type \in {"dir", "sym"}),
         \A q \in DOMAIN tree : tree[q].type # "dir" => q \in DOMAIN tree' /\ tree'[q] = tree[q],
         \A q \in DOMAIN tree' : tree'[q].type # "dir" => q \in DOMAIN tree /\ tree'[q] = tree[q]
  PROVE  Placed'
<1>1. next' = next + 1 => next' # next
  BY ArchivesAssumption, LenProperties DEF Types
<1>2. next' \in {next, next + 1} /\ (next' = next + 1 => archive[next].type \notin {"reg", "link"})
  BY <1>1
<1>3. /\ FilesNamed' /\ FilesThere'
      /\ \A i, j \in DOMAIN archive :
           i < next /\ archive[i].type = "link" /\ archive[j].type = "reg" /\ SourceOf(i) = NameOf(j) =>
             NameOf(i) \in DOMAIN pending \/ (NameOf(i) \in DOMAIN tree' /\ tree'[NameOf(i)] = Reg(j))
  BY <1>2, FilesKept
<1>. QED
  BY <1>3, StillPlaced

\* A file or a symbolic link is put in the place of its name, where no file was.
LEMMA FileStepPlaces ==
  ASSUME Types, Placed, archive' = archive, pending' = pending, next' = next + 1,
         next \in DOMAIN archive, archive[next].type \in {"reg", "sym"}, NEW node, node.type = archive[next].type,
         archive[next].type = "reg" => node = Reg(next),
         NameOf(next) \in DOMAIN tree', tree'[NameOf(next)] = node,
         \A q \in DOMAIN tree : tree[q].type # "dir" => q \in DOMAIN tree' /\ tree'[q] = tree[q],
         \A q \in DOMAIN tree' : tree'[q].type # "dir" => (q \in DOMAIN tree /\ tree'[q] = tree[q]) \/ q = NameOf(next)
  PROVE  Placed'
<1>1. next \in Nat /\ next < next'
  BY ArchivesAssumption, LenProperties DEF Types
<1>2. \A q \in DOMAIN tree' : tree'[q].type # "dir" =>
        \/ q \in DOMAIN tree /\ tree'[q] = tree[q]
        \/ \E k \in DOMAIN archive : k < next' /\ NameOf(k) = q /\ archive[k].type \in {tree'[q].type, "link"}
  BY <1>1
<1>3. /\ FilesNamed' /\ FilesThere'
      /\ \A i, j \in DOMAIN archive :
           i < next /\ archive[i].type = "link" /\ archive[j].type = "reg" /\ SourceOf(i) = NameOf(j) =>
             NameOf(i) \in DOMAIN pending \/ (NameOf(i) \in DOMAIN tree' /\ tree'[NameOf(i)] = Reg(j))
  BY <1>2, FilesKept
<1>. QED
  BY <1>3, StillPlaced

\* A link is made to what is at its source.
LEMMA LinkStepPlaces ==
  ASSUME Types, Straight, Placed, archive' = archive, NEW k \in DOMAIN archive, archive[k].type = "link", k < next',
         (next' = next /\ k < next) \/ (next' = next + 1 /\ k = next),
         ~(NameOf(k) \in DOMAIN tree), SourceOf(k) \in DOMAIN tree, tree[SourceOf(k)].type # "dir",
         tree' = Put(tree, NameOf(k), tree[SourceOf(k)]),
         \A q \in DOMAIN pending : q # NameOf(k) => q \in DOMAIN pending',
         \A q \in DOMAIN pending' : q \in DOMAIN pending /\ pending'[q] = pending[q]
  PROVE  Placed'
<1>1. DOMAIN archive \subseteq Nat /\ next \in Nat
  BY ArchivesAssumption, LenProperties DEF Types
<1>2. /\ DOMAIN tree' = DOMAIN tree \union {NameOf(k)} /\ tree'[NameOf(k)] = tree[SourceOf(k)]
      /\ \A q \in DOMAIN tree : tree'[q] = tree[q]
  BY DEF Put
<1>3. next' = next + 1 => next' # next /\ archive[next].type # "reg"
  BY <1>1
<1>4. next' \in {next, next + 1}
  OBVIOUS
<1>5. /\ FilesNamed' /\ FilesThere'
      /\ \A i, j \in DOMAIN archive :
           i < next /\ archive[i].type = "link" /\ archive[j].type = "reg" /\ SourceOf(i) = NameOf(j) =>
             NameOf(i) \in DOMAIN pending \/ (NameOf(i) \in DOMAIN tree' /\ tree'[NameOf(i)] = Reg(j))
  <2>1. \A q \in DOMAIN tree : tree[q].type # "dir" => q \in DOMAIN tree' /\ tree'[q] = tree[q]
    BY <1>2
  <2>2. \A q \in DOMAIN tree' : tree'[q].type # "dir" =>
          \/ q \in DOMAIN tree /\ tree'[q] = tree[q]
          \/ \E l \in DOMAIN archive : l < next' /\ NameOf(l) = q /\ archive[l].type \in {tree'[q].type, "link"}
    BY <1>2
  <2>. QED
    BY <1>3, <1>4, <2>1, <2>2, FilesKept
<1>6. \A l : NameOf(l)' = NameOf(l) /\ SourceOf(l)' = SourceOf(l) /\ Reg(l)' = Reg(l)
  BY DEF NameOf, SourceOf, Reg
<1>7. PutOff'
  <2>1. \A l \in DOMAIN archive : l < next => l < next'
    BY <1>1
  <2>. QED
    BY <1>6, <2>1 DEF Placed, PutOff
<1>8. \A i, j \in DOMAIN archive : NameOf(i) = NameOf(j) => i = j
  BY NamesAre
<1>9. ASSUME NEW j \in DOMAIN archive, archive[j].type = "reg", SourceOf(k) = NameOf(j)
      PROVE  tree'[NameOf(k)] = Reg(j)
  <2>1. PICK l \in DOMAIN archive : l < next /\ NameOf(l) = SourceOf(k)
    BY DEF Placed, FilesNamed
  <2>2. l = j
    BY <1>8, <1>9, <2>1
  <2>3. tree[NameOf(j)] = Reg(j)
    BY <1>9, <2>1, <2>2 DEF Placed, FilesThere
  <2>. QED
    BY <1>2, <1>9, <2>3
<1>10. LinksThere'
  <2>1. ASSUME NEW i \in DOMAIN archive, NEW j \in DOMAIN archive, i < next', archive[i].type = "link",
               archive[j].type = "reg", SourceOf(i) = NameOf(j)
        PROVE  NameOf(i) \in DOMAIN pending' \/ (NameOf(i) \in DOMAIN tree' /\ tree'[NameOf(i)] = Reg(j))
    <3>1. CASE i = k
      BY <1>2, <1>9, <2>1, <3>1
    <3>2. CASE i # k
      <4>1. i < next
        BY <1>1, <2>1, <3>2
      <4>2. NameOf(i) # NameOf(k)
        BY <1>8, <3>2
      <4>. QED
        BY <1>5, <2>1, <4>1, <4>2
    <3>. QED
      BY <3>1, <3>2
  <2>. QED
    BY <1>6, <2>1 DEF LinksThere
<1>. QED
  BY <1>5, <1>7, <1>10 DEF Placed

\* resolveHardlink makes a link in a place that no link is on the way to.
LEMMA ResolveHardlinkStraight ==
  ASSUME IsUnpacked(tree), NEW source \in AllPlaces, NoLinkAbove(tree, source),
         NEW place \in AllPlaces \ {<< >>},
         \A n \in 0..(Len(place) - 1) : ~IsA(tree, Prefix(place, n), "sym"),
         ResolveHardlink(source, place), pc' # "failed"
  PROVE  /\ ~(place \in DOMAIN tree) /\ source \in DOMAIN tree /\ tree[source].type # "dir"
         /\ tree' = Put(tree, place, tree[source]) /\ pc' = pc
<1>1. PICK from, dir : from = HostLink(source) /\ dir = OnHost(Front(place))
  OBVIOUS
<1>2. /\ from.end = "at" /\ tree[from.at].type # "dir" /\ dir.end = "at"
      /\ Append(dir.at, Last(place)) \notin DOMAIN tree
      /\ tree' = Put(tree, Append(dir.at, Last(place)), tree[from.at]) /\ pc' = pc
  BY <1>1 DEF ResolveHardlink, CanLink
<1>3. from.at = source /\ source \in DOMAIN tree
  <2>1. FALSE \in BOOLEAN
    OBVIOUS
  <2>2. from = Walk(tree, source, FALSE, FALSE, Fuel)
    BY <1>1 DEF HostLink
  <2>. QED
    BY <1>2, <2>1, <2>2, UnpackedIsTree, WalkMeetsNoLink
<1>4. /\ Len(place) \in Nat /\ Len(place) > 0 /\ Front(place) \in AllPlaces /\ Len(Front(place)) = Len(place) - 1
      /\ \A n \in 0..(Len(place) - 1) : Prefix(Front(place), n) = Prefix(place, n)
  BY FrontOf
<1>5. NoLinkAbove(tree, Front(place))
  <2>1. \A n \in 1..(Len(Front(place)) - 1) : n \in 0..(Len(place) - 1)
    BY <1>4
  <2>. QED
    BY <1>4, <2>1 DEF NoLinkAbove
<1>6. ~IsA(tree, Front(place), "sym")
  <2>1. Front(place) = Prefix(place, Len(place) - 1) /\ Len(place) - 1 \in 0..(Len(place) - 1)
    BY <1>4, PrefixesOf
  <2>. QED
    BY <2>1
<1>7. dir.at = Front(place)
  <2>1. TRUE \in BOOLEAN
    OBVIOUS
  <2>2. dir = Walk(tree, Front(place), TRUE, FALSE, Fuel)
    BY <1>1 DEF OnHost
  <2>. QED
    BY <1>2, <1>4, <1>5, <1>6, <2>1, <2>2, UnpackedIsTree, WalkMeetsNoLink
<1>8. Append(Front(place), Last(place)) = place
  <2>1. Len(place) \in 1..Len(place) /\ Last(place) = place[Len(place)]
    BY <1>4 DEF Last
  <2>2. Append(Prefix(place, Len(place) - 1), place[Len(place)]) = Prefix(place, Len(place))
    BY <2>1, StepUp
  <2>3. Front(place) = Prefix(place, Len(place) - 1) /\ Prefix(place, Len(place)) = place
    BY PrefixesOf
  <2>. QED
    BY <2>1, <2>2, <2>3
<1>. QED
  BY <1>2, <1>3, <1>7, <1>8

\* os.Stat finds a file that is there and that no link is on the way to.
LEMMA FileIsFound ==
  ASSUME IsUnpacked(tree), NEW source \in AllPlaces, NoLinkAbove(tree, source), source \in DOMAIN tree,
         tree[source].type # "sym", NEW finds \in BOOLEAN, StatFinds(source, finds)
  PROVE  finds
<1>1. PICK w : w = OnHost(source)
  OBVIOUS
<1>2. w.end \in {"no", "at"}
  <2>1. TRUE \in BOOLEAN /\ ~IsA(tree, source, "sym")
    BY DEF IsA
  <2>2. w = Walk(tree, source, TRUE, FALSE, Fuel)
    BY <1>1 DEF OnHost
  <2>. QED
    BY <2>1, <2>2, UnpackedIsTree, WalkMeetsNoLink
<1>. QED
  BY <1>1, <1>2 DEF StatFinds

LEMMA UnpackDirPlaces ==
  ASSUME IInv, Straight, Placed, UnpackDir
  PROVE  Placed'
<1>1. /\ Read("dir") /\ Types /\ IsUnpacked(tree) /\ FilesNamed
      /\ archive' = archive /\ pending' = pending /\ next' = next + 1
      /\ tree' = tree \/ (Lstat(tree, Place) = "missing" /\ tree' = MkdirAll(tree, Place, next))
  BY DEF UnpackDir, Skip, IInv, Types, Placed
<1>2. /\ next \in DOMAIN archive /\ next \in Nat /\ archive[next].type = "dir"
      /\ Place \in AllPlaces /\ Stops(tree, Place, FALSE) = {}
  BY <1>1, EntryRead
<1>3. CASE tree' = tree
  BY <1>1, <1>2, <1>3, DirStepPlaces
<1>4. CASE Lstat(tree, Place) = "missing" /\ tree' = MkdirAll(tree, Place, next)
  <2>1. PICK place : place = Place
    OBVIOUS
  <2>2. \A n \in 0..Len(place) : Prefix(place, n) \in DOMAIN tree => tree[Prefix(place, n)].type = "dir"
    <3>1. Len(place) \in Nat /\ Prefix(place, Len(place)) = place
      BY <1>2, <2>1, PrefixesOf
    <3>2. ~(place \in DOMAIN tree)
      <4>1. \A q \in DOMAIN tree : tree[q].type # "missing"
        BY <1>1, NodesTyped
      <4>. QED
        BY <1>4, <2>1, <4>1 DEF Lstat
    <3>3. \A n \in 0..(Len(place) - 1) : Prefix(place, n) \in DOMAIN tree => tree[Prefix(place, n)].type = "dir"
      BY <1>1, <1>2, <1>4, <2>1, DirsAbovePlace
    <3>4. \A n \in 0..Len(place) : n \in 0..(Len(place) - 1) \/ n = Len(place)
      BY <3>1
    <3>. QED
      BY <3>1, <3>2, <3>3, <3>4
  <2>3. PICK u : u = MkdirAll(tree, place, next)
    OBVIOUS
  <2>4. /\ \A q \in DOMAIN tree : q \in DOMAIN u /\ u[q] = tree[q]
        /\ \A q \in DOMAIN u : (q \in DOMAIN tree /\ u[q] = tree[q]) \/ u[q] = Dir(Full, 0) \/ u[q] = Dir(Full, next)
    BY <1>1, <1>2, <2>1, <2>2, <2>3, TreeWithDirs
  <2>5. Dir(Full, 0).type = "dir" /\ Dir(Full, next).type = "dir" /\ tree' = u
    BY <1>4, <2>1, <2>3 DEF Dir
  <2>6. \A q \in DOMAIN tree' : tree'[q].type # "dir" => q \in DOMAIN tree /\ tree'[q] = tree[q]
    BY <2>4, <2>5
  <2>7. \A q \in DOMAIN tree : q \in DOMAIN tree' /\ tree'[q] = tree[q]
    BY <2>4, <2>5
  <2>. QED
    BY <1>1, <1>2, <2>6, <2>7, DirStepPlaces
<1>. QED
  BY <1>1, <1>3, <1>4

\* No file is in the place of an entry that was not read.
LEMMA PlaceIsFree ==
  ASSUME Types, Straight, Placed, next \in DOMAIN archive, NameOf(next) \in DOMAIN tree
  PROVE  tree[NameOf(next)].type = "dir"
<1>1. next \in Nat /\ DOMAIN archive \subseteq Nat
  BY ArchivesAssumption, LenProperties DEF Types
<1>2. \A i, j \in DOMAIN archive : NameOf(i) = NameOf(j) => i = j
  BY NamesAre
<1>. QED
  BY <1>1, <1>2 DEF Placed, FilesNamed

LEMMA UnpackRegPlaces ==
  ASSUME IInv, Straight, Placed, UnpackReg, pc' # "failed"
  PROVE  Placed'
<1>1. /\ Read("reg") /\ Types /\ IsUnpacked(tree) /\ FilesNamed
      /\ Removable /\ tree' = Put(MkdirAll(tree, Front(Place), 0), Place, Reg(next)) /\ next' = next + 1
      /\ archive' = archive /\ pending' = pending
  BY DEF UnpackReg, Fail, IInv, Types, Placed
<1>2. /\ next \in DOMAIN archive /\ archive[next].type = "reg"
      /\ Place = NameOf(next) /\ Place \in AllPlaces
  BY <1>1, StraightEntry
<1>3. Stops(tree, Place, FALSE) = {} /\ Place # << >>
  <2>1. Stops(tree, Place, FALSE) = {} /\ ("reg" = "dir" \/ Place # << >>)
    BY <1>1, EntryRead
  <2>. QED
    BY <2>1
<1>4. PICK place, u : place = Place /\ u = MkdirAll(tree, Front(Place), 0)
  OBVIOUS
<1>5. /\ Len(place) \in Nat /\ Front(place) \in AllPlaces /\ Len(Front(place)) = Len(place) - 1
      /\ \A n \in 0..(Len(place) - 1) : Prefix(Front(place), n) = Prefix(place, n)
  BY <1>2, <1>3, <1>4, FrontOf
<1>6. \A n \in 0..Len(Front(place)) :
        Prefix(Front(place), n) \in DOMAIN tree => tree[Prefix(Front(place), n)].type = "dir"
  <2>1. Lstat(tree, place) # "notdir"
    BY <1>1, <1>4 DEF Removable
  <2>2. \A n \in 0..(Len(place) - 1) : Prefix(place, n) \in DOMAIN tree => tree[Prefix(place, n)].type = "dir"
    BY <1>1, <1>2, <1>3, <1>4, <2>1, DirsAbovePlace
  <2>. QED
    BY <1>5, <2>2
<1>7. /\ \A q \in DOMAIN tree : q \in DOMAIN u /\ u[q] = tree[q]
      /\ \A q \in DOMAIN u : (q \in DOMAIN tree /\ u[q] = tree[q]) \/ u[q] = Dir(Full, 0)
  BY <1>1, <1>4, <1>5, <1>6, TreeWithDirs
<1>8. DOMAIN tree' = DOMAIN u \union {place} /\ \A q \in DOMAIN tree' : tree'[q] = IF q = place THEN Reg(next) ELSE u[q]
  BY <1>1, <1>4 DEF Put
<1>9. Dir(Full, 0).type = "dir" /\ Reg(next).type = "reg"
  BY DEF Dir, Reg
<1>10. \A q \in DOMAIN tree : tree[q].type # "dir" => q \in DOMAIN tree' /\ tree'[q] = tree[q]
  BY <1>1, <1>2, <1>4, <1>7, <1>8, PlaceIsFree
<1>11. \A q \in DOMAIN tree' : tree'[q].type # "dir" => (q \in DOMAIN tree /\ tree'[q] = tree[q]) \/ q = NameOf(next)
  BY <1>2, <1>4, <1>7, <1>8, <1>9
<1>12. NameOf(next) \in DOMAIN tree' /\ tree'[NameOf(next)] = Reg(next)
  BY <1>2, <1>4, <1>8
<1>. QED
  BY <1>1, <1>2, <1>9, <1>10, <1>11, <1>12, FileStepPlaces

LEMMA UnpackSymPlaces ==
  ASSUME IInv, Straight, Placed, UnpackSym, pc' # "failed"
  PROVE  Placed'
<1>1. /\ Read("sym") /\ Types /\ IsUnpacked(tree) /\ FilesNamed /\ next' = next + 1
      /\ tree' = IF IsA(tree, Front(Place), "dir")
                 THEN Put(RemoveAll(tree, Place), Place, Sym(Entry.link, next)) ELSE tree
      /\ archive' = archive /\ pending' = pending
  BY DEF UnpackSym, Fail, IInv, Types, Placed
<1>2. next \in DOMAIN archive /\ archive[next].type = "sym" /\ Place = NameOf(next) /\ Place \in AllPlaces
  BY <1>1, StraightEntry
<1>3. CASE ~IsA(tree, Front(Place), "dir")
  <2>1. tree' = tree
    BY <1>1, <1>3
  <2>. QED
    BY <1>1, <1>2, <2>1, DirStepPlaces
<1>4. CASE IsA(tree, Front(Place), "dir")
  <2>1. PICK place, node, u : place = Place /\ node = Sym(Entry.link, next) /\ u = RemoveAll(tree, Place)
    OBVIOUS
  <2>2. tree' = Put(u, place, node) /\ node.type = "sym"
    BY <1>1, <1>4, <2>1 DEF Sym
  <2>3. DOMAIN u = {q \in DOMAIN tree : ~IsPrefix(place, q)} /\ \A q \in DOMAIN u : u[q] = tree[q]
    BY <2>1 DEF RemoveAll, Restrict
  <2>4. DOMAIN tree' = DOMAIN u \union {place} /\ \A q \in DOMAIN tree' : tree'[q] = IF q = place THEN node ELSE u[q]
    BY <2>2 DEF Put
  <2>5. ASSUME NEW q \in DOMAIN tree, tree[q].type # "dir" PROVE q # place /\ ~IsPrefix(place, q)
    <3>1. q # place
      BY <1>1, <1>2, <2>1, <2>5, PlaceIsFree
    <3>2. PICK k \in DOMAIN archive : NameOf(k) = q
      BY <1>1, <2>5 DEF FilesNamed
    <3>3. ~IsStrictPrefix(NameOf(next), NameOf(k))
      BY <1>1, <1>2, NamesAre
    <3>. QED
      BY <1>2, <2>1, <3>1, <3>2, <3>3 DEF IsStrictPrefix
  <2>6. \A q \in DOMAIN tree : tree[q].type # "dir" => q \in DOMAIN tree' /\ tree'[q] = tree[q]
    BY <2>3, <2>4, <2>5
  <2>7. \A q \in DOMAIN tree' : tree'[q].type # "dir" => (q \in DOMAIN tree /\ tree'[q] = tree[q]) \/ q = NameOf(next)
    BY <1>2, <2>1, <2>3, <2>4
  <2>8. NameOf(next) \in DOMAIN tree' /\ tree'[NameOf(next)] = node
    BY <1>2, <2>1, <2>4
  <2>9. node.type = archive[next].type /\ (archive[next].type = "reg" => node = Reg(next))
    BY <1>2, <2>2
  <2>. QED
    BY <1>1, <1>2, <2>6, <2>7, <2>8, <2>9, FileStepPlaces
<1>. QED
  BY <1>3, <1>4

LEMMA UnpackLinkPlaces ==
  ASSUME IInv, Straight, Placed, UnpackLink, pc' # "failed"
  PROVE  Placed'
<1>1. Read("link") /\ Types /\ IsUnpacked(tree) /\ FilesNamed
  BY DEF UnpackLink, IInv, Types, Placed
<1>2. /\ next \in DOMAIN archive /\ next \in Nat /\ archive[next].type = "link" /\ Entry = archive[next]
      /\ Place = NameOf(next) /\ Place \in AllPlaces
  BY <1>1, StraightEntry
<1>3. PICK finds \in BOOLEAN :
        /\ ResolvePathInRoot(tree, Entry.link, FALSE).ok
        /\ IF finds
           THEN ResolveHardlink(ResolvePathInRoot(tree, Entry.link, FALSE).place, Place) /\ UNCHANGED pending
           ELSE /\ pending' = Put(pending, Place, ResolvePathInRoot(tree, Entry.link, FALSE).place)
                /\ UNCHANGED <<tree, pc>>
        /\ next' = next + 1 /\ UNCHANGED <<archive, perms>>
  BY DEF UnpackLink, Fail
<1>4. /\ archive[next] \in TarEntry /\ ~HasUp(archive[next].link) /\ SourceOf(next) \in AllPlaces
      /\ NameOf(next) # << >>
  BY <1>1, <1>2, NamesAre
<1>5. /\ NoLinkAbove(tree, SourceOf(next))
      /\ \A n \in 0..(Len(NameOf(next)) - 1) : ~IsA(tree, Prefix(NameOf(next), n), "sym")
  BY <1>1, <1>2, WaysAreFree
<1>6. ResolvePathInRoot(tree, Entry.link, FALSE).place = SourceOf(next)
  <2>1. archive[next].link \in Path /\ ResolvePathInRoot(tree, archive[next].link, FALSE).ok
    BY <1>2, <1>3, <1>4 DEF TarEntry
  <2>2. NoLinkAbove(tree, archive[next].link.parts)
    BY <1>5 DEF SourceOf
  <2>. QED
    BY <1>2, <1>4, <2>1, <2>2, ResolveStraight DEF SourceOf
<1>7. CASE finds
  <2>1. ResolveHardlink(SourceOf(next), NameOf(next)) /\ pending' = pending
    BY <1>2, <1>3, <1>6, <1>7
  <2>2. /\ ~(NameOf(next) \in DOMAIN tree) /\ SourceOf(next) \in DOMAIN tree /\ tree[SourceOf(next)].type # "dir"
        /\ tree' = Put(tree, NameOf(next), tree[SourceOf(next)])
    BY <1>1, <1>2, <1>4, <1>5, <2>1, ResolveHardlinkStraight
  <2>. QED
    BY <1>1, <1>2, <1>3, <2>1, <2>2, LinkStepPlaces
<1>8. CASE ~finds
  <2>1. pending' = Put(pending, NameOf(next), SourceOf(next)) /\ tree' = tree
    BY <1>2, <1>3, <1>6, <1>8
  <2>2. /\ DOMAIN pending' = DOMAIN pending \union {NameOf(next)} /\ pending'[NameOf(next)] = SourceOf(next)
        /\ \A q \in DOMAIN pending : q # NameOf(next) => pending'[q] = pending[q]
    BY <2>1 DEF Put
  <2>3. /\ FilesNamed' /\ FilesThere'
        /\ \A i, j \in DOMAIN archive :
             i < next /\ archive[i].type = "link" /\ archive[j].type = "reg" /\ SourceOf(i) = NameOf(j) =>
               NameOf(i) \in DOMAIN pending \/ (NameOf(i) \in DOMAIN tree' /\ tree'[NameOf(i)] = Reg(j))
    BY <1>1, <1>2, <1>3, <2>1, FilesKept
  <2>4. \A l : NameOf(l)' = NameOf(l) /\ SourceOf(l)' = SourceOf(l) /\ Reg(l)' = Reg(l)
    BY <1>3 DEF NameOf, SourceOf, Reg
  <2>5. DOMAIN archive \subseteq Nat /\ next' = next + 1 /\ archive' = archive
    BY <1>1, <1>3, ArchivesAssumption, LenProperties DEF Types
  <2>6. PutOff'
    <3>1. ASSUME NEW q \in DOMAIN pending'
          PROVE  \E k \in DOMAIN archive :
                   k < next' /\ archive[k].type = "link" /\ NameOf(k) = q /\ pending'[q] = SourceOf(k)
      <4>1. CASE q = NameOf(next)
        BY <1>2, <2>2, <2>5, <4>1
      <4>2. CASE q # NameOf(next)
        <5>1. q \in DOMAIN pending /\ pending'[q] = pending[q]
          BY <2>2, <3>1, <4>2
        <5>2. PICK k \in DOMAIN archive :
                k < next /\ archive[k].type = "link" /\ NameOf(k) = q /\ pending[q] = SourceOf(k)
          BY <5>1 DEF Placed, PutOff
        <5>. QED
          BY <1>2, <2>5, <5>1, <5>2
      <4>. QED
        BY <4>1, <4>2
    <3>. QED
      BY <2>4, <2>5, <3>1 DEF PutOff
  <2>7. LinksThere'
    <3>1. \A i \in DOMAIN archive : i < next' => i < next \/ i = next
      BY <1>2, <2>5
    <3>. QED
      BY <2>2, <2>3, <2>4, <2>5, <3>1 DEF LinksThere
  <2>. QED
    BY <2>3, <2>6, <2>7 DEF Placed
<1>. QED
  BY <1>7, <1>8

LEMMA PendingLinkPlaces ==
  ASSUME IInv, Straight, Placed, next = Len(archive) + 1, PendingLink, pc' # "failed"
  PROVE  Placed'
<1>1. Types /\ IsUnpacked(tree) /\ FilesNamed /\ archive' = archive /\ next' = next
  BY DEF PendingLink, IInv, Types, Placed
<1>2. PICK place \in DOMAIN pending, finds \in BOOLEAN :
        /\ StatFinds(pending[place], finds)
        /\ IF finds THEN ResolveHardlink(pending[place], place) ELSE UNCHANGED <<tree, pc>>
        /\ pending' = Restrict(pending, DOMAIN pending \ {place})
  BY DEF PendingLink
<1>3. DOMAIN pending' = DOMAIN pending \ {place} /\ \A q \in DOMAIN pending' : pending'[q] = pending[q]
  BY <1>2 DEF Restrict
<1>4. PICK k \in DOMAIN archive :
        k < next /\ archive[k].type = "link" /\ NameOf(k) = place /\ pending[place] = SourceOf(k)
  BY DEF Placed, PutOff
<1>5. SourceOf(k) \in AllPlaces /\ NameOf(k) \in AllPlaces /\ NameOf(k) # << >>
  BY <1>1, <1>4, NamesAre
<1>6. /\ NoLinkAbove(tree, SourceOf(k))
      /\ \A n \in 0..(Len(NameOf(k)) - 1) : ~IsA(tree, Prefix(NameOf(k), n), "sym")
  BY <1>1, <1>4, WaysAreFree
<1>7. CASE finds
  <2>1. ResolveHardlink(SourceOf(k), NameOf(k))
    BY <1>2, <1>4, <1>7
  <2>2. /\ ~(NameOf(k) \in DOMAIN tree) /\ SourceOf(k) \in DOMAIN tree /\ tree[SourceOf(k)].type # "dir"
        /\ tree' = Put(tree, NameOf(k), tree[SourceOf(k)])
    BY <1>1, <1>5, <1>6, <2>1, ResolveHardlinkStraight
  <2>3. /\ \A q \in DOMAIN pending : q # NameOf(k) => q \in DOMAIN pending'
        /\ \A q \in DOMAIN pending' : q \in DOMAIN pending /\ pending'[q] = pending[q]
    BY <1>3, <1>4
  <2>4. k < next'
    BY <1>1, <1>4
  <2>. QED
    BY <1>1, <1>4, <2>2, <2>3, <2>4, LinkStepPlaces
<1>8. CASE ~finds
  <2>1. tree' = tree
    BY <1>2, <1>8
  <2>2. \A l : NameOf(l)' = NameOf(l) /\ SourceOf(l)' = SourceOf(l) /\ Reg(l)' = Reg(l)
    BY <1>1 DEF NameOf, SourceOf, Reg
  <2>3. \A i, j \in DOMAIN archive : NameOf(i) = NameOf(j) => i = j
    BY <1>1, NamesAre
\* A file of the archive would have been found.
  <2>4. ASSUME NEW j \in DOMAIN archive, archive[j].type = "reg", SourceOf(k) = NameOf(j) PROVE FALSE
    <3>1. j < next
      <4>1. DOMAIN archive = 1..Len(archive) /\ Len(archive) \in Nat
        BY <1>1, ArchivesAssumption, LenProperties DEF Types
      <4>. QED
        BY <4>1
    <3>2. NameOf(j) \in DOMAIN tree /\ tree[NameOf(j)] = Reg(j)
      BY <2>4, <3>1 DEF Placed, FilesThere
    <3>3. tree[SourceOf(k)].type = "reg"
      BY <2>4, <3>2 DEF Reg
    <3>4. StatFinds(SourceOf(k), finds) /\ SourceOf(k) \in DOMAIN tree
      BY <1>2, <1>4, <2>4, <3>2
    <3>5. finds
      BY <1>1, <1>5, <1>6, <3>3, <3>4, FileIsFound
    <3>. QED
      BY <1>8, <3>5
  <2>5. FilesNamed' /\ FilesThere' /\ PutOff'
    BY <1>1, <1>3, <2>1, <2>2 DEF Placed, FilesNamed, FilesThere, PutOff
  <2>6. LinksThere'
    <3>1. ASSUME NEW i \in DOMAIN archive, NEW j \in DOMAIN archive, i < next, archive[i].type = "link",
                 archive[j].type = "reg", SourceOf(i) = NameOf(j)
          PROVE  NameOf(i) \in DOMAIN pending' \/ (NameOf(i) \in DOMAIN tree /\ tree[NameOf(i)] = Reg(j))
      <4>1. NameOf(i) # place
        BY <1>4, <2>3, <2>4, <3>1
      <4>2. NameOf(i) \in DOMAIN pending \/ (NameOf(i) \in DOMAIN tree /\ tree[NameOf(i)] = Reg(j))
        BY <3>1 DEF Placed, LinksThere
      <4>. QED
        BY <1>3, <4>1, <4>2
    <3>. QED
      BY <1>1, <2>1, <2>2, <3>1 DEF LinksThere
  <2>. QED
    BY <2>5, <2>6 DEF Placed
<1>. QED
  BY <1>7, <1>8

LEMMA RestorePermPlaces ==
  ASSUME IInv, Placed, RestorePerm, pc' # "failed"
  PROVE  Placed'
<1>1. Types /\ archive' = archive /\ next' = next /\ pending' = pending
  BY DEF RestorePerm, Fail, IInv
<1>2. PICK w, mode :
        tree' = IF w.end = "at" /\ IsA(tree, w.at, "dir") THEN [tree EXCEPT ![w.at].mode = mode] ELSE tree
  BY DEF RestorePerm, Fail
<1>3. \A q \in DOMAIN tree : tree[q] \in Nodes
  BY <1>1 DEF Types, IsUnpacked
<1>4. /\ DOMAIN tree' = DOMAIN tree
      /\ \A q \in DOMAIN tree : tree'[q] = tree[q] \/ (tree[q].type = "dir" /\ tree'[q].type = "dir")
  <2>1. CASE w.end = "at" /\ IsA(tree, w.at, "dir")
    <3>1. tree' = [tree EXCEPT ![w.at] = [tree[w.at] EXCEPT !.mode = mode]]
      BY <1>2, <2>1
    <3>2. [tree[w.at] EXCEPT !.mode = mode].type = "dir"
      <4>1. tree[w.at] \in [type : {"dir"}, mode : SUBSET Full, from : Nat]
        BY <1>3, <2>1 DEF IsA, Nodes
      <4>. QED
        BY <4>1
    <3>. QED
      BY <2>1, <3>1, <3>2 DEF IsA
  <2>2. CASE ~(w.end = "at" /\ IsA(tree, w.at, "dir"))
    BY <1>2, <2>2
  <2>. QED
    BY <2>1, <2>2
<1>. QED
  BY <1>1, <1>4, DirStepPlaces

LEMMA QuietStepPlaces ==
  ASSUME IInv, Placed, UNCHANGED <<archive, next, tree, pending>>
  PROVE  Placed'
BY DirStepPlaces DEF IInv

LEMMA StepPlaces ==
  ASSUME IInv, HInv, [Next]_vars
  PROVE  HInv'
<1>1. archive' = archive
  BY DEF Next, vars, ReadError, Fail, UnpackDir, Skip, UnpackReg, UnpackSym, UnpackLink, EndOfArchive,
         PendingLink, EndOfLinks, RestorePerm, EndOfPerms, Finished
<1>2. SUFFICES ASSUME Straight, pc' # "failed" PROVE Placed' /\ AtEnd'
  BY <1>1, StraightStays DEF HInv
<1>3. /\ Placed /\ AtEnd /\ pc # "failed" /\ next \in 1..(Len(archive) + 1) /\ Len(archive) \in Nat
      /\ pc \in {"unpack", "links", "perms", "done"}
  <2>1. pc # "failed"
    BY <1>2 DEF Next, vars, ReadError, Fail, UnpackDir, Skip, UnpackReg, UnpackSym, UnpackLink, EndOfArchive,
                PendingLink, EndOfLinks, RestorePerm, EndOfPerms, Finished, Read
  <2>. QED
    BY <1>2, <2>1, ArchivesAssumption, LenProperties DEF HInv, IInv, Types
<1>4. pc = "unpack" /\ pc' = pc => AtEnd'
  BY DEF AtEnd
<1>5. CASE ReadError
  BY <1>2, <1>5 DEF ReadError, Fail
<1>6. CASE UnpackDir
  <2>1. pc = "unpack" /\ pc' = pc
    BY <1>6 DEF UnpackDir, Read, Skip
  <2>. QED
    BY <1>2, <1>3, <1>4, <1>6, <2>1, UnpackDirPlaces
<1>7. CASE UnpackReg
  <2>1. pc = "unpack" /\ pc' = pc
    BY <1>2, <1>7 DEF UnpackReg, Read, Fail
  <2>. QED
    BY <1>2, <1>3, <1>4, <1>7, <2>1, UnpackRegPlaces
<1>8. CASE UnpackSym
  <2>1. pc = "unpack" /\ pc' = pc
    BY <1>2, <1>8 DEF UnpackSym, Read, Fail
  <2>. QED
    BY <1>2, <1>3, <1>4, <1>8, <2>1, UnpackSymPlaces
<1>9. CASE UnpackLink
  <2>1. pc = "unpack" /\ pc' = pc
    BY <1>2, <1>9 DEF UnpackLink, ResolveHardlink, Read, Fail
  <2>. QED
    BY <1>2, <1>3, <1>4, <1>9, <2>1, UnpackLinkPlaces
<1>10. CASE EndOfArchive
  <2>1. AtEnd'
    BY <1>1, <1>3, <1>10 DEF EndOfArchive, AtEnd
  <2>2. UNCHANGED <<archive, next, tree, pending>>
    BY <1>10 DEF EndOfArchive
  <2>. QED
    BY <1>3, <2>1, <2>2, QuietStepPlaces
<1>11. CASE PendingLink
  <2>1. pc = "links" /\ pc' = pc /\ next' = next
    BY <1>2, <1>11 DEF PendingLink, ResolveHardlink
  <2>2. next = Len(archive) + 1 /\ AtEnd'
    BY <1>1, <1>3, <2>1 DEF AtEnd
  <2>. QED
    BY <1>2, <1>3, <1>11, <2>2, PendingLinkPlaces
<1>12. CASE EndOfLinks
  <2>1. AtEnd'
    BY <1>1, <1>3, <1>12 DEF EndOfLinks, AtEnd
  <2>2. UNCHANGED <<archive, next, tree, pending>>
    BY <1>12 DEF EndOfLinks
  <2>. QED
    BY <1>3, <2>1, <2>2, QuietStepPlaces
<1>13. CASE RestorePerm
  <2>1. AtEnd'
    BY <1>2, <1>3, <1>13 DEF RestorePerm, Fail, AtEnd
  <2>. QED
    BY <1>2, <1>3, <1>13, <2>1, RestorePermPlaces
<1>14. CASE EndOfPerms
  <2>1. AtEnd'
    BY <1>1, <1>3, <1>14 DEF EndOfPerms, AtEnd
  <2>2. UNCHANGED <<archive, next, tree, pending>>
    BY <1>14 DEF EndOfPerms
  <2>. QED
    BY <1>3, <2>1, <2>2, QuietStepPlaces
<1>15. CASE Finished \/ UNCHANGED vars
  <2>1. UNCHANGED <<archive, next, tree, pending, pc>>
    BY <1>15 DEF Finished, vars
  <2>2. AtEnd'
    BY <1>3, <2>1 DEF AtEnd
  <2>. QED
    BY <1>3, <2>1, <2>2, QuietStepPlaces
<1>. QED
  BY <1>5, <1>6, <1>7, <1>8, <1>9, <1>10, <1>11, <1>12, <1>13, <1>14, <1>15 DEF Next

LEMMA InitPlaces == Init => HInv
<1>1. SUFFICES ASSUME Init PROVE Placed /\ AtEnd
  BY DEF HInv
<1>2. /\ archive \in Seq(TarEntry) /\ DOMAIN archive = 1..Len(archive) /\ Len(archive) \in Nat /\ next = 1
      /\ DOMAIN pending = {} /\ pc = "unpack"
  BY <1>1, ArchivesAssumption, LenProperties DEF Init
<1>3. \A k \in DOMAIN archive : ~(k < next)
  BY <1>2
<1>4. FilesNamed
  <2>1. \A q \in DOMAIN tree : tree[q] = Dir(Full, 0)
    BY <1>1 DEF Init
  <2>. QED
    BY <2>1 DEF FilesNamed, Dir
<1>5. FilesThere /\ PutOff /\ LinksThere
  BY <1>2, <1>3 DEF FilesThere, PutOff, LinksThere
<1>6. AtEnd
  BY <1>2 DEF AtEnd
<1>. QED
  BY <1>4, <1>5, <1>6 DEF Placed

\* In whatever order an archive has a file and a hard link to it, and whatever
\* else it has where each name means its own place, the link is that file in the
\* end.
THEOREM HardLinksMade == Spec => []HardLinksAreMade
<1>1. IInv /\ HInv => HardLinksAreMade
  <2>1. SUFFICES ASSUME IInv, HInv, pc = "done", Straight, NEW i \in DOMAIN archive, NEW j \in DOMAIN archive,
                        IsEntry(i, "link"), IsEntry(j, "reg"), archive[i].link.parts = archive[j].name.parts,
                        NEW name \in {archive[i].name.parts, archive[j].name.parts}
                 PROVE  name \in DOMAIN tree /\ tree[name] = Reg(j)
    BY DEF HardLinksAreMade
  <2>2. Placed /\ next = Len(archive) + 1 /\ DOMAIN pending = {}
    BY <2>1 DEF HInv, AtEnd
  <2>3. i < next /\ j < next
    <3>1. DOMAIN archive = 1..Len(archive) /\ Len(archive) \in Nat
      BY <2>1, ArchivesAssumption, LenProperties DEF IInv, Types
    <3>. QED
      BY <2>2, <3>1
  <2>4. archive[i].type = "link" /\ archive[j].type = "reg" /\ SourceOf(i) = NameOf(j)
    BY <2>1 DEF IsEntry, SourceOf, NameOf
  <2>5. name \in {NameOf(i), NameOf(j)}
    BY <2>1 DEF NameOf
  <2>6. NameOf(j) \in DOMAIN tree /\ tree[NameOf(j)] = Reg(j)
    BY <2>2, <2>3, <2>4 DEF Placed, FilesThere
  <2>7. NameOf(i) \in DOMAIN tree /\ tree[NameOf(i)] = Reg(j)
    BY <2>2, <2>3, <2>4 DEF Placed, LinksThere
  <2>. QED
    BY <2>5, <2>6, <2>7
<1>2. IInv /\ HInv /\ [Next]_vars => HInv'
  BY StepPlaces
<1>. QED
  BY <1>1, <1>2, InitPlaces, Inductive, PTL DEF Spec

-----------------------------------------------------------------------------
(* A path is resolved to where a walk in the tree goes.                    *)

\* Every symbolic link was shipped: it is made once, or made again as a hard link.
LinksShipped ==
  \A q \in DOMAIN tree : tree[q].type = "sym" => \E k \in DOMAIN archive : tree[q].link = archive[k].link

NoNewLink ==
  \A q \in DOMAIN tree' : tree'[q].type = "sym" =>
    \E p \in DOMAIN tree : tree[p].type = "sym" /\ tree'[q].link = tree[p].link

LEMMA SameLinks ==
  ASSUME LinksShipped, archive' = archive, NoNewLink
  PROVE  LinksShipped'
BY DEF LinksShipped, NoNewLink

LEMMA ResolveHardlinkShips ==
  ASSUME IsUnpacked(tree), NEW source \in AllPlaces, NEW place, ResolveHardlink(source, place)
  PROVE  NoNewLink
<1>1. CASE ~CanLink(source, place)
  BY <1>1 DEF ResolveHardlink, NoNewLink
<1>2. CASE CanLink(source, place)
  <2>1. PICK from, child : /\ from = HostLink(source).at
                           /\ child = Append(OnHost(Front(place)).at, Last(place))
    OBVIOUS
  <2>2. tree' = Put(tree, child, tree[from])
    BY <1>2, <2>1 DEF ResolveHardlink
  <2>3. from \in DOMAIN tree
    <3>1. source \in Seq(Parts)
      BY SeqMonotonic DEF AllPlaces, Parts
    <3>. QED
      BY <2>1, <3>1, UnpackedIsTree, WalkTyped DEF HostLink
  <2>. QED
    BY <2>2, <2>3 DEF Put, NoNewLink
<1>. QED
  BY <1>1, <1>2

LEMMA StepShips ==
  ASSUME IInv, LinksShipped, [Next]_vars
  PROVE  LinksShipped'
<1>1. /\ archive' = archive /\ Types /\ IsUnpacked(tree)
      /\ \A q \in DOMAIN pending : pending[q] \in AllPlaces
  BY DEF IInv, Types, Next, vars, ReadError, Fail, UnpackDir, Skip, UnpackReg, UnpackSym, UnpackLink, EndOfArchive,
         PendingLink, EndOfLinks, RestorePerm, EndOfPerms, Finished
<1>2. CASE tree' = tree
  BY <1>1, <1>2, SameLinks DEF NoNewLink
<1>3. CASE UnpackDir
  <2>1. tree' = tree \/ tree' = MkdirAll(tree, Place, next)
    BY <1>3 DEF UnpackDir, Skip
  <2>2. NoNewLink
    BY <2>1 DEF MkdirAll, Dir, NoNewLink
  <2>. QED
    BY <1>1, <2>2, SameLinks
<1>4. CASE UnpackReg
  <2>1. PICK u, node, place : /\ u = MkdirAll(tree, Front(Place), 0) /\ node = Reg(next) /\ place = Place
                              /\ tree' = tree \/ tree' = Put(u, place, node)
    BY <1>4 DEF UnpackReg, Fail
  <2>2. \A q \in DOMAIN u : u[q].type = "sym" => q \in DOMAIN tree /\ u[q] = tree[q]
    BY <2>1 DEF MkdirAll, Dir
  <2>3. node.type # "sym"
    BY <2>1 DEF Reg
  <2>4. ASSUME tree' = Put(u, place, node) PROVE NoNewLink
    BY <2>2, <2>3, <2>4 DEF Put, NoNewLink
  <2>. QED
    BY <1>1, <1>2, <2>1, <2>4, SameLinks
<1>5. CASE UnpackSym
  <2>1. tree' = tree \/ tree' = Put(RemoveAll(tree, Place), Place, Sym(Entry.link, next))
    BY <1>5 DEF UnpackSym, Fail
  <2>2. next \in DOMAIN archive /\ Entry = archive[next]
    BY <1>1, <1>5, EntryRead DEF UnpackSym
  <2>3. \A q \in DOMAIN tree' : \/ q \in DOMAIN tree /\ tree'[q] = tree[q]
                                \/ tree'[q] = Sym(archive[next].link, next)
    BY <2>1, <2>2 DEF Put, RemoveAll, Restrict
  <2>4. Sym(archive[next].link, next).link = archive[next].link
    BY DEF Sym
  <2>. QED
    BY <1>1, <2>2, <2>3, <2>4 DEF LinksShipped
<1>6. CASE UnpackLink
  <2>1. PICK source : source = ResolvePathInRoot(tree, Entry.link, FALSE)
    OBVIOUS
  <2>2. tree' = tree \/ (source.ok /\ ResolveHardlink(source.place, Place))
    BY <1>6, <2>1 DEF UnpackLink, Fail
  <2>3. Entry.link \in Path
    BY <1>1, <1>6, EntryRead DEF UnpackLink, TarEntry
  <2>4. source.ok => source.place \in AllPlaces
    <3>1. << >> \in AllPlaces /\ AllPlaces \in Kinds /\ LinksTyped(tree)
      BY <1>1, NodesTyped, EmptySeq DEF Kinds, AllPlaces
    <3>2. RootPathParts(<< >>, Entry.link) \in ResolvedTo(AllPlaces)
      BY <2>3, <3>1, RootPathResolves
    <3>. QED
      BY <2>1, <2>3, <3>1, <3>2, PathResolves
  <2>5. tree' = tree \/ NoNewLink
    BY <1>1, <2>2, <2>4, ResolveHardlinkShips
  <2>. QED
    BY <1>1, <1>2, <2>5, SameLinks
<1>7. CASE PendingLink
  <2>1. tree' = tree \/ \E place \in DOMAIN pending : ResolveHardlink(pending[place], place)
    BY <1>7 DEF PendingLink
  <2>2. tree' = tree \/ NoNewLink
    BY <1>1, <2>1, ResolveHardlinkShips
  <2>. QED
    BY <1>1, <1>2, <2>2, SameLinks
<1>8. CASE RestorePerm
  <2>1. PICK w, mode :
          tree' = IF w.end = "at" /\ IsA(tree, w.at, "dir") THEN [tree EXCEPT ![w.at].mode = mode] ELSE tree
    BY <1>8 DEF RestorePerm, Fail
  <2>2. CASE w.end = "at" /\ IsA(tree, w.at, "dir")
    <3>1. tree' = [tree EXCEPT ![w.at] = [tree[w.at] EXCEPT !.mode = mode]]
      BY <2>1, <2>2
    <3>2. [tree[w.at] EXCEPT !.mode = mode].type = "dir"
      <4>1. tree[w.at] \in [type : {"dir"}, mode : SUBSET Full, from : Nat]
        BY <1>1, <2>2 DEF IsUnpacked, IsA, Nodes
      <4>. QED
        BY <4>1
    <3>3. NoNewLink
      BY <3>1, <3>2 DEF NoNewLink
    <3>. QED
      BY <1>1, <3>3, SameLinks
  <2>3. CASE ~(w.end = "at" /\ IsA(tree, w.at, "dir"))
    BY <1>2, <2>1, <2>3
  <2>. QED
    BY <2>2, <2>3
<1>9. CASE ReadError \/ EndOfArchive \/ EndOfLinks \/ EndOfPerms \/ Finished \/ UNCHANGED vars
  <2>1. tree' = tree
    BY <1>9 DEF ReadError, Fail, EndOfArchive, EndOfLinks, EndOfPerms, Finished, vars
  <2>. QED
    BY <1>2, <2>1
<1>. QED
  BY <1>3, <1>4, <1>5, <1>6, <1>7, <1>8, <1>9 DEF Next

\* Wherever the resolution of a path leads, the kernel would go, and the other
\* way round, whatever links were unpacked before.
THEOREM ResolvedAsWalked == Spec => []ResolutionIsWalk
<1>1. ASSUME IInv, LinksShipped, \A q \in Links : Plain(tree[q].link),
             NEW i \in DOMAIN archive, NEW followFinal \in BOOLEAN, NEW path, path = archive[i].name, Plain(path),
             NEW r, r = ResolvePathInRoot(tree, path, followFinal),
             NEW w, w = Walk(tree, path.parts, followFinal, TRUE, Fuel)
      PROVE  EndTogether(tree, path, followFinal, r, w)
  <2>1. Types /\ IsUnpacked(tree) /\ archive \in Archives /\ archive \in Seq(TarEntry)
    BY <1>1, ArchivesAssumption DEF IInv, Types
  <2>2. Reach \in Nat /\ (MaxLinks + 1) * Reach < Fuel
    BY ReachIs
  <2>3. \A k \in DOMAIN archive : Len(archive[k].name.parts) <= Reach /\ Len(archive[k].link.parts) <= Reach
    BY <2>1, ReachAssumption
  <2>4. path \in Path
    <3>1. DOMAIN archive = 1..Len(archive)
      BY <2>1, LenProperties
    <3>2. archive[i] \in TarEntry
      BY <2>1, <3>1, ElementOfSeq
    <3>. QED
      BY <1>1, <3>2 DEF TarEntry
  <2>5. PlainLinks(tree, Reach)
    BY <1>1, <2>3 DEF PlainLinks, Links, LinksShipped
  <2>6. IsTree(tree) /\ Len(path.parts) <= Reach
    BY <1>1, <2>1, <2>3, UnpackedIsTree
  <2>. QED
    BY <1>1, <2>2, <2>3, <2>4, <2>5, <2>6, EndsTogether
<1>2. IInv /\ LinksShipped => ResolutionIsWalk
  <2>1. SUFFICES ASSUME IInv, LinksShipped, \A q \in Links : Plain(tree[q].link),
                        NEW i \in DOMAIN archive, NEW followFinal \in BOOLEAN
                 PROVE  LET path == archive[i].name
                            r    == ResolvePathInRoot(tree, path, followFinal)
                            w    == Walk(tree, path.parts, followFinal, TRUE, Fuel)
                        IN Plain(path) =>
                             /\ r.ok /\ r.place \in DOMAIN tree => w.end = "at" /\ w.at = r.place
                             /\ w.end = "at" /\ ~HasUp(path) /\ (\A q \in Links : StaysInside(tree, q)) =>
                                  r = Found(w.at) \/ LinksLeft(tree, path, followFinal)
    BY DEF ResolutionIsWalk
  <2>2. PICK path, r, w : /\ path = archive[i].name /\ r = ResolvePathInRoot(tree, path, followFinal)
                          /\ w = Walk(tree, path.parts, followFinal, TRUE, Fuel)
    OBVIOUS
  <2>3. ASSUME Plain(path) PROVE EndTogether(tree, path, followFinal, r, w)
    BY <1>1, <2>1, <2>2, <2>3
  <2>. QED
    BY <2>2, <2>3 DEF EndTogether, Inside, Links
<1>3. Init => LinksShipped
  BY DEF Init, LinksShipped, Dir
<1>4. IInv /\ LinksShipped /\ [Next]_vars => LinksShipped'
  BY StepShips
<1>. QED
  BY <1>2, <1>3, <1>4, Inductive, PTL DEF Spec
=============================================================================
