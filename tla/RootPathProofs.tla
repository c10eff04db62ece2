--------------------------- MODULE RootPathProofs ---------------------------
(***************************************************************************)
(* Proofs about RootPath: what a path is cleaned and resolved to, for any  *)
(* tree, any names and any number of links that are followed, and that it  *)
(* is where the walk of the kernel goes (OnTheWay).                        *)
(***************************************************************************)
EXTENDS RootPath, IterationProofs

Parts == Names \union {".."}

\* What a path may be resolved to, when it is to a place in set.
ResolvedTo(set) == {Refused} \union {Found(place) : place \in set}

-----------------------------------------------------------------------------
(* Paths.                                                                  *)

\* A path that ends in a name does so when it was cleaned.
EndsNamed(parts) == parts # << >> /\ Last(parts) # ".."

\* What is left of ".." is at the front, and only in a relative path.
UpsFirst(parts, abs) ==
  \A j \in 1..Len(parts) : parts[j] = ".." => ~abs /\ \A i \in 1..j : parts[i] = ".."

LEMMA CleanParts ==
  ASSUME NEW path \in Path
  PROVE  /\ Clean(path) \in Seq(Parts) /\ UpsFirst(Clean(path), path.abs)
         /\ EndsNamed(path.parts) => EndsNamed(Clean(path))
<1>. DEFINE S == {parts \in Seq(Parts) : UpsFirst(parts, path.abs)}
            n == Len(path.parts)
            Step(parts, i) == CASE path.parts[i] # ".." -> Append(parts, path.parts[i])
                                [] path.parts[i] = ".." /\ parts # << >> /\ Last(parts) # ".." -> Front(parts)
                                [] OTHER -> IF path.abs THEN parts ELSE Append(parts, path.parts[i])
            F(f) == [i \in 0..n |-> IF i = 0 THEN << >> ELSE CHOOSE y \in {Step(z, i) : z \in {f[i - 1]}} : TRUE]
            after == CHOOSE f : f = F(f)
<1>1. Clean(path) = after[n]
  BY DEF Clean, Iterate
<1>2. path.parts \in Seq(Parts) /\ n \in Nat /\ DOMAIN path.parts = 1..n
  BY LenProperties DEF Path, Parts
<1>3. \A y \in S, i \in 1..n : Step(y, i) \in S
  <2>1. SUFFICES ASSUME NEW y \in S, NEW i \in 1..n PROVE Step(y, i) \in S
    OBVIOUS
  <2>2. path.parts[i] \in Parts
    BY <1>2, ElementOfSeq
  <2>3. y \in Seq(Parts) /\ UpsFirst(y, path.abs) /\ Len(y) \in Nat
    BY LenProperties
  <2>4. PICK z : z = Append(y, path.parts[i])
    OBVIOUS
  <2>5. /\ z \in Seq(Parts) /\ Len(z) = Len(y) + 1 /\ z[Len(y) + 1] = path.parts[i]
        /\ \A j \in 1..Len(y) : z[j] = y[j]
    BY <2>2, <2>3, <2>4, AppendProperties
  <2>6. ASSUME path.parts[i] # ".." PROVE z \in S
    BY <2>3, <2>5, <2>6 DEF UpsFirst
  <2>7. ASSUME ~path.abs, y = << >> \/ Last(y) = ".." PROVE z \in S
    <3>1. \A j \in 1..Len(y) : y[j] = ".."
      <4>1. CASE y = << >>
        BY <2>3, <4>1, EmptySeq
      <4>2. CASE y # << >> /\ Last(y) = ".."
        <5>1. Len(y) \in 1..Len(y)
          BY <2>3, <4>2, EmptySeq
        <5>. QED
          BY <2>3, <4>2, <5>1 DEF UpsFirst, Last
      <4>. QED
        BY <2>7, <4>1, <4>2
    <3>2. \A k \in 1..Len(z) : z[k] = ".." => \A j \in 1..k : z[j] = ".."
      BY <2>3, <2>5, <3>1
    <3>. QED
      BY <2>5, <2>7, <3>2 DEF UpsFirst
  <2>8. ASSUME y # << >> PROVE Front(y) \in S
    <3>1. PICK f : f = Front(y)
      OBVIOUS
    <3>2. Len(y) > 0 /\ \A j \in 1..Len(y) : y[j] \in Parts
      BY <2>3, <2>8, EmptySeq, ElementOfSeq
    <3>3. f \in Seq(Parts) /\ Len(f) = Len(y) - 1 /\ \A j \in 1..(Len(y) - 1) : f[j] = y[j]
      <4>1. PICK m : m = Len(y) - 1
        OBVIOUS
      <4>2. 1 \in Int /\ m \in Int /\ 1 <= m + 1 /\ \A j \in 1..m : y[j] \in Parts
        BY <2>3, <3>2, <4>1
      <4>3. f = SubSeq(y, 1, m)
        BY <3>1, <4>1 DEF Front
      <4>4. /\ f \in Seq(Parts) /\ Len(f) = IF 1 <= m THEN m - 1 + 1 ELSE 0
            /\ \A j \in 1..(m - 1 + 1) : f[j] = y[1 + j - 1]
        BY ONLY <4>2, <4>3, SubSeqProperties
      <4>. QED
        BY <4>1, <4>2, <4>4
    <3>4. \A j \in 1..Len(f) : j \in 1..Len(y) /\ f[j] = y[j] /\ \A k \in 1..j : f[k] = y[k]
      BY <2>3, <3>3
    <3>. QED
      BY <2>3, <3>1, <3>3, <3>4 DEF UpsFirst
  <2>. QED
    BY <2>1, <2>4, <2>6, <2>7, <2>8
<1>4. \A y \in S : EndsNamed(path.parts) => n # 0 /\ EndsNamed(Step(y, n))
  <2>1. SUFFICES ASSUME NEW y \in S, EndsNamed(path.parts) PROVE n # 0 /\ EndsNamed(Step(y, n))
    OBVIOUS
  <2>2. n \in 1..n
    BY <1>2, <2>1, EmptySeq DEF EndsNamed
  <2>3. path.parts[n] \in Parts /\ path.parts[n] # ".." /\ Step(y, n) = Append(y, path.parts[n]) /\ y \in Seq(Parts)
    BY <1>2, <2>1, <2>2, ElementOfSeq DEF EndsNamed, Last
  <2>. QED
    BY <2>2, <2>3, AppendProperties DEF EndsNamed, Last
<1>. HIDE DEF n, Step
<1>5. PICK G : G = [i \in 1..n |-> [y \in S |-> Step(y, i)]]
  OBVIOUS
<1>6. << >> \in S /\ G \in [1..n -> [S -> S]] /\ \A y \in S, i \in 1..n : G[i][y] = Step(y, i)
  <2>1. << >> \in S
    BY EmptySeq DEF UpsFirst
  <2>. HIDE DEF S
  <2>. QED
    BY <1>3, <1>5, <2>1
<1>. HIDE DEF S
<1>7. \A f, i : (CHOOSE y \in {Step(z, i) : z \in {f[i - 1]}} : TRUE) = Step(f[i - 1], i)
  OBVIOUS
<1>8. after = F(after)
  <2>1. PICK f \in [0..n -> S] : Follows(f, << >>, n, G)
    BY <1>2, <1>6, LoopExists
  <2>2. \A i \in 1..n : f[i - 1] \in S /\ f[i] = Step(f[i - 1], i)
    BY <1>2, <1>6, <2>1 DEF Follows
  <2>3. \A i \in 0..n : f[i] = F(f)[i]
    BY <1>2, <1>7, <2>1, <2>2 DEF Follows
  <2>4. f = F(f)
    BY <2>1, <2>3
  <2>. QED
    BY <2>4
<1>. HIDE DEF after
<1>9. after[0] = << >> /\ \A i \in 1..n : after[i] = Step(after[i - 1], i)
  BY <1>2, <1>7, <1>8
<1>10. FollowsIn(after, << >>, n, G, S)
  BY <1>6, <1>9 DEF FollowsIn
<1>11. \A k \in 0..n : after[k] \in S
  BY <1>2, <1>6, <1>10, LoopStays
<1>. QED
  <2>1. after[n] \in S
    BY <1>2, <1>11
  <2>2. EndsNamed(path.parts) => EndsNamed(after[n])
    <3>1. SUFFICES ASSUME EndsNamed(path.parts) PROVE EndsNamed(after[n])
      OBVIOUS
    <3>2. n # 0 /\ \A y \in S : EndsNamed(Step(y, n))
      BY <1>4, <1>6, <3>1
    <3>3. n - 1 \in 0..n /\ n \in 1..n
      BY <1>2, <3>2
    <3>4. after[n - 1] \in S /\ after[n] = Step(after[n - 1], n)
      BY <1>9, <1>11, <3>3
    <3>. QED
      BY <3>2, <3>4
  <2>. QED
    BY <1>1, <2>1, <2>2 DEF S

\* A path that ends in a name is not resolved to the top.
LEMMA RootPathResolves ==
  ASSUME NEW base \in AllPlaces, NEW path \in Path
  PROVE  /\ RootPathParts(base, path) \in ResolvedTo(AllPlaces)
         /\ EndsNamed(path.parts) => RootPathParts(base, path) \in ResolvedTo(AllPlaces \ {<< >>})
<1>. DEFINE S == ResolvedTo(AllPlaces)
            x == Found(IF path.abs THEN << >> ELSE base)
            Step(parts, r, i) == CASE ~r.ok -> r
                                   [] r.ok /\ parts[i] # ".." -> Found(Append(r.place, parts[i]))
                                   [] OTHER -> IF r.place = << >> THEN Refused ELSE Found(Front(r.place))
            F(parts, f) == [i \in 0..Len(parts) |->
                              IF i = 0 THEN x ELSE CHOOSE y \in {Step(parts, z, i) : z \in {f[i - 1]}} : TRUE]
            After(parts) == (CHOOSE f : f = F(parts, f))[Len(parts)]
<1>1. RootPathParts(base, path) = CHOOSE y \in {After(z) : z \in {Clean(path)}} : TRUE
  BY DEF RootPathParts, With, Iterate
<1>. HIDE DEF After
<1>2. RootPathParts(base, path) = After(Clean(path))
  BY <1>1
<1>3. PICK parts : parts = Clean(path)
  OBVIOUS
<1>. DEFINE n == Len(parts)
            after == CHOOSE f : f = F(parts, f)
<1>4. parts \in Seq(Parts) /\ n \in Nat /\ DOMAIN parts = 1..n /\ (EndsNamed(path.parts) => EndsNamed(parts))
  BY <1>3, CleanParts, LenProperties
<1>5. RootPathParts(base, path) = after[n]
  BY <1>2, <1>3 DEF After
<1>6. x \in S
  BY EmptySeq DEF ResolvedTo, AllPlaces
<1>7. \A y \in S : y = Refused \/ \E place \in AllPlaces : y = Found(place) /\ y.ok /\ y.place = place
  BY DEF ResolvedTo, Found
<1>8. \A y \in S, i \in 1..n : Step(parts, y, i) \in S
  <2>1. SUFFICES ASSUME NEW y \in S, NEW i \in 1..n PROVE Step(parts, y, i) \in S
    OBVIOUS
  <2>2. CASE y = Refused
    BY <2>2 DEF Refused
  <2>3. ASSUME NEW place \in AllPlaces, y = Found(place), y.ok, y.place = place PROVE Step(parts, y, i) \in S
    <3>1. parts[i] # ".." => Append(place, parts[i]) \in AllPlaces
      BY <1>4, ElementOfSeq, AppendProperties DEF Parts, AllPlaces
    <3>2. place # << >> => Front(place) \in AllPlaces
      BY LenProperties, EmptySeq, SubSeqProperties DEF Front, AllPlaces
    <3>. QED
      BY <2>3, <3>1, <3>2 DEF ResolvedTo
  <2>. QED
    BY <1>7, <2>2, <2>3
<1>9. EndsNamed(parts) => n \in 1..n /\ \A y \in S : Step(parts, y, n) \in ResolvedTo(AllPlaces \ {<< >>})
  <2>1. SUFFICES ASSUME EndsNamed(parts), NEW y \in S
                 PROVE  n \in 1..n /\ Step(parts, y, n) \in ResolvedTo(AllPlaces \ {<< >>})
    BY <1>6
  <2>2. n \in 1..n
    BY <1>4, <2>1, EmptySeq DEF EndsNamed
  <2>3. parts[n] \in Names /\ parts[n] # ".."
    BY <1>4, <2>1, <2>2, ElementOfSeq DEF EndsNamed, Last, Parts
  <2>4. CASE y = Refused
    BY <2>2, <2>4 DEF Refused, ResolvedTo
  <2>5. ASSUME NEW place \in AllPlaces, y = Found(place), y.ok, y.place = place
        PROVE  Step(parts, y, n) \in ResolvedTo(AllPlaces \ {<< >>})
    <3>1. Append(place, parts[n]) \in AllPlaces \ {<< >>}
      BY <2>3, AppendProperties DEF AllPlaces
    <3>. QED
      BY <2>3, <2>5, <3>1 DEF ResolvedTo
  <2>. QED
    BY <1>7, <2>2, <2>4, <2>5
<1>. HIDE DEF n, Step, x
<1>10. PICK G : G = [i \in 1..n |-> [y \in S |-> Step(parts, y, i)]]
  OBVIOUS
<1>11. G \in [1..n -> [S -> S]] /\ \A y \in S, i \in 1..n : G[i][y] = Step(parts, y, i)
  BY <1>8, <1>10
<1>. HIDE DEF S
<1>12. \A f, i : (CHOOSE y \in {Step(parts, z, i) : z \in {f[i - 1]}} : TRUE) = Step(parts, f[i - 1], i)
  OBVIOUS
<1>13. after = F(parts, after)
  <2>1. PICK f \in [0..n -> S] : Follows(f, x, n, G)
    BY <1>4, <1>6, <1>11, LoopExists
  <2>2. \A i \in 1..n : f[i - 1] \in S /\ f[i] = Step(parts, f[i - 1], i)
    BY <1>4, <1>11, <2>1 DEF Follows
  <2>3. \A i \in 0..n : f[i] = F(parts, f)[i]
    BY <1>4, <1>12, <2>1, <2>2 DEF Follows, n
  <2>4. f = F(parts, f)
    BY <2>1, <2>3 DEF n
  <2>. QED
    BY <2>4
<1>. HIDE DEF after
<1>14. after[0] = x /\ \A i \in 1..n : after[i] = Step(parts, after[i - 1], i)
  BY <1>4, <1>12, <1>13 DEF n
<1>15. FollowsIn(after, x, n, G, S)
  BY <1>11, <1>14 DEF FollowsIn
<1>16. \A k \in 0..n : after[k] \in S
  BY <1>4, <1>6, <1>11, <1>15, LoopStays
<1>17. ASSUME EndsNamed(parts) PROVE after[n] \in ResolvedTo(AllPlaces \ {<< >>})
  <2>1. n \in 1..n /\ n - 1 \in 0..n
    BY <1>4, <1>9, <1>17
  <2>2. after[n - 1] \in S /\ after[n] = Step(parts, after[n - 1], n)
    BY <1>14, <1>16, <2>1
  <2>. QED
    BY <1>9, <1>17, <2>2
<1>. QED
  BY <1>4, <1>5, <1>16, <1>17 DEF S

LinksTyped(t) == \A q \in DOMAIN t : t[q].type = "sym" => t[q].link \in Path

\* The places that are kept to by going around the loop: all, or all but the top.
Kinds == {AllPlaces, AllPlaces \ {<< >>}}

\* The first of the links and files on the way.
LEMMA FirstStop ==
  ASSUME NEW t, NEW place \in AllPlaces, NEW followFinal \in BOOLEAN, Stops(t, place, followFinal) # {}
  PROVE  LET i == Min(Stops(t, place, followFinal))
         IN /\ i \in Stops(t, place, followFinal) /\ i \in 1..Len(place) /\ (~followFinal => i # Len(place))
            /\ \A k \in Stops(t, place, followFinal) : i <= k
<1>. DEFINE T == Stops(t, place, followFinal)
<1>1. Len(place) \in Nat
  BY LenProperties DEF AllPlaces
<1>2. \A i \in T : i \in 1..Len(place) /\ (~followFinal => i # Len(place))
  BY <1>1 DEF Stops
<1>3. T # {}
  OBVIOUS
<1>. HIDE DEF T
<1>4. T \subseteq Nat
  BY <1>1, <1>2
<1>5. \E m \in T : \A k \in T : m <= k
  BY <1>3, <1>4, LeastOf
<1>6. Min(T) \in T /\ \A k \in T : Min(T) <= k
  BY <1>5 DEF Min
<1>. QED
  BY <1>2, <1>6 DEF T

LEMMA AroundStays ==
  ASSUME NEW t, LinksTyped(t), NEW kind \in Kinds, NEW r \in ResolvedTo(kind),
         NEW followFinal \in BOOLEAN, followFinal => kind = AllPlaces
  PROVE  Around(t, r, followFinal) \in ResolvedTo(kind)
<1>1. SUFFICES ASSUME NEW place \in kind, r = Found(place), r.ok, r.place = place, Stops(t, place, followFinal) # {}
               PROVE  Around(t, r, followFinal) \in ResolvedTo(kind)
  <2>1. ~Refused.ok /\ \A place : Found(place).ok /\ Found(place).place = place
    BY DEF Refused, Found
  <2>2. ~r.ok \/ Stops(t, r.place, followFinal) = {} => Around(t, r, followFinal) = r
    BY DEF Around
  <2>. QED
    BY <2>1, <2>2 DEF ResolvedTo
<1>2. place \in AllPlaces /\ place \in Seq(Names) /\ Len(place) \in Nat
  BY LenProperties DEF Kinds, AllPlaces
<1>3. PICK i : i = Min(Stops(t, place, followFinal))
  OBVIOUS
<1>4. i \in 1..Len(place) /\ (kind # AllPlaces => i # Len(place))
  BY <1>1, <1>2, <1>3, FirstStop
<1>5. Around(t, r, followFinal) = FollowLink(t, place, i)
  BY <1>1, <1>3 DEF Around
<1>6. SUFFICES ASSUME IsA(t, Prefix(place, i), "sym")
               PROVE  FollowLink(t, place, i) \in ResolvedTo(kind)
  BY <1>5 DEF FollowLink, ResolvedTo
<1>7. PICK link : link = t[Prefix(place, i)].link
  OBVIOUS
<1>8. link \in Path
  BY <1>6, <1>7 DEF LinksTyped, IsA
<1>9. PICK above, rest : above = Prefix(place, i - 1) /\ rest = SubSeq(place, i + 1, Len(place))
  OBVIOUS
<1>10. above \in AllPlaces /\ rest \in Seq(Names) /\ (kind # AllPlaces => Len(rest) > 0)
  <2>1. \A k \in 1..Len(place) : place[k] \in Names
    BY <1>2, ElementOfSeq
  <2>2. above \in AllPlaces
    <3>1. i - 1 \in Int /\ \A k \in 1..(i - 1) : place[k] \in Names
      BY <1>2, <1>4, <2>1
    <3>. QED
      BY <1>9, <3>1, SubSeqProperties DEF Prefix, AllPlaces
  <2>3. rest \in Seq(Names) /\ Len(rest) = Len(place) - (i + 1) + 1
    <3>1. i + 1 \in Int /\ i + 1 <= Len(place) + 1 /\ \A k \in (i + 1)..Len(place) : place[k] \in Names
      BY <1>2, <1>4, <2>1
    <3>. QED
      BY <1>2, <1>9, <3>1, SubSeqProperties
  <2>. QED
    BY <1>2, <1>4, <2>2, <2>3
<1>11. PICK to : to = RootPathParts(above, link)
  OBVIOUS
<1>12. to \in ResolvedTo(AllPlaces)
  BY <1>8, <1>10, <1>11, RootPathResolves
<1>13. FollowLink(t, place, i) = Below(to, rest)
  BY <1>6, <1>7, <1>9, <1>11 DEF FollowLink
<1>14. ASSUME NEW q \in AllPlaces PROVE q \o rest \in kind
  <2>1. q \o rest \in Seq(Names) /\ (kind # AllPlaces => q \o rest # << >>)
    BY <1>10, <1>14, ConcatProperties, EmptySeq DEF AllPlaces
  <2>. QED
    BY <2>1 DEF Kinds, AllPlaces
<1>15. CASE to = Refused
  BY <1>13, <1>15 DEF Below, ResolvedTo, Refused
<1>16. ASSUME NEW q \in AllPlaces, to = Found(q) PROVE FollowLink(t, place, i) = Found(q \o rest)
  BY <1>13, <1>16 DEF Below, Found
<1>. QED
  BY <1>12, <1>14, <1>15, <1>16 DEF ResolvedTo

\* A path is resolved to what the loop keeps to, and no link or file is above it.
LEMMA LoopResolves ==
  ASSUME NEW t, NEW path, NEW kind, RootPathParts(<< >>, path) \in ResolvedTo(kind),
         \A r \in ResolvedTo(kind) : Around(t, r, FALSE) \in ResolvedTo(kind),
         ResolvePathInRoot(t, path, FALSE).ok
  PROVE  LET place == ResolvePathInRoot(t, path, FALSE).place
         IN place \in kind /\ Stops(t, place, FALSE) = {}
<1>. DEFINE S == ResolvedTo(kind)
            n == MaxLinks
            x == RootPathParts(<< >>, path)
            Step(r, i) == Around(t, r, FALSE)
            F(f) == [i \in 0..n |-> IF i = 0 THEN x ELSE CHOOSE y \in {Step(z, i) : z \in {f[i - 1]}} : TRUE]
            after == CHOOSE f : f = F(f)
            End(r) == IF r.ok /\ Stops(t, r.place, FALSE) # {} THEN Refused ELSE r
<1>1. ResolvePathInRoot(t, path, FALSE) = CHOOSE y \in {End(z) : z \in {after[n]}} : TRUE
  BY DEF ResolvePathInRoot, Rounds, With, Iterate
<1>. HIDE DEF after, End
<1>2. ResolvePathInRoot(t, path, FALSE) = End(after[n])
  BY <1>1
<1>. USE DEF after
<1>3. n \in Nat /\ x \in S
  BY MaxLinksAssumption
<1>4. \A y \in S, i \in 1..n : Step(y, i) \in S
  OBVIOUS
<1>. HIDE DEF n, Step, x
<1>5. PICK G : G = [i \in 1..n |-> [y \in S |-> Step(y, i)]]
  OBVIOUS
<1>. HIDE DEF S
<1>6. G \in [1..n -> [S -> S]] /\ \A y \in S, i \in 1..n : G[i][y] = Step(y, i)
  BY <1>4, <1>5
<1>7. \A f, i : (CHOOSE y \in {Step(z, i) : z \in {f[i - 1]}} : TRUE) = Step(f[i - 1], i)
  OBVIOUS
<1>8. after = F(after)
  <2>1. PICK f \in [0..n -> S] : Follows(f, x, n, G)
    BY <1>3, <1>6, LoopExists
  <2>2. \A i \in 1..n : f[i - 1] \in S /\ f[i] = Step(f[i - 1], i)
    BY <1>3, <1>6, <2>1 DEF Follows
  <2>3. \A i \in 0..n : f[i] = F(f)[i]
    BY <1>3, <1>7, <2>1, <2>2 DEF Follows
  <2>4. f = F(f)
    BY <2>1, <2>3
  <2>. QED
    BY <2>4
<1>. HIDE DEF after
<1>9. after[0] = x /\ \A i \in 1..n : after[i] = Step(after[i - 1], i)
  BY <1>3, <1>7, <1>8
<1>10. FollowsIn(after, x, n, G, S)
  BY <1>6, <1>9 DEF FollowsIn
<1>11. \A k \in 0..n : after[k] \in S
  BY <1>3, <1>6, <1>10, LoopStays
<1>12. PICK r : r = after[n]
  OBVIOUS
<1>13. r \in S /\ ResolvePathInRoot(t, path, FALSE) = End(r)
  <2>1. after[n] \in S
    BY <1>3, <1>11
  <2>. QED
    BY <1>2, <1>12, <2>1
<1>14. r = Refused \/ \E place \in kind : r.ok /\ r.place = place
  BY <1>13 DEF S, ResolvedTo, Found
<1>15. ~Refused.ok
  BY DEF Refused
<1>. QED
  BY <1>13, <1>14, <1>15 DEF End

LEMMA PathResolves ==
  ASSUME NEW t, LinksTyped(t), NEW path \in Path,
         NEW kind \in Kinds, RootPathParts(<< >>, path) \in ResolvedTo(kind),
         ResolvePathInRoot(t, path, FALSE).ok
  PROVE  LET place == ResolvePathInRoot(t, path, FALSE).place
         IN place \in kind /\ Stops(t, place, FALSE) = {}
<1>1. \A r \in ResolvedTo(kind) : Around(t, r, FALSE) \in ResolvedTo(kind)
  <2>1. FALSE \in BOOLEAN
    OBVIOUS
  <2>. QED
    BY <2>1, AroundStays
<1>. QED
  BY <1>1, LoopResolves

-----------------------------------------------------------------------------
(* Trees.                                                                  *)

LEMMA NodeTypes ==
  ASSUME NEW t, IsTree(t)
  PROVE  LinksTyped(t) /\ \A q \in DOMAIN t : t[q].type \in {"dir", "reg", "sym"}
BY DEF IsTree, LinksTyped

LEMMA PrefixesOf ==
  ASSUME NEW place \in AllPlaces
  PROVE  /\ Len(place) \in Nat /\ (place # << >> => Len(place) > 0 /\ Front(place) = Prefix(place, Len(place) - 1))
         /\ Prefix(place, 0) = << >> /\ Prefix(place, Len(place)) = place
         /\ \A n \in 0..Len(place) : Prefix(place, n) \in AllPlaces /\ Len(Prefix(place, n)) = n
         /\ \A n \in 1..Len(place) : Prefix(place, n) # << >> /\ Front(Prefix(place, n)) = Prefix(place, n - 1)
<1>. USE DEF Prefix, Front, AllPlaces
<1>1. Len(place) \in Nat /\ (place # << >> => Len(place) > 0)
  BY LenProperties, EmptySeq
<1>2. ASSUME NEW n \in 0..Len(place)
      PROVE  /\ Prefix(place, n) \in Seq(Names) /\ Len(Prefix(place, n)) = n
             /\ \A i \in 1..n : Prefix(place, n)[i] = place[i]
  <2>1. n \in Int /\ \A i \in 1..n : place[i] \in Names
    BY <1>1, ElementOfSeq
  <2>. QED
    BY <2>1, SubSeqProperties
<1>3. Prefix(place, 0) = << >> /\ Prefix(place, Len(place)) = place
  BY SubSeqEmpty, SubSeqFull
<1>4. ASSUME NEW n \in 1..Len(place)
      PROVE  Prefix(place, n) # << >> /\ Front(Prefix(place, n)) = Prefix(place, n - 1)
  <2>. DEFINE p == Prefix(place, n)
  <2>1. p \in Seq(Names) /\ Len(p) = n /\ \A i \in 1..n : p[i] = place[i]
    BY <1>1, <1>2
  <2>2. p # << >>
    BY <1>1, <2>1, EmptySeq
  <2>. HIDE DEF p
  <2>3. /\ Front(p) \in Seq(Names) /\ Len(Front(p)) = n - 1
        /\ \A i \in 1..(n - 1) : Front(p)[i] = place[i]
    <3>1. 1 \in Int /\ n - 1 \in Int /\ \A i \in 1..(n - 1) : p[i] \in Names
      BY <1>1, <2>1, ElementOfSeq
    <3>. QED
      BY <1>1, <2>1, <3>1, SubSeqProperties
  <2>4. n - 1 \in 0..Len(place)
    BY <1>1
  <2>5. /\ Prefix(place, n - 1) \in Seq(Names) /\ Len(Prefix(place, n - 1)) = n - 1
        /\ \A i \in 1..(n - 1) : Prefix(place, n - 1)[i] = place[i]
    BY <1>2, <2>4
  <2>. HIDE DEF Prefix, Front
  <2>6. Front(p) = Prefix(place, n - 1)
    BY <2>3, <2>5, SeqEqual
  <2>. QED
    BY <2>2, <2>6 DEF p
<1>5. Front(Prefix(place, Len(place))) = Front(place)
  BY <1>3
<1>. HIDE DEF Prefix, Front
<1>6. place # << >> => Front(place) = Prefix(place, Len(place) - 1)
  BY <1>1, <1>4, <1>5
<1>. QED
  BY <1>1, <1>2, <1>3, <1>4, <1>6

\* What is in a tree is below directories only.
LEMMA DirsAbove ==
  ASSUME NEW t, IsTree(t), NEW q \in DOMAIN t, NEW n \in 0..(Len(q) - 1)
  PROVE  IsA(t, Prefix(q, n), "dir")
<1>. DEFINE T == {k \in Nat : 1 <= k /\ k <= Len(q) => IsA(t, Prefix(q, Len(q) - k), "dir")}
<1>0. q \in AllPlaces
  BY DEF IsTree
<1>1. /\ Len(q) \in Nat
      /\ \A m \in 0..Len(q) : Prefix(q, m) \in AllPlaces
      /\ \A m \in 1..Len(q) : Prefix(q, m) # << >> /\ Front(Prefix(q, m)) = Prefix(q, m - 1)
      /\ Prefix(q, Len(q)) = q
  BY <1>0, PrefixesOf
<1>2. ASSUME NEW k \in Nat, k \in T PROVE k + 1 \in T
  <2>1. SUFFICES ASSUME k + 1 <= Len(q) PROVE IsA(t, Prefix(q, Len(q) - (k + 1)), "dir")
    OBVIOUS
  <2>2. Prefix(q, Len(q) - k) \in DOMAIN t
    BY <1>1, <1>2, <2>1 DEF IsA
  <2>3. /\ Prefix(q, Len(q) - k) # << >>
        /\ Front(Prefix(q, Len(q) - k)) = Prefix(q, (Len(q) - k) - 1)
    BY <1>1, <2>1
  <2>4. (Len(q) - k) - 1 = Len(q) - (k + 1)
    BY <1>1
  <2>. QED
    BY <2>2, <2>3, <2>4 DEF IsTree
<1>. HIDE DEF T
<1>3. Nat \subseteq T
  <2>1. 0 \in T
    BY DEF T
  <2>. QED
    BY <1>2, <2>1, NatSetInduction
<1>4. Len(q) - n \in T /\ Len(q) - (Len(q) - n) = n
  BY <1>1, <1>3
<1>. QED
  BY <1>1, <1>4 DEF T

-----------------------------------------------------------------------------
(* Walks.                                                                  *)

LEMMA WalkStays ==
  ASSUME NEW t, NEW parts, NEW followFinal, NEW confined, NEW S,
         [at |-> << >>, todo |-> parts, end |-> "no"] \in S,
         \A w \in S : WalkStep(t, w, followFinal, confined) \in S
  PROVE  Walk(t, parts, followFinal, confined, Fuel) \in S
<1>. DEFINE n == Fuel
            x == [at |-> << >>, todo |-> parts, end |-> "no"]
            Step(w, i) == WalkStep(t, w, followFinal, confined)
            F(f) == [i \in 0..n |-> IF i = 0 THEN x ELSE CHOOSE y \in {Step(z, i) : z \in {f[i - 1]}} : TRUE]
            after == CHOOSE f : f = F(f)
<1>1. Walk(t, parts, followFinal, confined, Fuel) = after[n]
  BY DEF Walk, Iterate
<1>2. n \in Nat /\ x \in S /\ \A y \in S, i \in 1..n : Step(y, i) \in S
  BY FuelAssumption
<1>. HIDE DEF n, Step, x
<1>3. PICK G : G = [i \in 1..n |-> [y \in S |-> Step(y, i)]]
  OBVIOUS
<1>4. G \in [1..n -> [S -> S]] /\ \A y \in S, i \in 1..n : G[i][y] = Step(y, i)
  BY <1>2, <1>3
<1>5. \A f, i : (CHOOSE y \in {Step(z, i) : z \in {f[i - 1]}} : TRUE) = Step(f[i - 1], i)
  OBVIOUS
<1>6. after = F(after)
  <2>1. PICK f \in [0..n -> S] : Follows(f, x, n, G)
    BY <1>2, <1>4, LoopExists
  <2>2. \A i \in 1..n : f[i - 1] \in S /\ f[i] = Step(f[i - 1], i)
    BY <1>2, <1>4, <2>1 DEF Follows
  <2>3. \A i \in 0..n : f[i] = F(f)[i]
    BY <1>2, <1>5, <2>1, <2>2 DEF Follows
  <2>4. f = F(f)
    BY <2>1, <2>3
  <2>. QED
    BY <2>4
<1>. HIDE DEF after
<1>7. after[0] = x /\ \A i \in 1..n : after[i] = Step(after[i - 1], i)
  BY <1>2, <1>5, <1>6
<1>8. FollowsIn(after, x, n, G, S)
  BY <1>4, <1>7 DEF FollowsIn
<1>9. \A k \in 0..n : after[k] \in S
  BY <1>2, <1>4, <1>8, LoopStays
<1>10. after[n] \in S
  BY <1>2, <1>9
<1>. QED
  BY <1>1, <1>10

\* A walk is in the tree for as long as it is not known to have left it.
WalkStates(t) == [at : DOMAIN t, todo : Seq(Parts), end : {"no", "at", "outside", "notdir", "missing"}]

LEMMA WalkStepTyped ==
  ASSUME NEW t, IsTree(t), NEW followFinal, NEW confined, NEW w \in WalkStates(t)
  PROVE  WalkStep(t, w, followFinal, confined) \in WalkStates(t)
<1>. DEFINE Ends == {"no", "at", "outside", "notdir", "missing"}
            S == [at : DOMAIN t, todo : Seq(Parts), end : Ends]
<1>1. w \in S
  BY DEF WalkStates
<1>2. WalkStep(t, w, followFinal, confined) \in S
  <2>1. w.at \in DOMAIN t /\ w.todo \in Seq(Parts) /\ w.end \in Ends
    BY <1>1
  <2>2. w = [at |-> w.at, todo |-> w.todo, end |-> w.end]
    BY <1>1
  <2>3. PICK at, todo, end : at = w.at /\ todo = w.todo /\ end = w.end
    OBVIOUS
  <2>4. todo # << >> => Tail(todo) \in Seq(Parts)
    BY <2>1, <2>3, HeadTailProperties
  <2>5. at # << >> => Front(at) \in DOMAIN t
    BY <2>1, <2>3 DEF IsTree, IsA
  <2>6. << >> \in DOMAIN t
    BY DEF IsTree, IsA
  <2>7. ASSUME NEW q \in DOMAIN t, t[q].type = "sym", todo # << >>
        PROVE  t[q].link.parts \o Tail(todo) \in Seq(Parts)
    <3>1. t[q].link \in Path
      BY <2>7, NodeTypes DEF LinksTyped
    <3>2. t[q].link.parts \in Seq(Parts)
      BY <3>1 DEF Path, Parts
    <3>. QED
      BY <2>4, <2>7, <3>2, ConcatProperties
  <2>8. PICK child, rest : child = Append(at, Head(todo)) /\ rest = Tail(todo)
    OBVIOUS
  <2>9. w = [at |-> at, todo |-> todo, end |-> end]
    BY <2>2, <2>3
  <2>. DEFINE v == WalkStep(t, w, followFinal, confined)
  <2>10. CASE end # "no"
    <3>1. v = w
      BY <2>3, <2>10 DEF WalkStep
    <3>. QED
      BY <1>1, <3>1
  <2>11. CASE end = "no" /\ todo = << >>
    <3>1. v = [w EXCEPT !.end = "at"]
      BY <2>3, <2>11 DEF WalkStep
    <3>. QED
      BY <2>1, <2>9, <3>1
  <2>12. CASE end = "no" /\ todo # << >> /\ Head(todo) = ".."
    <3>1. CASE at = << >>
      <4>1. v = [w EXCEPT !.end = "outside"] \/ v = [w EXCEPT !.todo = rest]
        BY <2>3, <2>8, <2>12, <3>1 DEF WalkStep
      <4>2. rest \in Seq(Parts)
        BY <2>4, <2>8, <2>12
      <4>. QED
        BY <2>1, <2>9, <4>1, <4>2
    <3>2. CASE at # << >>
      <4>1. v = [w EXCEPT !.at = Front(at), !.todo = rest]
        BY <2>3, <2>8, <2>12, <3>2 DEF WalkStep
      <4>2. Front(at) \in DOMAIN t /\ rest \in Seq(Parts)
        BY <2>4, <2>5, <2>8, <2>12, <3>2
      <4>. QED
        BY <2>1, <2>9, <4>1, <4>2
    <3>. QED
      BY <3>1, <3>2
  <2>13. CASE end = "no" /\ todo # << >> /\ Head(todo) # ".."
    <3>1. CASE ~IsA(t, at, "dir")
      <4>1. v = [w EXCEPT !.end = "notdir"]
        BY <2>3, <2>13, <3>1 DEF WalkStep
      <4>. QED
        BY <2>1, <2>9, <4>1
    <3>2. CASE IsA(t, at, "dir") /\ child \notin DOMAIN t
      <4>1. v = [w EXCEPT !.end = "missing"]
        BY <2>3, <2>8, <2>13, <3>2 DEF WalkStep
      <4>. QED
        BY <2>1, <2>9, <4>1
    <3>3. CASE IsA(t, at, "dir") /\ child \in DOMAIN t /\ (t[child].type # "sym" \/ (rest = << >> /\ ~followFinal))
      <4>1. v = [w EXCEPT !.at = child, !.todo = rest]
        BY <2>3, <2>8, <2>13, <3>3 DEF WalkStep
      <4>2. rest \in Seq(Parts)
        BY <2>4, <2>8, <2>13
      <4>. QED
        BY <2>1, <2>9, <3>3, <4>1, <4>2
    <3>4. CASE IsA(t, at, "dir") /\ child \in DOMAIN t /\ t[child].type = "sym" /\ ~(rest = << >> /\ ~followFinal)
      <4>1. t[child].link.parts \o rest \in Seq(Parts)
        BY <2>7, <2>8, <2>13, <3>4
      <4>2. CASE t[child].link.abs /\ ~confined
        <5>1. v = [w EXCEPT !.end = "outside"]
          BY <2>3, <2>8, <2>13, <3>4, <4>2 DEF WalkStep
        <5>. QED
          BY <2>1, <2>9, <5>1
      <4>3. CASE ~(t[child].link.abs /\ ~confined)
        <5>1. PICK base : base = IF t[child].link.abs THEN << >> ELSE at
          OBVIOUS
        <5>2. v = [w EXCEPT !.at = base, !.todo = t[child].link.parts \o rest]
          BY <2>3, <2>8, <2>13, <3>4, <4>3, <5>1 DEF WalkStep
        <5>3. base \in DOMAIN t
          BY <2>1, <2>3, <2>6, <5>1
        <5>. QED
          BY <2>1, <2>9, <4>1, <5>2, <5>3
      <4>. QED
        BY <4>2, <4>3
    <3>. QED
      BY <3>1, <3>2, <3>3, <3>4
  <2>. QED
    BY <2>10, <2>11, <2>12, <2>13
<1>. QED
  BY <1>2 DEF WalkStates

LEMMA WalkTyped ==
  ASSUME NEW t, IsTree(t), NEW parts \in Seq(Parts), NEW followFinal, NEW confined
  PROVE  Walk(t, parts, followFinal, confined, Fuel).at \in DOMAIN t
<1>1. [at |-> << >>, todo |-> parts, end |-> "no"] \in WalkStates(t)
  BY DEF WalkStates, IsTree, IsA
<1>2. \A w \in WalkStates(t) : WalkStep(t, w, followFinal, confined) \in WalkStates(t)
  BY WalkStepTyped
<1>3. PICK S : S = WalkStates(t)
  OBVIOUS
<1>4. Walk(t, parts, followFinal, confined, Fuel) \in S
  BY <1>1, <1>2, <1>3, WalkStays
<1>. QED
  BY <1>3, <1>4 DEF WalkStates

\* A place is split where a walk along it is.
Rest(place, n) == SubSeq(place, n + 1, Len(place))

LEMMA SplitAt ==
  ASSUME NEW place \in AllPlaces, NEW n \in 0..(Len(place) - 1)
  PROVE  /\ Rest(place, n) # << >> /\ Head(Rest(place, n)) = place[n + 1]
         /\ Tail(Rest(place, n)) = Rest(place, n + 1)
         /\ place[n + 1] \in Names /\ Append(Prefix(place, n), place[n + 1]) = Prefix(place, n + 1)
<1>0. place \in Seq(Names) /\ Len(place) \in Nat /\ \A i \in 1..Len(place) : place[i] \in Names
  BY LenProperties, ElementOfSeq DEF AllPlaces
<1>1. \A i \in 1..n : place[i] \in Names
  BY <1>0
<1>2. /\ Rest(place, n) \in Seq(Names) /\ Len(Rest(place, n)) = Len(place) - n
      /\ \A i \in 1..(Len(place) - n) : Rest(place, n)[i] = place[n + i]
  <2>1. n + 1 \in Int /\ n + 1 <= Len(place) /\ \A i \in (n + 1)..Len(place) : place[i] \in Names
    BY <1>0
  <2>. QED
    BY <1>0, <2>1, SubSeqProperties DEF Rest
<1>3. /\ Rest(place, n + 1) \in Seq(Names) /\ Len(Rest(place, n + 1)) = Len(place) - (n + 1)
      /\ \A i \in 1..(Len(place) - (n + 1)) : Rest(place, n + 1)[i] = place[n + 1 + i]
  <2>1. n + 1 + 1 \in Int /\ \A i \in (n + 1 + 1)..Len(place) : place[i] \in Names
    BY <1>0
  <2>. QED
    BY <1>0, <2>1, SubSeqProperties DEF Rest
<1>4. Rest(place, n) # << >>
  BY <1>0, <1>2, EmptySeq
<1>5. Head(Rest(place, n)) = place[n + 1]
  <2>1. Head(Rest(place, n)) = Rest(place, n)[1]
    BY <1>2, <1>4
  <2>. QED
    BY <1>0, <1>2, <2>1
<1>6. Tail(Rest(place, n)) = Rest(place, n + 1)
  <2>1. /\ Tail(Rest(place, n)) \in Seq(Names) /\ Len(Tail(Rest(place, n))) = Len(place) - n - 1
        /\ \A i \in 1..(Len(place) - n - 1) : Tail(Rest(place, n))[i] = Rest(place, n)[i + 1]
    BY <1>0, <1>2, <1>4, HeadTailProperties
  <2>2. ASSUME NEW i \in 1..(Len(place) - n - 1) PROVE Tail(Rest(place, n))[i] = Rest(place, n + 1)[i]
    <3>1. /\ i + 1 \in 1..(Len(place) - n) /\ n + (i + 1) = n + 1 + i
          /\ i \in 1..(Len(place) - (n + 1))
      BY <1>0
    <3>2. Rest(place, n)[i + 1] = place[n + (i + 1)] /\ Rest(place, n + 1)[i] = place[n + 1 + i]
      BY <1>2, <1>3, <3>1
    <3>. QED
      BY <2>1, <3>1, <3>2
  <2>3. Len(Tail(Rest(place, n))) = Len(Rest(place, n + 1)) /\ Len(Rest(place, n + 1)) = Len(place) - n - 1
    BY <1>0, <1>3, <2>1
  <2>. QED
    BY <1>3, <2>1, <2>2, <2>3, SeqEqual
<1>7. Append(Prefix(place, n), place[n + 1]) = Prefix(place, n + 1)
  <2>1. /\ Prefix(place, n) \in Seq(Names) /\ Len(Prefix(place, n)) = n
        /\ \A i \in 1..n : Prefix(place, n)[i] = place[i]
    BY <1>0, <1>1, SubSeqProperties DEF Prefix
  <2>2. /\ Prefix(place, n + 1) \in Seq(Names) /\ Len(Prefix(place, n + 1)) = n + 1
        /\ \A i \in 1..(n + 1) : Prefix(place, n + 1)[i] = place[i]
    <3>1. n + 1 \in Int /\ \A i \in 1..(n + 1) : place[i] \in Names
      BY <1>0
    <3>. QED
      BY <3>1, SubSeqProperties DEF Prefix
  <2>3. n + 1 \in 1..Len(place) /\ place[n + 1] \in Names
    BY <1>0
  <2>4. /\ Append(Prefix(place, n), place[n + 1]) \in Seq(Names)
        /\ Len(Append(Prefix(place, n), place[n + 1])) = n + 1
        /\ \A i \in 1..n : Append(Prefix(place, n), place[n + 1])[i] = place[i]
        /\ Append(Prefix(place, n), place[n + 1])[n + 1] = place[n + 1]
    BY <2>1, <2>3, AppendProperties
  <2>5. \A i \in 1..(n + 1) : Append(Prefix(place, n), place[n + 1])[i] = Prefix(place, n + 1)[i]
    BY <2>2, <2>4
  <2>. QED
    BY <2>2, <2>4, <2>5, SeqEqual
<1>. QED
  BY <1>0, <1>4, <1>5, <1>6, <1>7

\* The walk to a directory by its own name does not leave the tree, and where it
\* comes to an end it is there.
LEMMA WalkStraight ==
  ASSUME NEW t, IsTree(t), NEW place, IsA(t, place, "dir")
  PROVE  LET w == Walk(t, place, TRUE, FALSE, Fuel)
         IN w.end \in {"no", "at"} /\ (w.end = "at" => w.at = place)
<1>0. place \in AllPlaces /\ place \in DOMAIN t /\ Len(place) \in Nat
  BY LenProperties DEF IsTree, IsA, AllPlaces
<1>. DEFINE On(n, end) == [at |-> Prefix(place, n), todo |-> Rest(place, n), end |-> end]
            S == {On(n, "no") : n \in 0..Len(place)} \union {[at |-> place, todo |-> << >>, end |-> "at"]}
<1>1. /\ Prefix(place, 0) = << >> /\ Prefix(place, Len(place)) = place
      /\ Rest(place, 0) = place /\ Rest(place, Len(place)) = << >>
  <2>1. Rest(place, 0) = place
    BY <1>0, SubSeqFull DEF Rest, AllPlaces
  <2>2. Rest(place, Len(place)) = << >>
    BY <1>0, SubSeqEmpty DEF Rest
  <2>. QED
    BY <1>0, <2>1, <2>2, PrefixesOf
<1>2. ASSUME NEW w \in S PROVE WalkStep(t, w, TRUE, FALSE) \in S
  <2>1. CASE w = [at |-> place, todo |-> << >>, end |-> "at"]
    BY <2>1 DEF WalkStep
  <2>2. CASE w = On(Len(place), "no")
    BY <1>1, <2>2 DEF WalkStep
  <2>3. ASSUME NEW n \in 0..(Len(place) - 1), w = On(n, "no") PROVE WalkStep(t, w, TRUE, FALSE) \in S
    <3>1. /\ Rest(place, n) # << >> /\ Head(Rest(place, n)) = place[n + 1]
          /\ Tail(Rest(place, n)) = Rest(place, n + 1)
          /\ place[n + 1] \in Names /\ Append(Prefix(place, n), place[n + 1]) = Prefix(place, n + 1)
      BY <1>0, SplitAt
    <3>2. place[n + 1] # ".."
      BY <3>1, NamesAssumption
    <3>3. n + 1 \in 0..Len(place)
      BY <1>0
    <3>4. IsA(t, Prefix(place, n), "dir") /\ IsA(t, Prefix(place, n + 1), "dir")
      <4>1. IsA(t, Prefix(place, n), "dir")
        BY <1>0, DirsAbove
      <4>2. CASE n + 1 = Len(place)
        BY <1>1, <4>1, <4>2
      <4>3. CASE n + 1 # Len(place)
        <5>1. n + 1 \in 0..(Len(place) - 1)
          BY <1>0, <4>3
        <5>. QED
          BY <1>0, <4>1, <5>1, DirsAbove
      <4>. QED
        BY <4>2, <4>3
    <3>5. WalkStep(t, w, TRUE, FALSE) = [w EXCEPT !.at = Prefix(place, n + 1), !.todo = Rest(place, n + 1)]
      BY <2>3, <3>1, <3>2, <3>4 DEF WalkStep, IsA
    <3>6. WalkStep(t, w, TRUE, FALSE) = On(n + 1, "no")
      BY <2>3, <3>5
    <3>. QED
      BY <3>3, <3>6
  <2>4. CASE \E n \in 0..Len(place) : w = On(n, "no")
    <3>1. PICK n \in 0..Len(place) : w = On(n, "no")
      BY <2>4
    <3>2. CASE n = Len(place)
      BY <2>2, <3>1, <3>2
    <3>3. CASE n # Len(place)
      <4>1. n \in 0..(Len(place) - 1)
        BY <1>0, <3>3
      <4>. QED
        BY <2>3, <3>1, <4>1
    <3>. QED
      BY <3>2, <3>3
  <2>. QED
    BY <2>1, <2>4
<1>3. [at |-> << >>, todo |-> place, end |-> "no"] \in S
  BY <1>0, <1>1
<1>. HIDE DEF S
<1>4. PICK w : w = Walk(t, place, TRUE, FALSE, Fuel)
  OBVIOUS
<1>5. w \in S
  BY <1>2, <1>3, <1>4, WalkStays
<1>6. w.end \in {"no", "at"} /\ (w.end = "at" => w.at = place)
  BY <1>5 DEF S
<1>. QED
  BY <1>4, <1>6

-----------------------------------------------------------------------------
(* Paths and walks that meet no link.                                      *)

LEMMA StepUp ==
  ASSUME NEW place \in AllPlaces, NEW n \in 1..Len(place)
  PROVE  place[n] \in Names /\ place[n] # ".." /\ Append(Prefix(place, n - 1), place[n]) = Prefix(place, n)
<1>1. Len(place) \in Nat
  BY PrefixesOf
<1>2. n - 1 \in 0..(Len(place) - 1) /\ (n - 1) + 1 = n
  BY <1>1
<1>3. place[(n - 1) + 1] \in Names /\ Append(Prefix(place, n - 1), place[(n - 1) + 1]) = Prefix(place, (n - 1) + 1)
  BY <1>2, SplitAt
<1>. QED
  BY <1>2, <1>3, NamesAssumption

\* A path without ".." is a place, and is cleaned already.
LEMMA CleanStraight ==
  ASSUME NEW path \in Path, ~HasUp(path)
  PROVE  path.parts \in AllPlaces /\ Clean(path) = path.parts
<1>. DEFINE n == Len(path.parts)
            Step(parts, i) == CASE path.parts[i] # ".." -> Append(parts, path.parts[i])
                                [] path.parts[i] = ".." /\ parts # << >> /\ Last(parts) # ".." -> Front(parts)
                                [] OTHER -> IF path.abs THEN parts ELSE Append(parts, path.parts[i])
            F(f) == [i \in 0..n |-> IF i = 0 THEN << >> ELSE CHOOSE y \in {Step(z, i) : z \in {f[i - 1]}} : TRUE]
            after == CHOOSE f : f = F(f)
<1>1. Clean(path) = after[n]
  BY DEF Clean, Iterate
<1>2. path.parts \in Seq(Parts) /\ n \in Nat /\ DOMAIN path.parts = 1..n
  BY LenProperties DEF Path, Parts
<1>3. path.parts \in AllPlaces
  <2>1. \A i \in 1..n : path.parts[i] \in Names
    <3>1. \A i \in 1..n : path.parts[i] \in Parts
      BY <1>2, ElementOfSeq
    <3>2. \A i \in 1..n : path.parts[i] # ".."
      BY <1>2 DEF HasUp, ToSet
    <3>. QED
      BY <3>1, <3>2 DEF Parts
  <2>. QED
    BY <1>2, <2>1 DEF AllPlaces
<1>4. \A i \in 1..n : Step(Prefix(path.parts, i - 1), i) = Prefix(path.parts, i)
  BY <1>3, StepUp
<1>. HIDE DEF n, Step
<1>5. \A f, i : (CHOOSE y \in {Step(z, i) : z \in {f[i - 1]}} : TRUE) = Step(f[i - 1], i)
  OBVIOUS
<1>6. PICK f : f = [i \in 0..n |-> Prefix(path.parts, i)]
  OBVIOUS
<1>7. Prefix(path.parts, 0) = << >> /\ Prefix(path.parts, n) = path.parts
  BY <1>3, PrefixesOf DEF n
<1>8. \A i \in 1..n : Step(f[i - 1], i) = f[i]
  BY <1>2, <1>4, <1>6
<1>9. after = F(after)
  <2>1. \A i \in 0..n : f[i] = F(f)[i]
    BY <1>2, <1>5, <1>6, <1>7, <1>8
  <2>2. f = F(f)
    BY <1>6, <2>1
  <2>. QED
    BY <2>2
<1>. HIDE DEF after
<1>10. after[0] = f[0] /\ \A i \in 1..n : after[i] = Step(after[i - 1], i)
  BY <1>2, <1>5, <1>6, <1>7, <1>9
<1>11. after[n] = f[n]
  <2>1. \A i \in 1..n : after[i - 1] = f[i - 1] => after[i] = f[i]
    BY <1>8, <1>10
  <2>. QED
    BY <1>2, <1>10, <2>1, SameLoop
<1>. QED
  BY <1>1, <1>2, <1>3, <1>6, <1>7, <1>11

LEMMA RootPathStraight ==
  ASSUME NEW path \in Path, ~HasUp(path)
  PROVE  RootPathParts(<< >>, path) = Found(path.parts)
<1>. DEFINE x == Found(IF path.abs THEN << >> ELSE << >>)
            Step(parts, r, i) == CASE ~r.ok -> r
                                   [] r.ok /\ parts[i] # ".." -> Found(Append(r.place, parts[i]))
                                   [] OTHER -> IF r.place = << >> THEN Refused ELSE Found(Front(r.place))
            F(parts, f) == [i \in 0..Len(parts) |->
                              IF i = 0 THEN x ELSE CHOOSE y \in {Step(parts, z, i) : z \in {f[i - 1]}} : TRUE]
            After(parts) == (CHOOSE f : f = F(parts, f))[Len(parts)]
<1>1. RootPathParts(<< >>, path) = CHOOSE y \in {After(z) : z \in {Clean(path)}} : TRUE
  BY DEF RootPathParts, With, Iterate
<1>. HIDE DEF After
<1>2. RootPathParts(<< >>, path) = After(Clean(path))
  BY <1>1
<1>3. PICK parts : parts = path.parts
  OBVIOUS
<1>. DEFINE n == Len(parts)
            after == CHOOSE f : f = F(parts, f)
<1>4. parts \in AllPlaces /\ Clean(path) = parts
  BY <1>3, CleanStraight
<1>5. n \in Nat /\ Prefix(parts, 0) = << >> /\ Prefix(parts, n) = parts
  BY <1>4, PrefixesOf
<1>6. RootPathParts(<< >>, path) = after[n]
  BY <1>2, <1>4 DEF After
<1>7. PICK f : f = [i \in 0..n |-> Found(Prefix(parts, i))]
  OBVIOUS
<1>8. \A place : Found(place).ok /\ Found(place).place = place
  BY DEF Found
<1>9. \A i \in 1..n : Step(parts, f[i - 1], i) = f[i]
  <2>1. SUFFICES ASSUME NEW i \in 1..n PROVE Step(parts, f[i - 1], i) = f[i]
    OBVIOUS
  <2>2. f[i - 1] = Found(Prefix(parts, i - 1)) /\ f[i] = Found(Prefix(parts, i))
    BY <1>5, <1>7
  <2>3. parts[i] # ".." /\ Append(Prefix(parts, i - 1), parts[i]) = Prefix(parts, i)
    BY <1>4, StepUp
  <2>. QED
    BY <1>8, <2>2, <2>3
<1>10. x = f[0]
  BY <1>5, <1>7
<1>. HIDE DEF n, Step, x
<1>11. \A g, i : (CHOOSE y \in {Step(parts, z, i) : z \in {g[i - 1]}} : TRUE) = Step(parts, g[i - 1], i)
  OBVIOUS
<1>12. after = F(parts, after)
  <2>1. \A i \in 0..n : f[i] = F(parts, f)[i]
    BY <1>5, <1>9, <1>10, <1>11 DEF n
  <2>2. f = F(parts, f)
    BY <1>7, <2>1 DEF n
  <2>. QED
    BY <2>2
<1>. HIDE DEF after
<1>13. after[0] = x /\ \A i \in 1..n : after[i] = Step(parts, after[i - 1], i)
  BY <1>5, <1>11, <1>12 DEF n
<1>14. after[n] = f[n]
  <2>1. \A i \in 1..n : after[i - 1] = f[i - 1] => after[i] = f[i]
    BY <1>9, <1>13
  <2>. QED
    BY <1>5, <1>10, <1>13, <2>1, SameLoop
<1>. QED
  BY <1>3, <1>5, <1>6, <1>7, <1>14

\* No name of the place but the last is a link.
NoLinkAbove(t, place) == \A n \in 1..(Len(place) - 1) : ~IsA(t, Prefix(place, n), "sym")

\* A path that meets no link is resolved to what it says, or not at all.
LEMMA ResolveStraight ==
  ASSUME NEW t, NEW path \in Path, ~HasUp(path), NoLinkAbove(t, path.parts),
         ResolvePathInRoot(t, path, FALSE).ok
  PROVE  ResolvePathInRoot(t, path, FALSE).place = path.parts
<1>1. PICK place : place = path.parts
  OBVIOUS
<1>2. place \in AllPlaces /\ Len(place) \in Nat
  BY <1>1, CleanStraight, PrefixesOf
<1>3. RootPathParts(<< >>, path) = Found(place)
  BY <1>1, RootPathStraight
<1>4. ~Refused.ok /\ Found(place).ok /\ Found(place).place = place
  BY DEF Refused, Found
<1>5. Around(t, Refused, FALSE) = Refused
  BY <1>4 DEF Around
<1>6. Around(t, Found(place), FALSE) \in {Refused, Found(place)}
  <2>1. CASE Stops(t, place, FALSE) = {}
    BY <1>4, <2>1 DEF Around
  <2>2. CASE Stops(t, place, FALSE) # {}
    <3>. DEFINE T == Stops(t, place, FALSE)
    <3>1. T \subseteq 1..(Len(place) - 1)
      BY DEF Stops
    <3>2. Around(t, Found(place), FALSE) = FollowLink(t, place, Min(T))
      BY <1>4, <2>2 DEF Around
    <3>3. T # {}
      BY <2>2
    <3>. HIDE DEF T
    <3>4. T \subseteq Nat
      BY <1>2, <3>1
    <3>5. \E m \in T : \A k \in T : m <= k
      BY <3>3, <3>4, LeastOf
    <3>6. Min(T) \in T
      BY <3>5 DEF Min
    <3>7. ~IsA(t, Prefix(place, Min(T)), "sym")
      BY <1>1, <3>1, <3>6 DEF NoLinkAbove
    <3>. QED
      BY <3>2, <3>7 DEF FollowLink
  <2>. QED
    BY <2>1, <2>2
<1>7. PICK kind : kind = {place}
  OBVIOUS
<1>8. \A r : r \in ResolvedTo(kind) <=> r \in {Refused, Found(place)}
  BY <1>7 DEF ResolvedTo
<1>9. RootPathParts(<< >>, path) \in ResolvedTo(kind)
  BY <1>3, <1>8
<1>10. \A r \in ResolvedTo(kind) : Around(t, r, FALSE) \in ResolvedTo(kind)
  BY <1>5, <1>6, <1>8
<1>11. ResolvePathInRoot(t, path, FALSE).place \in kind
  BY <1>9, <1>10, LoopResolves
<1>. QED
  BY <1>1, <1>7, <1>11

\* A walk that meets no link ends where its path says, if it comes to an end; and
\* it does where that is in the tree.
LEMMA WalkMeetsNoLink ==
  ASSUME NEW t, IsTree(t), NEW place \in AllPlaces, NoLinkAbove(t, place),
         NEW followFinal \in BOOLEAN, followFinal => ~IsA(t, place, "sym")
  PROVE  LET w == Walk(t, place, followFinal, FALSE, Fuel)
         IN /\ w.end = "at" => w.at = place /\ place \in DOMAIN t
            /\ place \in DOMAIN t => w.end \in {"no", "at"}
<1>0. Len(place) \in Nat
  BY PrefixesOf
<1>. DEFINE On(n, end) == [at |-> Prefix(place, n), todo |-> Rest(place, n), end |-> end]
            Lost == {On(n, end) : n \in 0..Len(place), end \in {"notdir", "missing"}}
            S == {On(n, "no") : n \in {n \in 0..Len(place) : Prefix(place, n) \in DOMAIN t}}
                   \union {On(Len(place), "at") : n \in {n \in {0} : place \in DOMAIN t}}
                   \union (IF place \in DOMAIN t THEN {} ELSE Lost)
<1>1. /\ Prefix(place, 0) = << >> /\ Prefix(place, Len(place)) = place
      /\ Rest(place, 0) = place /\ Rest(place, Len(place)) = << >>
  <2>1. Rest(place, 0) = place
    BY <1>0, SubSeqFull DEF Rest, AllPlaces
  <2>2. Rest(place, Len(place)) = << >>
    BY <1>0, SubSeqEmpty DEF Rest
  <2>. QED
    BY <1>0, <2>1, <2>2, PrefixesOf
<1>2. place \in DOMAIN t => \A n \in 0..(Len(place) - 1) : IsA(t, Prefix(place, n), "dir") /\ Prefix(place, n) \in DOMAIN t
  BY DirsAbove DEF IsA
<1>3. /\ \A n \in 0..Len(place) : Prefix(place, n) \in DOMAIN t => On(n, "no") \in S
      /\ place \in DOMAIN t => On(Len(place), "at") \in S
      /\ ~(place \in DOMAIN t) => \A n \in 0..Len(place) : On(n, "notdir") \in S /\ On(n, "missing") \in S
  OBVIOUS
<1>4. \A w \in S : w.end # "no" \/ \E n \in 0..Len(place) : w = On(n, "no") /\ Prefix(place, n) \in DOMAIN t
  OBVIOUS
<1>5. \A w \in S : /\ w.end = "at" => w.at = place /\ place \in DOMAIN t
                   /\ place \in DOMAIN t => w.end \in {"no", "at"}
  BY <1>1
<1>6. [at |-> << >>, todo |-> place, end |-> "no"] \in S
  <2>1. 0 \in 0..Len(place) /\ << >> \in DOMAIN t
    BY <1>0 DEF IsTree, IsA
  <2>2. [at |-> << >>, todo |-> place, end |-> "no"] = On(0, "no")
    BY <1>1
  <2>. QED
    BY <1>1, <1>3, <2>1, <2>2
<1>. HIDE DEF S
<1>7. ASSUME NEW n \in 0..(Len(place) - 1), Prefix(place, n) \in DOMAIN t
      PROVE  WalkStep(t, On(n, "no"), followFinal, FALSE) \in S
  <2>1. /\ Rest(place, n) # << >> /\ Head(Rest(place, n)) = place[n + 1]
        /\ Tail(Rest(place, n)) = Rest(place, n + 1)
        /\ place[n + 1] \in Names /\ Append(Prefix(place, n), place[n + 1]) = Prefix(place, n + 1)
    BY SplitAt
  <2>2. place[n + 1] # ".."
    BY <2>1, NamesAssumption
  <2>3. n \in 0..Len(place) /\ n + 1 \in 0..Len(place)
    BY <1>0
  <2>4. PICK child, w, v : child = Prefix(place, n + 1) /\ w = On(n, "no") /\ v = WalkStep(t, w, followFinal, FALSE)
    OBVIOUS
  <2>5. /\ w.at = Prefix(place, n) /\ w.todo = Rest(place, n) /\ w.end = "no"
        /\ Append(w.at, Head(w.todo)) = child /\ w.todo # << >> /\ Head(w.todo) # ".."
    BY <2>1, <2>2, <2>4
  <2>6. CASE ~IsA(t, Prefix(place, n), "dir")
    <3>1. v = [w EXCEPT !.end = "notdir"]
      BY <2>4, <2>5, <2>6 DEF WalkStep
    <3>2. v = On(n, "notdir")
      BY <2>4, <3>1
    <3>3. ~(place \in DOMAIN t)
      BY <1>2, <2>6
    <3>. QED
      BY <1>3, <2>3, <2>4, <3>2, <3>3
  <2>7. CASE IsA(t, Prefix(place, n), "dir") /\ child \notin DOMAIN t
    <3>1. v = [w EXCEPT !.end = "missing"]
      BY <2>4, <2>5, <2>7 DEF WalkStep
    <3>2. v = On(n, "missing")
      BY <2>4, <3>1
    <3>3. ~(place \in DOMAIN t)
      <4>1. CASE n + 1 = Len(place)
        BY <1>1, <2>4, <2>7, <4>1
      <4>2. CASE n + 1 # Len(place)
        <5>1. n + 1 \in 0..(Len(place) - 1)
          BY <1>0, <4>2
        <5>. QED
          BY <1>2, <2>4, <2>7, <5>1
      <4>. QED
        BY <4>1, <4>2
    <3>. QED
      BY <1>3, <2>3, <2>4, <3>2, <3>3
  <2>8. CASE IsA(t, Prefix(place, n), "dir") /\ child \in DOMAIN t
    <3>1. t[child].type # "sym" \/ (Rest(place, n + 1) = << >> /\ ~followFinal)
      <4>1. CASE n + 1 = Len(place)
        BY <1>1, <2>4, <2>8, <4>1 DEF IsA
      <4>2. CASE n + 1 # Len(place)
        <5>1. n + 1 \in 1..(Len(place) - 1)
          BY <1>0, <4>2
        <5>. QED
          BY <2>4, <2>8, <5>1 DEF NoLinkAbove, IsA
      <4>. QED
        BY <4>1, <4>2
    <3>2. Tail(w.todo) = Rest(place, n + 1)
      BY <2>1, <2>5
    <3>3. v = [w EXCEPT !.at = child, !.todo = Rest(place, n + 1)]
      BY <2>4, <2>5, <2>8, <3>1, <3>2 DEF WalkStep
    <3>4. v = On(n + 1, "no")
      BY <2>4, <3>3
    <3>. QED
      BY <1>3, <2>3, <2>4, <2>8, <3>4
  <2>. QED
    BY <2>6, <2>7, <2>8
<1>8. ASSUME place \in DOMAIN t
      PROVE  WalkStep(t, On(Len(place), "no"), followFinal, FALSE) \in S
  <2>1. PICK w : w = On(Len(place), "no")
    OBVIOUS
  <2>2. w.end = "no" /\ w.todo = << >>
    BY <1>1, <2>1
  <2>3. WalkStep(t, w, followFinal, FALSE) = [w EXCEPT !.end = "at"]
    BY <2>2 DEF WalkStep
  <2>4. WalkStep(t, w, followFinal, FALSE) = On(Len(place), "at")
    BY <2>1, <2>3
  <2>. QED
    BY <1>3, <1>8, <2>1, <2>4
<1>. HIDE DEF On
<1>9. ASSUME NEW w \in S PROVE WalkStep(t, w, followFinal, FALSE) \in S
  <2>1. CASE w.end # "no"
    <3>1. WalkStep(t, w, followFinal, FALSE) = w
      BY <2>1 DEF WalkStep
    <3>. QED
      BY <1>9, <3>1
  <2>2. ASSUME NEW n \in 0..Len(place), w = On(n, "no"), Prefix(place, n) \in DOMAIN t
        PROVE  WalkStep(t, w, followFinal, FALSE) \in S
    <3>1. n = Len(place) \/ n \in 0..(Len(place) - 1)
      BY <1>0
    <3>. QED
      BY <1>1, <1>7, <1>8, <2>2, <3>1
  <2>. QED
    BY <1>4, <2>1, <2>2
<1>10. PICK w : w = Walk(t, place, followFinal, FALSE, Fuel)
  OBVIOUS
<1>11. w \in S
  BY <1>6, <1>9, <1>10, WalkStays
<1>. QED
  BY <1>5, <1>10, <1>11

-----------------------------------------------------------------------------
(* A path is resolved to where a walk in the tree goes.                    *)

\* res goes around the loop for path.
Turns(t, path, followFinal, res) ==
  /\ res \in [0..MaxLinks -> ResolvedTo(AllPlaces)]
  /\ res[0] = RootPathParts(<< >>, path)
  /\ \A i \in 1..MaxLinks : res[i] = Around(t, res[i - 1], followFinal)
  /\ res[MaxLinks] = Rounds(t, path, followFinal)

LEMMA RoundsTurn ==
  ASSUME NEW t, LinksTyped(t), NEW path \in Path, NEW followFinal \in BOOLEAN
  PROVE  \E res : Turns(t, path, followFinal, res)
<1>. DEFINE S == ResolvedTo(AllPlaces)
            n == MaxLinks
            x == RootPathParts(<< >>, path)
            Step(r, i) == Around(t, r, followFinal)
            F(f) == [i \in 0..n |-> IF i = 0 THEN x ELSE CHOOSE y \in {Step(z, i) : z \in {f[i - 1]}} : TRUE]
            after == CHOOSE f : f = F(f)
<1>1. Rounds(t, path, followFinal) = after[n]
  BY DEF Rounds, Iterate
<1>2. n \in Nat /\ x \in S
  <2>1. << >> \in AllPlaces
    BY EmptySeq DEF AllPlaces
  <2>. QED
    BY <2>1, RootPathResolves, MaxLinksAssumption
<1>3. \A y \in S, i \in 1..n : Step(y, i) \in S
  <2>1. AllPlaces \in Kinds
    BY DEF Kinds
  <2>. QED
    BY <2>1, AroundStays
<1>. HIDE DEF n, Step, x
<1>4. PICK G : G = [i \in 1..n |-> [y \in S |-> Step(y, i)]]
  OBVIOUS
<1>. HIDE DEF S
<1>5. G \in [1..n -> [S -> S]] /\ \A y \in S, i \in 1..n : G[i][y] = Step(y, i)
  BY <1>3, <1>4
<1>6. \A f, i : (CHOOSE y \in {Step(z, i) : z \in {f[i - 1]}} : TRUE) = Step(f[i - 1], i)
  OBVIOUS
<1>7. PICK f \in [0..n -> S] : Follows(f, x, n, G)
  BY <1>2, <1>5, LoopExists
<1>8. after = F(after)
  <2>1. \A i \in 1..n : f[i - 1] \in S /\ f[i] = Step(f[i - 1], i)
    BY <1>2, <1>5, <1>7 DEF Follows
  <2>2. \A i \in 0..n : f[i] = F(f)[i]
    BY <1>2, <1>6, <1>7, <2>1 DEF Follows
  <2>3. f = F(f)
    BY <1>7, <2>2
  <2>. QED
    BY <2>3
<1>. HIDE DEF after
<1>9. after[0] = x /\ \A i \in 1..n : after[i] = Step(after[i - 1], i)
  BY <1>2, <1>6, <1>8
<1>10. FollowsIn(after, x, n, G, S)
  BY <1>5, <1>9 DEF FollowsIn
<1>11. \A k \in 0..n : after[k] \in S
  BY <1>2, <1>5, <1>10, LoopStays
<1>12. after \in [0..n -> S]
  BY <1>8, <1>11
<1>13. Turns(t, path, followFinal, after)
  BY <1>1, <1>9, <1>12 DEF Turns, S, n, x, Step
<1>. QED
  BY <1>13

LEMMA EndOfRounds ==
  ASSUME NEW t, NEW path, NEW followFinal, NEW r, r = Rounds(t, path, followFinal)
  PROVE  ResolvePathInRoot(t, path, followFinal)
           = IF r.ok /\ Stops(t, r.place, followFinal) # {} THEN Refused ELSE r
<1>. DEFINE End(s) == IF s.ok /\ Stops(t, s.place, followFinal) # {} THEN Refused ELSE s
<1>1. ResolvePathInRoot(t, path, followFinal) = CHOOSE y \in {End(z) : z \in {r}} : TRUE
  BY DEF ResolvePathInRoot, With
<1>. HIDE DEF End
<1>2. ResolvePathInRoot(t, path, followFinal) = End(r)
  BY <1>1
<1>. QED
  BY <1>2 DEF End

\* g goes through the states of a confined walk.
Goes(t, followFinal, g) == \A i \in 1..Fuel : g[i] = WalkStep(t, g[i - 1], followFinal, TRUE)

LEMMA WalkGoes ==
  ASSUME NEW t, IsTree(t), NEW parts \in Seq(Parts), NEW followFinal
  PROVE  \E g : /\ Goes(t, followFinal, g) /\ g[0] = [at |-> << >>, todo |-> parts, end |-> "no"]
                /\ g[Fuel] = Walk(t, parts, followFinal, TRUE, Fuel)
<1>. DEFINE n == Fuel
            S == WalkStates(t)
            x == [at |-> << >>, todo |-> parts, end |-> "no"]
            Step(w, i) == WalkStep(t, w, followFinal, TRUE)
            F(f) == [i \in 0..n |-> IF i = 0 THEN x ELSE CHOOSE y \in {Step(z, i) : z \in {f[i - 1]}} : TRUE]
            after == CHOOSE f : f = F(f)
<1>1. Walk(t, parts, followFinal, TRUE, Fuel) = after[n]
  BY DEF Walk, Iterate
<1>2. n \in Nat /\ x \in S
  BY FuelAssumption DEF WalkStates, IsTree, IsA
<1>3. \A y \in S, i \in 1..n : Step(y, i) \in S
  BY WalkStepTyped
<1>. HIDE DEF n, Step, x, S
<1>4. PICK G : G = [i \in 1..n |-> [y \in S |-> Step(y, i)]]
  OBVIOUS
<1>5. G \in [1..n -> [S -> S]] /\ \A y \in S, i \in 1..n : G[i][y] = Step(y, i)
  BY <1>3, <1>4
<1>6. \A f, i : (CHOOSE y \in {Step(z, i) : z \in {f[i - 1]}} : TRUE) = Step(f[i - 1], i)
  OBVIOUS
<1>7. PICK f \in [0..n -> S] : Follows(f, x, n, G)
  BY <1>2, <1>5, LoopExists
<1>8. after = F(after)
  <2>1. \A i \in 1..n : f[i - 1] \in S /\ f[i] = Step(f[i - 1], i)
    BY <1>2, <1>5, <1>7 DEF Follows
  <2>2. \A i \in 0..n : f[i] = F(f)[i]
    BY <1>2, <1>6, <1>7, <2>1 DEF Follows
  <2>3. f = F(f)
    BY <1>7, <2>2
  <2>. QED
    BY <2>3
<1>. HIDE DEF after
<1>9. after[0] = x /\ \A i \in 1..n : after[i] = Step(after[i - 1], i)
  BY <1>2, <1>6, <1>8
<1>. QED
  BY <1>1, <1>9 DEF Goes, n, x, Step

\* The first ups of parts are "..", and the others are names.
HasUps(parts, ups) ==
  /\ ups \in 0..Len(parts) /\ \A i \in 1..ups : parts[i] = ".."
  /\ \A i \in (ups + 1)..Len(parts) : parts[i] \in Names

LEMMA PlainUps ==
  ASSUME NEW path \in Path, Plain(path)
  PROVE  \E ups : HasUps(path.parts, ups) /\ (path.abs \/ ~HasUp(path) => ups = 0)
<1>1. PICK parts : parts = path.parts
  OBVIOUS
<1>2. parts \in Seq(Parts) /\ UpsFirst(parts, path.abs) /\ Len(parts) \in Nat /\ DOMAIN parts = 1..Len(parts)
  BY <1>1, CleanParts, LenProperties DEF Plain
<1>3. \A i \in 1..Len(parts) : parts[i] = ".." \/ parts[i] \in Names
  BY <1>2, ElementOfSeq DEF Parts
<1>4. PICK P : P = {i \in 1..Len(parts) : parts[i] = ".."}
  OBVIOUS
<1>5. CASE P = {}
  <2>1. HasUps(parts, 0)
    BY <1>2, <1>3, <1>4, <1>5 DEF HasUps
  <2>. QED
    BY <1>1, <2>1
<1>6. CASE P # {}
  <2>1. P \subseteq 1..Len(parts)
    BY <1>4
  <2>2. PICK ups \in P : \A i \in P : i <= ups
    BY <1>2, <1>6, <2>1, LastIndex
  <2>3. ups \in 1..Len(parts) /\ parts[ups] = ".."
    BY <1>4, <2>2
  <2>4. ~path.abs /\ \A i \in 1..ups : parts[i] = ".."
    BY <1>2, <2>3 DEF UpsFirst
  <2>5. \A i \in (ups + 1)..Len(parts) : parts[i] \in Names
    BY <1>2, <1>3, <1>4, <2>2, <2>3
  <2>6. HasUps(parts, ups)
    BY <1>2, <2>3, <2>4, <2>5 DEF HasUps
  <2>7. HasUp(path)
    BY <1>1, <1>2, <2>3 DEF HasUp, ToSet
  <2>. QED
    BY <1>1, <2>4, <2>6, <2>7
<1>. QED
  BY <1>5, <1>6

LEMMA RestOf ==
  ASSUME NEW S, NEW todo \in Seq(S), NEW n \in 0..Len(todo)
  PROVE  /\ Rest(todo, n) \in Seq(S) /\ Len(Rest(todo, n)) = Len(todo) - n
         /\ \A i \in 1..(Len(todo) - n) : Rest(todo, n)[i] = todo[n + i]
<1>1. Len(todo) \in Nat
  BY LenProperties
<1>2. n + 1 \in Int /\ \A i \in (n + 1)..Len(todo) : todo[i] \in S
  BY <1>1, ElementOfSeq
<1>. QED
  BY <1>1, <1>2, SubSeqProperties DEF Rest

LEMMA RestSteps ==
  ASSUME NEW S, NEW todo \in Seq(S), NEW n \in 0..(Len(todo) - 1)
  PROVE  /\ Rest(todo, n) # << >> /\ Head(Rest(todo, n)) = todo[n + 1]
         /\ Tail(Rest(todo, n)) = Rest(todo, n + 1)
<1>1. Len(todo) \in Nat
  BY LenProperties
<1>2. n + 1 \in 1..Len(todo) /\ Len(todo) \in (n + 1)..Len(todo) /\ n \in 0..Len(todo)
  BY <1>1
<1>3. Head(Rest(todo, n)) = todo[n + 1] /\ Tail(Rest(todo, n)) = SubSeq(todo, n + 1 + 1, Len(todo))
  BY <1>2, HeadTailOfSubSeq DEF Rest
<1>4. Len(Rest(todo, n)) # 0
  BY <1>1, <1>2, RestOf
<1>5. Rest(todo, n) # << >>
  BY <1>4, EmptySeq
<1>. QED
  BY <1>3, <1>5 DEF Rest

LEMMA RestOfConcat ==
  ASSUME NEW S, NEW s \in Seq(S), NEW u \in Seq(S), NEW n \in 0..Len(s)
  PROVE  Rest(s \o u, n) = Rest(s, n) \o u
<1>1. Len(s) \in Nat /\ Len(u) \in Nat
  BY LenProperties
<1>2. /\ s \o u \in Seq(S) /\ Len(s \o u) = Len(s) + Len(u)
      /\ \A i \in 1..(Len(s) + Len(u)) : (s \o u)[i] = IF i <= Len(s) THEN s[i] ELSE u[i - Len(s)]
  BY ConcatProperties
<1>3. PICK whole : whole = s \o u
  OBVIOUS
<1>4. n \in 0..Len(whole)
  BY <1>1, <1>2, <1>3
<1>5. /\ Rest(whole, n) \in Seq(S) /\ Len(Rest(whole, n)) = Len(whole) - n
      /\ \A i \in 1..(Len(whole) - n) : Rest(whole, n)[i] = whole[n + i]
  BY <1>2, <1>3, <1>4, RestOf, ZenonT(30)
<1>6. /\ Rest(s, n) \in Seq(S) /\ Len(Rest(s, n)) = Len(s) - n
      /\ \A i \in 1..(Len(s) - n) : Rest(s, n)[i] = s[n + i]
  BY RestOf
<1>7. PICK end : end = Rest(s, n)
  OBVIOUS
<1>8. end \in Seq(S) /\ Len(end) = Len(s) - n
  BY <1>6, <1>7
<1>9. /\ end \o u \in Seq(S) /\ Len(end \o u) = Len(end) + Len(u)
      /\ \A i \in 1..(Len(end) + Len(u)) : (end \o u)[i] = IF i <= Len(end) THEN end[i] ELSE u[i - Len(end)]
  BY <1>8, ConcatProperties
<1>10. Len(Rest(whole, n)) = Len(end \o u)
  BY <1>1, <1>2, <1>3, <1>5, <1>8, <1>9
<1>11. ASSUME NEW i \in 1..Len(Rest(whole, n)) PROVE Rest(whole, n)[i] = (end \o u)[i]
  <2>1. n + i \in 1..(Len(s) + Len(u)) /\ i \in 1..(Len(whole) - n) /\ i \in 1..(Len(end) + Len(u))
    BY <1>1, <1>2, <1>3, <1>5, <1>8
  <2>2. Rest(whole, n)[i] = IF n + i <= Len(s) THEN s[n + i] ELSE u[n + i - Len(s)]
    BY <1>2, <1>3, <1>5, <2>1
  <2>3. (end \o u)[i] = IF i <= Len(end) THEN end[i] ELSE u[i - Len(end)]
    BY <1>9, <2>1
  <2>4. CASE i <= Len(end)
    <3>1. i \in 1..(Len(s) - n) /\ n + i <= Len(s)
      BY <1>1, <1>8, <2>1, <2>4
    <3>. QED
      BY <1>6, <1>7, <2>2, <2>3, <2>4, <3>1
  <2>5. CASE ~(i <= Len(end))
    <3>1. ~(n + i <= Len(s)) /\ n + i - Len(s) = i - Len(end)
      BY <1>1, <1>8, <2>1, <2>5
    <3>. QED
      BY <2>2, <2>3, <2>5, <3>1
  <2>. QED
    BY <2>4, <2>5
<1>12. Rest(whole, n) = end \o u
  BY <1>5, <1>9, <1>10, <1>11, SeqEqual
<1>. QED
  BY <1>3, <1>7, <1>12

LEMMA SplitConcat ==
  ASSUME NEW at \in AllPlaces, NEW todo \in AllPlaces
  PROVE  /\ at \o todo \in AllPlaces /\ Len(at \o todo) = Len(at) + Len(todo)
         /\ Prefix(at \o todo, Len(at)) = at /\ Rest(at \o todo, Len(at)) = todo
<1>1. at \in Seq(Names) /\ todo \in Seq(Names) /\ Len(at) \in Nat /\ Len(todo) \in Nat
  BY LenProperties DEF AllPlaces
<1>2. /\ at \o todo \in Seq(Names) /\ Len(at \o todo) = Len(at) + Len(todo)
      /\ \A i \in 1..(Len(at) + Len(todo)) : (at \o todo)[i] = IF i <= Len(at) THEN at[i] ELSE todo[i - Len(at)]
  BY <1>1, ConcatProperties
<1>3. PICK whole : whole = at \o todo
  OBVIOUS
<1>4. whole \in AllPlaces /\ Len(at) \in 0..Len(whole)
  BY <1>1, <1>2, <1>3 DEF AllPlaces
<1>5. Rest(at \o todo, Len(at)) = todo
  <2>1. Len(at) \in 0..Len(at)
    BY <1>1
  <2>2. Rest(at \o todo, Len(at)) = Rest(at, Len(at)) \o todo
    BY <1>1, <2>1, RestOfConcat
  <2>3. Rest(at, Len(at)) = << >>
    BY <1>1, SubSeqEmpty DEF Rest
  <2>4. << >> \o todo = todo
    BY <1>1, ConcatEmptySeq
  <2>. QED
    BY <2>2, <2>3, <2>4
<1>6. Prefix(whole, Len(at)) = at
  <2>1. /\ Prefix(whole, Len(at)) \in Seq(Names) /\ Len(Prefix(whole, Len(at))) = Len(at)
        /\ \A i \in 1..Len(at) : Prefix(whole, Len(at))[i] = whole[i]
    <3>1. Len(at) \in Int /\ \A i \in 1..Len(at) : whole[i] \in Names
      BY <1>1, <1>2, <1>3, ElementOfSeq
    <3>. QED
      BY <1>1, <3>1, SubSeqProperties DEF Prefix
  <2>2. \A i \in 1..Len(at) : whole[i] = at[i]
    BY <1>1, <1>2, <1>3
  <2>. QED
    BY <1>1, <2>1, <2>2, SeqEqual
<1>. QED
  BY <1>2, <1>3, <1>5, <1>6 DEF AllPlaces

LEMMA PlacesAssociate ==
  ASSUME NEW p \in AllPlaces, NEW q \in AllPlaces, NEW r \in AllPlaces, NEW pq, pq = p \o q, NEW qr, qr = q \o r
  PROVE  pq \o r = p \o qr
<1>1. p \in Seq(Names) /\ q \in Seq(Names) /\ r \in Seq(Names)
  BY DEF AllPlaces
<1>. QED
  BY <1>1, ConcatAssociative

\* A path that is clean leads up first, as far as it says, and then down.
LEMMA RootPathPlain ==
  ASSUME NEW base \in AllPlaces, NEW path \in Path, Plain(path), NEW ups, HasUps(path.parts, ups),
         NEW from, from = IF path.abs THEN << >> ELSE base
  PROVE  RootPathParts(base, path)
           = IF ups <= Len(from) THEN Found(Prefix(from, Len(from) - ups) \o Rest(path.parts, ups)) ELSE Refused
<1>. DEFINE x == Found(IF path.abs THEN << >> ELSE base)
            Step(parts, r, i) == CASE ~r.ok -> r
                                   [] r.ok /\ parts[i] # ".." -> Found(Append(r.place, parts[i]))
                                   [] OTHER -> IF r.place = << >> THEN Refused ELSE Found(Front(r.place))
            F(parts, f) == [i \in 0..Len(parts) |->
                              IF i = 0 THEN x ELSE CHOOSE y \in {Step(parts, z, i) : z \in {f[i - 1]}} : TRUE]
            After(parts) == (CHOOSE f : f = F(parts, f))[Len(parts)]
<1>1. RootPathParts(base, path) = CHOOSE y \in {After(z) : z \in {Clean(path)}} : TRUE
  BY DEF RootPathParts, With, Iterate
<1>. HIDE DEF After
<1>2. RootPathParts(base, path) = After(Clean(path))
  BY <1>1
<1>3. PICK parts : parts = path.parts
  OBVIOUS
<1>. DEFINE n == Len(parts)
            l == Len(from)
            after == CHOOSE f : f = F(parts, f)
            Down(i) == Prefix(from, l - ups) \o SubSeq(parts, ups + 1, i)
            V(i) == IF i <= ups THEN (IF i <= l THEN Found(Prefix(from, l - i)) ELSE Refused)
                    ELSE IF ups <= l THEN Found(Down(i)) ELSE Refused
<1>4. Clean(path) = parts /\ parts \in Seq(Parts) /\ HasUps(parts, ups)
  BY <1>3 DEF Plain, Path, Parts
<1>5. from \in AllPlaces /\ x = Found(from)
  BY EmptySeq DEF AllPlaces
<1>6. n \in Nat /\ l \in Nat /\ ups \in 0..n
  BY <1>4, <1>5, LenProperties DEF HasUps, AllPlaces
<1>7. RootPathParts(base, path) = after[n]
  BY <1>2, <1>4 DEF After
<1>8. Prefix(from, 0) = << >> /\ Prefix(from, l) = from
  BY <1>5, PrefixesOf
<1>9. \A i \in 1..ups : parts[i] = ".."
  BY <1>4 DEF HasUps
<1>10. \A i \in (ups + 1)..n : parts[i] \in Names /\ parts[i] # ".."
  BY <1>4, NamesAssumption DEF HasUps
<1>11. \A place : Found(place).ok /\ Found(place).place = place /\ ~Refused.ok
  BY DEF Found, Refused
<1>12. ASSUME NEW i \in 1..ups PROVE Step(parts, V(i - 1), i) = V(i)
  <2>1. i - 1 <= ups /\ i <= ups /\ i \in Nat /\ i - 1 \in Nat
    BY <1>6
  <2>2. CASE i <= l
    <3>1. l - (i - 1) \in 1..l /\ l - (i - 1) - 1 = l - i /\ i - 1 <= l
      BY <1>6, <2>1, <2>2
    <3>2. PICK k : k = l - (i - 1)
      OBVIOUS
    <3>3. Prefix(from, k) # << >> /\ Front(Prefix(from, k)) = Prefix(from, k - 1)
      BY <1>5, <3>1, <3>2, PrefixesOf
    <3>4. V(i - 1) = Found(Prefix(from, k)) /\ V(i) = Found(Prefix(from, k - 1))
      BY <2>1, <2>2, <3>1, <3>2
    <3>. QED
      BY <1>9, <1>11, <3>3, <3>4
  <2>3. CASE i = l + 1
    <3>1. V(i - 1) = Found(<< >>) /\ V(i) = Refused
      BY <1>6, <1>8, <2>1, <2>3
    <3>. QED
      BY <1>9, <1>11, <3>1
  <2>4. CASE i > l + 1
    <3>1. V(i - 1) = Refused /\ V(i) = Refused
      BY <1>6, <2>1, <2>4
    <3>. QED
      BY <1>11, <3>1
  <2>. QED
    BY <1>6, <2>1, <2>2, <2>3, <2>4
<1>13. ASSUME ups <= l
       PROVE  /\ Prefix(from, l - ups) \in Seq(Parts) /\ Down(ups) = Prefix(from, l - ups)
              /\ \A i \in (ups + 1)..n : Append(Down(i - 1), parts[i]) = Down(i)
  <2>1. PICK top : top = Prefix(from, l - ups)
    OBVIOUS
  <2>2. top \in Seq(Parts)
    <3>1. l - ups \in 0..l
      BY <1>6, <1>13
    <3>2. top \in Seq(Names)
      BY <1>5, <2>1, <3>1, PrefixesOf DEF AllPlaces
    <3>. QED
      BY <3>2, SeqMonotonic DEF Parts
  <2>3. SubSeq(parts, ups + 1, ups) = << >>
    BY <1>6, SubSeqEmpty
  <2>4. ASSUME NEW i \in (ups + 1)..n
        PROVE  Append(top \o SubSeq(parts, ups + 1, i - 1), parts[i]) = top \o SubSeq(parts, ups + 1, i)
    <3>1. ups + 1 \in 1..n /\ i \in (ups + 1)..n /\ i \in 1..n /\ i - 1 \in Int /\ ups + 1 \in Int
      BY <1>6
    <3>2. PICK s, u : s = SubSeq(parts, ups + 1, i - 1) /\ u = SubSeq(parts, ups + 1, i)
      OBVIOUS
    <3>3. u = s \o << parts[i] >>
      BY <1>4, <3>1, <3>2, SubSeqRecursiveSecond
    <3>4. s \in Seq(Parts)
      <4>1. \A k \in (ups + 1)..(i - 1) : parts[k] \in Parts
        BY <1>4, <1>6, <3>1, ElementOfSeq
      <4>. QED
        BY <3>1, <3>2, <4>1, SubSeqProperties
    <3>5. parts[i] \in Parts
      BY <1>4, <3>1, ElementOfSeq
    <3>6. << parts[i] >> \in Seq(Parts)
      BY <3>5
    <3>7. top \o s \in Seq(Parts)
      BY <2>2, <3>4, ConcatProperties
    <3>8. Append(top \o s, parts[i]) = (top \o s) \o << parts[i] >>
      BY <3>5, <3>7, AppendIsConcat
    <3>9. (top \o s) \o << parts[i] >> = top \o u
      BY <2>2, <3>3, <3>4, <3>6, ConcatAssociative
    <3>. QED
      BY <3>2, <3>8, <3>9
  <2>5. top \o << >> = top
    BY <2>2, ConcatEmptySeq
  <2>. QED
    BY <2>1, <2>2, <2>3, <2>4, <2>5
<1>. HIDE DEF Down
<1>14. ASSUME NEW i \in (ups + 1)..n PROVE Step(parts, V(i - 1), i) = V(i)
  <2>1. ~(i <= ups) /\ (i - 1 <= ups => i - 1 = ups)
    BY <1>6
  <2>2. CASE ups <= l
    <3>1. V(i - 1) = Found(Down(i - 1)) /\ V(i) = Found(Down(i))
      BY <1>13, <2>1, <2>2
    <3>. QED
      BY <1>10, <1>11, <1>13, <2>2, <3>1
  <2>3. CASE ~(ups <= l)
    <3>1. V(i - 1) = Refused /\ V(i) = Refused
      BY <2>1, <2>3
    <3>. QED
      BY <1>11, <3>1
  <2>. QED
    BY <2>2, <2>3
<1>15. x = V(0)
  BY <1>5, <1>6, <1>8
<1>16. V(n) = IF ups <= l THEN Found(Prefix(from, l - ups) \o Rest(parts, ups)) ELSE Refused
  <2>1. CASE n = ups
    <3>1. Rest(parts, ups) = SubSeq(parts, ups + 1, ups)
      BY <2>1 DEF Rest
    <3>. QED
      BY <1>6, <1>13, <2>1, <3>1 DEF Down
  <2>2. CASE n # ups
    <3>1. ~(n <= ups)
      BY <1>6, <2>2
    <3>2. Down(n) = Prefix(from, l - ups) \o Rest(parts, ups)
      BY DEF Rest, Down
    <3>. QED
      BY <3>1, <3>2
  <2>. QED
    BY <2>1, <2>2
<1>17. \A i \in 1..n : Step(parts, V(i - 1), i) = V(i)
  <2>1. \A i \in 1..n : i \in 1..ups \/ i \in (ups + 1)..n
    BY <1>6
  <2>. QED
    BY <1>12, <1>14, <2>1
<1>. HIDE DEF V, Step, x
<1>18. PICK f : f = [i \in 0..n |-> V(i)]
  OBVIOUS
<1>19. f[0] = V(0) /\ f[n] = V(n) /\ \A i \in 1..n : f[i - 1] = V(i - 1) /\ f[i] = V(i)
  BY <1>6, <1>18
<1>20. \A g, i : (CHOOSE y \in {Step(parts, z, i) : z \in {g[i - 1]}} : TRUE) = Step(parts, g[i - 1], i)
  OBVIOUS
<1>21. after = F(parts, after)
  <2>1. \A i \in 0..n : i = 0 \/ i \in 1..n
    BY <1>6
  <2>2. \A i \in 0..n : f[i] = F(parts, f)[i]
    BY <1>15, <1>17, <1>19, <1>20, <2>1
  <2>3. f = F(parts, f)
    BY <1>18, <2>2
  <2>. QED
    BY <2>3
<1>. HIDE DEF after
<1>22. after[0] = x /\ \A i \in 1..n : after[i] = Step(parts, after[i - 1], i)
  BY <1>6, <1>20, <1>21
<1>23. after[n] = f[n]
  <2>1. \A i \in 1..n : after[i - 1] = f[i - 1] => after[i] = f[i]
    BY <1>17, <1>19, <1>22
  <2>2. after[0] = f[0]
    BY <1>15, <1>19, <1>22
  <2>3. n \in Nat
    BY <1>6
  <2>. QED
    BY <2>1, <2>2, <2>3, SameLoop
<1>. QED
  BY <1>3, <1>7, <1>16, <1>19, <1>23

\* Above what is in a tree are directories.
LEMMA DirsOnWay ==
  ASSUME NEW t, IsTree(t), NEW place \in AllPlaces, NEW m \in 0..Len(place), Prefix(place, m) \in DOMAIN t,
         NEW k \in 0..m
  PROVE  Prefix(place, k) \in DOMAIN t /\ (k # m => IsA(t, Prefix(place, k), "dir"))
<1>1. Len(place) \in Nat
  BY PrefixesOf
<1>2. PICK q : q = Prefix(place, m)
  OBVIOUS
<1>3. q \in AllPlaces /\ Len(q) = m
  BY <1>2, PrefixesOf
<1>4. CASE k # m
  <2>1. k \in 0..(Len(q) - 1)
    BY <1>1, <1>3, <1>4
  <2>2. IsA(t, Prefix(q, k), "dir")
    BY <1>2, <2>1, DirsAbove
  <2>3. Prefix(q, k) = Prefix(place, k)
    <3>1. \A i \in 1..Len(place) : place[i] \in Names
      BY ElementOfSeq DEF AllPlaces
    <3>2. k \in 0..Len(place) /\ k \in Int /\ m \in Int
      BY <1>1
    <3>3. /\ Prefix(place, m) \in Seq(Names) /\ \A i \in 1..m : Prefix(place, m)[i] = place[i]
      <4>1. \A i \in 1..m : place[i] \in Names
        BY <1>1, <3>1
      <4>. QED
        BY <3>2, <4>1, SubSeqProperties DEF Prefix
    <3>4. /\ Prefix(place, k) \in Seq(Names) /\ Len(Prefix(place, k)) = k
          /\ \A i \in 1..k : Prefix(place, k)[i] = place[i]
      <4>1. \A i \in 1..k : place[i] \in Names
        BY <1>1, <3>1
      <4>. QED
        BY <3>2, <4>1, SubSeqProperties DEF Prefix
    <3>5. /\ Prefix(q, k) \in Seq(Names) /\ Len(Prefix(q, k)) = k
          /\ \A i \in 1..k : Prefix(q, k)[i] = q[i]
      <4>1. \A i \in 1..k : q[i] \in Names
        BY <1>1, <1>2, <3>1, <3>3
      <4>. QED
        BY <3>2, <4>1, SubSeqProperties DEF Prefix
    <3>6. \A i \in 1..k : Prefix(q, k)[i] = Prefix(place, k)[i]
      BY <1>1, <1>2, <3>3, <3>4, <3>5
    <3>. QED
      BY <3>4, <3>5, <3>6, SeqEqual
  <2>. QED
    BY <2>2, <2>3 DEF IsA
<1>. QED
  BY <1>4

\* A walk that has come along the first n names of a place.
OnWay(place, n) == [at |-> Prefix(place, n), todo |-> Rest(place, n), end |-> "no"]

LEMMA NextName ==
  ASSUME NEW place \in AllPlaces, NEW n \in 0..(Len(place) - 1), NEW w, w = OnWay(place, n)
  PROVE  /\ w.at = Prefix(place, n) /\ w.todo # << >> /\ w.end = "no"
         /\ Append(w.at, Head(w.todo)) = Prefix(place, n + 1) /\ Head(w.todo) # ".."
         /\ Tail(w.todo) = Rest(place, n + 1) /\ (Rest(place, n + 1) = << >> <=> n + 1 = Len(place))
<1>1. /\ Rest(place, n) # << >> /\ Head(Rest(place, n)) = place[n + 1]
      /\ Tail(Rest(place, n)) = Rest(place, n + 1)
      /\ place[n + 1] \in Names /\ Append(Prefix(place, n), place[n + 1]) = Prefix(place, n + 1)
  BY SplitAt
<1>2. place[n + 1] # ".."
  BY <1>1, NamesAssumption
<1>3. Rest(place, n + 1) = << >> <=> n + 1 = Len(place)
  <2>1. Len(place) \in Nat /\ n + 1 \in 0..Len(place)
    BY PrefixesOf
  <2>2. Rest(place, n + 1) \in Seq(Names) /\ Len(Rest(place, n + 1)) = Len(place) - (n + 1)
    BY <2>1, RestOf DEF AllPlaces
  <2>3. Rest(place, n + 1) = << >> <=> Len(Rest(place, n + 1)) = 0
    BY <2>2, EmptySeq
  <2>. QED
    BY <2>1, <2>2, <2>3
<1>. QED
  BY <1>1, <1>2, <1>3 DEF OnWay

LEMMA StepOn ==
  ASSUME NEW t, IsTree(t), NEW place \in AllPlaces, NEW n \in 0..(Len(place) - 1), NEW followFinal \in BOOLEAN,
         Prefix(place, n + 1) \in DOMAIN t,
         IsA(t, Prefix(place, n + 1), "sym") => n + 1 = Len(place) /\ ~followFinal
  PROVE  WalkStep(t, OnWay(place, n), followFinal, TRUE) = OnWay(place, n + 1)
<1>1. PICK w, child : w = OnWay(place, n) /\ child = Prefix(place, n + 1)
  OBVIOUS
<1>2. /\ w.at = Prefix(place, n) /\ w.todo # << >> /\ w.end = "no"
      /\ Append(w.at, Head(w.todo)) = child /\ Head(w.todo) # ".."
      /\ Tail(w.todo) = Rest(place, n + 1) /\ (Rest(place, n + 1) = << >> <=> n + 1 = Len(place))
  BY <1>1, NextName
<1>3. IsA(t, Prefix(place, n), "dir")
  <2>1. n + 1 \in 0..Len(place) /\ n \in 0..(n + 1) /\ n # n + 1
    BY PrefixesOf
  <2>. QED
    BY <2>1, DirsOnWay
<1>4. child \in DOMAIN t /\ (t[child].type = "sym" => Tail(w.todo) = << >> /\ ~followFinal)
  BY <1>1, <1>2 DEF IsA
<1>5. WalkStep(t, w, followFinal, TRUE) = [w EXCEPT !.at = child, !.todo = Tail(w.todo)]
  BY <1>2, <1>3, <1>4 DEF WalkStep
<1>6. w = [at |-> Prefix(place, n), todo |-> Rest(place, n), end |-> "no"]
  BY <1>1 DEF OnWay
<1>. QED
  BY <1>1, <1>2, <1>5, <1>6 DEF OnWay

\* It goes on from the link that is the next name of the place.
AtLink(t, place, n) ==
  LET link == t[Prefix(place, n + 1)].link
  IN [at |-> IF link.abs THEN << >> ELSE Prefix(place, n), todo |-> link.parts \o Rest(place, n + 1), end |-> "no"]

LEMMA StepLink ==
  ASSUME NEW t, IsTree(t), NEW place \in AllPlaces, NEW n \in 0..(Len(place) - 1), NEW followFinal \in BOOLEAN,
         IsA(t, Prefix(place, n + 1), "sym"), followFinal \/ n + 1 # Len(place)
  PROVE  WalkStep(t, OnWay(place, n), followFinal, TRUE) = AtLink(t, place, n)
<1>1. PICK w, child : w = OnWay(place, n) /\ child = Prefix(place, n + 1)
  OBVIOUS
<1>2. /\ w.at = Prefix(place, n) /\ w.todo # << >> /\ w.end = "no"
      /\ Append(w.at, Head(w.todo)) = child /\ Head(w.todo) # ".."
      /\ Tail(w.todo) = Rest(place, n + 1) /\ (Rest(place, n + 1) = << >> <=> n + 1 = Len(place))
  BY <1>1, NextName
<1>3. IsA(t, Prefix(place, n), "dir")
  <2>1. n + 1 \in 0..Len(place) /\ n \in 0..(n + 1) /\ n # n + 1
    BY PrefixesOf
  <2>. QED
    BY <2>1, DirsOnWay DEF IsA
<1>4. PICK link : link = t[child].link
  OBVIOUS
<1>5. child \in DOMAIN t /\ t[child].type = "sym" /\ ~(Tail(w.todo) = << >> /\ ~followFinal) /\ t[child].link = link
  BY <1>1, <1>2, <1>4 DEF IsA
<1>6. PICK from : from = IF link.abs THEN << >> ELSE w.at
  OBVIOUS
<1>7. WalkStep(t, w, followFinal, TRUE) = [w EXCEPT !.at = from, !.todo = link.parts \o Tail(w.todo)]
  BY <1>2, <1>3, <1>5, <1>6 DEF WalkStep
<1>8. w = [at |-> Prefix(place, n), todo |-> Rest(place, n), end |-> "no"]
  BY <1>1 DEF OnWay
<1>9. WalkStep(t, w, followFinal, TRUE) = [at |-> from, todo |-> link.parts \o Rest(place, n + 1), end |-> "no"]
  BY <1>2, <1>7, <1>8
<1>10. AtLink(t, place, n) = [at |-> from, todo |-> link.parts \o Rest(place, n + 1), end |-> "no"]
  BY <1>1, <1>2, <1>4, <1>6 DEF AtLink
<1>. QED
  BY <1>1, <1>9, <1>10

LEMMA StepLost ==
  ASSUME NEW t, NEW place \in AllPlaces, NEW n \in 0..(Len(place) - 1), NEW followFinal,
         Prefix(place, n + 1) \notin DOMAIN t
  PROVE  WalkStep(t, OnWay(place, n), followFinal, TRUE).end \in {"notdir", "missing"}
<1>1. PICK w, child, v : w = OnWay(place, n) /\ child = Prefix(place, n + 1) /\ v = WalkStep(t, w, followFinal, TRUE)
  OBVIOUS
<1>2. /\ w.at = Prefix(place, n) /\ w.todo # << >> /\ w.end = "no"
      /\ Append(w.at, Head(w.todo)) = child /\ Head(w.todo) # ".."
  BY <1>1, NextName
<1>3. v = [w EXCEPT !.end = "notdir"] \/ v = [w EXCEPT !.end = "missing"]
  BY <1>1, <1>2 DEF WalkStep
<1>4. w = [at |-> Prefix(place, n), todo |-> Rest(place, n), end |-> "no"]
  BY <1>1 DEF OnWay
<1>5. v.end \in {"notdir", "missing"}
  BY <1>3, <1>4
<1>. QED
  BY <1>1, <1>5

LEMMA StepEnd ==
  ASSUME NEW t, NEW place \in AllPlaces, NEW followFinal
  PROVE  WalkStep(t, OnWay(place, Len(place)), followFinal, TRUE) = [at |-> place, todo |-> << >>, end |-> "at"]
<1>1. Prefix(place, Len(place)) = place /\ Rest(place, Len(place)) = << >>
  <2>1. Len(place) \in Nat
    BY PrefixesOf
  <2>. QED
    BY <2>1, PrefixesOf, SubSeqEmpty DEF Rest
<1>2. PICK w : w = OnWay(place, Len(place))
  OBVIOUS
<1>3. w = [at |-> place, todo |-> << >>, end |-> "no"]
  BY <1>1, <1>2 DEF OnWay
<1>4. WalkStep(t, w, followFinal, TRUE) = [w EXCEPT !.end = "at"]
  BY <1>3 DEF WalkStep
<1>5. [w EXCEPT !.end = "at"] = [at |-> place, todo |-> << >>, end |-> "at"]
  BY <1>3
<1>6. WalkStep(t, w, followFinal, TRUE) = [at |-> place, todo |-> << >>, end |-> "at"]
  BY <1>4, <1>5
<1>. QED
  BY <1>2, <1>6

\* No link is followed on the way to the first m names of a place.
NoLinkUpTo(t, place, followFinal, m) ==
  \A k \in 1..m : IsA(t, Prefix(place, k), "sym") => k = Len(place) /\ ~followFinal

LEMMA Along ==
  ASSUME NEW t, IsTree(t), NEW followFinal \in BOOLEAN, NEW g, Goes(t, followFinal, g),
         NEW place \in AllPlaces, NEW n \in 0..Len(place), NEW m \in n..Len(place), NEW s \in Nat,
         g[s] = OnWay(place, n), s + (m - n) <= Fuel,
         Prefix(place, m) \in DOMAIN t, NoLinkUpTo(t, place, followFinal, m)
  PROVE  g[s + (m - n)] = OnWay(place, m)
<1>. DEFINE T == {k \in Nat : n + k <= m => g[s + k] = OnWay(place, n + k)}
<1>1. Len(place) \in Nat /\ Fuel \in Nat
  BY PrefixesOf, FuelAssumption
<1>2. 0 \in T
  BY <1>1
<1>3. ASSUME NEW k \in Nat, k \in T PROVE k + 1 \in T
  <2>1. SUFFICES ASSUME n + (k + 1) <= m PROVE g[s + (k + 1)] = OnWay(place, n + (k + 1))
    OBVIOUS
  <2>2. PICK i : i = n + k
    OBVIOUS
  <2>3. i \in 0..(Len(place) - 1) /\ i + 1 = n + (k + 1) /\ i + 1 \in 0..m /\ i + 1 \in 1..m /\ m \in 0..Len(place)
    BY <1>1, <2>1, <2>2
  <2>4. s + (k + 1) \in 1..Fuel /\ (s + (k + 1)) - 1 = s + k
    BY <1>1, <2>1
  <2>5. g[s + k] = OnWay(place, i)
    BY <1>1, <1>3, <2>1, <2>2
  <2>6. g[s + (k + 1)] = WalkStep(t, OnWay(place, i), followFinal, TRUE)
    BY <2>4, <2>5 DEF Goes
  <2>7. Prefix(place, i + 1) \in DOMAIN t
    BY <2>3, DirsOnWay
  <2>8. IsA(t, Prefix(place, i + 1), "sym") => i + 1 = Len(place) /\ ~followFinal
    BY <2>3 DEF NoLinkUpTo
  <2>9. WalkStep(t, OnWay(place, i), followFinal, TRUE) = OnWay(place, i + 1)
    BY <2>3, <2>7, <2>8, StepOn
  <2>. QED
    BY <2>3, <2>6, <2>9
<1>. HIDE DEF T
<1>4. Nat \subseteq T
  BY <1>2, <1>3, NatSetInduction
<1>5. m - n \in T /\ n + (m - n) = m
  BY <1>1, <1>4
<1>. QED
  BY <1>1, <1>5 DEF T

LEMMA WalkStops ==
  ASSUME NEW t, NEW followFinal, NEW g, Goes(t, followFinal, g), NEW s \in 0..Fuel, g[s].end # "no"
  PROVE  g[Fuel] = g[s]
<1>. DEFINE T == {k \in Nat : s + k <= Fuel => g[s + k] = g[s]}
<1>1. Fuel \in Nat
  BY FuelAssumption
<1>2. 0 \in T
  BY <1>1
<1>3. ASSUME NEW k \in Nat, k \in T PROVE k + 1 \in T
  <2>1. SUFFICES ASSUME s + (k + 1) <= Fuel PROVE g[s + (k + 1)] = g[s]
    OBVIOUS
  <2>2. s + (k + 1) \in 1..Fuel /\ (s + (k + 1)) - 1 = s + k /\ g[s + k] = g[s]
    BY <1>1, <1>3, <2>1
  <2>3. PICK w : w = g[s]
    OBVIOUS
  <2>4. g[s + (k + 1)] = WalkStep(t, w, followFinal, TRUE) /\ w.end # "no"
    BY <2>2, <2>3 DEF Goes
  <2>5. WalkStep(t, w, followFinal, TRUE) = w
    BY <2>4 DEF WalkStep
  <2>. QED
    BY <2>3, <2>4, <2>5
<1>. HIDE DEF T
<1>4. Nat \subseteq T
  BY <1>2, <1>3, NatSetInduction
<1>5. Fuel - s \in T /\ s + (Fuel - s) = Fuel
  BY <1>1, <1>4
<1>. QED
  BY <1>1, <1>5 DEF T

\* The walk is on the way to a place, and is to be there within b steps.
OnTheWay(t, g, place, b) ==
  \E n \in 0..Len(place), s \in Nat :
    IsA(t, Prefix(place, n), "dir") /\ g[s] = OnWay(place, n) /\ s + (Len(place) - n) <= b

LEMMA NoStopUpTo ==
  ASSUME NEW t, NEW place \in AllPlaces, NEW followFinal \in BOOLEAN, NEW m \in 0..Len(place),
         \A k \in Stops(t, place, followFinal) : m < k
  PROVE  NoLinkUpTo(t, place, followFinal, m)
<1>1. Len(place) \in Nat
  BY PrefixesOf
<1>2. SUFFICES ASSUME NEW k \in 1..m, IsA(t, Prefix(place, k), "sym"), ~(k = Len(place) /\ ~followFinal)
               PROVE  FALSE
  BY DEF NoLinkUpTo
<1>3. k \in 1..(IF followFinal THEN Len(place) ELSE Len(place) - 1)
  BY <1>1, <1>2
<1>4. Lstat(t, Prefix(place, k)) = "sym"
  BY <1>2 DEF Lstat, IsA
<1>5. k \in Stops(t, place, followFinal)
  BY <1>3, <1>4 DEF Stops
<1>. QED
  BY <1>1, <1>2, <1>5

\* Where nothing stops it, the walk comes to a place in the tree.
LEMMA Arrive ==
  ASSUME NEW t, IsTree(t), NEW followFinal \in BOOLEAN, NEW g, Goes(t, followFinal, g),
         NEW place \in AllPlaces, NEW b \in Nat, b < Fuel, OnTheWay(t, g, place, b),
         Stops(t, place, followFinal) = {}, place \in DOMAIN t
  PROVE  g[Fuel].end = "at" /\ g[Fuel].at = place
<1>1. PICK n \in 0..Len(place), s \in Nat :
        IsA(t, Prefix(place, n), "dir") /\ g[s] = OnWay(place, n) /\ s + (Len(place) - n) <= b
  BY DEF OnTheWay
<1>2. PICK m : m = Len(place)
  OBVIOUS
<1>3. m \in Nat /\ Fuel \in Nat /\ m \in n..Len(place) /\ m \in 0..Len(place) /\ Prefix(place, m) \in DOMAIN t
  BY <1>2, PrefixesOf, FuelAssumption
<1>4. NoLinkUpTo(t, place, followFinal, m)
  BY <1>3, NoStopUpTo
<1>5. s + (m - n) <= Fuel /\ s + (m - n) + 1 \in 1..Fuel /\ (s + (m - n) + 1) - 1 = s + (m - n)
  BY <1>1, <1>2, <1>3
<1>6. g[s + (m - n)] = OnWay(place, m)
  BY <1>1, <1>3, <1>4, <1>5, Along
<1>7. PICK e : e = s + (m - n) + 1
  OBVIOUS
<1>8. g[e] = WalkStep(t, OnWay(place, m), followFinal, TRUE)
  BY <1>5, <1>6, <1>7 DEF Goes
<1>9. g[e] = [at |-> place, todo |-> << >>, end |-> "at"]
  BY <1>2, <1>8, StepEnd
<1>10. e \in 0..Fuel /\ g[e].end # "no"
  BY <1>5, <1>7, <1>9
<1>11. g[Fuel] = g[e]
  BY <1>10, WalkStops
<1>. QED
  BY <1>9, <1>11

\* A walk does not come to a place when there is nothing somewhere above.
LEMMA Lost ==
  ASSUME NEW t, IsTree(t), NEW followFinal \in BOOLEAN, NEW g, Goes(t, followFinal, g),
         NEW place \in AllPlaces, NEW b \in Nat, b < Fuel, OnTheWay(t, g, place, b),
         NEW m \in 1..Len(place), Prefix(place, m) \notin DOMAIN t, NoLinkUpTo(t, place, followFinal, m)
  PROVE  g[Fuel].end # "at"
<1>1. PICK n \in 0..Len(place), s \in Nat :
        IsA(t, Prefix(place, n), "dir") /\ g[s] = OnWay(place, n) /\ s + (Len(place) - n) <= b
  BY DEF OnTheWay
<1>2. Len(place) \in Nat /\ Fuel \in Nat
  BY PrefixesOf, FuelAssumption
<1>3. PICK M : M = {k \in 1..m : Prefix(place, k) \notin DOMAIN t}
  OBVIOUS
<1>4. M \subseteq Nat /\ M # {}
  BY <1>2, <1>3
<1>5. PICK l \in M : \A k \in M : l <= k
  BY <1>4, LeastOf
<1>6. l \in 1..m /\ l \in 1..Len(place) /\ Prefix(place, l) \notin DOMAIN t
  BY <1>2, <1>3, <1>5
<1>7. n < l
  <2>1. SUFFICES ASSUME ~(n < l) PROVE FALSE
    OBVIOUS
  <2>2. l \in 0..n /\ n \in 0..Len(place) /\ Prefix(place, n) \in DOMAIN t
    BY <1>1, <1>2, <1>6, <2>1 DEF IsA
  <2>. QED
    BY <1>6, <2>2, DirsOnWay
<1>8. PICK k : k = l - 1
  OBVIOUS
<1>9. k \in n..Len(place) /\ k \in 0..(Len(place) - 1) /\ l = k + 1 /\ k \in 0..m
  BY <1>2, <1>6, <1>7, <1>8
<1>10. Prefix(place, k) \in DOMAIN t
  <2>1. CASE k = n
    BY <1>1, <2>1 DEF IsA
  <2>2. CASE k # n
    <3>1. k \in 1..m /\ k < l /\ k \in Nat /\ l \in Nat
      BY <1>2, <1>6, <1>9, <2>2
    <3>. QED
      BY <1>3, <1>5, <3>1
  <2>. QED
    BY <2>1, <2>2
<1>11. NoLinkUpTo(t, place, followFinal, k)
  <2>1. \A j \in 1..k : j \in 1..m
    BY <1>2, <1>9
  <2>. QED
    BY <2>1 DEF NoLinkUpTo
<1>12. s + (k - n) <= Fuel /\ s + (k - n) + 1 \in 1..Fuel /\ (s + (k - n) + 1) - 1 = s + (k - n)
  BY <1>1, <1>2, <1>9
<1>13. g[s + (k - n)] = OnWay(place, k)
  BY <1>1, <1>9, <1>10, <1>11, <1>12, Along
<1>14. PICK e : e = s + (k - n) + 1
  OBVIOUS
<1>15. g[e] = WalkStep(t, OnWay(place, k), followFinal, TRUE)
  BY <1>12, <1>13, <1>14 DEF Goes
<1>16. g[e].end \in {"notdir", "missing"}
  BY <1>6, <1>9, <1>15, StepLost
<1>17. g[Fuel] = g[e]
  <2>1. e \in 0..Fuel /\ g[e].end # "no"
    BY <1>12, <1>14, <1>16
  <2>. QED
    BY <2>1, WalkStops
<1>. QED
  BY <1>16, <1>17

LeadsUp(todo, ups) == \A i \in 1..ups : todo[i] = ".."

\* The walk from a place, k steps up.
GoneUp(from, todo, k) == [at |-> Prefix(from, Len(from) - k), todo |-> Rest(todo, k), end |-> "no"]

LEMMA GoUp ==
  ASSUME NEW t, NEW followFinal, NEW g, Goes(t, followFinal, g), NEW s \in Nat, NEW ups \in Nat, s + ups <= Fuel,
         NEW from \in AllPlaces, ups <= Len(from), NEW todo \in Seq(Parts), ups <= Len(todo),
         LeadsUp(todo, ups), g[s] = GoneUp(from, todo, 0)
  PROVE  g[s + ups] = GoneUp(from, todo, ups)
<1>. DEFINE T == {k \in Nat : k <= ups => g[s + k] = GoneUp(from, todo, k)}
<1>1. Len(from) \in Nat /\ Fuel \in Nat /\ Len(todo) \in Nat
  BY PrefixesOf, FuelAssumption, LenProperties
<1>2. 0 \in T
  OBVIOUS
<1>3. ASSUME NEW k \in Nat, k \in T PROVE k + 1 \in T
  <2>1. SUFFICES ASSUME k + 1 <= ups PROVE g[s + (k + 1)] = GoneUp(from, todo, k + 1)
    OBVIOUS
  <2>2. s + (k + 1) \in 1..Fuel /\ (s + (k + 1)) - 1 = s + k /\ k \in 0..(Len(todo) - 1) /\ k + 1 \in 1..ups
    BY <1>1, <2>1
  <2>3. PICK n, w : n = Len(from) - k /\ w = GoneUp(from, todo, k)
    OBVIOUS
  <2>4. n \in 1..Len(from) /\ Len(from) - (k + 1) = n - 1
    BY <1>1, <2>1, <2>3
  <2>5. g[s + k] = w
    BY <1>3, <2>1, <2>3
  <2>6. g[s + (k + 1)] = WalkStep(t, w, followFinal, TRUE)
    BY <2>2, <2>5 DEF Goes
  <2>7. Prefix(from, n) # << >> /\ Front(Prefix(from, n)) = Prefix(from, n - 1)
    BY <2>4, PrefixesOf
  <2>8. Rest(todo, k) # << >> /\ Head(Rest(todo, k)) = ".." /\ Tail(Rest(todo, k)) = Rest(todo, k + 1)
    BY <2>2, RestSteps DEF LeadsUp
  <2>9. w = [at |-> Prefix(from, n), todo |-> Rest(todo, k), end |-> "no"]
    BY <2>3 DEF GoneUp
  <2>10. WalkStep(t, w, followFinal, TRUE) = [w EXCEPT !.at = Front(w.at), !.todo = Tail(w.todo)]
    BY <2>7, <2>8, <2>9 DEF WalkStep
  <2>11. WalkStep(t, w, followFinal, TRUE) = GoneUp(from, todo, k + 1)
    BY <2>4, <2>7, <2>8, <2>9, <2>10 DEF GoneUp
  <2>. QED
    BY <2>6, <2>11
<1>. HIDE DEF T
<1>4. Nat \subseteq T
  BY <1>2, <1>3, NatSetInduction
<1>. QED
  BY <1>4 DEF T

\* The links of a tree are plain, and none is longer than most.
PlainLinks(t, most) ==
  \A q \in DOMAIN t : t[q].type = "sym" => Plain(t[q].link) /\ Len(t[q].link.parts) <= most

\* Where a link is followed, the walk follows it too.
LEMMA Follow ==
  ASSUME NEW t, IsTree(t), NEW followFinal \in BOOLEAN, NEW g, Goes(t, followFinal, g),
         NEW most \in Nat, PlainLinks(t, most),
         NEW place \in AllPlaces, NEW b \in Nat, b + most < Fuel, OnTheWay(t, g, place, b),
         NEW i \in 1..Len(place), IsA(t, Prefix(place, i), "sym"), followFinal \/ i # Len(place),
         NoLinkUpTo(t, place, followFinal, i - 1),
         NEW r, r = FollowLink(t, place, i), r.ok
  PROVE  r.place \in AllPlaces /\ OnTheWay(t, g, r.place, b + most)
<1>1. PICK n \in 0..Len(place), s \in Nat :
        IsA(t, Prefix(place, n), "dir") /\ g[s] = OnWay(place, n) /\ s + (Len(place) - n) <= b
  BY DEF OnTheWay
<1>2. Len(place) \in Nat /\ Fuel \in Nat
  BY PrefixesOf, FuelAssumption
<1>3. PICK link : link = t[Prefix(place, i)].link
  OBVIOUS
<1>4. Prefix(place, i) \in DOMAIN t /\ link \in Path /\ Plain(link) /\ Len(link.parts) <= most
  BY <1>3, NodeTypes DEF IsA, LinksTyped, PlainLinks
<1>5. PICK ups : HasUps(link.parts, ups)
  BY <1>4, PlainUps
<1>6. PICK above, rest : above = Prefix(place, i - 1) /\ rest = Rest(place, i)
  OBVIOUS
<1>7. above \in AllPlaces /\ rest \in AllPlaces /\ Len(rest) = Len(place) - i
  <2>1. i - 1 \in 0..Len(place) /\ i \in 0..Len(place)
    BY <1>2
  <2>2. above \in AllPlaces
    BY <1>6, <2>1, PrefixesOf
  <2>3. rest \in AllPlaces /\ Len(rest) = Len(place) - i
    BY <1>6, <2>1, RestOf DEF AllPlaces
  <2>. QED
    BY <2>2, <2>3
<1>8. PICK from : from = IF link.abs THEN << >> ELSE above
  OBVIOUS
<1>9. IsA(t, from, "dir") /\ from \in AllPlaces /\ Len(from) \in Nat
  <2>1. IsA(t, above, "dir")
    <3>1. i \in 0..Len(place) /\ i - 1 \in 0..i /\ i - 1 # i
      BY <1>2
    <3>. QED
      BY <1>4, <1>6, <3>1, DirsOnWay
  <2>2. IsA(t, << >>, "dir") /\ << >> \in AllPlaces
    BY EmptySeq DEF IsTree, AllPlaces
  <2>3. IsA(t, from, "dir") /\ from \in AllPlaces
    BY <1>7, <1>8, <2>1, <2>2
  <2>. QED
    BY <2>3, PrefixesOf
<1>10. PICK parts, top, down : parts = link.parts /\ top = Prefix(from, Len(from) - ups) /\ down = Rest(parts, ups)
  OBVIOUS
<1>11. /\ parts \in Seq(Parts) /\ Len(parts) \in Nat /\ ups \in 0..Len(parts)
       /\ \A k \in 1..ups : parts[k] = ".." 
       /\ \A k \in (ups + 1)..Len(parts) : parts[k] \in Names
  <2>1. parts \in Seq(Parts)
    BY <1>4, <1>10 DEF Path, Parts
  <2>2. Len(parts) \in Nat
    BY <2>1, LenProperties
  <2>. QED
    BY <1>5, <1>10, <2>1, <2>2 DEF HasUps
<1>12. down \in AllPlaces /\ Len(down) = Len(parts) - ups
  <2>1. ups + 1 \in Int /\ Len(parts) \in Int
    BY <1>11
  <2>. QED
    BY <1>10, <1>11, <2>1, SubSeqProperties DEF Rest, AllPlaces
<1>13. PICK to : to = RootPathParts(above, link)
  OBVIOUS
<1>14. to = IF ups <= Len(from) THEN Found(top \o down) ELSE Refused
  <2>1. to = IF ups <= Len(from) THEN Found(Prefix(from, Len(from) - ups) \o Rest(link.parts, ups)) ELSE Refused
    <3>1. /\ above \in AllPlaces /\ link \in Path /\ Plain(link) /\ HasUps(link.parts, ups)
          /\ from = IF link.abs THEN << >> ELSE above
      BY <1>4, <1>5, <1>7, <1>8
    <3>. QED
      BY ONLY <1>13, <3>1, RootPathPlain
  <2>. QED
    BY <1>10, <2>1
<1>15. r = Below(to, rest)
  BY <1>3, <1>6, <1>13 DEF FollowLink, Rest
<1>16. to.ok /\ r = Found(to.place \o rest)
  BY <1>15 DEF Below, Refused
<1>17. ups <= Len(from) /\ r.place = (top \o down) \o rest
  <2>1. ups <= Len(from)
    BY <1>14, <1>16 DEF Refused
  <2>2. to = Found(top \o down)
    BY <1>14, <2>1
  <2>3. to.place = top \o down /\ r.place = to.place \o rest
    BY <1>16, <2>2 DEF Found
  <2>. QED
    BY <2>1, <2>3
<1>18. Len(from) - ups \in 0..Len(from)
  BY <1>9, <1>11, <1>17
<1>19. top \in AllPlaces /\ Len(top) = Len(from) - ups /\ IsA(t, top, "dir")
  <2>1. top \in AllPlaces /\ Len(top) = Len(from) - ups
    BY <1>9, <1>10, <1>18, PrefixesOf
  <2>2. Prefix(from, Len(from)) = from /\ Len(from) \in 0..Len(from)
    BY <1>9, PrefixesOf
  <2>3. CASE Len(from) - ups = Len(from)
    BY <1>9, <1>10, <2>1, <2>2, <2>3
  <2>4. CASE Len(from) - ups # Len(from)
    <3>1. Prefix(from, Len(from)) \in DOMAIN t
      BY <1>9, <2>2 DEF IsA
    <3>. QED
      BY <1>9, <1>10, <1>18, <2>1, <2>2, <2>4, <3>1, DirsOnWay
  <2>. QED
    BY <2>3, <2>4, <2>1
<1>20. PICK todo : todo = down \o rest
  OBVIOUS
<1>21. todo \in AllPlaces /\ Len(todo) = Len(down) + Len(rest) /\ r.place = top \o todo
  <2>1. todo \in AllPlaces /\ Len(todo) = Len(down) + Len(rest)
    BY <1>7, <1>12, <1>20, SplitConcat
  <2>2. PICK lower : lower = top \o down
    OBVIOUS
  <2>3. top \in AllPlaces /\ down \in AllPlaces /\ rest \in AllPlaces
    BY <1>7, <1>12, <1>19
  <2>4. lower \o rest = top \o todo
    BY ONLY <1>20, <2>2, <2>3, PlacesAssociate
  <2>. QED
    BY <1>17, <2>1, <2>2, <2>4
<1>22. /\ r.place \in AllPlaces /\ Len(r.place) = Len(top) + Len(todo)
       /\ Prefix(r.place, Len(top)) = top /\ Rest(r.place, Len(top)) = todo
  BY <1>19, <1>21, SplitConcat
<1>23. n <= i - 1
  <2>1. SUFFICES ASSUME ~(n <= i - 1) PROVE FALSE
    OBVIOUS
  <2>2. i \in 0..n /\ n \in 0..Len(place) /\ Prefix(place, n) \in DOMAIN t
    BY <1>1, <1>2, <2>1 DEF IsA
  <2>3. i # n => IsA(t, Prefix(place, i), "dir")
    BY <2>2, DirsOnWay
  <2>. QED
    BY <1>1, <2>3 DEF IsA
<1>24. PICK k : k = i - 1
  OBVIOUS
<1>25. k \in n..Len(place) /\ k \in 0..(Len(place) - 1) /\ i = k + 1 /\ k \in 0..i /\ i \in 0..Len(place)
  BY <1>2, <1>23, <1>24
<1>26. PICK e : e = s + (k - n)
  OBVIOUS
<1>27. e \in Nat /\ e <= Fuel /\ e + 1 \in 1..Fuel /\ (e + 1) - 1 = e /\ e + 1 + ups <= Fuel
  BY <1>1, <1>2, <1>4, <1>10, <1>11, <1>25, <1>26
<1>28. g[e] = OnWay(place, k)
  <2>1. Prefix(place, k) \in DOMAIN t
    BY <1>4, <1>25, DirsOnWay
  <2>2. NoLinkUpTo(t, place, followFinal, k) /\ s + (k - n) <= Fuel
    BY <1>24, <1>26, <1>27
  <2>3. g[s + (k - n)] = OnWay(place, k)
    BY <1>1, <1>25, <2>1, <2>2, Along
  <2>. QED
    BY <1>26, <2>3
<1>29. g[e + 1] = [at |-> from, todo |-> parts \o rest, end |-> "no"]
  <2>1. g[e + 1] = WalkStep(t, OnWay(place, k), followFinal, TRUE)
    BY <1>27, <1>28 DEF Goes
  <2>2. IsA(t, Prefix(place, k + 1), "sym") /\ (followFinal \/ k + 1 # Len(place)) /\ k \in 0..(Len(place) - 1)
    BY <1>25
  <2>3. WalkStep(t, OnWay(place, k), followFinal, TRUE) = AtLink(t, place, k)
    BY <2>2, StepLink
  <2>4. AtLink(t, place, k) = [at |-> from, todo |-> parts \o rest, end |-> "no"]
    BY <1>3, <1>6, <1>8, <1>10, <1>24, <1>25 DEF AtLink
  <2>. QED
    BY <2>1, <2>3, <2>4
<1>30. g[e + 1 + ups] = [at |-> top, todo |-> todo, end |-> "no"]
  <2>1. PICK whole, l : whole = parts \o rest /\ l = e + 1
    OBVIOUS
  <2>2. rest \in Seq(Parts)
    BY <1>7, SeqMonotonic DEF AllPlaces, Parts
  <2>3. /\ whole \in Seq(Parts) /\ Len(whole) = Len(parts) + Len(rest)
        /\ \A j \in 1..(Len(parts) + Len(rest)) : whole[j] = IF j <= Len(parts) THEN parts[j] ELSE rest[j - Len(parts)]
    BY <1>11, <2>1, <2>2, ConcatProperties
  <2>4. Len(rest) \in Nat
    BY <1>2, <1>7
  <2>5. ups <= Len(whole) /\ LeadsUp(whole, ups)
    <3>1. \A j \in 1..ups : j \in 1..Len(parts) /\ j \in 1..(Len(parts) + Len(rest)) /\ j <= Len(parts)
      BY <1>11, <2>4
    <3>2. ups <= Len(whole)
      BY <1>11, <2>3, <2>4
    <3>3. \A j \in 1..ups : whole[j] = parts[j]
      BY <2>3, <3>1
    <3>4. \A j \in 1..ups : whole[j] = ".."
      BY <1>11, <3>3
    <3>. QED
      BY <3>2, <3>4 DEF LeadsUp
  <2>6. Rest(whole, ups) = todo
    BY <1>10, <1>11, <1>20, <2>1, <2>2, RestOfConcat
  <2>7. ups \in Nat /\ l \in Nat /\ l + ups <= Fuel
    BY <1>11, <1>27, <2>1
  <2>8. g[l] = GoneUp(from, whole, 0)
    <3>1. Prefix(from, Len(from)) = from /\ Rest(whole, 0) = whole /\ Len(from) - 0 = Len(from)
      BY <1>9, <2>3, PrefixesOf, SubSeqFull DEF Rest
    <3>. QED
      BY <1>29, <2>1, <3>1 DEF GoneUp
  <2>9. from \in AllPlaces /\ ups <= Len(from) /\ whole \in Seq(Parts)
    BY <1>9, <1>17, <2>3
  <2>10. g[l + ups] = GoneUp(from, whole, ups)
    BY <2>5, <2>7, <2>8, <2>9, GoUp
  <2>. QED
    BY <1>10, <2>1, <2>6, <2>10 DEF GoneUp
<1>31. PICK p, m : p = r.place /\ m = Len(top)
  OBVIOUS
<1>32. g[e + 1 + ups] = OnWay(p, m)
  BY <1>22, <1>30, <1>31 DEF OnWay
<1>33. m \in 0..Len(p) /\ e + 1 + ups \in Nat /\ (e + 1 + ups) + (Len(p) - m) <= b + most
  <2>1. Len(top) \in Nat /\ Len(todo) \in Nat
    BY <1>19, <1>21, PrefixesOf
  <2>2. Len(p) - m = Len(parts) - ups + (Len(place) - i) /\ m \in 0..Len(p)
    BY <1>2, <1>7, <1>11, <1>12, <1>21, <1>22, <1>31, <2>1
  <2>3. /\ i \in Nat /\ n \in Nat /\ s \in Nat /\ b \in Nat /\ most \in Nat /\ ups \in Nat
        /\ Len(parts) \in Nat /\ Len(place) \in Nat
    BY <1>1, <1>2, <1>11
  <2>4. e = s + (i - 1 - n) /\ s + (Len(place) - n) <= b /\ Len(parts) <= most
    BY <1>1, <1>4, <1>10, <1>24, <1>26
  <2>5. (e + 1 + ups) + (Len(parts) - ups + (Len(place) - i)) <= b + most
    BY ONLY <2>3, <2>4
  <2>6. e + 1 + ups \in Nat
    BY <1>27, <2>3
  <2>. QED
    BY <2>2, <2>5, <2>6
<1>34. IsA(t, Prefix(p, m), "dir")
  BY <1>19, <1>22, <1>31
<1>35. OnTheWay(t, g, p, b + most)
  BY <1>32, <1>33, <1>34 DEF OnTheWay
<1>. QED
  BY <1>22, <1>31, <1>35

\* A walk along a path, in a tree whose links are plain, and the way of the
\* resolution around its loop; there are steps enough for all the links.
Beside(t, path, followFinal, most, g, res) ==
  /\ IsTree(t) /\ PlainLinks(t, most)
  /\ path \in Path /\ Plain(path) /\ Len(path.parts) <= most
  /\ most \in Nat /\ (MaxLinks + 1) * most < Fuel
  /\ Goes(t, followFinal, g) /\ g[0] = [at |-> << >>, todo |-> path.parts, end |-> "no"]
  /\ Turns(t, path, followFinal, res)

\* The steps that the walk may take for i links.
LEMMA Budget ==
  ASSUME NEW most \in Nat, (MaxLinks + 1) * most < Fuel, NEW i \in 0..MaxLinks
  PROVE  /\ (i + 1) * most \in Nat /\ (i + 1) * most < Fuel
         /\ i # 0 => (i - 1) + 1 = i /\ i * most \in Nat /\ i * most + most = (i + 1) * most
<1>1. MaxLinks \in Nat /\ i \in Nat /\ Fuel \in Nat
  BY MaxLinksAssumption, FuelAssumption
<1>2. PICK k : k = MaxLinks - i
  OBVIOUS
<1>3. k \in Nat /\ MaxLinks = i + k
  BY <1>1, <1>2
<1>4. k * most \in Nat /\ i * most \in Nat
  BY <1>1, <1>3
<1>5. (i + 1) * most = i * most + most
  BY <1>1
<1>6. (MaxLinks + 1) * most = i * most + k * most + most
  BY <1>1, <1>3
<1>7. (i + 1) * most \in Nat
  BY <1>4, <1>5
<1>8. (i + 1) * most < Fuel
  BY <1>1, <1>4, <1>5, <1>6
<1>. QED
  BY <1>1, <1>4, <1>5, <1>7, <1>8

LEMMA ResolvedPlace ==
  ASSUME NEW r \in ResolvedTo(AllPlaces)
  PROVE  r = Refused \/ (r.ok /\ r.place \in AllPlaces /\ r = Found(r.place))
BY DEF ResolvedTo, Found

LEMMA SetOut ==
  ASSUME NEW t, NEW path, NEW followFinal, NEW most, NEW g, NEW res, Beside(t, path, followFinal, most, g, res),
         res[0].ok
  PROVE  OnTheWay(t, g, res[0].place, most)
<1>1. /\ IsTree(t) /\ path \in Path /\ Plain(path) /\ Len(path.parts) <= most
      /\ g[0] = [at |-> << >>, todo |-> path.parts, end |-> "no"] /\ res[0] = RootPathParts(<< >>, path)
  BY DEF Beside, Turns
<1>2. PICK ups : HasUps(path.parts, ups)
  BY <1>1, PlainUps
<1>3. PICK from : from = IF path.abs THEN << >> ELSE << >>
  OBVIOUS
<1>4. from = << >> /\ from \in AllPlaces /\ Len(from) = 0
  BY <1>3, EmptySeq DEF AllPlaces
<1>5. RootPathParts(<< >>, path)
        = IF ups <= Len(from) THEN Found(Prefix(from, Len(from) - ups) \o Rest(path.parts, ups)) ELSE Refused
  BY <1>1, <1>2, <1>3, <1>4, RootPathPlain
<1>6. PICK parts : parts = path.parts
  OBVIOUS
<1>7. parts \in Seq(Parts) /\ Len(parts) \in Nat
  BY <1>1, <1>6, LenProperties DEF Path, Parts
<1>8. ups = 0 /\ res[0] = Found(Prefix(from, 0) \o Rest(parts, 0))
  <2>1. ups \in 0..Len(parts)
    BY <1>2, <1>6 DEF HasUps
  <2>2. ups <= Len(from)
    BY <1>1, <1>5 DEF Refused
  <2>3. ups = 0 /\ Len(from) - ups = 0
    BY <1>4, <1>7, <2>1, <2>2
  <2>. QED
    BY <1>1, <1>5, <1>6, <2>2, <2>3
<1>9. parts \in AllPlaces
  <2>1. \A i \in 1..Len(parts) : parts[i] \in Names
    BY <1>2, <1>6, <1>8 DEF HasUps
  <2>. QED
    BY <1>7, <2>1 DEF AllPlaces
<1>10. Prefix(from, 0) = << >> /\ Rest(parts, 0) = parts /\ << >> \o parts = parts
  BY <1>4, <1>7, PrefixesOf, SubSeqFull, ConcatEmptySeq DEF Rest
<1>11. res[0] = Found(parts)
  BY <1>8, <1>10
<1>12. res[0].place = parts
  BY <1>11 DEF Found
<1>13. Prefix(parts, 0) = << >> /\ g[0] = OnWay(parts, 0)
  BY <1>1, <1>6, <1>9, <1>10, PrefixesOf DEF OnWay
<1>14. 0 \in 0..Len(parts) /\ 0 \in Nat /\ 0 + (Len(parts) - 0) <= most /\ IsA(t, Prefix(parts, 0), "dir")
  BY <1>1, <1>6, <1>7, <1>13 DEF IsTree
<1>15. OnTheWay(t, g, parts, most)
  BY <1>13, <1>14 DEF OnTheWay
<1>. QED
  BY <1>12, <1>15

\* Once around the loop: where it stops, and what is made of it.
LEMMA RoundOnTheWay ==
  ASSUME NEW t, NEW path, NEW followFinal \in BOOLEAN, NEW most, NEW g, NEW res,
         Beside(t, path, followFinal, most, g, res), NEW i \in 1..MaxLinks,
         res[i - 1].ok, OnTheWay(t, g, res[i - 1].place, i * most), res[i].ok
  PROVE  OnTheWay(t, g, res[i].place, (i + 1) * most)
<1>1. /\ IsTree(t) /\ PlainLinks(t, most) /\ most \in Nat /\ (MaxLinks + 1) * most < Fuel
      /\ Goes(t, followFinal, g) /\ Turns(t, path, followFinal, res)
  BY DEF Beside
<1>2. i \in 0..MaxLinks /\ i # 0 /\ i - 1 \in 0..MaxLinks
  BY MaxLinksAssumption
<1>3. PICK b, c : b = i * most /\ c = (i + 1) * most
  OBVIOUS
<1>4. b \in Nat /\ b + most = c /\ c < Fuel
  BY <1>1, <1>2, <1>3, Budget
<1>5. PICK r : r = res[i - 1]
  OBVIOUS
<1>6. r \in ResolvedTo(AllPlaces) /\ res[i] = Around(t, r, followFinal)
  BY <1>1, <1>2, <1>5 DEF Turns
<1>7. PICK place : place = r.place
  OBVIOUS
<1>8. place \in AllPlaces /\ r.ok /\ OnTheWay(t, g, place, b)
  BY <1>3, <1>5, <1>6, <1>7, ResolvedPlace DEF Refused
<1>9. CASE Stops(t, place, followFinal) = {}
  <2>1. res[i] = r
    BY <1>6, <1>7, <1>9 DEF Around
  <2>2. PICK n \in 0..Len(place), s \in Nat :
          IsA(t, Prefix(place, n), "dir") /\ g[s] = OnWay(place, n) /\ s + (Len(place) - n) <= b
    BY <1>8 DEF OnTheWay
  <2>3. s + (Len(place) - n) <= c
    <3>1. Len(place) \in Nat
      BY <1>8, PrefixesOf
    <3>. QED
      BY <1>1, <1>4, <2>2, <3>1
  <2>4. OnTheWay(t, g, place, c)
    BY <2>2, <2>3 DEF OnTheWay
  <2>. QED
    BY <1>3, <1>7, <2>1, <2>4
<1>10. CASE Stops(t, place, followFinal) # {}
  <2>1. PICK k : k = Min(Stops(t, place, followFinal))
    OBVIOUS
  <2>2. /\ k \in 1..Len(place) /\ (~followFinal => k # Len(place))
        /\ \A j \in Stops(t, place, followFinal) : k <= j
        /\ Stops(t, place, followFinal) \subseteq Nat
    <3>1. Stops(t, place, followFinal) \subseteq Nat
      <4>1. Len(place) \in Nat
        BY <1>8, PrefixesOf
      <4>. QED
        BY <4>1 DEF Stops
    <3>. QED
      BY <1>8, <1>10, <2>1, <3>1, FirstStop
  <2>3. res[i] = FollowLink(t, place, k)
    BY <1>6, <1>7, <1>8, <1>10, <2>1 DEF Around
  <2>4. IsA(t, Prefix(place, k), "sym")
    BY <2>3 DEF FollowLink, Refused
  <2>5. NoLinkUpTo(t, place, followFinal, k - 1)
    <3>1. Len(place) \in Nat
      BY <1>8, PrefixesOf
    <3>2. k - 1 \in 0..Len(place) /\ \A j \in Stops(t, place, followFinal) : k - 1 < j
      BY <2>2, <3>1
    <3>. QED
      BY <1>8, <3>2, NoStopUpTo
  <2>6. PICK to : to = FollowLink(t, place, k)
    OBVIOUS
  <2>7. OnTheWay(t, g, to.place, b + most)
    <3>1. b + most < Fuel
      BY <1>4
    <3>2. to.ok /\ (followFinal \/ k # Len(place))
      BY <2>2, <2>3, <2>6
    <3>. QED
      BY <1>1, <1>4, <1>8, <2>2, <2>4, <2>5, <2>6, <3>1, <3>2, Follow
  <2>. QED
    BY <1>3, <1>4, <2>3, <2>6, <2>7
<1>. QED
  BY <1>9, <1>10

LEMMA AllOnTheWay ==
  ASSUME NEW t, NEW path, NEW followFinal \in BOOLEAN, NEW most, NEW g, NEW res,
         Beside(t, path, followFinal, most, g, res)
  PROVE  \A i \in 0..MaxLinks : res[i].ok => OnTheWay(t, g, res[i].place, (i + 1) * most)
<1>. DEFINE T == {i \in Nat : i <= MaxLinks /\ res[i].ok => OnTheWay(t, g, res[i].place, (i + 1) * most)}
<1>1. most \in Nat /\ (MaxLinks + 1) * most < Fuel /\ Turns(t, path, followFinal, res)
  BY DEF Beside
<1>2. 0 \in T
  <2>1. (0 + 1) * most = most
    BY <1>1
  <2>2. res[0].ok => OnTheWay(t, g, res[0].place, most)
    BY SetOut
  <2>. QED
    BY <2>1, <2>2
<1>3. ASSUME NEW i \in Nat, i \in T PROVE i + 1 \in T
  <2>1. SUFFICES ASSUME i + 1 <= MaxLinks, res[i + 1].ok
                 PROVE  OnTheWay(t, g, res[i + 1].place, (i + 1 + 1) * most)
    OBVIOUS
  <2>2. PICK k : k = i + 1
    OBVIOUS
  <2>3. k \in 1..MaxLinks /\ k - 1 = i /\ i \in 0..MaxLinks
    BY <2>1, <2>2, MaxLinksAssumption
  <2>4. res[i] \in ResolvedTo(AllPlaces) /\ res[k] = Around(t, res[k - 1], followFinal)
    BY <1>1, <2>3 DEF Turns
  <2>5. res[i].ok
    BY <2>1, <2>2, <2>3, <2>4 DEF Around
  <2>6. OnTheWay(t, g, res[k - 1].place, k * most)
    BY <1>3, <2>2, <2>3, <2>5
  <2>. QED
    BY <2>1, <2>2, <2>3, <2>5, <2>6, RoundOnTheWay
<1>. HIDE DEF T
<1>4. Nat \subseteq T
  BY <1>2, <1>3, NatSetInduction
<1>. QED
  BY <1>4, MaxLinksAssumption DEF T

\* What the resolution finds in the tree is where the walk ends.
LEMMA FoundIsWalk ==
  ASSUME NEW t, NEW path, NEW followFinal \in BOOLEAN, NEW most, NEW g, NEW res,
         Beside(t, path, followFinal, most, g, res),
         NEW r, r = ResolvePathInRoot(t, path, followFinal), r.ok, r.place \in DOMAIN t
  PROVE  g[Fuel].end = "at" /\ g[Fuel].at = r.place
<1>1. /\ IsTree(t) /\ most \in Nat /\ (MaxLinks + 1) * most < Fuel
      /\ Goes(t, followFinal, g) /\ Turns(t, path, followFinal, res)
  BY DEF Beside
<1>2. MaxLinks \in 0..MaxLinks
  BY MaxLinksAssumption
<1>3. PICK last : last = res[MaxLinks]
  OBVIOUS
<1>4. last \in ResolvedTo(AllPlaces) /\ last = Rounds(t, path, followFinal)
  BY <1>1, <1>2, <1>3 DEF Turns
<1>5. r = IF last.ok /\ Stops(t, last.place, followFinal) # {} THEN Refused ELSE last
  BY <1>4, EndOfRounds
<1>6. r = last /\ last.ok /\ Stops(t, last.place, followFinal) = {}
  BY <1>5 DEF Refused
<1>7. PICK b : b = (MaxLinks + 1) * most
  OBVIOUS
<1>8. OnTheWay(t, g, r.place, b)
  BY <1>2, <1>3, <1>6, <1>7, AllOnTheWay
<1>9. b \in Nat /\ b < Fuel
  BY <1>1, <1>2, <1>7, Budget
<1>10. r.place \in AllPlaces
  BY <1>4, <1>6, ResolvedPlace DEF Refused
<1>. QED
  BY <1>1, <1>6, <1>8, <1>9, <1>10, Arrive

\* Neither the path nor a link leads above the top.
Inside(t, path) == ~HasUp(path) /\ \A q \in DOMAIN t : t[q].type = "sym" => StaysInside(t, q)

\* A walk does not come to an end below a file.
LEMMA StoppedByFile ==
  ASSUME NEW t, IsTree(t), NEW followFinal \in BOOLEAN, NEW g, Goes(t, followFinal, g),
         NEW place \in AllPlaces, NEW b \in Nat, b < Fuel, OnTheWay(t, g, place, b), g[Fuel].end = "at",
         Stops(t, place, followFinal) # {}
  PROVE  IsA(t, Prefix(place, Min(Stops(t, place, followFinal))), "sym")
<1>1. PICK k : k = Min(Stops(t, place, followFinal))
  OBVIOUS
<1>2. Len(place) \in Nat
  BY PrefixesOf
<1>3. /\ k \in Stops(t, place, followFinal) /\ k \in 1..Len(place)
      /\ \A j \in Stops(t, place, followFinal) : k <= j
  BY <1>1, FirstStop
<1>4. Stops(t, place, followFinal) \subseteq Nat
  BY <1>2 DEF Stops
<1>5. Lstat(t, Prefix(place, k)) \in {"sym", "notdir"}
  BY <1>3 DEF Stops
<1>6. CASE Prefix(place, k) \in DOMAIN t
  <2>1. t[Prefix(place, k)].type \in {"dir", "reg", "sym"}
    BY <1>6, NodeTypes
  <2>. QED
    BY <1>1, <1>5, <1>6, <2>1 DEF Lstat, IsA
<1>7. CASE Prefix(place, k) \notin DOMAIN t
  <2>1. k - 1 \in 0..Len(place) /\ \A j \in Stops(t, place, followFinal) : k - 1 < j
    BY <1>2, <1>3, <1>4
  <2>2. NoLinkUpTo(t, place, followFinal, k - 1)
    BY <2>1, NoStopUpTo
  <2>3. NoLinkUpTo(t, place, followFinal, k)
    <3>1. \A j \in 1..k : j = k \/ j \in 1..(k - 1)
      BY <1>2, <1>3
    <3>. QED
      BY <1>7, <2>2, <3>1 DEF NoLinkUpTo, IsA
  <2>4. g[Fuel].end # "at"
    BY <1>3, <1>7, <2>3, Lost
  <2>. QED
    BY <2>4
<1>. QED
  BY <1>6, <1>7

LEMMA RootPathDown ==
  ASSUME NEW base \in AllPlaces, NEW path \in Path, Plain(path),
         \A i \in DOMAIN path.parts : path.parts[i] = ".." => i <= Len(base)
  PROVE  RootPathParts(base, path).ok
<1>1. PICK ups : HasUps(path.parts, ups) /\ (path.abs \/ ~HasUp(path) => ups = 0)
  BY PlainUps
<1>2. PICK from : from = IF path.abs THEN << >> ELSE base
  OBVIOUS
<1>3. Len(from) \in Nat /\ ups <= Len(from)
  <2>1. from \in AllPlaces
    BY <1>2, EmptySeq DEF AllPlaces
  <2>2. path.parts \in Seq(Parts)
    BY DEF Path, Parts
  <2>3. Len(path.parts) \in Nat /\ DOMAIN path.parts = 1..Len(path.parts)
    BY <2>2, LenProperties
  <2>4. ups \in 0..Len(path.parts) /\ \A i \in 1..ups : path.parts[i] = ".."
    BY <1>1 DEF HasUps
  <2>5. ups = 0 \/ (~path.abs /\ ups <= Len(base))
    BY <1>1, <2>3, <2>4
  <2>6. Len(from) \in Nat
    BY <2>1, PrefixesOf
  <2>. QED
    BY <1>2, <2>5, <2>6
<1>4. RootPathParts(base, path)
        = IF ups <= Len(from) THEN Found(Prefix(from, Len(from) - ups) \o Rest(path.parts, ups)) ELSE Refused
  BY <1>1, <1>2, RootPathPlain
<1>. QED
  BY <1>3, <1>4 DEF Found

\* As long as nothing leads above the top and the walk comes to an end, no round refuses.
LEMMA NoRoundRefuses ==
  ASSUME NEW t, NEW path, NEW followFinal \in BOOLEAN, NEW most, NEW g, NEW res,
         Beside(t, path, followFinal, most, g, res), Inside(t, path), g[Fuel].end = "at"
  PROVE  \A i \in 0..MaxLinks : res[i].ok
<1>. DEFINE T == {i \in Nat : i <= MaxLinks => res[i].ok}
<1>1. /\ IsTree(t) /\ PlainLinks(t, most) /\ path \in Path /\ Plain(path)
      /\ most \in Nat /\ (MaxLinks + 1) * most < Fuel
      /\ Goes(t, followFinal, g) /\ Turns(t, path, followFinal, res)
  BY DEF Beside
<1>2. 0 \in T
  <2>1. << >> \in AllPlaces /\ \A j \in DOMAIN path.parts : path.parts[j] # ".."
    BY EmptySeq DEF AllPlaces, Inside, HasUp, ToSet
  <2>2. RootPathParts(<< >>, path).ok
    BY <1>1, <2>1, RootPathDown
  <2>. QED
    BY <1>1, <2>2 DEF Turns
<1>3. ASSUME NEW i \in Nat, i \in T PROVE i + 1 \in T
  <2>1. SUFFICES ASSUME i + 1 <= MaxLinks PROVE res[i + 1].ok
    OBVIOUS
  <2>2. PICK n, r : n = i + 1 /\ r = res[i]
    OBVIOUS
  <2>3. n \in 1..MaxLinks /\ n - 1 = i /\ i \in 0..MaxLinks /\ r.ok
    BY <1>3, <2>1, <2>2, MaxLinksAssumption
  <2>4. r \in ResolvedTo(AllPlaces) /\ res[n] = Around(t, r, followFinal)
    BY <1>1, <2>2, <2>3 DEF Turns
  <2>5. PICK place, b : place = r.place /\ b = (i + 1) * most
    OBVIOUS
  <2>6. place \in AllPlaces /\ OnTheWay(t, g, place, b) /\ b \in Nat /\ b < Fuel
    <3>1. OnTheWay(t, g, place, b)
      BY <2>2, <2>3, <2>5, AllOnTheWay
    <3>2. b \in Nat /\ b < Fuel
      BY <1>1, <2>3, <2>5, Budget
    <3>3. place \in AllPlaces
      BY <2>3, <2>4, <2>5, ResolvedPlace DEF Refused
    <3>. QED
      BY <3>1, <3>2, <3>3
  <2>7. CASE Stops(t, place, followFinal) = {}
    <3>1. res[n] = r
      BY <2>4, <2>5, <2>7 DEF Around
    <3>. QED
      BY <2>2, <2>3, <3>1
  <2>8. CASE Stops(t, place, followFinal) # {}
    <3>1. PICK k : k = Min(Stops(t, place, followFinal))
      OBVIOUS
    <3>2. IsA(t, Prefix(place, k), "sym")
      BY <1>1, <2>6, <2>8, <3>1, StoppedByFile
    <3>3. PICK link, above : link = t[Prefix(place, k)].link /\ above = Prefix(place, k - 1)
      OBVIOUS
    <3>4. link \in Path /\ Plain(link) /\ StaysInside(t, Prefix(place, k))
      BY <1>1, <3>2, <3>3 DEF IsA, IsTree, PlainLinks, Inside
    <3>5. above \in AllPlaces /\ \A j \in DOMAIN link.parts : link.parts[j] = ".." => j <= Len(above)
      <4>1. k \in 1..Len(place) /\ Len(place) \in Nat
        BY <2>6, <2>8, <3>1, FirstStop, PrefixesOf
      <4>2. k - 1 \in 0..Len(place) /\ k \in 0..Len(place)
        BY <4>1
      <4>3. above \in AllPlaces /\ Len(above) = k - 1 /\ Len(Prefix(place, k)) = k
        BY <2>6, <3>3, <4>2, PrefixesOf
      <4>4. DOMAIN link.parts = 1..Len(link.parts) /\ Len(link.parts) \in Nat
        <5>1. link.parts \in Seq(Parts)
          BY <3>4 DEF Path, Parts
        <5>. QED
          BY <5>1, LenProperties
      <4>5. \A j \in DOMAIN link.parts : link.parts[j] = ".." => j < k
        BY <3>3, <3>4, <4>3 DEF StaysInside
      <4>. QED
        BY <4>1, <4>3, <4>4, <4>5
    <3>6. RootPathParts(above, link).ok
      BY <3>4, <3>5, RootPathDown
    <3>7. FollowLink(t, place, k).ok
      BY <3>2, <3>3, <3>6 DEF FollowLink, Below, Found
    <3>8. res[n] = FollowLink(t, place, k)
      BY <2>3, <2>4, <2>5, <2>8, <3>1 DEF Around
    <3>. QED
      BY <2>2, <3>7, <3>8
  <2>. QED
    BY <2>7, <2>8
<1>. HIDE DEF T
<1>4. Nat \subseteq T
  BY <1>2, <1>3, NatSetInduction
<1>. QED
  BY <1>4, MaxLinksAssumption DEF T

\* What the walk finds is what the resolution does, or there is a link left.
LEMMA WalkIsFound ==
  ASSUME NEW t, NEW path, NEW followFinal \in BOOLEAN, NEW most, NEW g, NEW res,
         Beside(t, path, followFinal, most, g, res), Inside(t, path), g[Fuel].end = "at",
         NEW last, last = Rounds(t, path, followFinal)
  PROVE  \/ ResolvePathInRoot(t, path, followFinal) = Found(g[Fuel].at)
         \/ /\ last.ok /\ Stops(t, last.place, followFinal) # {}
            /\ IsA(t, Prefix(last.place, Min(Stops(t, last.place, followFinal))), "sym")
<1>1. /\ IsTree(t) /\ most \in Nat /\ (MaxLinks + 1) * most < Fuel
      /\ Goes(t, followFinal, g) /\ Turns(t, path, followFinal, res)
  BY DEF Beside
<1>2. MaxLinks \in 0..MaxLinks
  BY MaxLinksAssumption
<1>3. last \in ResolvedTo(AllPlaces) /\ last = res[MaxLinks]
  BY <1>1, <1>2 DEF Turns
<1>4. last.ok
  BY <1>2, <1>3, NoRoundRefuses
<1>5. PICK place, b : place = last.place /\ b = (MaxLinks + 1) * most
  OBVIOUS
<1>6. place \in AllPlaces /\ last = Found(place)
  BY <1>3, <1>4, <1>5, ResolvedPlace DEF Refused
<1>7. OnTheWay(t, g, place, b) /\ b \in Nat /\ b < Fuel
  <2>1. OnTheWay(t, g, place, b)
    BY <1>2, <1>3, <1>4, <1>5, AllOnTheWay
  <2>2. b \in Nat /\ b < Fuel
    BY <1>1, <1>2, <1>5, Budget
  <2>. QED
    BY <2>1, <2>2
<1>8. CASE Stops(t, place, followFinal) # {}
  <2>1. IsA(t, Prefix(place, Min(Stops(t, place, followFinal))), "sym")
    BY <1>1, <1>6, <1>7, <1>8, StoppedByFile
  <2>. QED
    BY <1>4, <1>5, <1>8, <2>1
<1>9. CASE Stops(t, place, followFinal) = {}
  <2>1. ResolvePathInRoot(t, path, followFinal) = last
    BY <1>5, <1>9, EndOfRounds
  <2>2. place \in DOMAIN t
    <3>1. SUFFICES ASSUME place \notin DOMAIN t PROVE FALSE
      OBVIOUS
    <3>2. PICK m : m = Len(place)
      OBVIOUS
    <3>3. place # << >>
      BY <1>1, <3>1 DEF IsTree, IsA
    <3>4. m \in 1..Len(place) /\ m \in 0..Len(place) /\ Prefix(place, m) = place
      BY <1>6, <3>2, <3>3, PrefixesOf
    <3>5. NoLinkUpTo(t, place, followFinal, m)
      BY <1>6, <1>9, <3>4, NoStopUpTo
    <3>. QED
      BY <1>1, <1>6, <1>7, <3>1, <3>4, <3>5, Lost
  <2>3. g[Fuel].at = place
    BY <1>1, <1>6, <1>7, <1>9, <2>2, Arrive
  <2>. QED
    BY <1>6, <2>1, <2>3
<1>. QED
  BY <1>8, <1>9


LEMMA ReachIs == Reach \in Nat /\ (MaxLinks + 1) * Reach < Fuel
BY FuelAssumption, MaxLinksAssumption DEF Reach

\* In a tree whose links are plain, a walk and the resolution of a plain path end
\* at the same place.
EndTogether(t, path, followFinal, r, w) ==
  /\ r.ok /\ r.place \in DOMAIN t => w.end = "at" /\ w.at = r.place
  /\ w.end = "at" /\ Inside(t, path) => r = Found(w.at) \/ LinksLeft(t, path, followFinal)

LEMMA EndsTogether ==
  ASSUME NEW t, IsTree(t), NEW most \in Nat, (MaxLinks + 1) * most < Fuel, PlainLinks(t, most),
         NEW path \in Path, Plain(path), Len(path.parts) <= most, NEW followFinal \in BOOLEAN,
         NEW r, r = ResolvePathInRoot(t, path, followFinal),
         NEW w, w = Walk(t, path.parts, followFinal, TRUE, Fuel)
  PROVE  EndTogether(t, path, followFinal, r, w)
<1>1. PICK g : /\ Goes(t, followFinal, g) /\ g[0] = [at |-> << >>, todo |-> path.parts, end |-> "no"]
               /\ g[Fuel] = w
  <2>1. path.parts \in Seq(Parts)
    BY DEF Path, Parts
  <2>. QED
    BY <2>1, WalkGoes
<1>2. PICK res : Turns(t, path, followFinal, res)
  BY NodeTypes, RoundsTurn
<1>3. Beside(t, path, followFinal, most, g, res)
  BY <1>1, <1>2 DEF Beside
<1>4. ASSUME r.ok, r.place \in DOMAIN t PROVE w.end = "at" /\ w.at = r.place
  <2>1. g[Fuel].end = "at" /\ g[Fuel].at = r.place
    BY <1>3, <1>4, FoundIsWalk
  <2>. QED
    BY <1>1, <2>1
<1>5. ASSUME w.end = "at", Inside(t, path)
      PROVE  r = Found(w.at) \/ LinksLeft(t, path, followFinal)
  <2>1. PICK last : last = Rounds(t, path, followFinal)
    OBVIOUS
  <2>2. \/ ResolvePathInRoot(t, path, followFinal) = Found(g[Fuel].at)
        \/ /\ last.ok /\ Stops(t, last.place, followFinal) # {}
           /\ IsA(t, Prefix(last.place, Min(Stops(t, last.place, followFinal))), "sym")
    BY <1>1, <1>3, <1>5, <2>1, WalkIsFound
  <2>. QED
    BY <1>1, <2>1, <2>2 DEF LinksLeft
<1>. QED
  BY <1>4, <1>5 DEF EndTogether
-----------------------------------------------------------------------------
(* The directory first: the walk to a place goes where the walk to its     *)
(* directory does, and one step further.                                   *)

LEMMA FrontOfAppend ==
  ASSUME NEW place \in AllPlaces, NEW name \in Names
  PROVE  Append(place, name) \in AllPlaces \ {<< >>} /\ Front(Append(place, name)) = place
<1>1. place \in Seq(Names) /\ Len(place) \in Nat
  BY LenProperties DEF AllPlaces
<1>2. PICK p : p = Append(place, name)
  OBVIOUS
<1>3. p \in Seq(Names) /\ p # << >> /\ Len(p) = Len(place) + 1 /\ \A i \in 1..Len(place) : p[i] = place[i]
  BY <1>1, <1>2, AppendProperties
<1>4. Front(p) \in Seq(Names) /\ Len(Front(p)) = Len(place) /\ \A i \in 1..Len(place) : Front(p)[i] = p[i]
  <2>1. 1 \in Int /\ Len(p) - 1 \in Int /\ \A i \in 1..(Len(p) - 1) : p[i] \in Names
    BY <1>1, <1>3, ElementOfSeq
  <2>. QED
    BY <1>1, <1>3, <2>1, SubSeqProperties DEF Front
<1>5. Front(p) = place
  BY <1>1, <1>3, <1>4, SeqEqual
<1>. QED
  BY <1>2, <1>3, <1>5 DEF AllPlaces

LEMMA LastOf ==
  ASSUME NEW place \in AllPlaces, place # << >>
  PROVE  /\ Front(place) \in AllPlaces /\ Last(place) \in Names /\ Last(place) # ".."
         /\ Append(Front(place), Last(place)) = place
<1>1. Len(place) \in Nat /\ Len(place) > 0 /\ Front(place) = Prefix(place, Len(place) - 1)
  BY PrefixesOf
<1>2. Len(place) \in 1..Len(place) /\ Len(place) - 1 \in 0..Len(place)
  BY <1>1
<1>3. /\ place[Len(place)] \in Names /\ place[Len(place)] # ".."
      /\ Append(Prefix(place, Len(place) - 1), place[Len(place)]) = Prefix(place, Len(place))
  BY <1>2, StepUp
<1>4. Prefix(place, Len(place)) = place /\ Prefix(place, Len(place) - 1) \in AllPlaces
  BY <1>2, PrefixesOf
<1>. QED
  BY <1>1, <1>3, <1>4 DEF Last

\* A walk that is at a place, and has something to do.
Midway(at, todo) == [at |-> at, todo |-> todo, end |-> "no"]

LEMMA GoesTyped ==
  ASSUME NEW t, IsTree(t), NEW followFinal, NEW g, Goes(t, followFinal, g), g[0] \in WalkStates(t)
  PROVE  \A i \in 0..Fuel : g[i] \in WalkStates(t)
<1>. DEFINE T == {i \in Nat : i <= Fuel => g[i] \in WalkStates(t)}
<1>1. 0 \in T
  OBVIOUS
<1>2. ASSUME NEW i \in Nat, i \in T PROVE i + 1 \in T
  <2>1. SUFFICES ASSUME i + 1 <= Fuel PROVE g[i + 1] \in WalkStates(t)
    OBVIOUS
  <2>2. g[i] \in WalkStates(t) /\ g[i + 1] = WalkStep(t, g[i], followFinal, TRUE)
    <3>1. i \in 0..Fuel /\ i + 1 \in 1..Fuel /\ (i + 1) - 1 = i
      BY <2>1, FuelAssumption
    <3>2. g[i + 1] = WalkStep(t, g[(i + 1) - 1], followFinal, TRUE)
      BY <3>1 DEF Goes
    <3>. QED
      BY <1>2, <2>1, <3>1, <3>2
  <2>. QED
    BY <2>2, WalkStepTyped
<1>3. Nat \subseteq T
  BY <1>1, <1>2, NatSetInduction
<1>. QED
  BY <1>3, FuelAssumption

\* Two walks are at the same place, and one has x to do after all that the other has.
OneMore(w, v, x) == w.end = "no" /\ v = Midway(w.at, Append(w.todo, x))

LEMMA MidwayOneMore ==
  ASSUME NEW at, NEW todo, NEW x
  PROVE  OneMore(Midway(at, todo), Midway(at, Append(todo, x)), x)
BY DEF OneMore, Midway

\* They still are, or both are lost.
Onward(w, v, x) == OneMore(w, v, x) \/ (w.end \in {"notdir", "missing"} /\ v.end = w.end)

LEMMA StepBeside ==
  ASSUME NEW t, IsTree(t), NEW w \in WalkStates(t), w.end = "no", w.todo # << >>,
         NEW x \in Names, NEW followFinal \in BOOLEAN,
         NEW ww, ww = WalkStep(t, w, TRUE, TRUE),
         NEW vv, vv = WalkStep(t, Midway(w.at, Append(w.todo, x)), followFinal, TRUE)
  PROVE  Onward(ww, vv, x)
<1>1. PICK at, todo : at = w.at /\ todo = w.todo
  OBVIOUS
<1>2. w = Midway(at, todo) /\ at \in DOMAIN t /\ todo \in Seq(Parts) /\ todo # << >>
  BY <1>1 DEF WalkStates, Midway
<1>3. PICK part, rest, child : part = Head(todo) /\ rest = Tail(todo) /\ child = Append(at, part)
  OBVIOUS
<1>4. rest \in Seq(Parts) /\ x \in Parts
  BY <1>2, <1>3, HeadTailProperties DEF Parts
<1>5. PICK v : v = Midway(at, Append(todo, x))
  OBVIOUS
<1>6. /\ v.at = at /\ v.end = "no" /\ v.todo # << >>
      /\ Head(v.todo) = part /\ Tail(v.todo) = Append(rest, x) /\ Append(rest, x) # << >>
  <2>1. Head(Append(todo, x)) = part /\ Tail(Append(todo, x)) = Append(rest, x)
    BY <1>2, <1>3, HeadTailAppend
  <2>2. Append(todo, x) # << >> /\ Append(rest, x) # << >>
    BY <1>2, <1>4, AppendProperties
  <2>. QED
    BY <1>5, <2>1, <2>2 DEF Midway
<1>7. w.at = at /\ w.end = "no" /\ w.todo # << >> /\ Head(w.todo) = part /\ Tail(w.todo) = rest
  BY <1>1, <1>2, <1>3
<1>8. vv = WalkStep(t, v, followFinal, TRUE) /\ ww = WalkStep(t, w, TRUE, TRUE)
  BY <1>1, <1>5
<1>9. CASE part = ".."
  <2>1. PICK up : up = IF at # << >> THEN Front(at) ELSE at
    OBVIOUS
  <2>2. ww = Midway(up, rest)
    <3>1. CASE at # << >>
      <4>1. ww = [w EXCEPT !.at = Front(at), !.todo = rest]
        BY <1>7, <1>8, <1>9, <3>1 DEF WalkStep
      <4>. QED
        BY <1>2, <2>1, <3>1, <4>1 DEF Midway
    <3>2. CASE at = << >>
      <4>1. ww = [w EXCEPT !.todo = rest]
        BY <1>7, <1>8, <1>9, <3>2 DEF WalkStep
      <4>. QED
        BY <1>2, <2>1, <3>2, <4>1 DEF Midway
    <3>. QED
      BY <3>1, <3>2
  <2>3. vv = Midway(up, Append(rest, x))
    <3>1. CASE at # << >>
      <4>1. vv = [v EXCEPT !.at = Front(at), !.todo = Append(rest, x)]
        BY <1>6, <1>8, <1>9, <3>1 DEF WalkStep
      <4>. QED
        BY <1>5, <2>1, <3>1, <4>1 DEF Midway
    <3>2. CASE at = << >>
      <4>1. vv = [v EXCEPT !.todo = Append(rest, x)]
        BY <1>6, <1>8, <1>9, <3>2 DEF WalkStep
      <4>. QED
        BY <1>5, <2>1, <3>2, <4>1 DEF Midway
    <3>. QED
      BY <3>1, <3>2
  <2>. QED
    BY <2>2, <2>3, MidwayOneMore DEF Onward
<1>10. CASE part # ".." /\ ~IsA(t, at, "dir")
  <2>1. ww = [w EXCEPT !.end = "notdir"] /\ vv = [v EXCEPT !.end = "notdir"]
    BY <1>6, <1>7, <1>8, <1>10 DEF WalkStep
  <2>. QED
    BY <1>2, <1>5, <2>1 DEF Midway, Onward
<1>11. CASE part # ".." /\ IsA(t, at, "dir") /\ child \notin DOMAIN t
  <2>1. ww = [w EXCEPT !.end = "missing"] /\ vv = [v EXCEPT !.end = "missing"]
    BY <1>3, <1>6, <1>7, <1>8, <1>11 DEF WalkStep
  <2>. QED
    BY <1>2, <1>5, <2>1 DEF Midway, Onward
<1>12. CASE part # ".." /\ IsA(t, at, "dir") /\ child \in DOMAIN t /\ t[child].type # "sym"
  <2>1. ww = [w EXCEPT !.at = child, !.todo = rest]
    BY <1>3, <1>7, <1>8, <1>12 DEF WalkStep
  <2>2. vv = [v EXCEPT !.at = child, !.todo = Append(rest, x)]
    BY <1>3, <1>6, <1>8, <1>12 DEF WalkStep
  <2>3. ww = Midway(child, rest) /\ vv = Midway(child, Append(rest, x))
    BY <1>2, <1>5, <2>1, <2>2 DEF Midway
  <2>. QED
    BY <2>3, MidwayOneMore DEF Onward
<1>13. CASE part # ".." /\ IsA(t, at, "dir") /\ child \in DOMAIN t /\ t[child].type = "sym"
  <2>1. PICK link, base : link = t[child].link.parts /\ base = IF t[child].link.abs THEN << >> ELSE at
    OBVIOUS
  <2>2. link \in Seq(Parts)
    BY <1>13, <2>1 DEF IsTree, Path, Parts
  <2>3. ww = [w EXCEPT !.at = base, !.todo = link \o rest]
    BY <1>3, <1>7, <1>8, <1>13, <2>1 DEF WalkStep
  <2>4. vv = [v EXCEPT !.at = base, !.todo = link \o Append(rest, x)]
    BY <1>3, <1>6, <1>8, <1>13, <2>1 DEF WalkStep
  <2>5. link \o Append(rest, x) = Append(link \o rest, x)
    <3>1. Append(rest, x) = rest \o <<x>> /\ <<x>> \in Seq(Parts)
      BY <1>4, AppendIsConcat
    <3>2. link \o rest \in Seq(Parts)
      BY <1>4, <2>2, ConcatProperties
    <3>3. Append(link \o rest, x) = (link \o rest) \o <<x>>
      BY <1>4, <3>2, AppendIsConcat
    <3>4. (link \o rest) \o <<x>> = link \o (rest \o <<x>>)
      <4>1. link \in Seq(Parts) /\ rest \in Seq(Parts) /\ <<x>> \in Seq(Parts)
        BY <1>4, <2>2, <3>1
      <4>. QED
        BY ONLY <4>1, ConcatAssociative
    <3>. QED
      BY <3>1, <3>3, <3>4
  <2>6. ww = Midway(base, link \o rest) /\ vv = Midway(base, Append(link \o rest, x))
    BY <1>2, <1>5, <2>3, <2>4, <2>5 DEF Midway
  <2>. QED
    BY <2>6, MidwayOneMore DEF Onward
<1>. QED
  BY <1>9, <1>10, <1>11, <1>12, <1>13
LEMMA StepDone ==
  ASSUME NEW t, NEW at, NEW followFinal
  PROVE  WalkStep(t, Midway(at, << >>), followFinal, TRUE) = [at |-> at, todo |-> << >>, end |-> "at"]
<1>1. PICK w : w = [at |-> at, todo |-> << >>, end |-> "no"]
  OBVIOUS
<1>2. WalkStep(t, w, followFinal, TRUE) = [w EXCEPT !.end = "at"]
  BY <1>1 DEF WalkStep
<1>. QED
  BY <1>1, <1>2 DEF Midway

\* Where the link leads that is at a place in dir.
Led(t, dir, q) == Midway(IF t[q].link.abs THEN << >> ELSE dir, t[q].link.parts)

\* The last step of a walk, to child in dir, if it goes there or is led elsewhere.
LastStep(t, dir, child, followFinal, v) ==
  \/ child \notin DOMAIN t /\ v.end \in {"notdir", "missing"}
  \/ child \in DOMAIN t /\ ~(IsA(t, child, "sym") /\ followFinal) /\ v = Midway(child, << >>)
  \/ IsA(t, child, "sym") /\ followFinal /\ v = Led(t, dir, child)

LEMMA StepLast ==
  ASSUME NEW t, IsTree(t), NEW dir \in DOMAIN t, NEW x \in Names, NEW followFinal \in BOOLEAN,
         NEW child, child = Append(dir, x)
  PROVE  LastStep(t, dir, child, followFinal, WalkStep(t, Midway(dir, <<x>>), followFinal, TRUE))
<1>1. PICK w, v : w = [at |-> dir, todo |-> <<x>>, end |-> "no"] /\ v = WalkStep(t, w, followFinal, TRUE)
  OBVIOUS
<1>2. /\ w.at = dir /\ w.end = "no" /\ w.todo # << >> /\ Head(w.todo) = x /\ Tail(w.todo) = << >>
      /\ Append(w.at, Head(w.todo)) = child /\ Head(w.todo) # ".."
  BY <1>1, NamesAssumption
<1>3. child \in DOMAIN t => IsA(t, dir, "dir")
  <2>1. dir \in AllPlaces
    BY DEF IsTree
  <2>2. child # << >> /\ Front(child) = dir
    BY <2>1, FrontOfAppend
  <2>. QED
    BY <2>2 DEF IsTree
<1>4. CASE child \notin DOMAIN t
  <2>1. v = [w EXCEPT !.end = "notdir"] \/ v = [w EXCEPT !.end = "missing"]
    BY <1>1, <1>2, <1>4 DEF WalkStep
  <2>2. v.end \in {"notdir", "missing"}
    BY <1>1, <2>1
  <2>. QED
    BY <1>1, <1>4, <2>2 DEF LastStep, Midway
<1>5. CASE child \in DOMAIN t /\ ~(IsA(t, child, "sym") /\ followFinal)
  <2>1. v = [w EXCEPT !.at = child, !.todo = << >>]
    BY <1>1, <1>2, <1>3, <1>5 DEF WalkStep, IsA
  <2>2. v = [at |-> child, todo |-> << >>, end |-> "no"]
    BY <1>1, <2>1
  <2>. QED
    BY <1>1, <1>5, <2>2 DEF LastStep, Midway
<1>6. CASE IsA(t, child, "sym") /\ followFinal
  <2>1. PICK base, parts : base = (IF t[child].link.abs THEN << >> ELSE dir) /\ parts = t[child].link.parts
    OBVIOUS
  <2>2. v = [w EXCEPT !.at = base, !.todo = parts \o << >>]
    BY <1>1, <1>2, <1>3, <1>6, <2>1 DEF WalkStep, IsA
  <2>3. parts \o << >> = parts
    <3>1. t[child].link \in Path
      BY <1>6 DEF IsTree, IsA
    <3>2. parts \in Seq(Parts)
      BY <2>1, <3>1 DEF Path, Parts
    <3>. QED
      BY <3>2, ConcatEmptySeq
  <2>4. v = [at |-> base, todo |-> parts, end |-> "no"]
    BY <1>1, <2>2, <2>3
  <2>. QED
    BY <1>1, <1>6, <2>1, <2>4 DEF LastStep, Midway, Led
<1>. QED
  BY <1>4, <1>5, <1>6 DEF IsA

\* How far two walks are after i steps, to a place with name x and to its directory:
\* on the way to the directory, or past it, or lost.
Reached(g, h, i, x) ==
  \/ OneMore(h[i], g[i], x)
  \/ \E k \in 0..(i - 1) : h[k] = Midway(h[k].at, << >>) /\ g[k] = Midway(h[k].at, <<x>>)
  \/ \E k \in 0..i : h[k].end \in {"notdir", "missing"} /\ g[k].end = h[k].end

\* The walks to a place and, in h, to its directory.
BothGo(t, place, followFinal, g, h) ==
  /\ Goes(t, followFinal, g) /\ g[0] = Midway(<< >>, place)
  /\ Goes(t, TRUE, h) /\ h[0] = Midway(<< >>, Front(place))

LEMMA FrontTyped ==
  ASSUME NEW t, IsTree(t), NEW place \in AllPlaces, place # << >>, NEW followFinal, NEW g, NEW h,
         BothGo(t, place, followFinal, g, h)
  PROVE  \A i \in 0..Fuel : h[i] \in WalkStates(t)
<1>1. << >> \in DOMAIN t /\ Front(place) \in Seq(Parts)
  <2>1. Front(place) \in AllPlaces
    BY LastOf
  <2>. QED
    BY <2>1 DEF IsTree, IsA, AllPlaces, Parts
<1>2. h[0] \in WalkStates(t)
  BY <1>1 DEF BothGo, Midway, WalkStates
<1>. QED
  BY <1>2, GoesTyped DEF BothGo

LEMMA ReachedAfter ==
  ASSUME NEW t, IsTree(t), NEW place \in AllPlaces, place # << >>, NEW followFinal \in BOOLEAN, NEW g, NEW h,
         BothGo(t, place, followFinal, g, h)
  PROVE  Reached(g, h, Fuel, Last(place))
<1>1. PICK x \in Names : x = Last(place) /\ Append(Front(place), x) = place
  BY LastOf
<1>. DEFINE T == {i \in Nat : i <= Fuel => Reached(g, h, i, x)}
<1>2. 0 \in T
  <2>1. OneMore(h[0], g[0], x)
    BY <1>1, MidwayOneMore DEF BothGo
  <2>. QED
    BY <2>1 DEF Reached
<1>3. ASSUME NEW i \in Nat, i \in T PROVE i + 1 \in T
  <2>1. SUFFICES ASSUME i + 1 <= Fuel PROVE Reached(g, h, i + 1, x)
    OBVIOUS
  <2>2. i \in 0..Fuel /\ i + 1 \in 1..Fuel /\ (i + 1) - 1 = i
    BY <2>1, FuelAssumption
  <2>3. Reached(g, h, i, x)
    BY <1>3, <2>2
  <2>4. h[i + 1] = WalkStep(t, h[i], TRUE, TRUE) /\ g[i + 1] = WalkStep(t, g[i], followFinal, TRUE)
    <3>1. h[i + 1] = WalkStep(t, h[(i + 1) - 1], TRUE, TRUE) /\ g[i + 1] = WalkStep(t, g[(i + 1) - 1], followFinal, TRUE)
      BY <2>2 DEF BothGo, Goes
    <3>. QED
      BY <2>2, <3>1
  <2>5. CASE \E k \in 0..(i - 1) : h[k] = Midway(h[k].at, << >>) /\ g[k] = Midway(h[k].at, <<x>>)
    BY <2>2, <2>5 DEF Reached
  <2>6. CASE \E k \in 0..i : h[k].end \in {"notdir", "missing"} /\ g[k].end = h[k].end
    BY <2>2, <2>6 DEF Reached
  <2>7. CASE OneMore(h[i], g[i], x)
    <3>1. h[i] \in WalkStates(t)
      BY <2>2, FrontTyped
    <3>2. PICK w : w = h[i]
      OBVIOUS
    <3>3. w \in WalkStates(t) /\ w.end = "no" /\ g[i] = Midway(w.at, Append(w.todo, x))
      BY <2>7, <3>1, <3>2 DEF OneMore
    <3>4. CASE w.todo = << >>
      <4>1. w = Midway(w.at, << >>)
        BY <3>3, <3>4 DEF WalkStates, Midway
      <4>2. g[i] = Midway(w.at, <<x>>)
        BY <3>3, <3>4
      <4>3. i \in 0..((i + 1) - 1)
        OBVIOUS
      <4>. QED
        BY <3>2, <4>1, <4>2, <4>3 DEF Reached
    <3>5. CASE w.todo # << >>
      <4>1. \/ OneMore(h[i + 1], g[i + 1], x)
            \/ h[i + 1].end \in {"notdir", "missing"} /\ g[i + 1].end = h[i + 1].end
        <5>1. PICK ww, vv : ww = h[i + 1] /\ vv = g[i + 1]
          OBVIOUS
        <5>2. /\ ww = WalkStep(t, w, TRUE, TRUE)
              /\ vv = WalkStep(t, Midway(w.at, Append(w.todo, x)), followFinal, TRUE)
          BY <2>4, <3>2, <3>3, <5>1
        <5>3. Onward(ww, vv, x)
          BY <1>1, <3>3, <3>5, <5>2, StepBeside
        <5>. QED
          BY <5>1, <5>3 DEF Onward
      <4>2. i + 1 \in 0..(i + 1)
        OBVIOUS
      <4>. QED
        BY <4>1, <4>2 DEF Reached
    <3>. QED
      BY <3>4, <3>5
  <2>. QED
    BY <2>3, <2>5, <2>6, <2>7 DEF Reached
<1>4. Nat \subseteq T
  BY <1>2, <1>3, NatSetInduction
<1>. QED
  BY <1>1, <1>4, FuelAssumption

\* How a walk that has an end goes to its last name, in a directory where the walk w
\* came to: it fails, it ends there, or it is led elsewhere on its way.
EndsIn(t, w, name, followFinal, g) ==
  LET child == Append(w.at, name)
  IN \/ ~(w.end = "at" /\ child \in DOMAIN t) /\ g[Fuel].end # "at"
     \/ /\ w.end = "at" /\ child \in DOMAIN t /\ ~(IsA(t, child, "sym") /\ followFinal)
        /\ g[Fuel].end = "at" /\ g[Fuel].at = child
     \/ /\ w.end = "at" /\ IsA(t, child, "sym") /\ followFinal
        /\ \E k \in 1..Fuel : g[k] = Led(t, w.at, child)

LEMMA WalkInDir ==
  ASSUME NEW t, IsTree(t), NEW place \in AllPlaces, place # << >>, NEW followFinal \in BOOLEAN, NEW g, NEW h,
         BothGo(t, place, followFinal, g, h), g[Fuel].end # "no"
  PROVE  EndsIn(t, h[Fuel], Last(place), followFinal, g)
<1>1. PICK x \in Names : x = Last(place)
  BY LastOf
<1>2. Fuel \in 0..Fuel /\ \A k \in Nat : k <= Fuel => k \in 0..Fuel
  BY FuelAssumption
<1>3. Goes(t, followFinal, g) /\ Goes(t, TRUE, h)
  BY DEF BothGo
<1>4. CASE OneMore(h[Fuel], g[Fuel], x)
  BY <1>4 DEF OneMore, Midway
<1>5. CASE \E k \in 0..Fuel : h[k].end \in {"notdir", "missing"} /\ g[k].end = h[k].end
  <2>1. PICK k \in 0..Fuel : h[k].end \in {"notdir", "missing"} /\ g[k].end = h[k].end
    BY <1>5
  <2>2. h[Fuel] = h[k] /\ g[Fuel] = g[k]
    BY <1>3, <2>1, WalkStops
  <2>. QED
    BY <2>1, <2>2 DEF EndsIn
<1>6. CASE \E k \in 0..(Fuel - 1) : h[k] = Midway(h[k].at, << >>) /\ g[k] = Midway(h[k].at, <<x>>)
  <2>1. PICK k \in 0..(Fuel - 1) : h[k] = Midway(h[k].at, << >>) /\ g[k] = Midway(h[k].at, <<x>>)
    BY <1>6
  <2>2. k \in Nat /\ k + 1 \in 1..Fuel /\ (k + 1) - 1 = k /\ k \in 0..Fuel /\ k + 1 \in 0..Fuel
    BY FuelAssumption
  <2>3. PICK dir : dir = h[k].at
    OBVIOUS
  <2>4. dir \in DOMAIN t
    <3>1. h[k] \in WalkStates(t)
      BY <2>2, FrontTyped
    <3>. QED
      BY <2>3, <3>1 DEF WalkStates
  <2>5. h[Fuel] = [at |-> dir, todo |-> << >>, end |-> "at"]
    <3>1. h[k + 1] = WalkStep(t, h[(k + 1) - 1], TRUE, TRUE)
      BY <1>3, <2>2 DEF Goes
    <3>2. h[k + 1] = [at |-> dir, todo |-> << >>, end |-> "at"]
      BY <2>1, <2>2, <2>3, <3>1, StepDone
    <3>3. h[k + 1].end # "no"
      BY <3>2
    <3>4. h[Fuel] = h[k + 1]
      BY <1>3, <2>2, <3>3, WalkStops
    <3>. QED
      BY <3>2, <3>4
  <2>6. PICK child, w, v : child = Append(dir, x) /\ w = h[Fuel] /\ v = g[k + 1]
    OBVIOUS
  <2>7. w.end = "at" /\ w.at = dir
    BY <2>5, <2>6
  <2>8. LastStep(t, dir, child, followFinal, v)
    <3>1. g[k + 1] = WalkStep(t, g[(k + 1) - 1], followFinal, TRUE)
      BY <1>3, <2>2 DEF Goes
    <3>2. v = WalkStep(t, Midway(dir, <<x>>), followFinal, TRUE)
      BY <2>1, <2>2, <2>3, <2>6, <3>1
    <3>. QED
      BY <2>4, <2>6, <3>2, StepLast
  <2>9. CASE child \notin DOMAIN t /\ v.end \in {"notdir", "missing"}
    <3>1. g[Fuel] = v
      BY <1>3, <2>2, <2>6, <2>9, WalkStops
    <3>. QED
      BY <1>1, <2>6, <2>7, <2>9, <3>1 DEF EndsIn
  <2>10. CASE child \in DOMAIN t /\ ~(IsA(t, child, "sym") /\ followFinal) /\ v = Midway(child, << >>)
    <3>1. k + 1 # Fuel
      <4>1. v.end = "no"
        BY <2>10 DEF Midway
      <4>. QED
        BY <2>6, <4>1
    <3>2. k + 2 \in 1..Fuel /\ (k + 2) - 1 = k + 1 /\ k + 2 \in 0..Fuel
      BY <2>2, <3>1, FuelAssumption
    <3>3. g[k + 2] = WalkStep(t, g[(k + 2) - 1], followFinal, TRUE)
      BY <1>3, <3>2 DEF Goes
    <3>4. g[k + 2] = [at |-> child, todo |-> << >>, end |-> "at"]
      BY <2>6, <2>10, <3>2, <3>3, StepDone
    <3>5. g[Fuel] = [at |-> child, todo |-> << >>, end |-> "at"]
      BY <1>3, <3>2, <3>4, WalkStops
    <3>. QED
      BY <1>1, <2>6, <2>7, <2>10, <3>5 DEF EndsIn
  <2>11. CASE IsA(t, child, "sym") /\ followFinal /\ v = Led(t, dir, child)
    BY <1>1, <2>2, <2>6, <2>7, <2>11 DEF EndsIn
  <2>. QED
    BY <2>8, <2>9, <2>10, <2>11 DEF LastStep
<1>. QED
  BY <1>1, <1>4, <1>5, <1>6, ReachedAfter DEF Reached

\* A walk that has something to do had something to do before.
LEMMA StillGoing ==
  ASSUME NEW t, NEW followFinal, NEW g, Goes(t, followFinal, g), NEW k \in 0..Fuel, g[k].end = "no"
  PROVE  \A s \in 0..k : g[s].end = "no"
<1>1. SUFFICES ASSUME NEW s \in 0..k, g[s].end # "no" PROVE FALSE
  OBVIOUS
<1>. DEFINE T == {j \in Nat : s + j <= k => g[s + j] = g[s]}
<1>2. 0 \in T
  BY FuelAssumption
<1>3. ASSUME NEW j \in Nat, j \in T PROVE j + 1 \in T
  <2>1. SUFFICES ASSUME s + (j + 1) <= k PROVE g[s + (j + 1)] = g[s]
    OBVIOUS
  <2>2. s + (j + 1) \in 1..Fuel /\ (s + (j + 1)) - 1 = s + j /\ s + j <= k
    BY <2>1, FuelAssumption
  <2>3. g[s + (j + 1)] = WalkStep(t, g[(s + (j + 1)) - 1], followFinal, TRUE)
    BY <2>2 DEF Goes
  <2>4. g[s + (j + 1)] = WalkStep(t, g[s], followFinal, TRUE)
    BY <1>3, <2>2, <2>3
  <2>. QED
    BY <1>1, <2>4 DEF WalkStep
<1>4. Nat \subseteq T
  BY <1>2, <1>3, NatSetInduction
<1>5. k - s \in T /\ s + (k - s) = k
  BY <1>4, FuelAssumption
<1>6. g[k] = g[s]
  BY <1>5, FuelAssumption
<1>. QED
  BY <1>1, <1>6

\* A walk that sets out where another one is goes on as that one does.
LEMMA WalkGoesOn ==
  ASSUME NEW t, NEW followFinal, NEW g, Goes(t, followFinal, g), NEW f, Goes(t, followFinal, f),
         NEW k \in 0..Fuel, f[0] = g[k]
  PROVE  \A j \in 0..(Fuel - k) : f[j] = g[k + j]
<1>. DEFINE T == {j \in Nat : k + j <= Fuel => f[j] = g[k + j]}
<1>1. 0 \in T
  BY FuelAssumption
<1>2. ASSUME NEW j \in Nat, j \in T PROVE j + 1 \in T
  <2>1. SUFFICES ASSUME k + (j + 1) <= Fuel PROVE f[j + 1] = g[k + (j + 1)]
    OBVIOUS
  <2>2. /\ k + (j + 1) \in 1..Fuel /\ (k + (j + 1)) - 1 = k + j /\ k + j <= Fuel
        /\ j + 1 \in 1..Fuel /\ (j + 1) - 1 = j
    BY <2>1, FuelAssumption
  <2>3. /\ g[k + (j + 1)] = WalkStep(t, g[(k + (j + 1)) - 1], followFinal, TRUE)
        /\ f[j + 1] = WalkStep(t, f[(j + 1) - 1], followFinal, TRUE)
    BY <2>2 DEF Goes
  <2>. QED
    BY <1>2, <2>2, <2>3
<1>3. Nat \subseteq T
  BY <1>1, <1>2, NatSetInduction
<1>. QED
  BY <1>3, FuelAssumption
=============================================================================
