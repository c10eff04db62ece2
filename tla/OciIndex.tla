------------------------------ MODULE OciIndex ------------------------------
(***************************************************************************)
(* An image out of an OCI layout: ImageFromOCILayout and findImageInIndex  *)
(* (internal/pkgutil/image_utils.go) over the files of the layout          *)
(* (internal/pkgutil/oci_layout.go).                                       *)
(*                                                                         *)
(* A layout is what its index.json lists, if there is one that can be      *)
(* parsed, and the blobs that can be read, the indexes and the images      *)
(* apart, by digest.  A descriptor has the set of platforms that it        *)
(* satisfies, empty when it names none.                                    *)
(***************************************************************************)
EXTENDS Iteration, Integers, Sequences, SequencesExt

CONSTANT MaxSubIndexes \* maxSubIndexes (the code's value is 5)

ASSUME MaxSubIndexesAssumption == MaxSubIndexes \in Nat

\* What a descriptor is of, as far as the code tells.
Media == {"image", "index", "other"}

Desc(media, digest, platforms) == [media |-> media, digest |-> digest, platforms |-> platforms]

ImageAt(digest) == [kind |-> "image", digest |-> digest]
NoImageFound    == [kind |-> "none"]
Failed          == [kind |-> "error"]

Satisfies(desc, platform) == desc.media = "image" /\ platform \in desc.platforms

\* layoutIndex.Image: the manifest is read from its blob, config and layers later.
LayoutImage(layout, digest) ==
  IF digest \in DOMAIN layout.images THEN ImageAt(digest) ELSE Failed

\* layoutIndex.ImageIndex.
CanOpen(layout, digest) == digest \in DOMAIN layout.indexes

\* MUTANT of SearchIndex: an error of a nested index is taken for a subtree
\* without a match.
SearchIndexGoesOn(layout, digest, platform, below) ==
  LET descs == layout.indexes[digest]
      visit(desc) ==
        IF Satisfies(desc, platform) THEN LayoutImage(layout, desc.digest)
        ELSE IF desc.media # "index" \/ ~CanOpen(layout, desc.digest) \/ below[desc.digest] = Failed
        THEN NoImageFound
        ELSE below[desc.digest]
  IN Iterate(LAMBDA found, i : IF found = NoImageFound THEN visit(descs[i]) ELSE found, NoImageFound, Len(descs))

\* The loop of findImageInIndex: the descriptors in their order, a nested index
\* all the way before what comes after it; below is what was found in those.
\* Anything but "no match below" ends the search.
SearchIndex(layout, digest, platform, below) ==
  LET descs == layout.indexes[digest]
      visit(desc) ==
        IF Satisfies(desc, platform) THEN LayoutImage(layout, desc.digest)
        ELSE IF desc.media # "index" THEN NoImageFound
        ELSE IF CanOpen(layout, desc.digest) THEN below[desc.digest]
        ELSE Failed
  IN Iterate(LAMBDA found, i : IF found = NoImageFound THEN visit(descs[i]) ELSE found, NoImageFound, Len(descs))

\* What is found in each index, when those below it were searched.
SearchAll(layout, platform, below) ==
  [digest \in DOMAIN layout.indexes |-> SearchIndex(layout, digest, platform, below)]

TooDeep(layout) == [digest \in DOMAIN layout.indexes |-> Failed]

\* findImageInIndex from depth 0: the deepest level that is looked at is worked
\* out first, and what is below it is too deep.
FindImageInIndex(layout, top, platform) ==
  Iterate(LAMBDA below, i : SearchAll(layout, platform, below), TooDeep(layout), MaxSubIndexes + 1)[top]

\* ImageFromOCILayout.  A platform that cannot be parsed is "unparsable"; it is
\* looked at only when there is an index to search.
ImageFromOCILayout(layout, platform) ==
  IF ~layout.readable \/ Len(layout.manifests) # 1 THEN Failed
  ELSE LET desc == Head(layout.manifests) IN
    IF desc.media # "index" THEN LayoutImage(layout, desc.digest)
    ELSE IF platform = "unparsable" \/ ~CanOpen(layout, desc.digest) THEN Failed
    ELSE FindImageInIndex(layout, desc.digest, platform)

-----------------------------------------------------------------------------
(* What the search is to find, said without searching.                     *)

Unsearched == Desc("too deep", "none", {})

\* An index in one line: each index in it that can be opened is replaced by the
\* line below it.
LineOf(layout, digest, below) ==
  FlattenSeq([i \in DOMAIN layout.indexes[digest] |->
    LET desc == layout.indexes[digest][i] IN
      IF desc.media = "index" /\ CanOpen(layout, desc.digest) THEN below[desc.digest] ELSE <<desc>>])

\* Everything that is nested in an index, down to the deepest level that is
\* looked at; what is below it, or cannot be opened, is left as it stands.
Unrolled(layout, top) ==
  LET line[height \in 0..(MaxSubIndexes + 1)] ==
        [digest \in DOMAIN layout.indexes |->
           IF height = 0 THEN <<Unsearched>> ELSE LineOf(layout, digest, line[height - 1])]
  IN line[MaxSubIndexes + 1][top]

\* The first descriptor of the line that decides: one that satisfies the
\* platform, or an index that cannot be looked into.
FirstInLine(layout, line, platform) ==
  LET decides == {i \in DOMAIN line : Satisfies(line[i], platform) \/ line[i].media \in {"index", "too deep"}}
  IN IF decides = {} THEN NoImageFound
     ELSE LET first == line[CHOOSE i \in decides : \A j \in decides : i <= j]
          IN IF Satisfies(first, platform) THEN LayoutImage(layout, first.digest) ELSE Failed
=============================================================================
