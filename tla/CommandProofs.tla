--------------------------- MODULE CommandProofs ---------------------------
(***************************************************************************)
(* Proofs about Command, for any images, layouts, tests and arguments, and *)
(* any number of calls that fail.                                          *)
(*                                                                         *)
(* The inductive invariant is in parts that build on the first two: Types, *)
(* and Flow, which says what is known at each place of the program.  Then  *)
(* come the lines the user typed (TheAnswers), what removes each directory *)
(* (Kept), the image that was loaded (Loaded), the image that is tested    *)
(* (Chosen) and what a test that passed asked for (Sound).                 *)
(*                                                                         *)
(* Last come the verdicts (VInv), and what each driver shows of a path next *)
(* to what a process in a container of the image is told: with the tar     *)
(* driver by way of RootPathProofs, with the docker driver by the archives *)
(* that it downloads and the links that it follows by itself.              *)
(***************************************************************************)
EXTENDS Command, RootPathProofs, FiniteSetTheorems

\* The images there may be.
Known   == DOMAIN Images \union {NoImage, FromLayout}
Verdict == [num: Nat, pass: BOOLEAN, image: Known]

Types ==
  /\ given \in Scenarios
  /\ pc \in Progress \union Terminal
  /\ num \in 1..(Len(given.tests) + 1)
  /\ source \in {"none", "layout", "archive", "daemon", "remote"}
  /\ driver = Driver(driver.image, driver.dir, driver.env) /\ driver.image \in Known
  /\ results \in Seq(Verdict)
  /\ Range(local) \subseteq Known
  /\ IsFiniteSet(faults) /\ Cardinality(faults) <= MaxFaults

Starting == pc \in {"args", "layout", "pull", "confirm", "init", "refused"}
Busy     == pc \in {"new", "env", "setup", "run"}

\* What is known at each place: there is a driver from when it was made until
\* its test is over, the deferred calls are those of a section of commands, and
\* the tar driver gets nowhere with those.
Flow ==
  /\ Starting => /\ num = 1 /\ driver = NoDriver /\ dirs = {} /\ results = << >>
  /\ Busy => num <= Len(given.tests)
  /\ pc \in {"tests", "new", "end"} => driver = NoDriver
  /\ pc = "fatal" => driver.dir = {}
  /\ pc = "new" => /\ kind = "tar"
                   /\ source = FirstSource \/ (source = "remote" /\ FirstSource = "daemon")
  /\ pc = "env" => given.schema = "v2"
  /\ pc = "setup" => test.kind = "command"
  /\ pc = "run" => (test.kind = "command" => kind # "tar")
  /\ deferred # {} => given.schema = "v2" /\ (Busy => test.kind = "command") /\ pc \in {"tests", "new", "env", "setup", "run"}
  /\ kind # "tar" => driver.dir = {} /\ deferred = {}
  /\ kind = "tar" /\ pc \in {"env", "setup", "run"} =>
       driver.image # NoImage /\ \E d \in driver.dir : driver.dir = {d} /\ d.num = num
  /\ kind = "tar" => local = world.local

\* The lines that were read: none says "no", and the last one is "yes" from then
\* on that the host is touched.
TheAnswers ==
  LET all == given.answers
      n == Len(all) - Len(answers)
  IN /\ answers \in Seq(STRING) /\ n \in Nat
     /\ \A i \in 1..Len(answers) : answers[i] = all[n + i]
     /\ pc # "fatal" => \A i \in 1..n : all[i] # "no"
     /\ kind = "host" /\ ~args.force /\ pc \in {"init", "tests", "new", "env", "setup", "run", "end"} =>
          n > 0 /\ all[n] = "yes"

\* A directory is removed by what was deferred or when its driver is destroyed,
\* or a failure accounts for it.
Explained(d) ==
  \/ FailedFor(d, "extract") /\ d.source # "layout"
  \/ FailedFor(d, "setenv") /\ given.tests[d.num].kind # "command"

Kept ==
  /\ driver.dir \subseteq dirs /\ deferred \subseteq dirs
  /\ pc \in {"env", "setup", "run"} /\ DefersDestroy => driver.dir \subseteq deferred
  /\ \A d \in deferred : given.tests[d.num].kind = "command"
  /\ ~args.save => \A d \in dirs : d \in deferred \/ d \in driver.dir \/ Explained(d)

\* The image that was loaded from a layout is there under its tag.
IsLoaded ==
  /\ ~args.pull /\ image = Name(LayoutTag, "") /\ image \in DOMAIN local
  /\ local[image] \in {FromLayout, ImageIn(world.local, image)}
  /\ faults = {} => local[image] = FromLayout

Loaded ==
  kind = "docker" /\ args.layout =>
    \/ pc \in {"args", "refused"} /\ local = world.local /\ results = << >>
    \/ pc = "layout" /\ ~args.pull /\ local = world.local /\ results = << >>
    \/ pc = "fatal" /\ results = << >>
    \/ pc \notin {"args", "layout", "refused"} /\ IsLoaded

\* The tar driver finds the preferred image, or none, but where the daemon
\* failed.
Chosen ==
  kind = "tar" =>
    /\ pc = "new" /\ source = "remote" => image \notin DOMAIN local \/ SentOn(num)
    /\ MayBeAbout(num, driver.image)
    /\ \A i \in DOMAIN results : MayBeAbout(results[i].num, results[i].image)

\* What a test that may pass does not ask for.
IsSound(t) == ~Contradicts(t) /\ \A pattern \in Patterns(t) : pattern.compiles

Sound ==
  \A i \in DOMAIN results : results[i].pass => IsSound(given.tests[results[i].num])

IInv == Types /\ Flow /\ TheAnswers /\ Kept /\ Loaded /\ Chosen /\ Sound

-----------------------------------------------------------------------------
(* The search of a layout.                                                 *)

\* What may be found: an image whose manifest can be read, none, or an error.
Findings(layout) == {ImageAt(digest) : digest \in DOMAIN layout.images} \union {NoImageFound, Failed}

\* What the loop of findImageInIndex does with one descriptor.
Visit(layout, desc, platform, below) ==
  IF Satisfies(desc, platform) THEN LayoutImage(layout, desc.digest)
  ELSE IF desc.media # "index" THEN NoImageFound
  ELSE IF CanOpen(layout, desc.digest) THEN below[desc.digest]
  ELSE Failed

\* The steps of the loop.
LEMMA SearchSteps ==
  ASSUME NEW layout, NEW digest \in DOMAIN layout.indexes, NEW platform, NEW below,
         layout.indexes[digest] \in Seq(Range(layout.indexes[digest]))
  PROVE  \E f : /\ f[0] = NoImageFound
                /\ f[Len(layout.indexes[digest])] = SearchIndex(layout, digest, platform, below)
                /\ \A i \in 1..Len(layout.indexes[digest]) :
                     f[i] = IF f[i - 1] = NoImageFound
                            THEN Visit(layout, layout.indexes[digest][i], platform, below)
                            ELSE f[i - 1]
<1>. DEFINE descs == layout.indexes[digest]
            n == Len(descs)
            S == {NoImageFound} \union {Visit(layout, descs[i], platform, below) : i \in 1..n}
            Step(found, i) == IF found = NoImageFound THEN Visit(layout, descs[i], platform, below) ELSE found
            F(f) == [i \in 0..n |-> IF i = 0 THEN NoImageFound ELSE CHOOSE y \in {Step(z, i) : z \in {f[i - 1]}} : TRUE]
            after == CHOOSE f : f = F(f)
<1>1. SearchIndex(layout, digest, platform, below) = after[n]
  BY DEF SearchIndex, Iterate, Visit
<1>2. n \in Nat
  BY LenProperties
<1>3. NoImageFound \in S /\ \A y \in S, i \in 1..n : Step(y, i) \in S
  OBVIOUS
<1>. HIDE DEF n, Step
<1>4. PICK G : G = [i \in 1..n |-> [y \in S |-> Step(y, i)]]
  OBVIOUS
<1>. HIDE DEF S
<1>5. G \in [1..n -> [S -> S]] /\ \A y \in S, i \in 1..n : G[i][y] = Step(y, i)
  BY <1>3, <1>4
<1>6. \A f, i : (CHOOSE y \in {Step(z, i) : z \in {f[i - 1]}} : TRUE) = Step(f[i - 1], i)
  OBVIOUS
<1>7. after = F(after)
  <2>1. PICK f \in [0..n -> S] : Follows(f, NoImageFound, n, G)
    BY <1>2, <1>3, <1>5, LoopExists
  <2>2. \A i \in 1..n : f[i - 1] \in S /\ f[i] = Step(f[i - 1], i)
    BY <1>2, <1>5, <2>1 DEF Follows
  <2>3. f = F(f)
    BY <1>2, <1>6, <2>1, <2>2 DEF Follows
  <2>. QED
    BY <2>3
<1>. HIDE DEF after
<1>8. after[0] = NoImageFound /\ \A i \in 1..n : after[i] = Step(after[i - 1], i)
  BY <1>2, <1>6, <1>7
<1>. QED
  BY <1>1, <1>8 DEF n, Step

LEMMA SearchFinds ==
  ASSUME NEW layout, NEW digest \in DOMAIN layout.indexes, NEW platform, layout.indexes[digest] \in Seq(Range(layout.indexes[digest])),
         NEW below \in [DOMAIN layout.indexes -> Findings(layout)]
  PROVE  SearchIndex(layout, digest, platform, below) \in Findings(layout)
<1>. DEFINE S == Findings(layout)
            n == Len(layout.indexes[digest])
<1>1. PICK f : /\ f[0] = NoImageFound
               /\ f[n] = SearchIndex(layout, digest, platform, below)
               /\ \A i \in 1..n : f[i] = IF f[i - 1] = NoImageFound
                                         THEN Visit(layout, layout.indexes[digest][i], platform, below)
                                         ELSE f[i - 1]
  BY SearchSteps
<1>2. n \in Nat
  BY LenProperties
<1>3. NoImageFound \in S /\ \A desc : Visit(layout, desc, platform, below) \in S
  BY DEF Findings, Visit, LayoutImage, CanOpen
<1>. HIDE DEF n, S
<1>. DEFINE T == {i \in Nat : i <= n => f[i] \in S}
<1>4. 0 \in T
  BY <1>1, <1>3
<1>5. ASSUME NEW i \in Nat, i \in T PROVE i + 1 \in T
  <2>1. SUFFICES ASSUME i + 1 <= n PROVE f[i + 1] \in S
    OBVIOUS
  <2>2. i + 1 \in 1..n /\ (i + 1) - 1 = i /\ f[i] \in S
    BY <1>2, <1>5, <2>1
  <2>. QED
    BY <1>1, <1>3, <2>2
<1>. HIDE DEF T
<1>6. Nat \subseteq T
  BY <1>4, <1>5, NatSetInduction
<1>7. f[n] \in S
  BY <1>2, <1>6 DEF T
<1>. QED
  BY <1>1, <1>7 DEF S, n

\* The levels of the search, from the deepest one up.
LEMMA FindSteps ==
  ASSUME NEW layout, NEW top, NEW platform,
         \A digest \in DOMAIN layout.indexes : layout.indexes[digest] \in Seq(Range(layout.indexes[digest]))
  PROVE  \E f \in [0..(MaxSubIndexes + 1) -> [DOMAIN layout.indexes -> Findings(layout)]] :
                /\ f[0] = TooDeep(layout)
                /\ f[MaxSubIndexes + 1][top] = FindImageInIndex(layout, top, platform)
                /\ \A i \in 1..(MaxSubIndexes + 1) : f[i] = SearchAll(layout, platform, f[i - 1])
<1>. DEFINE S == [DOMAIN layout.indexes -> Findings(layout)]
            n == MaxSubIndexes + 1
            x == TooDeep(layout)
            Step(below, i) == SearchAll(layout, platform, below)
            F(f) == [i \in 0..n |-> IF i = 0 THEN x ELSE CHOOSE y \in {Step(z, i) : z \in {f[i - 1]}} : TRUE]
            after == CHOOSE f : f = F(f)
<1>1. FindImageInIndex(layout, top, platform) = after[n][top]
  BY DEF FindImageInIndex, Iterate
<1>2. n \in Nat
  BY MaxSubIndexesAssumption
<1>3. x \in S /\ \A y \in S, i \in 1..n : Step(y, i) \in S
  BY SearchFinds DEF TooDeep, Findings, SearchAll
<1>. HIDE DEF n, Step, x
<1>4. PICK G : G = [i \in 1..n |-> [y \in S |-> Step(y, i)]]
  OBVIOUS
<1>. HIDE DEF S
<1>5. G \in [1..n -> [S -> S]] /\ \A y \in S, i \in 1..n : G[i][y] = Step(y, i)
  BY <1>3, <1>4
<1>6. \A f, i : (CHOOSE y \in {Step(z, i) : z \in {f[i - 1]}} : TRUE) = Step(f[i - 1], i)
  OBVIOUS
<1>7. PICK f \in [0..n -> S] : Follows(f, x, n, G)
  BY <1>2, <1>3, <1>5, LoopExists
<1>8. \A i \in 1..n : f[i - 1] \in S /\ f[i] = Step(f[i - 1], i)
  BY <1>2, <1>5, <1>7 DEF Follows
<1>9. f = F(f)
  BY <1>2, <1>6, <1>7, <1>8 DEF Follows
<1>10. after = F(after)
  BY <1>9
<1>. HIDE DEF after
<1>11. after[0] = x /\ \A i \in 1..n : after[i] = Step(after[i - 1], i)
  BY <1>2, <1>6, <1>10
<1>12. FollowsIn(after, x, n, G, S)
  BY <1>5, <1>11 DEF FollowsIn
<1>13. \A i \in 0..n : after[i] \in S
  BY <1>2, <1>3, <1>5, <1>12, LoopStays
<1>14. after \in [0..n -> S]
  BY <1>10, <1>13
<1>. QED
  BY <1>1, <1>11, <1>14 DEF n, Step, x, S

LEMMA FoundInIndex ==
  ASSUME NEW layout, NEW top \in DOMAIN layout.indexes, NEW platform,
         \A digest \in DOMAIN layout.indexes : layout.indexes[digest] \in Seq(Range(layout.indexes[digest]))
  PROVE  FindImageInIndex(layout, top, platform) \in Findings(layout)
<1>1. PICK f \in [0..(MaxSubIndexes + 1) -> [DOMAIN layout.indexes -> Findings(layout)]] :
         f[MaxSubIndexes + 1][top] = FindImageInIndex(layout, top, platform)
  BY FindSteps
<1>2. MaxSubIndexes + 1 \in 0..(MaxSubIndexes + 1)
  BY MaxSubIndexesAssumption
<1>. QED
  BY <1>1, <1>2

\* The search of a layout yields an image whose manifest the layout has, or says
\* that there is none or that it failed, however its indexes hang together.
THEOREM LayoutYields ==
  ASSUME NEW layout, NEW platform,
         \A digest \in DOMAIN layout.indexes : layout.indexes[digest] \in Seq(Range(layout.indexes[digest]))
  PROVE  ImageFromOCILayout(layout, platform) \in Findings(layout)
BY FoundInIndex DEF ImageFromOCILayout, CanOpen, LayoutImage, Findings

-----------------------------------------------------------------------------
(* What the search of a layout is to find (FirstInLine).                   *)

\* The places of a line that decide, and what the first of them yields.
Decides(line, platform) ==
  {i \in DOMAIN line : Satisfies(line[i], platform) \/ line[i].media \in {"index", "too deep"}}

Outcome(layout, desc, platform) ==
  IF Satisfies(desc, platform) THEN LayoutImage(layout, desc.digest) ELSE Failed

LEMMA OutcomeDecides ==
  ASSUME NEW layout, NEW desc, NEW platform
  PROVE  Outcome(layout, desc, platform) # NoImageFound
<1>1. NoImageFound.kind = "none" /\ Failed.kind = "error" /\ ImageAt(desc.digest).kind = "image"
  BY DEF NoImageFound, Failed, ImageAt
<1>. QED
  BY <1>1 DEF Outcome, LayoutImage

LEMMA NoneDecides ==
  ASSUME NEW layout, NEW line, NEW platform, Decides(line, platform) = {}
  PROVE  FirstInLine(layout, line, platform) = NoImageFound
BY DEF FirstInLine, Decides

LEMMA FirstDecides ==
  ASSUME NEW layout, NEW line, NEW platform, DOMAIN line \subseteq Int,
         NEW i \in Decides(line, platform), \A j \in Decides(line, platform) : i <= j
  PROVE  FirstInLine(layout, line, platform) = Outcome(layout, line[i], platform)
<1>. DEFINE T == Decides(line, platform)
            m == CHOOSE k \in T : \A j \in T : k <= j
<1>1. m \in T /\ \A j \in T : m <= j
  OBVIOUS
<1>2. T \subseteq Int
  BY DEF Decides
<1>3. m = i
  BY <1>1, <1>2
<1>4. FirstInLine(layout, line, platform) = Outcome(layout, line[m], platform)
  BY <1>1 DEF FirstInLine, Decides, Outcome
<1>. QED
  BY <1>3, <1>4

LEMMA DecidesOrNot ==
  ASSUME NEW layout, NEW S, NEW line \in Seq(S), NEW platform
  PROVE  \/ Decides(line, platform) = {} /\ FirstInLine(layout, line, platform) = NoImageFound
         \/ \E i \in Decides(line, platform) :
              /\ \A j \in Decides(line, platform) : i <= j
              /\ FirstInLine(layout, line, platform) = Outcome(layout, line[i], platform)
<1>. DEFINE T == Decides(line, platform)
<1>1. DOMAIN line \subseteq Int /\ T \subseteq Nat
  <2>1. DOMAIN line = 1..Len(line) /\ Len(line) \in Nat
    BY LenProperties
  <2>2. T \subseteq DOMAIN line
    BY DEF Decides
  <2>. QED
    BY <2>1, <2>2
<1>2. CASE T = {}
  BY <1>2, NoneDecides
<1>3. CASE T # {}
  <2>1. PICK i \in T : \A j \in T : i <= j
    BY <1>1, <1>3, LeastOf
  <2>. QED
    BY <1>1, <2>1, FirstDecides
<1>. QED
  BY <1>2, <1>3

LEMMA FirstOfOne ==
  ASSUME NEW layout, NEW desc, NEW platform
  PROVE  FirstInLine(layout, <<desc>>, platform)
           = IF Satisfies(desc, platform) \/ desc.media \in {"index", "too deep"}
             THEN Outcome(layout, desc, platform)
             ELSE NoImageFound
<1>. DEFINE line == <<desc>>
<1>1. DOMAIN line = {1} /\ line[1] = desc
  OBVIOUS
<1>. HIDE DEF line
<1>2. CASE Satisfies(desc, platform) \/ desc.media \in {"index", "too deep"}
  <2>1. Decides(line, platform) = {1}
    BY <1>1, <1>2 DEF Decides
  <2>2. FirstInLine(layout, line, platform) = Outcome(layout, line[1], platform)
    BY <1>1, <2>1, FirstDecides
  <2>. QED
    BY <1>1, <1>2, <2>2 DEF line
<1>3. CASE ~(Satisfies(desc, platform) \/ desc.media \in {"index", "too deep"})
  <2>1. Decides(line, platform) = {}
    BY <1>1, <1>3 DEF Decides
  <2>. QED
    BY <1>3, <2>1, NoneDecides DEF line
<1>. QED
  BY <1>2, <1>3

\* In two lines after each other the first that decides is in the first line, if
\* there is one.
LEMMA FirstOfTwo ==
  ASSUME NEW layout, NEW S, NEW s \in Seq(S), NEW t \in Seq(S), NEW platform
  PROVE  FirstInLine(layout, s \o t, platform)
           = IF FirstInLine(layout, s, platform) = NoImageFound
             THEN FirstInLine(layout, t, platform)
             ELSE FirstInLine(layout, s, platform)
<1>. DEFINE D(line) == Decides(line, platform)
            First(line) == FirstInLine(layout, line, platform)
            m == Len(s)
<1>1. PICK u : u = s \o t
  OBVIOUS
<1>2. /\ m \in Nat /\ Len(t) \in Nat /\ DOMAIN s = 1..m /\ DOMAIN t = 1..Len(t)
      /\ DOMAIN u = 1..(m + Len(t)) /\ u \in Seq(S)
      /\ \A i \in 1..m : u[i] = s[i]
      /\ \A i \in 1..Len(t) : u[m + i] = t[i]
  BY <1>1, ConcatProperties, LenProperties
<1>. HIDE DEF m
<1>3. \A i \in DOMAIN s : i \in D(u) <=> i \in D(s)
  <2>1. SUFFICES ASSUME NEW i \in DOMAIN s PROVE i \in D(u) <=> i \in D(s)
    OBVIOUS
  <2>2. i \in DOMAIN u /\ u[i] = s[i]
    BY <1>2
  <2>. QED
    BY <2>2 DEF Decides
<1>4. \A i \in DOMAIN t : m + i \in D(u) <=> i \in D(t)
  <2>1. SUFFICES ASSUME NEW i \in DOMAIN t PROVE m + i \in D(u) <=> i \in D(t)
    OBVIOUS
  <2>2. m + i \in DOMAIN u /\ u[m + i] = t[i]
    BY <1>2
  <2>. QED
    BY <2>2 DEF Decides
<1>5. D(s) \subseteq 1..m /\ D(t) \subseteq 1..Len(t) /\ D(u) \subseteq 1..(m + Len(t))
  BY <1>2 DEF Decides
<1>6. CASE D(s) = {}
  <2>1. First(s) = NoImageFound
    BY <1>6, NoneDecides
  <2>2. \A k \in D(u) : k - m \in D(t)
    <3>1. SUFFICES ASSUME NEW k \in D(u) PROVE k - m \in D(t)
      OBVIOUS
    <3>2. k \in 1..(m + Len(t)) /\ ~(k \in 1..m)
      BY <1>2, <1>3, <1>5, <1>6
    <3>3. k - m \in 1..Len(t) /\ m + (k - m) = k
      BY <1>2, <3>2
    <3>. QED
      BY <1>2, <1>4, <3>3
  <2>3. CASE D(t) = {}
    BY <1>1, <2>1, <2>2, <2>3, NoneDecides
  <2>4. CASE D(t) # {}
    <3>1. PICK i \in D(t) : (\A j \in D(t) : i <= j) /\ First(t) = Outcome(layout, t[i], platform)
      BY <2>4, DecidesOrNot
    <3>2. m + i \in D(u) /\ u[m + i] = t[i]
      BY <1>2, <1>4, <1>5
    <3>3. \A j \in D(u) : m + i <= j
      BY <1>2, <1>5, <2>2, <3>1
    <3>4. First(u) = Outcome(layout, u[m + i], platform)
      BY <1>2, <3>2, <3>3, FirstDecides
    <3>. QED
      BY <1>1, <2>1, <3>1, <3>2, <3>4
  <2>. QED
    BY <2>3, <2>4
<1>7. CASE D(s) # {}
  <2>1. PICK i \in D(s) : (\A j \in D(s) : i <= j) /\ First(s) = Outcome(layout, s[i], platform)
    BY <1>7, DecidesOrNot
  <2>2. i \in D(u) /\ u[i] = s[i]
    BY <1>2, <1>3, <1>5
  <2>3. \A j \in D(u) : i <= j
    <3>1. SUFFICES ASSUME NEW j \in D(u) PROVE i <= j
      OBVIOUS
    <3>2. CASE j \in 1..m
      BY <1>2, <1>3, <2>1, <3>2
    <3>3. CASE ~(j \in 1..m)
      BY <1>2, <1>5, <3>3
    <3>. QED
      BY <3>2, <3>3
  <2>4. First(u) = Outcome(layout, u[i], platform)
    <3>1. DOMAIN u \subseteq Int
      BY <1>2
    <3>. QED
      BY <2>2, <2>3, <3>1, FirstDecides
  <2>5. First(s) # NoImageFound
    BY <2>1, OutcomeDecides
  <2>. QED
    BY <1>1, <2>1, <2>2, <2>4, <2>5
<1>. QED
  BY <1>6, <1>7

\* FlattenSeq goes through the sequences from left to right.
Flattens(g, L, n) ==
  /\ g[0] = << >> /\ FlattenSeq(L) = g[n]
  /\ \A i \in 1..n : g[i] = g[i - 1] \o L[i]

LEMMA FlattenedSteps ==
  ASSUME NEW S, NEW n \in Nat, n > 0, NEW L \in [1..n -> Seq(S)]
  PROVE  \E g \in [0..n -> Seq(S)] : Flattens(g, L, n)
<1>. DEFINE F(f) == [i \in 1..n |-> IF i = 1 THEN L[i] ELSE f[i - 1] \o L[i]]
            flatten == CHOOSE f : f = F(f)
<1>1. L \in Seq(Seq(S)) /\ Len(L) = n
  OBVIOUS
<1>2. FlattenSeq(L) = flatten[n]
  BY <1>1 DEF FlattenSeq
<1>3. PICK G : G = [i \in 1..n |-> [s \in Seq(S) |-> s \o L[i]]]
  OBVIOUS
<1>4. G \in [1..n -> [Seq(S) -> Seq(S)]] /\ \A i \in 1..n, s \in Seq(S) : G[i][s] = s \o L[i]
  BY <1>3, ConcatProperties
<1>5. << >> \in Seq(S)
  OBVIOUS
<1>6. PICK g \in [0..n -> Seq(S)] : Follows(g, << >>, n, G)
  BY <1>4, <1>5, LoopExists
<1>7. g[0] = << >> /\ \A i \in 1..n : g[i] = g[i - 1] \o L[i]
  <2>1. g[0] = << >> /\ \A i \in 1..n : g[i] = G[i][g[i - 1]]
    BY <1>6 DEF Follows
  <2>2. ASSUME NEW i \in 1..n PROVE g[i] = g[i - 1] \o L[i]
    <3>1. i - 1 \in 0..n
      OBVIOUS
    <3>2. g[i - 1] \in Seq(S)
      BY <1>6, <3>1
    <3>. QED
      BY <1>4, <2>1, <3>2
  <2>. QED
    BY <2>1, <2>2
<1>8. g[1] = L[1]
  <2>1. 1 \in 1..n /\ 1 - 1 = 0
    OBVIOUS
  <2>2. g[1] = << >> \o L[1] /\ L[1] \in Seq(S)
    BY <1>7, <2>1
  <2>. QED
    BY <2>2, ConcatEmptySeq
<1>9. PICK f : f = [i \in 1..n |-> g[i]]
  OBVIOUS
<1>10. f = F(f)
  <2>1. ASSUME NEW i \in 1..n PROVE g[i] = IF i = 1 THEN L[i] ELSE f[i - 1] \o L[i]
    <3>1. CASE i = 1
      BY <1>8, <3>1
    <3>2. CASE i # 1
      <4>1. i - 1 \in 1..n
        BY <3>2
      <4>. QED
        BY <1>7, <1>9, <3>2, <4>1
    <3>. QED
      BY <3>1, <3>2
  <2>. QED
    BY <1>9, <2>1
<1>11. flatten = F(flatten)
  BY <1>10
<1>. HIDE DEF flatten
<1>12. \A i \in 1..n : flatten[i] = IF i = 1 THEN L[i] ELSE flatten[i - 1] \o L[i]
  BY <1>11
<1>. DEFINE T == {i \in Nat : i + 1 <= n => flatten[i + 1] = g[i + 1]}
<1>13. 0 \in T
  BY <1>8, <1>12
<1>14. ASSUME NEW i \in Nat, i \in T PROVE i + 1 \in T
  <2>1. SUFFICES ASSUME i + 2 <= n PROVE flatten[i + 2] = g[i + 2]
    OBVIOUS
  <2>2. flatten[i + 1] = g[i + 1]
    BY <1>14, <2>1
  <2>3. i + 2 \in 1..n /\ i + 2 # 1 /\ (i + 2) - 1 = i + 1
    BY <2>1
  <2>4. flatten[i + 2] = flatten[i + 1] \o L[i + 2]
    BY <1>12, <2>3
  <2>5. g[i + 2] = g[i + 1] \o L[i + 2]
    BY <1>7, <2>3
  <2>. QED
    BY <2>2, <2>4, <2>5
<1>. HIDE DEF T
<1>15. n - 1 \in T
  <2>1. Nat \subseteq T
    BY <1>13, <1>14, NatSetInduction
  <2>. QED
    BY <2>1
<1>16. flatten[n] = g[n]
  BY <1>15 DEF T
<1>. QED
  BY <1>2, <1>7, <1>16 DEF Flattens

Line(layout, desc, lines) ==
  IF desc.media = "index" /\ CanOpen(layout, desc.digest) THEN lines[desc.digest] ELSE <<desc>>

\* What is found in each index is what its line says.
FindsEach(layout, lines, below, platform) ==
  \A digest \in DOMAIN layout.indexes : below[digest] = FirstInLine(layout, lines[digest], platform)

LEMMA VisitFindsFirst ==
  ASSUME NEW layout, NEW desc, desc.media \in Media, NEW platform, NEW lines, NEW below,
         FindsEach(layout, lines, below, platform)
  PROVE  FirstInLine(layout, Line(layout, desc, lines), platform) = Visit(layout, desc, platform, below)
<1>1. CASE desc.media = "index" /\ CanOpen(layout, desc.digest)
  BY <1>1 DEF FindsEach, Line, Visit, CanOpen, Satisfies
<1>2. CASE ~(desc.media = "index" /\ CanOpen(layout, desc.digest))
  <2>1. Line(layout, desc, lines) = <<desc>>
    BY <1>2 DEF Line
  <2>2. FirstInLine(layout, <<desc>>, platform)
           = IF Satisfies(desc, platform) \/ desc.media \in {"index", "too deep"}
             THEN Outcome(layout, desc, platform)
             ELSE NoImageFound
    BY FirstOfOne
  <2>3. desc.media # "too deep"
    BY DEF Media
  <2>. QED
    BY <1>2, <2>1, <2>2, <2>3 DEF Outcome, Visit, Satisfies
<1>. QED
  BY <1>1, <1>2

\* An index and those in it can be searched: their descriptors are in a
\* sequence, and it is known of each what it is of.
IsLayout(layout) ==
  \A digest \in DOMAIN layout.indexes :
    /\ layout.indexes[digest] \in Seq(Range(layout.indexes[digest]))
    /\ \A desc \in Range(layout.indexes[digest]) : desc.media \in Media

\* All that may be in a line.
Stock(layout) == {Unsearched} \union (UNION {Range(layout.indexes[digest]) : digest \in DOMAIN layout.indexes})

LEMMA LineOfFindsFirst ==
  ASSUME NEW layout, IsLayout(layout), NEW digest \in DOMAIN layout.indexes, NEW platform,
         NEW lines \in [DOMAIN layout.indexes -> Seq(Stock(layout))],
         NEW below, FindsEach(layout, lines, below, platform)
  PROVE  /\ LineOf(layout, digest, lines) \in Seq(Stock(layout))
         /\ FirstInLine(layout, LineOf(layout, digest, lines), platform)
              = SearchIndex(layout, digest, platform, below)
<1>. DEFINE descs == layout.indexes[digest]
            n == Len(descs)
            S == Stock(layout)
            First(line) == FirstInLine(layout, line, platform)
<1>1. /\ n \in Nat /\ DOMAIN descs = 1..n /\ \A i \in 1..n : descs[i] \in Range(descs)
      /\ \A desc \in Range(descs) : desc \in S /\ desc.media \in Media
  <2>1. n \in Nat /\ DOMAIN descs = 1..n
    BY LenProperties DEF IsLayout
  <2>2. \A i \in 1..n : descs[i] \in Range(descs)
    BY <2>1 DEF Range
  <2>3. \A desc \in Range(descs) : desc \in S /\ desc.media \in Media
    BY DEF IsLayout, Stock
  <2>. QED
    BY <2>1, <2>2, <2>3
<1>2. PICK L : L = [i \in DOMAIN descs |-> Line(layout, descs[i], lines)]
  OBVIOUS
<1>3. LineOf(layout, digest, lines) = FlattenSeq(L)
  BY <1>2 DEF LineOf, Line
<1>4. PICK f : /\ f[0] = NoImageFound
               /\ f[n] = SearchIndex(layout, digest, platform, below)
               /\ \A i \in 1..n : f[i] = IF f[i - 1] = NoImageFound
                                         THEN Visit(layout, descs[i], platform, below)
                                         ELSE f[i - 1]
  <2>1. layout.indexes[digest] \in Seq(Range(layout.indexes[digest]))
    BY DEF IsLayout
  <2>. QED
    BY <2>1, SearchSteps
<1>. HIDE DEF n, descs, S
<1>5. \A i \in 1..n : First(Line(layout, descs[i], lines)) = Visit(layout, descs[i], platform, below)
  <2>1. SUFFICES ASSUME NEW i \in 1..n
                 PROVE First(Line(layout, descs[i], lines)) = Visit(layout, descs[i], platform, below)
    OBVIOUS
  <2>2. PICK desc : desc = descs[i]
    OBVIOUS
  <2>3. desc.media \in Media
    BY <1>1, <2>2 DEF descs
  <2>. QED
    BY <2>2, <2>3, VisitFindsFirst
<1>6. L \in [1..n -> Seq(S)] /\ \A i \in 1..n : First(L[i]) = Visit(layout, descs[i], platform, below)
  <2>1. ASSUME NEW i \in 1..n PROVE Line(layout, descs[i], lines) \in Seq(S)
    <3>1. PICK desc : desc = descs[i] /\ desc \in S
      BY <1>1 DEF descs
    <3>2. <<desc>> \in Seq(S)
      BY <3>1
    <3>3. \A d \in DOMAIN layout.indexes : lines[d] \in Seq(S)
      BY DEF S
    <3>. QED
      BY <3>1, <3>2, <3>3 DEF Line, CanOpen
  <2>. QED
    BY <1>1, <1>2, <1>5, <2>1
<1>7. CASE n = 0
  <2>1. L = << >>
    BY <1>1, <1>2, <1>7
  <2>2. FlattenSeq(L) = << >>
    BY <2>1 DEF FlattenSeq
  <2>3. First(<< >>) = NoImageFound
    <3>1. Decides(<< >>, platform) = {}
      BY DEF Decides
    <3>. QED
      BY <3>1, NoneDecides
  <2>. QED
    BY <1>3, <1>4, <1>7, <2>2, <2>3
<1>8. CASE n > 0
  <2>1. PICK g \in [0..n -> Seq(S)] : Flattens(g, L, n)
    <3>1. n \in Nat /\ n > 0 /\ L \in [1..n -> Seq(S)]
      BY <1>1, <1>6, <1>8
    <3>. QED
      BY <3>1, FlattenedSteps
  <2>. USE DEF Flattens
  <2>. DEFINE T == {i \in Nat : i <= n => First(g[i]) = f[i]}
  <2>2. 0 \in T
    <3>1. Decides(<< >>, platform) = {}
      BY DEF Decides
    <3>. QED
      BY <1>4, <2>1, <3>1, NoneDecides
  <2>3. ASSUME NEW i \in Nat, i \in T PROVE i + 1 \in T
    <3>1. SUFFICES ASSUME i + 1 <= n PROVE First(g[i + 1]) = f[i + 1]
      OBVIOUS
    <3>2. i + 1 \in 1..n /\ (i + 1) - 1 = i /\ i \in 0..n
      BY <1>1, <3>1
    <3>3. PICK s, t : s = g[i] /\ t = L[i + 1] /\ s \in Seq(S) /\ t \in Seq(S)
      BY <1>6, <2>1, <3>2
    <3>4. First(s \o t) = IF First(s) = NoImageFound THEN First(t) ELSE First(s)
      BY <3>3, FirstOfTwo
    <3>5. First(s) = f[i]
      BY <1>1, <2>3, <3>1, <3>3
    <3>6. First(t) = Visit(layout, descs[i + 1], platform, below)
      BY <1>6, <3>2, <3>3
    <3>7. g[i + 1] = s \o t
      BY <2>1, <3>2, <3>3
    <3>8. f[i + 1] = IF f[i] = NoImageFound THEN Visit(layout, descs[i + 1], platform, below) ELSE f[i]
      BY <1>4, <3>2 DEF descs
    <3>. QED
      BY <3>4, <3>5, <3>6, <3>7, <3>8
  <2>. HIDE DEF T
  <2>4. n \in T
    <3>1. Nat \subseteq T
      BY <2>2, <2>3, NatSetInduction
    <3>. QED
      BY <1>1, <3>1
  <2>5. First(g[n]) = f[n]
    BY <2>4 DEF T
  <2>6. g[n] \in Seq(S)
    BY <1>1, <2>1
  <2>. QED
    BY <1>3, <1>4, <2>1, <2>5, <2>6 DEF S
<1>. QED
  BY <1>1, <1>7, <1>8

\* The lines, one level after the other.
Lines(layout, below) == [digest \in DOMAIN layout.indexes |-> LineOf(layout, digest, below)]

LEMMA LinesStay ==
  ASSUME NEW layout, IsLayout(layout), NEW platform,
         NEW lines \in [DOMAIN layout.indexes -> Seq(Stock(layout))]
  PROVE  /\ Lines(layout, lines) \in [DOMAIN layout.indexes -> Seq(Stock(layout))]
         /\ \A below : FindsEach(layout, lines, below, platform) =>
              FindsEach(layout, Lines(layout, lines), SearchAll(layout, platform, below), platform)
<1>1. ASSUME NEW below, FindsEach(layout, lines, below, platform), NEW d \in DOMAIN layout.indexes
      PROVE  /\ LineOf(layout, d, lines) \in Seq(Stock(layout))
             /\ FirstInLine(layout, LineOf(layout, d, lines), platform) = SearchIndex(layout, d, platform, below)
  BY <1>1, LineOfFindsFirst
<1>2. PICK below0 : below0 = [e \in DOMAIN layout.indexes |-> FirstInLine(layout, lines[e], platform)]
  OBVIOUS
<1>3. FindsEach(layout, lines, below0, platform)
  BY <1>2 DEF FindsEach
<1>4. \A d \in DOMAIN layout.indexes : LineOf(layout, d, lines) \in Seq(Stock(layout))
  BY <1>1, <1>3
<1>5. Lines(layout, lines) \in [DOMAIN layout.indexes -> Seq(Stock(layout))]
  BY <1>4 DEF Lines
<1>6. ASSUME NEW below, FindsEach(layout, lines, below, platform)
      PROVE  FindsEach(layout, Lines(layout, lines), SearchAll(layout, platform, below), platform)
  BY <1>1, <1>6 DEF FindsEach, Lines, SearchAll
<1>. QED
  BY <1>5, <1>6

\* The lines of Unrolled.
Unrolls(layout, top, line) ==
  /\ line \in [0..(MaxSubIndexes + 1) -> [DOMAIN layout.indexes -> Seq(Stock(layout))]]
  /\ line[0] = [digest \in DOMAIN layout.indexes |-> <<Unsearched>>]
  /\ line[MaxSubIndexes + 1][top] = Unrolled(layout, top)
  /\ \A i \in 1..(MaxSubIndexes + 1) : line[i] = Lines(layout, line[i - 1])

LEMMA UnrolledSteps ==
  ASSUME NEW layout, IsLayout(layout), NEW top
  PROVE  \E line : Unrolls(layout, top, line)
<1>. DEFINE S == [DOMAIN layout.indexes -> Seq(Stock(layout))]
            n == MaxSubIndexes + 1
            x == [digest \in DOMAIN layout.indexes |-> <<Unsearched>>]
            F(f) == [i \in 0..n |-> [digest \in DOMAIN layout.indexes |->
                       IF i = 0 THEN <<Unsearched>> ELSE LineOf(layout, digest, f[i - 1])]]
            line == CHOOSE f : f = F(f)
<1>1. Unrolled(layout, top) = line[n][top]
  BY DEF Unrolled
<1>2. n \in Nat
  BY MaxSubIndexesAssumption
<1>3. x \in S
  <2>1. <<Unsearched>> \in Seq(Stock(layout))
    BY DEF Stock
  <2>. QED
    BY <2>1
<1>4. \A y \in S : Lines(layout, y) \in S
  BY LinesStay
<1>. HIDE DEF n
<1>5. PICK G : G = [i \in 1..n |-> [y \in S |-> Lines(layout, y)]]
  OBVIOUS
<1>6. PICK x0 : x0 = x
  OBVIOUS
<1>. HIDE DEF S
<1>7. G \in [1..n -> [S -> S]] /\ \A y \in S, i \in 1..n : G[i][y] = Lines(layout, y)
  BY <1>4, <1>5
<1>8. PICK f \in [0..n -> S] : Follows(f, x0, n, G)
  BY <1>2, <1>3, <1>6, <1>7, LoopExists
<1>9. f[0] = x /\ \A i \in 1..n : f[i - 1] \in S /\ f[i] = Lines(layout, f[i - 1])
  BY <1>2, <1>6, <1>7, <1>8 DEF Follows
<1>10. f = F(f)
  <2>1. ASSUME NEW i \in 0..n
        PROVE f[i] = [digest \in DOMAIN layout.indexes |->
                        IF i = 0 THEN <<Unsearched>> ELSE LineOf(layout, digest, f[i - 1])]
    <3>1. CASE i = 0
      BY <1>9, <3>1
    <3>2. CASE i # 0
      <4>1. f[i] = Lines(layout, f[i - 1])
        BY <1>2, <1>9, <3>2
      <4>. QED
        BY <3>2, <4>1 DEF Lines
    <3>. QED
      BY <3>1, <3>2
  <2>. QED
    BY <1>8, <2>1
<1>11. line = F(line)
  BY <1>10
<1>. HIDE DEF line
<1>12. line[0] = x /\ \A i \in 1..n : line[i] = Lines(layout, line[i - 1])
  <2>1. line[0] = x
    BY <1>2, <1>11
  <2>2. ASSUME NEW i \in 1..n PROVE line[i] = Lines(layout, line[i - 1])
    BY <1>2, <1>11 DEF Lines
  <2>. QED
    BY <2>1, <2>2
<1>13. FollowsIn(line, x0, n, G, S)
  BY <1>6, <1>7, <1>12 DEF FollowsIn
<1>14. \A i \in 0..n : line[i] \in S
  BY <1>2, <1>3, <1>6, <1>7, <1>13, LoopStays
<1>15. line \in [0..n -> S]
  BY <1>11, <1>14
<1>. QED
  BY <1>1, <1>12, <1>15 DEF n, S, Unrolls

\* The search of a layout finds what is first in the line of an index.
LEMMA SearchFindsFirst ==
  ASSUME NEW layout, IsLayout(layout), NEW top \in DOMAIN layout.indexes, NEW platform
  PROVE  FindImageInIndex(layout, top, platform) = FirstInLine(layout, Unrolled(layout, top), platform)
<1>. DEFINE n == MaxSubIndexes + 1
            D == DOMAIN layout.indexes
            First(l) == FirstInLine(layout, l, platform)
<1>1. PICK f : /\ f[0] = TooDeep(layout)
               /\ f[n][top] = FindImageInIndex(layout, top, platform)
               /\ \A i \in 1..n : f[i] = SearchAll(layout, platform, f[i - 1])
  BY FindSteps DEF IsLayout
<1>0. PICK line : Unrolls(layout, top, line)
  BY UnrolledSteps
<1>2. /\ line \in [0..n -> [D -> Seq(Stock(layout))]] /\ line[0] = [digest \in D |-> <<Unsearched>>]
      /\ line[n][top] = Unrolled(layout, top)
      /\ \A i \in 1..n : line[i] = Lines(layout, line[i - 1])
  BY <1>0 DEF Unrolls
<1>3. n \in Nat
  BY MaxSubIndexesAssumption
<1>. HIDE DEF n
<1>. DEFINE T == {i \in Nat : i <= n => FindsEach(layout, line[i], f[i], platform)}
<1>4. 0 \in T
  <2>1. First(<<Unsearched>>) = Failed
    <3>1. Unsearched.media = "too deep" /\ ~Satisfies(Unsearched, platform)
      BY DEF Unsearched, Desc, Satisfies
    <3>. QED
      BY <3>1, FirstOfOne DEF Outcome
  <2>. QED
    BY <1>1, <1>2, <2>1 DEF TooDeep, FindsEach
<1>5. ASSUME NEW i \in Nat, i \in T PROVE i + 1 \in T
  <2>1. SUFFICES ASSUME i + 1 <= n PROVE FindsEach(layout, line[i + 1], f[i + 1], platform)
    OBVIOUS
  <2>2. i + 1 \in 1..n /\ (i + 1) - 1 = i /\ i \in 0..n /\ FindsEach(layout, line[i], f[i], platform)
    BY <1>3, <1>5, <2>1
  <2>3. line[i] \in [D -> Seq(Stock(layout))]
    BY <1>2, <2>2
  <2>4. FindsEach(layout, Lines(layout, line[i]), SearchAll(layout, platform, f[i]), platform)
    BY <2>2, <2>3, LinesStay
  <2>5. f[i + 1] = SearchAll(layout, platform, f[i]) /\ line[i + 1] = Lines(layout, line[i])
    BY <1>1, <1>2, <2>2
  <2>. QED
    BY <2>4, <2>5
<1>. HIDE DEF T
<1>6. n \in T
  <2>1. Nat \subseteq T
    BY <1>4, <1>5, NatSetInduction
  <2>. QED
    BY <1>3, <2>1
<1>7. FindsEach(layout, line[n], f[n], platform)
  BY <1>3, <1>6 DEF T
<1>. QED
  BY <1>1, <1>2, <1>7 DEF FindsEach

-----------------------------------------------------------------------------
(* What never changes, and what only grows.                                *)

LEMMA TheScenario ==
  ASSUME Types
  PROVE  /\ Len(given.tests) \in Nat /\ DOMAIN given.tests = 1..Len(given.tests)
         /\ given.answers \in Seq(STRING) /\ given.schema \in {"v1", "v2"}
         /\ Range(world.local) \subseteq DOMAIN Images /\ Range(world.remote) \subseteq DOMAIN Images
         /\ Range(world.archives) \subseteq DOMAIN Images /\ world.host \in DOMAIN Images
<1>1. given.tests \in Seq(Range(given.tests))
  BY ScenariosAssumption DEF Types
<1>2. Len(given.tests) \in Nat /\ DOMAIN given.tests = 1..Len(given.tests)
  BY <1>1, LenProperties
<1>. QED
  BY <1>2, ScenariosAssumption DEF Types, world

LEMMA GivenStays ==
  ASSUME [Next]_vars
  PROVE  /\ given' = given
         /\ ~Starting => UNCHANGED <<answers, image, local>>
         /\ UNCHANGED <<answers, image, local>> \/ (StartupNext /\ UNCHANGED testVars)
<1>. USE DEF preparation, Proceed
<1>1. CASE StartupNext /\ UNCHANGED testVars
  BY <1>1 DEF StartupNext, Starting, Refuse, OpenReport, NoLayout, LayoutUnsupported, LayoutUnusable, LoadLayout,
     LoadLayoutError, NoPull, PullImage, PullError, UserConfirmation, NoConfirmation, InitDriverImpl, Fatal
<1>2. CASE InvalidTest \/ EmptyTest \/ EndOfCommands \/ EndOfTests
  BY <1>2 DEF InvalidTest, EmptyTest, EndOfCommands, EndOfTests, Fail, Conclude, Leave
<1>3. CASE NewDriver \/ NewDriverError \/ NewTarDriver \/ Extract \/ NotRetrieved \/ NotExtracted
  BY <1>3 DEF NewDriver, NewDriverError, NewTarDriver, Extract, NotRetrieved, NotExtracted, MakeDriver,
     NoDriverMade, AfterSourceError, Conclude, Leave
<1>4. CASE SetEnv \/ SetEnvError \/ Setup \/ SetupError
  BY <1>4 DEF SetEnv, SetEnvError, Setup, SetupError, Fail, Conclude, Leave
<1>5. CASE RunCommand \/ RunFileTest \/ RunFileTestError \/ RunMetadataTest
  BY <1>5 DEF RunCommand, RunFileTest, RunFileTestError, RunMetadataTest, Conclude, Leave
<1>6. CASE ArchiveTorn \/ Hang \/ CannotStart \/ UNCHANGED vars
  BY <1>6 DEF ArchiveTorn, Hang, CannotStart, vars
<1>. QED
  BY <1>1, <1>2, <1>3, <1>4, <1>5, <1>6 DEF Next, Circling, Terminated

LEMMA ImagesStay ==
  ASSUME given' = given
  PROVE  FromLayout' = FromLayout /\ Known' = Known /\ Verdict' = Verdict
<1>1. FromLayout' = FromLayout
  BY DEF FromLayout, world, args
<1>. QED
  BY <1>1 DEF Known, Verdict

\* The image of a layout is one of those there are (LayoutYields).
LEMMA LayoutKnown ==
  ASSUME Types
  PROVE  FromLayout \in DOMAIN Images \union {NoImage}
<1>. DEFINE layout == world.layout
            r == ImageFromOCILayout(layout, args.platform)
<1>1. /\ \A digest \in DOMAIN layout.indexes : layout.indexes[digest] \in Seq(Range(layout.indexes[digest]))
      /\ Range(layout.images) \subseteq DOMAIN Images
  BY ScenariosAssumption DEF Types, world
<1>. HIDE DEF layout
<1>2. r \in Findings(layout)
  BY <1>1, LayoutYields
<1>. HIDE DEF r
<1>3. r.kind = "image" => r.digest \in DOMAIN layout.images
  BY <1>2 DEF Findings, ImageAt, NoImageFound, Failed
<1>4. \A digest \in DOMAIN layout.images : layout.images[digest] \in DOMAIN Images
  BY <1>1 DEF Range
<1>. QED
  BY <1>3, <1>4 DEF FromLayout, r, layout

\* A call that fails is one of those that may.
LEMMA FaultsGrow ==
  ASSUME [Next]_vars
  PROVE  UNCHANGED faults \/ \E n, what : Fault(n, what)
<1>. USE DEF preparation, Proceed
<1>1. CASE StartupNext /\ UNCHANGED testVars
  BY <1>1 DEF StartupNext, Refuse, OpenReport, NoLayout, LayoutUnsupported, LayoutUnusable, LoadLayout,
     LoadLayoutError, NoPull, PullImage, PullError, UserConfirmation, NoConfirmation, InitDriverImpl, Fatal
<1>2. CASE InvalidTest \/ EmptyTest \/ EndOfCommands \/ EndOfTests
  BY <1>2 DEF InvalidTest, EmptyTest, EndOfCommands, EndOfTests
<1>3. CASE NewDriver \/ NewDriverError \/ NewTarDriver \/ Extract \/ NotRetrieved \/ NotExtracted
  BY <1>3 DEF NewDriver, NewDriverError, NewTarDriver, Extract, NotRetrieved, NotExtracted, MakeDriver
<1>4. CASE SetEnv \/ SetEnvError \/ Setup \/ SetupError
  BY <1>4 DEF SetEnv, SetEnvError, Setup, SetupError
<1>5. CASE RunCommand \/ RunFileTest \/ RunFileTestError \/ RunMetadataTest
  BY <1>5 DEF RunCommand, RunFileTest, RunFileTestError, RunMetadataTest
<1>6. CASE ArchiveTorn \/ Hang \/ CannotStart \/ UNCHANGED vars
  BY <1>6 DEF ArchiveTorn, Hang, CannotStart, vars
<1>. QED
  BY <1>1, <1>2, <1>3, <1>4, <1>5, <1>6 DEF Next, Circling, Terminated

LEMMA FaultsStay ==
  ASSUME Types, [Next]_vars
  PROVE  /\ faults \subseteq faults' /\ IsFiniteSet(faults') /\ Cardinality(faults') <= MaxFaults
         /\ \A d : Explained(d) => Explained(d)'
<1>1. faults \subseteq faults' /\ IsFiniteSet(faults') /\ Cardinality(faults') <= MaxFaults
  <2>1. CASE UNCHANGED faults
    BY <2>1 DEF Types
  <2>2. ASSUME NEW n, NEW what, Fault(n, what)
        PROVE  faults \subseteq faults' /\ IsFiniteSet(faults') /\ Cardinality(faults') <= MaxFaults
    <3>1. PICK f : faults' = faults \union {f}
      BY <2>2 DEF Fault
    <3>2. IsFiniteSet(faults') /\ Cardinality(faults') <= Cardinality(faults) + 1 /\ Cardinality(faults) \in Nat
      <4>1. IsFiniteSet(faults) /\ Cardinality(faults) \in Nat
        BY FS_CardinalityType DEF Types
      <4>2. /\ IsFiniteSet(faults \union {f})
            /\ Cardinality(faults \union {f}) = IF f \in faults THEN Cardinality(faults) ELSE Cardinality(faults) + 1
        BY <4>1, FS_AddElement
      <4>. QED
        BY <3>1, <4>1, <4>2
    <3>. QED
      BY <2>2, <3>1, <3>2, MaxFaultsAssumption, FS_CardinalityType DEF Fault
  <2>. QED
    BY <2>1, <2>2, FaultsGrow
<1>2. given' = given
  BY GivenStays
<1>. QED
  BY <1>1, <1>2 DEF Explained, FailedFor

-----------------------------------------------------------------------------
(* What a test that passes did not ask for.                                *)

LEMMA SoundCommand ==
  ASSUME NEW t, t.kind = "command", NEW out, CheckOutput(t, out)
  PROVE  IsSound(t)
BY DEF IsSound, Contradicts, Patterns, CheckOutput, AllMatch, CompileAndRunRegex

LEMMA SoundFileTest ==
  ASSUME NEW t, t.kind \in {"content", "existence", "license"}, NEW env, NEW view
  PROVE  Passes(t, env, view) \in BOOLEAN /\ (Passes(t, env, view) => IsSound(t))
<1>1. \A path : FileTestPasses(t, path, view) \in BOOLEAN
  BY DEF FileTestPasses, ContentPasses, ExistencePasses, LicenseTestPasses, With
<1>2. ASSUME NEW path, FileTestPasses(t, path, view)
      PROVE  IsSound(t)
  BY <1>2 DEF FileTestPasses, ContentPasses, AllMatch, CompileAndRunRegex, IsSound, Contradicts, Patterns
<1>3. Passes(t, env, view) = FileTestPasses(t, PathOf(t, env), view)
  BY DEF Passes, With
<1>. QED
  BY <1>1, <1>2, <1>3

LEMMA SoundMetadata ==
  ASSUME NEW t, t.kind = "metadata", NEW config, MetadataPasses(t, config)
  PROVE  IsSound(t)
<1>1. ASSUME NEW p \in t.exposedPorts, NEW q \in t.unexposedPorts, p.port = q.port, q.proto \in {"", p.proto}
      PROVE  FALSE
  <2>1. PICK v \in config.ports : p.port = v.port /\ p.proto \in {"", v.proto}
    BY DEF MetadataPasses, PortInList
  <2>2. q.port = v.port /\ q.proto \in {"", v.proto}
    BY <1>1, <2>1
  <2>. QED
    BY <2>2 DEF MetadataPasses, PortInList
<1>2. t.volumes \intersect t.unmountedVolumes = {}
  BY DEF MetadataPasses
<1>3. \A v \in t.envVars : v.key \notin t.unboundEnvVars
  BY DEF MetadataPasses, HasPair
<1>4. \A v \in t.envVars \union t.labels : v.isRegex => v.value.compiles
  BY DEF MetadataPasses, HasPair, CompileAndRunRegex
<1>5. ~Contradicts(t)
  BY <1>1, <1>2, <1>3 DEF Contradicts
<1>6. Patterns(t) = {v.value : v \in {v \in t.envVars \union t.labels : v.isRegex}}
  BY DEF Patterns
<1>. QED
  BY <1>4, <1>5, <1>6 DEF IsSound

-----------------------------------------------------------------------------
(* The steps of a test, by what they do to it.                             *)

\* What is left on the disk will be removed, or a failure accounts for it.
Over(left) ==
  /\ deferred \subseteq left
  /\ ~args.save => \A d \in left : d \in deferred \/ Explained(d)'

AtTest == num <= Len(given.tests) /\ pc \in {"tests", "new", "env", "setup", "run"}

Ends ==
  /\ AtTest
  /\ \E left : Leave(left) /\ Over(left)
  /\ \/ UNCHANGED results /\ given.schema = "v1"
     \/ \E pass \in BOOLEAN : results' = Append(results, Result(pass)) /\ (pass => IsSound(test))

Aborts ==
  /\ AtTest /\ driver = NoDriver /\ deferred = {}
  /\ pc' = "fatal" /\ Over(dirs')
  /\ UNCHANGED <<preparation, num, source, driver, deferred, results>>

\* SentOn and MayBeAbout with the calls that failed up to the end of a step.
SentThen(n) ==
  /\ ~args.layout /\ ~IsTar(image)
  /\ \E what \in {"retrieve", "extract"} : [num |-> n, what |-> what] \in faults'

AboutThen(n, id) ==
  id \in {Preferred, NoImage} \/ (SentThen(n) /\ id = ImageIn(world.remote, image))

Starts ==
  /\ AtTest /\ driver = NoDriver /\ source' \in {source, "none"}
  /\ deferred # {} => test.kind = "command"
  /\ \E dir : \E id \in Known :
       /\ MakeDriver(id, dir)
       /\ IF kind = "tar" THEN id # NoImage /\ \E d \in dir : dir = {d} /\ d.num = num ELSE dir = {}
       /\ kind = "tar" => MayBeAbout(num, id)

Searches ==
  /\ AtTest /\ kind = "tar" /\ driver = NoDriver
  /\ deferred # {} => test.kind = "command"
  /\ pc' = "new" /\ source' = FirstSource
  /\ UNCHANGED <<preparation, num, driver, deferred, dirs, results>>

Retries ==
  /\ AtTest /\ pc = "new" /\ kind = "tar" /\ FirstSource = "daemon"
  /\ pc' = "new" /\ source' = "remote" /\ Over(dirs')
  /\ image \notin DOMAIN local \/ SentThen(num)
  /\ UNCHANGED <<preparation, num, driver, deferred, results>>

\* The process ends, or waits for ever, in the middle of a test.
BreaksOff ==
  /\ AtTest /\ pc \in {"setup", "run"} /\ kind # "tar"
  /\ pc' \in {"panic", "hung", "fatal"}
  /\ UNCHANGED <<preparation, testVars>>

GoesOn ==
  /\ AtTest /\ pc \in {"env", "setup"} /\ pc' \in {"setup", "run"}
  /\ pc' = "setup" => test.kind = "command"
  /\ pc' = "run" => (test.kind = "command" => kind # "tar")
  /\ driver' = Driver(driver.image, driver.dir, driver'.env)
  /\ UNCHANGED <<preparation, num, source, deferred, dirs, results>>

LEMMA Leftovers ==
  ASSUME Types, Flow, Kept, [Next]_vars
  PROVE  /\ driver.dir \subseteq deferred => Over(dirs)
         /\ deferred = {} => Over(AfterDestroy)
BY FaultsStay DEF Kept, Over, AfterDestroy

LEMMA Failing ==
  ASSUME NEW left, Fail(left) \/ Conclude(FALSE, left), Over(left), AtTest
  PROVE  Ends
BY DEF Fail, Conclude, Ends

LEMMA Passing ==
  ASSUME NEW left, NEW pass \in BOOLEAN, Conclude(pass, left), Over(left), AtTest, pass => IsSound(test)
  PROVE  Ends
BY DEF Conclude, Ends

\* Before a driver is made there is none, and only a command finds calls
\* deferred.
LEMMA BeforeDriver ==
  ASSUME Types, Flow, Kept, [Next]_vars, NextTest \/ pc = "new"
  PROVE  /\ AtTest /\ driver = NoDriver /\ driver.dir = {} /\ Over(dirs)
         /\ deferred # {} => test.kind = "command" /\ given.schema = "v2"
<1>1. driver = NoDriver /\ driver.dir = {}
  BY DEF Flow, NextTest, NoDriver, Driver
<1>2. AtTest /\ (deferred # {} => test.kind = "command" /\ given.schema = "v2")
  BY DEF Flow, NextTest, InCommands, AtTest, Busy
<1>. QED
  BY <1>1, <1>2, Leftovers

LEMMA NotMade ==
  ASSUME Types, Flow, Kept, [Next]_vars, NextTest \/ pc = "new", NEW left, NoDriverMade(left), Over(left)
  PROVE  Ends \/ Aborts
<1>1. CASE test.kind = "license" \/ given.schema = "v1"
  <2>1. deferred = {} /\ AtTest /\ driver = NoDriver
    BY <1>1, BeforeDriver
  <2>. QED
    BY <1>1, <2>1 DEF NoDriverMade, Aborts
<1>2. CASE ~(test.kind = "license" \/ given.schema = "v1")
  BY <1>2, BeforeDriver, Failing DEF NoDriverMade
<1>. QED
  BY <1>1, <1>2

LEMMA AtSources ==
  ASSUME Types, Flow, pc = "new"
  PROVE  /\ ImageAtSource \in Known
         /\ source = "daemon" /\ ImageAtSource = NoImage => image \notin DOMAIN local
         /\ ImageAtSource # NoImage /\ (source = "remote" => image \notin DOMAIN local) => ImageAtSource = Preferred
         /\ source = "remote" => ImageAtSource = ImageIn(world.remote, image)
         /\ source \in {"daemon", "remote"} => ~IsTar(image) /\ ~args.layout
         /\ Directory.num = num /\ Directory.source = source
<1>1. /\ source \in {"layout", "archive", "daemon", "remote"}
      /\ source = "layout" => args.layout
      /\ source = "archive" => IsTar(image) /\ ~args.layout
      /\ source \in {"daemon", "remote"} => ~IsTar(image) /\ ~args.layout
  BY DEF Flow, FirstSource
<1>2. local = world.local
  BY DEF Flow
<1>3. \A n \in DOMAIN local : local[n] \in DOMAIN Images
  BY <1>2, TheScenario DEF Range
<1>4. ImageIn(world.archives, image) \in Known /\ ImageIn(world.remote, image) \in Known /\ ImageIn(local, image) \in Known
  BY <1>3, TheScenario DEF Range, ImageIn, Known
<1>5. ImageAtSource \in Known
  BY <1>1, <1>4 DEF ImageAtSource, Known
<1>6. source = "daemon" /\ ImageAtSource = NoImage => image \notin DOMAIN local
  BY <1>3, ImagesAssumption DEF ImageAtSource, ImageIn
<1>7. ImageAtSource # NoImage /\ (source = "remote" => image \notin DOMAIN local) => ImageAtSource = Preferred
  BY <1>1 DEF ImageAtSource, Preferred, ImageIn
<1>8. source = "remote" => ImageAtSource = ImageIn(world.remote, image)
  BY DEF ImageAtSource
<1>. QED
  BY <1>1, <1>5, <1>6, <1>7, <1>8 DEF Directory

LEMMA TheTestSteps ==
  ASSUME Types, Flow, Kept, Chosen, [Next]_vars
  PROVE  /\ InvalidTest => Ends
         /\ NewDriver => Starts
         /\ NewDriverError => Ends \/ Aborts
         /\ NewTarDriver => Searches
         /\ Extract => Starts
<1>1. ASSUME InvalidTest PROVE Ends
  BY <1>1, BeforeDriver, Failing DEF InvalidTest
<1>2. ASSUME NewDriver PROVE Starts
  <2>. DEFINE id == IF kind = "docker" THEN ImageIn(local, image) ELSE world.host
  <2>1. id \in Known
    BY TheScenario DEF ImageIn, Known, Range, Types
  <2>2. MakeDriver(id, {}) /\ kind # "tar" /\ source' = source
    BY <1>2 DEF NewDriver
  <2>3. AtTest /\ driver = NoDriver /\ (deferred # {} => test.kind = "command")
    BY <1>2, BeforeDriver DEF NewDriver
  <2>. HIDE DEF id
  <2>. QED
    BY <2>1, <2>2, <2>3 DEF Starts
<1>3. ASSUME NewDriverError PROVE Ends \/ Aborts
  <2>1. NextTest /\ NoDriverMade(dirs)
    BY <1>3 DEF NewDriverError
  <2>. QED
    BY <2>1, BeforeDriver, NotMade
<1>4. ASSUME NewTarDriver PROVE Searches
  BY <1>4, BeforeDriver DEF NewTarDriver, Searches
<1>5. ASSUME Extract PROVE Starts
  <2>1. ImageAtSource # NoImage /\ MakeDriver(ImageAtSource, {Directory}) /\ pc = "new" /\ kind = "tar"
        /\ source' = "none"
    BY <1>5 DEF Extract, Flow
  <2>2. ImageAtSource \in Known /\ Directory.num = num
    BY <2>1, AtSources
  <2>3. MayBeAbout(num, ImageAtSource)
    <3>1. CASE source = "remote" /\ SentOn(num)
      BY <2>1, <3>1, AtSources DEF MayBeAbout
    <3>2. CASE source = "remote" => image \notin DOMAIN local
      BY <2>1, <3>2, AtSources DEF MayBeAbout
    <3>. QED
      BY <2>1, <3>1, <3>2 DEF Chosen
  <2>4. AtTest /\ driver = NoDriver /\ (deferred # {} => test.kind = "command")
    BY <2>1, BeforeDriver
  <2>. QED
    BY <2>1, <2>2, <2>3, <2>4 DEF Starts
<1>. QED
  BY <1>1, <1>2, <1>3, <1>4, <1>5

LEMMA AtSourceError ==
  ASSUME Types, Flow, Kept, [Next]_vars, pc = "new", NEW left, AfterSourceError(left), Over(left),
         ImageAtSource = NoImage \/ \E what \in {"retrieve", "extract"} : Fault(num, what)
  PROVE  Ends \/ Aborts \/ Retries
<1>1. CASE source = "daemon"
  <2>1. kind = "tar" /\ FirstSource = "daemon"
    BY <1>1 DEF Flow
  <2>2. image \notin DOMAIN local \/ SentThen(num)
    <3>1. CASE ImageAtSource = NoImage
      BY <1>1, <3>1, AtSources
    <3>2. ASSUME NEW what \in {"retrieve", "extract"}, Fault(num, what)
          PROVE  SentThen(num)
      <4>1. [num |-> num, what |-> what] \in faults'
        BY <3>2 DEF Fault
      <4>2. ~IsTar(image) /\ ~args.layout
        BY <1>1, AtSources
      <4>. QED
        BY <4>1, <4>2 DEF SentThen
    <3>. QED
      BY <3>1, <3>2
  <2>3. AtTest
    BY BeforeDriver
  <2>. QED
    BY <1>1, <2>1, <2>2, <2>3 DEF AfterSourceError, Retries
<1>2. CASE source # "daemon"
  BY <1>2, NotMade DEF AfterSourceError
<1>. QED
  BY <1>1, <1>2

LEMMA TheSourceErrors ==
  ASSUME Types, Flow, Kept, [Next]_vars, NotRetrieved \/ NotExtracted
  PROVE  Ends \/ Aborts \/ Retries
<1>1. pc = "new" /\ Over(dirs) /\ Directory.num = num /\ Directory.source = source
  BY BeforeDriver, AtSources DEF NotRetrieved, NotExtracted
<1>2. CASE NotRetrieved
  BY <1>1, <1>2, AtSourceError DEF NotRetrieved, Fault
<1>3. CASE NotExtracted
  <2>. DEFINE left == IF source = "layout" THEN dirs ELSE dirs \union {Directory}
  <2>1. AfterSourceError(left) /\ Fault(num, "extract")
    BY <1>3 DEF NotExtracted
  <2>2. \A d : d = Directory /\ source # "layout" => Explained(d)'
    <3>1. \A d : d = Directory => [num |-> d.num, what |-> "extract"] \in faults' /\ d.source = source
      BY <1>1, <2>1 DEF Fault
    <3>. QED
      BY <3>1 DEF Explained, FailedFor
  <2>3. Over(left)
    BY <1>1, <2>2 DEF Over
  <2>. QED
    BY <1>1, <2>1, <2>3, AtSourceError DEF Fault
<1>. QED
  BY <1>2, <1>3

LEMMA TheSetupSteps ==
  ASSUME Types, Flow, Kept, [Next]_vars
  PROVE  /\ SetEnv \/ Setup => GoesOn
         /\ SetEnvError \/ SetupError => Ends
<1>1. pc \in {"env", "setup"} => AtTest
  BY DEF Flow, Busy, AtTest
<1>2. ASSUME SetEnv PROVE GoesOn
  <2>1. PICK blind \in Inspections : driver' = [driver EXCEPT !.env = WithVars(@, blind)]
    BY <1>2 DEF SetEnv
  <2>2. driver' = Driver(driver.image, driver.dir, driver'.env)
    BY <2>1 DEF Types, Driver
  <2>. QED
    BY <1>1, <1>2, <2>2 DEF SetEnv, GoesOn
<1>3. ASSUME Setup PROVE GoesOn
  BY <1>1, <1>3 DEF Setup, GoesOn, testVars, Types, Driver
<1>4. ASSUME SetEnvError PROVE Ends
  <2>1. pc = "env" /\ given.schema = "v2" /\ AtTest /\ Conclude(FALSE, dirs)
    BY <1>1, <1>4 DEF SetEnvError, Flow
  <2>2. CASE test.kind = "command" \/ kind # "tar"
    <3>1. driver.dir \subseteq deferred
      BY <2>1, <2>2 DEF Kept, DefersDestroy, Flow
    <3>. QED
      BY <2>1, <3>1, Leftovers, Failing
  <2>3. CASE test.kind # "command" /\ kind = "tar"
    <3>1. driver.image # NoImage /\ \A d \in driver.dir : d.num = num
      BY <2>1, <2>3 DEF Flow
    <3>2. [num |-> num, what |-> "setenv"] \in faults' /\ given' = given
      BY <1>4, <3>1, GivenStays DEF SetEnvError, Fault
    <3>3. \A d \in driver.dir : Explained(d)'
      BY <2>3, <3>1, <3>2 DEF Explained, FailedFor, test
    <3>4. Over(dirs)
      BY <3>3, FaultsStay DEF Over, Kept
    <3>. QED
      BY <2>1, <3>4, Failing
  <2>. QED
    BY <2>2, <2>3
<1>5. ASSUME SetupError PROVE Ends
  <2>1. pc = "setup" /\ test.kind = "command" /\ AtTest
    BY <1>1, <1>5 DEF SetupError, Flow
  <2>2. CASE DefersDestroy
    <3>1. Over(dirs) /\ Fail(dirs)
      BY <1>5, <2>1, <2>2, Leftovers DEF SetupError, Kept
    <3>. QED
      BY <2>1, <3>1, Failing
  <2>3. CASE ~DefersDestroy
    <3>1. deferred = {}
      BY <2>1, <2>3 DEF DefersDestroy, Flow
    <3>2. Over(AfterDestroy) /\ Fail(AfterDestroy)
      BY <1>5, <2>3, <3>1, Leftovers DEF SetupError
    <3>. QED
      BY <2>1, <3>2, Failing
  <2>. QED
    BY <2>2, <2>3
<1>. QED
  BY <1>2, <1>3, <1>4, <1>5

LEMMA TheRuns ==
  ASSUME Types, Flow, Kept, [Next]_vars, RunCommand \/ RunFileTest \/ RunFileTestError \/ RunMetadataTest
  PROVE  Ends
<1>1. pc = "run" /\ AtTest
  BY DEF RunCommand, RunFileTest, RunFileTestError, RunMetadataTest, Flow, Busy, AtTest
<1>2. test.kind = "command" => Over(dirs)
  <2>1. test.kind = "command" => driver.dir = {}
    BY <1>1 DEF Flow
  <2>. QED
    BY <2>1, Leftovers
<1>3. test.kind # "command" => Over(AfterDestroy)
  <2>1. test.kind # "command" => deferred = {}
    BY <1>1 DEF Flow, Busy
  <2>. QED
    BY <2>1, Leftovers
<1>4. ASSUME RunCommand PROVE Ends
  <2>1. test.kind = "command"
    BY <1>4 DEF RunCommand
  <2>2. CASE Conclude(FALSE, dirs)
    BY <1>1, <1>2, <2>1, <2>2, Failing
  <2>3. CASE \E out \in given.outputs : Conclude(CheckOutput(test, out), dirs)
    <3>1. PICK out \in given.outputs : Conclude(CheckOutput(test, out), dirs)
      BY <2>3
    <3>2. CheckOutput(test, out) \in BOOLEAN
      BY DEF CheckOutput
    <3>. QED
      BY <1>1, <1>2, <2>1, <3>1, <3>2, SoundCommand, Passing
  <2>. QED
    BY <1>4, <2>2, <2>3 DEF RunCommand
<1>5. ASSUME RunFileTest \/ RunFileTestError PROVE Ends
  <2>1. test.kind \in {"content", "existence", "license"}
    BY <1>5 DEF RunFileTest, RunFileTestError, IsFileTest
  <2>2. PICK env, view : Conclude(Passes(test, env, view), AfterDestroy)
    BY <1>5 DEF RunFileTest, RunFileTestError
  <2>. QED
    BY <1>1, <1>3, <2>1, <2>2, SoundFileTest, Passing
<1>6. ASSUME RunMetadataTest PROVE Ends
  <2>1. test.kind = "metadata"
    BY <1>6 DEF RunMetadataTest
  <2>2. CASE Conclude(FALSE, AfterDestroy)
    BY <1>1, <1>3, <2>1, <2>2, Failing
  <2>3. CASE Conclude(MetadataPasses(test, GetConfig), AfterDestroy)
    <3>1. MetadataPasses(test, GetConfig) \in BOOLEAN
      BY DEF MetadataPasses
    <3>. QED
      BY <1>1, <1>3, <2>1, <2>3, <3>1, SoundMetadata, Passing
  <2>. QED
    BY <1>6, <2>2, <2>3 DEF RunMetadataTest
<1>. QED
  BY <1>4, <1>5, <1>6

\* Every step of the program.
LEMMA TheSteps ==
  ASSUME Types, Flow, Kept, Chosen, [Next]_vars
  PROVE  \/ StartupNext /\ UNCHANGED testVars
         \/ EmptyTest \/ EndOfCommands \/ EndOfTests \/ BreaksOff \/ UNCHANGED vars
         \/ Ends \/ Aborts \/ Starts \/ Searches \/ Retries \/ GoesOn
<1>0. ASSUME ArchiveTorn \/ Hang \/ CannotStart PROVE BreaksOff
  BY <1>0 DEF ArchiveTorn, Hang, CannotStart, CommandUnderWay, BreaksOff, AtTest, Flow, Busy
<1>1. ASSUME NotRetrieved \/ NotExtracted PROVE Ends \/ Aborts \/ Retries
  BY <1>1, TheSourceErrors
<1>2. ASSUME RunCommand \/ RunFileTest \/ RunFileTestError \/ RunMetadataTest PROVE Ends
  BY <1>2, TheRuns
<1>3. ASSUME SetEnv \/ SetEnvError \/ Setup \/ SetupError PROVE Ends \/ GoesOn
  BY <1>3, TheSetupSteps
<1>4. ASSUME InvalidTest \/ NewDriver \/ NewDriverError \/ NewTarDriver \/ Extract
      PROVE  Ends \/ Aborts \/ Starts \/ Searches
  BY <1>4, TheTestSteps
<1>. QED
  BY <1>0, <1>1, <1>2, <1>3, <1>4 DEF Next, Circling, Terminated

-----------------------------------------------------------------------------
(* Types, and what is known at each place.                                 *)

LEMMA ImagePut ==
  ASSUME NEW map, NEW key, NEW value
  PROVE  /\ key \in DOMAIN Put(map, key, value) /\ Put(map, key, value)[key] = value
         /\ Range(Put(map, key, value)) \subseteq Range(map) \union {value}
BY DEF Put, Range

\* What the preparation does to the images: the daemon gets one from a layout
\* or from the registry.
LEMMA Preparing ==
  ASSUME Types, StartupNext, UNCHANGED testVars
  PROVE  /\ Starting
         /\ pc' \in {"refused", "layout", "pull", "confirm", "init", "tests", "fatal"}
         /\ kind # "docker" => local' = local /\ image' = image
         /\ Range(local') \subseteq Known
<1>. USE DEF preparation, Proceed
<1>1. CASE Refuse \/ OpenReport \/ NoLayout \/ LayoutUnsupported \/ LayoutUnusable \/ NoPull \/ PullError
           \/ UserConfirmation \/ NoConfirmation \/ InitDriverImpl
  BY <1>1 DEF Types, Starting, Refuse, OpenReport, NoLayout, LayoutUnsupported, LayoutUnusable, NoPull, PullError,
     UserConfirmation, NoConfirmation, InitDriverImpl, Fatal
<1>2. CASE LoadLayout \/ LoadLayoutError
  <2>1. \E id \in LayoutIds, tag \in LayoutTags : local' \in {local, Put(local, tag, id)}
    BY <1>2 DEF LoadLayout, LoadLayoutError
  <2>2. \A id \in LayoutIds : id \in Known
    BY DEF LayoutIds, Known
  <2>3. Range(local') \subseteq Known
    BY <2>1, <2>2, ImagePut DEF Types
  <2>. QED
    BY <1>2, <2>3 DEF LoadLayout, LoadLayoutError, Starting
<1>3. CASE PullImage
  <2>1. local' = Put(local, image, world.remote[image]) /\ world.remote[image] \in Known
    BY <1>3, TheScenario DEF PullImage, Range, Known
  <2>2. Range(local') \subseteq Known
    BY <2>1, ImagePut DEF Types
  <2>. QED
    BY <1>3, <2>2 DEF PullImage, Starting
<1>. QED
  BY <1>1, <1>2, <1>3 DEF StartupNext

LEMMA NextTypes ==
  ASSUME Types, Flow, Kept, Chosen, [Next]_vars
  PROVE  Types'
<1>1. given' = given /\ Known' = Known /\ Verdict' = Verdict
  BY GivenStays, ImagesStay
<1>2. IsFiniteSet(faults') /\ Cardinality(faults') <= MaxFaults
  BY FaultsStay
<1>3. SUFFICES /\ pc' \in Progress \union Terminal
               /\ num' \in 1..(Len(given.tests) + 1)
               /\ source' \in {"none", "layout", "archive", "daemon", "remote"}
               /\ driver' = Driver(driver'.image, driver'.dir, driver'.env) /\ driver'.image \in Known
               /\ results' \in Seq(Verdict)
               /\ Range(local') \subseteq Known
  BY <1>1, <1>2 DEF Types, Driver
<1>4. CASE StartupNext /\ UNCHANGED testVars
  BY <1>4, Preparing DEF testVars, Types, Progress, Terminal
<1>5. ASSUME ~Starting
      PROVE  Range(local') \subseteq Known
  BY <1>5, GivenStays DEF Types
<1>6. Len(given.tests) \in Nat
  BY TheScenario
<1>7. NoDriver = Driver(NoDriver.image, NoDriver.dir, NoDriver.env) /\ NoDriver.image \in Known
  BY DEF NoDriver, Driver, Known
<1>8. CASE EmptyTest
  BY <1>5, <1>6, <1>8 DEF EmptyTest, NextTest, Starting, Types
<1>9. CASE EndOfCommands \/ EndOfTests \/ BreaksOff
  BY <1>5, <1>9 DEF EndOfCommands, EndOfTests, BreaksOff, testVars, Starting, Types, Progress, Terminal
<1>10. CASE UNCHANGED vars
  BY <1>10 DEF vars, preparation, testVars, Types
<1>11. AtTest => ~Starting
  BY DEF AtTest, Starting
<1>12. CASE Ends
  <2>1. \A pass \in BOOLEAN : Result(pass) \in Verdict
    BY <1>6 DEF Result, Verdict, Types
  <2>2. results' \in Seq(Verdict)
    BY <1>12, <2>1, AppendProperties DEF Ends, Types
  <2>3. num' = num + 1 /\ source' = "none" /\ driver' = NoDriver /\ pc' = "tests"
    BY <1>12 DEF Ends, Leave
  <2>. QED
    BY <1>5, <1>6, <1>7, <1>11, <1>12, <2>2, <2>3 DEF Ends, AtTest, Types, Progress
<1>13. CASE Aborts \/ Searches \/ Retries
  BY <1>5, <1>11, <1>13 DEF Aborts, Searches, Retries, FirstSource, Types, Progress, Terminal
<1>14. CASE Starts
  <2>1. PICK id, dir : id \in Known /\ MakeDriver(id, dir)
    BY <1>14 DEF Starts
  <2>2. driver' = Driver(id, dir, EnvOf(id)) /\ pc' \in Progress /\ num' = num /\ results' = results
    BY <2>1 DEF MakeDriver, AfterNewDriver, Progress
  <2>3. driver' = Driver(driver'.image, driver'.dir, driver'.env) /\ driver'.image \in Known
    BY <2>1, <2>2 DEF Driver
  <2>. QED
    BY <1>5, <1>11, <1>14, <2>2, <2>3 DEF Starts, Types
<1>15. CASE GoesOn
  <2>1. driver'.image = driver.image /\ driver' = Driver(driver'.image, driver'.dir, driver'.env)
    BY <1>15 DEF GoesOn, Driver
  <2>. QED
    BY <1>5, <1>11, <1>15, <2>1 DEF GoesOn, Types, Progress
<1>. QED
  BY <1>4, <1>8, <1>9, <1>10, <1>12, <1>13, <1>14, <1>15, TheSteps

LEMMA NextFlow ==
  ASSUME Types, Flow, Kept, Chosen, [Next]_vars
  PROVE  Flow'
<1>1. given' = given /\ kind' = kind /\ world' = world
  BY GivenStays DEF kind, world, args
<1>2. num' = num => test' = test
  BY <1>1 DEF test
<1>3. kind = "tar" => local' = local /\ image' = image
  BY GivenStays, Preparing
<1>4. FirstSource' = FirstSource \/ kind # "tar"
  BY <1>1, <1>3 DEF FirstSource, args
<1>5. CASE StartupNext /\ UNCHANGED testVars
  <2>1. Starting /\ pc' \in {"refused", "layout", "pull", "confirm", "init", "tests", "fatal"}
    BY <1>5, Preparing
  <2>. QED
    BY <1>1, <1>3, <1>5, <2>1 DEF testVars, Flow, Starting, Busy, NoDriver, Driver
<1>6. CASE EmptyTest \/ EndOfCommands \/ EndOfTests \/ BreaksOff
  BY <1>1, <1>3, <1>6 DEF EmptyTest, EndOfCommands, EndOfTests, BreaksOff, NextTest, Flow, Starting, Busy, NoDriver,
     Driver, testVars
<1>7. CASE UNCHANGED vars
  BY <1>1, <1>2, <1>4, <1>7 DEF vars, preparation, testVars, Flow, Starting, Busy
<1>8. CASE Ends
  BY <1>1, <1>3, <1>8 DEF Ends, AtTest, Leave, Flow, Starting, Busy, NoDriver, Driver
<1>9. CASE Aborts
  BY <1>1, <1>3, <1>9 DEF Aborts, Flow, Starting, Busy, NoDriver, Driver
<1>10. CASE Searches \/ Retries
  BY <1>1, <1>2, <1>3, <1>4, <1>10 DEF Searches, Retries, AtTest, Flow, Starting, Busy, NoDriver, Driver
<1>11. CASE Starts
  <2>1. PICK id, dir :
          /\ id \in Known /\ MakeDriver(id, dir)
          /\ IF kind = "tar" THEN id # NoImage /\ \E d \in dir : dir = {d} /\ d.num = num ELSE dir = {}
    BY <1>11 DEF Starts
  <2>2. driver' = Driver(id, dir, EnvOf(id)) /\ num' = num /\ pc' = AfterNewDriver /\ ~Starting
    BY <1>11, <2>1 DEF MakeDriver, Starts, AtTest, Starting
  <2>3. driver'.image = id /\ driver'.dir = dir
    BY <2>2 DEF Driver
  <2>4. /\ deferred' = deferred \/ (test.kind = "command" /\ given.schema = "v2")
        /\ kind # "tar" => deferred' = deferred
    BY <2>1 DEF MakeDriver, DefersDestroy
  <2>5. /\ pc' \in {"setup", "run", "env"}
        /\ pc' = "env" => given.schema = "v2"
        /\ pc' = "setup" => test.kind = "command"
        /\ pc' = "run" => test.kind # "command"
    BY <2>2, TheScenario DEF AfterNewDriver
  <2>6. num <= Len(given.tests) /\ (deferred # {} => test.kind = "command" /\ given.schema = "v2")
    BY <1>11 DEF Starts, AtTest, Flow
  <2>. QED
    BY <1>1, <1>2, <1>3, <2>1, <2>2, <2>3, <2>4, <2>5, <2>6 DEF Flow, Starting, Busy
<1>12. CASE GoesOn
  BY <1>1, <1>2, <1>3, <1>12 DEF GoesOn, AtTest, Flow, Starting, Busy, Driver
<1>. QED
  BY <1>5, <1>6, <1>7, <1>8, <1>9, <1>10, <1>11, <1>12, TheSteps

-----------------------------------------------------------------------------
(* The other parts of the invariant.                                       *)

LEMMA NextKept ==
  ASSUME Types, Flow, Kept, Chosen, [Next]_vars
  PROVE  Kept'
<1>1. given' = given /\ args' = args /\ \A d : Explained(d) => Explained(d)'
  BY GivenStays, FaultsStay DEF args
<1>2. num' = num => test' = test
  BY <1>1 DEF test
<1>3. NoDriver.dir = {} /\ (driver = NoDriver => driver.dir = {})
  BY DEF NoDriver, Driver
<1>4. CASE StartupNext /\ UNCHANGED testVars
  BY <1>1, <1>3, <1>4, Preparing DEF testVars, Flow, Starting, Kept
<1>5. CASE EmptyTest \/ EndOfTests \/ BreaksOff
  BY <1>1, <1>5 DEF EmptyTest, EndOfTests, BreaksOff, testVars, Kept, NextTest
<1>6. CASE EndOfCommands
  <2>1. driver' = driver /\ driver.dir = {} /\ pc' = "tests"
    BY <1>3, <1>6 DEF EndOfCommands, Flow
  <2>. QED
    BY <1>1, <1>6, <2>1 DEF EndOfCommands, Kept
<1>7. CASE UNCHANGED vars
  BY <1>1, <1>2, <1>7 DEF vars, testVars, Kept, DefersDestroy
<1>8. CASE Ends
  <2>1. PICK left : Leave(left) /\ Over(left)
    BY <1>8 DEF Ends
  <2>. QED
    BY <1>1, <1>3, <2>1 DEF Leave, Over, Kept
<1>9. CASE Aborts \/ Retries
  <2>1. driver = NoDriver
    BY <1>9 DEF Aborts, Retries, Flow
  <2>. QED
    BY <1>1, <1>3, <1>9, <2>1 DEF Aborts, Retries, Over, Kept
<1>10. CASE Searches
  BY <1>1, <1>10 DEF Searches, Kept
<1>11. CASE Starts
  <2>1. PICK id, dir :
          /\ MakeDriver(id, dir)
          /\ IF kind = "tar" THEN \E d \in dir : dir = {d} /\ d.num = num ELSE dir = {}
    BY <1>11 DEF Starts
  <2>2. driver'.dir = dir /\ dirs' = dirs \union dir /\ num' = num /\ driver.dir = {}
        /\ deferred' = IF DefersDestroy THEN deferred \union dir ELSE deferred
    BY <1>3, <1>11, <2>1 DEF MakeDriver, Driver, Starts
  <2>3. DefersDestroy' = DefersDestroy
    BY <1>1, <1>2, <2>2 DEF DefersDestroy
  <2>4. \A d \in dir : DefersDestroy => given.tests[d.num].kind = "command"
    BY <2>1 DEF DefersDestroy, test
  <2>. QED
    BY <1>1, <2>2, <2>3, <2>4 DEF Kept
<1>12. CASE GoesOn
  <2>1. driver'.dir = driver.dir /\ DefersDestroy' = DefersDestroy
    BY <1>1, <1>2, <1>12 DEF GoesOn, Driver, DefersDestroy
  <2>2. pc \in {"env", "setup", "run"}
    BY <1>12 DEF GoesOn
  <2>. QED
    BY <1>1, <1>12, <2>1, <2>2 DEF GoesOn, Kept
<1>. QED
  BY <1>4, <1>5, <1>6, <1>7, <1>8, <1>9, <1>10, <1>11, <1>12, TheSteps

\* Of what the tests do, only the places they lead to matter from here on.
LEMMA AfterPreparing ==
  ASSUME Types, Flow, Kept, Chosen, [Next]_vars
  PROVE  \/ StartupNext /\ UNCHANGED testVars
         \/ UNCHANGED vars
         \/ /\ pc \in {"tests", "new", "env", "setup", "run"}
            /\ pc' \notin {"args", "layout", "pull", "confirm", "init", "refused"}
            /\ UNCHANGED <<answers, image, local>>
<1>1. pc \in {"tests", "new", "env", "setup", "run"} => UNCHANGED <<answers, image, local>>
  BY GivenStays DEF Starting
<1>2. CASE Starts
  BY <1>1, <1>2 DEF Starts, AtTest, MakeDriver, AfterNewDriver
<1>3. CASE Ends \/ Aborts \/ Searches \/ Retries \/ GoesOn
  BY <1>1, <1>3 DEF Ends, Leave, Aborts, Searches, Retries, GoesOn, AtTest
<1>4. CASE EmptyTest \/ EndOfCommands \/ EndOfTests \/ BreaksOff
  BY <1>1, <1>4 DEF EmptyTest, EndOfCommands, EndOfTests, BreaksOff, NextTest
<1>. QED
  BY <1>2, <1>3, <1>4, TheSteps

LEMMA NextLoaded ==
  ASSUME Types, Flow, Kept, Chosen, Loaded, [Next]_vars
  PROVE  Loaded'
<1>1. /\ given' = given /\ args' = args /\ kind' = kind /\ world' = world
      /\ FromLayout' = FromLayout /\ LayoutTag' = LayoutTag
  BY GivenStays, ImagesStay DEF args, kind, world, LayoutTag
<1>2. faults' = {} => faults = {}
  BY FaultsStay
<1>3. SUFFICES ASSUME kind = "docker", args.layout
               PROVE  Loaded'
  BY <1>1 DEF Loaded
<1>4. IsLoaded /\ UNCHANGED <<image, local>> => IsLoaded'
  BY <1>1, <1>2 DEF IsLoaded
<1>5. CASE UNCHANGED vars
  BY <1>1, <1>4, <1>5 DEF vars, preparation, testVars, Loaded
<1>6. CASE pc \in {"tests", "new", "env", "setup", "run"} /\ UNCHANGED <<image, local>>
           /\ pc' \notin {"args", "layout", "pull", "confirm", "init", "refused"}
  BY <1>1, <1>4, <1>6 DEF Loaded
<1>7. CASE StartupNext /\ UNCHANGED testVars
  <2>1. results' = results
    BY <1>7 DEF testVars
  <2>2. CASE Refuse \/ OpenReport
    BY <1>1, <1>3, <2>1, <2>2 DEF Refuse, OpenReport, Proceed, preparation, Loaded, ValidFlags
  <2>3. CASE NoLayout \/ LayoutUnsupported \/ PullImage \/ UserConfirmation
    BY <1>3, <2>3 DEF NoLayout, LayoutUnsupported, PullImage, UserConfirmation, Loaded, IsLoaded
  <2>4. CASE LayoutUnusable \/ LoadLayoutError
    BY <1>1, <1>3, <2>1, <2>4 DEF LayoutUnusable, LoadLayoutError, Loaded, Fatal, Proceed
  <2>5. CASE LoadLayout
    <3>1. pc = "layout" /\ ~args.pull /\ local = world.local /\ results = << >>
      BY <1>3, <2>5 DEF LoadLayout, Loaded
    <3>2. PICK id \in LayoutIds, tag \in LayoutTags :
            /\ \/ local' = Put(local, tag, id)
               \/ UNCHANGED local /\ Fault(0, "load")
            /\ IF tag \in DOMAIN local'
               THEN image' = tag /\ pc' = "pull"
               ELSE UNCHANGED image /\ pc' = "fatal"
      BY <2>5 DEF LoadLayout
    <3>3. id = FromLayout /\ tag = Name(LayoutTag, "")
      BY DEF LayoutIds, LayoutTags
    <3>4. CASE pc' = "fatal"
      BY <1>1, <2>1, <3>1, <3>4 DEF Loaded
    <3>5. CASE image' = tag /\ pc' = "pull" /\ tag \in DOMAIN local'
      <4>1. local'[tag] \in {FromLayout, ImageIn(world.local, tag)} /\ (faults' = {} => local'[tag] = FromLayout)
        <5>1. CASE local' = Put(local, tag, id)
          <6>1. Put(local, tag, id)[tag] = id
            BY ImagePut
          <6>2. local'[tag] = id
            BY <5>1, <6>1
          <6>. QED
            BY <3>3, <6>2
        <5>2. CASE UNCHANGED local /\ Fault(0, "load")
          <6>1. faults' # {}
            BY <5>2 DEF Fault
          <6>. QED
            BY <3>1, <3>5, <5>2, <6>1 DEF ImageIn
        <5>. QED
          BY <3>2, <5>1, <5>2
      <4>2. IsLoaded'
        BY <1>1, <3>1, <3>3, <3>5, <4>1 DEF IsLoaded, ImageIn
      <4>. QED
        BY <3>5, <4>2 DEF Loaded
    <3>. QED
      BY <3>2, <3>4, <3>5
  <2>6. CASE NoPull \/ PullError \/ NoConfirmation \/ InitDriverImpl
    BY <1>1, <1>3, <1>4, <2>1, <2>6 DEF NoPull, PullError, NoConfirmation, InitDriverImpl, Proceed, preparation, Loaded
  <2>. QED
    BY <1>7, <2>2, <2>3, <2>4, <2>5, <2>6 DEF StartupNext
<1>. QED
  BY <1>5, <1>6, <1>7, AfterPreparing

LEMMA NextAnswers ==
  ASSUME Types, Flow, Kept, Chosen, TheAnswers, [Next]_vars
  PROVE  TheAnswers'
<1>. DEFINE all == given.answers
            n == Len(all) - Len(answers)
            Touching(p) == p \in {"init", "tests", "new", "env", "setup", "run", "end"}
<1>1. given' = given /\ args' = args /\ kind' = kind
  BY GivenStays DEF args, kind
<1>2. all \in Seq(STRING) /\ answers \in Seq(STRING) /\ Len(answers) \in Nat /\ Len(all) \in Nat
  BY TheScenario DEF TheAnswers
<1>3. /\ n \in Nat /\ \A i \in 1..Len(answers) : answers[i] = all[n + i]
      /\ pc # "fatal" => \A i \in 1..n : all[i] # "no"
      /\ kind = "host" /\ ~args.force /\ Touching(pc) => n > 0 /\ all[n] = "yes"
  BY DEF TheAnswers
<1>4. ASSUME UNCHANGED answers,
             pc' # "fatal" => pc # "fatal",
             kind = "host" /\ ~args.force /\ Touching(pc') => Touching(pc)
      PROVE  TheAnswers'
  BY <1>1, <1>4 DEF TheAnswers
<1>5. CASE UNCHANGED vars
  BY <1>4, <1>5 DEF vars, preparation
<1>6. CASE UNCHANGED answers /\ pc \in {"tests", "new", "env", "setup", "run"}
  BY <1>4, <1>6
<1>7. CASE StartupNext /\ UNCHANGED testVars
  <2>1. CASE UserConfirmation
    <3>1. CASE answers = << >>
      BY <1>4, <2>1, <3>1 DEF UserConfirmation
    <3>2. CASE answers # << >>
      <4>1. /\ answers' = Tail(answers) /\ answers[1] = Head(answers) /\ pc = "confirm"
            /\ pc' = "fatal" \/ (Head(answers) = "yes" /\ pc' = "init") \/ (Head(answers) # "no" /\ pc' = "confirm")
        BY <2>1, <3>2 DEF UserConfirmation
      <4>2. /\ answers' \in Seq(STRING) /\ Len(answers') = Len(answers) - 1 /\ Len(answers) >= 1
            /\ \A i \in 1..Len(answers') : answers'[i] = answers[i + 1]
        BY <1>2, <3>2, <4>1, HeadTailProperties, EmptySeq
      <4>3. n' = n + 1
        BY <1>1, <1>2, <4>2
      <4>4. all[n + 1] = Head(answers) /\ \A i \in 1..Len(answers') : answers'[i] = all[n + 1 + i]
        BY <1>2, <1>3, <4>1, <4>2
      <4>5. pc' # "fatal" => \A i \in 1..(n + 1) : all[i] # "no"
        BY <1>3, <4>1, <4>4
      <4>6. kind = "host" /\ ~args.force /\ Touching(pc') => all[n + 1] = "yes"
        BY <4>1, <4>4
      <4>. HIDE DEF n, Touching
      <4>7. /\ n' \in Nat /\ n' > 0 /\ \A i \in 1..Len(answers') : answers'[i] = all[n' + i]
            /\ pc' # "fatal" => \A i \in 1..n' : all[i] # "no"
            /\ kind = "host" /\ ~args.force /\ Touching(pc') => all[n'] = "yes"
        BY <1>3, <4>3, <4>4, <4>5, <4>6
      <4>. QED
        BY <1>1, <4>2, <4>7 DEF TheAnswers, n, Touching
    <3>. QED
      BY <3>1, <3>2
  <2>2. CASE Refuse \/ OpenReport \/ NoLayout \/ LayoutUnsupported \/ LayoutUnusable
    BY <1>4, <2>2 DEF Refuse, OpenReport, NoLayout, LayoutUnsupported, LayoutUnusable, Fatal, Proceed, preparation
  <2>3. CASE LoadLayout \/ LoadLayoutError \/ NoPull \/ PullImage \/ PullError
    BY <1>4, <2>3 DEF LoadLayout, LoadLayoutError, NoPull, PullImage, PullError, Proceed, preparation
  <2>4. CASE NoConfirmation \/ InitDriverImpl
    BY <1>4, <2>4 DEF NoConfirmation, InitDriverImpl, Proceed, preparation
  <2>. QED
    BY <1>7, <2>1, <2>2, <2>3, <2>4 DEF StartupNext
<1>. QED
  BY <1>5, <1>6, <1>7, AfterPreparing

LEMMA NextChosen ==
  ASSUME Types, Flow, Kept, Chosen, [Next]_vars
  PROVE  Chosen'
<1>1. given' = given /\ args' = args /\ kind' = kind /\ world' = world /\ FromLayout' = FromLayout
  BY GivenStays, ImagesStay DEF args, kind, world
<1>2. SUFFICES ASSUME kind = "tar"
               PROVE  Chosen'
  BY <1>1 DEF Chosen
<1>3. local' = local /\ image' = image /\ faults \subseteq faults'
  BY <1>2, GivenStays, Preparing, FaultsStay
<1>4. \A n : SentOn(n) => SentThen(n)
  BY <1>3 DEF SentOn, SentThen
<1>5. \A n, id : MayBeAbout(n, id) => AboutThen(n, id)
  BY <1>4 DEF MayBeAbout, AboutThen
<1>6. /\ pc = "new" /\ source = "remote" => image \notin DOMAIN local \/ SentThen(num)
      /\ AboutThen(num, driver.image)
      /\ \A i \in DOMAIN results : AboutThen(results[i].num, results[i].image)
  BY <1>2, <1>4, <1>5 DEF Chosen
<1>7. SUFFICES /\ pc' = "new" /\ source' = "remote" => image \notin DOMAIN local \/ SentThen(num')
               /\ AboutThen(num', driver'.image)
               /\ \A i \in DOMAIN results' : AboutThen(results'[i].num, results'[i].image)
  <2>1. Preferred' = Preferred
    BY <1>1, <1>3 DEF Preferred
  <2>. QED
    BY <1>1, <1>3, <2>1 DEF Chosen, SentOn, SentThen, MayBeAbout, AboutThen
<1>8. \A n : AboutThen(n, NoDriver.image)
  BY DEF AboutThen, NoDriver, Driver
<1>9. CASE StartupNext /\ UNCHANGED testVars
  BY <1>6, <1>9, Preparing DEF testVars
<1>10. CASE EmptyTest
  BY <1>6, <1>8, <1>10 DEF EmptyTest, NextTest, Flow
<1>11. CASE EndOfCommands \/ EndOfTests \/ BreaksOff \/ UNCHANGED vars
  BY <1>6, <1>11 DEF EndOfCommands, EndOfTests, BreaksOff, testVars, vars
<1>12. CASE Ends
  <2>1. driver' = NoDriver /\ pc' = "tests"
    BY <1>12 DEF Ends, Leave
  <2>2. CASE UNCHANGED results
    BY <1>6, <1>8, <2>1, <2>2
  <2>3. ASSUME NEW pass \in BOOLEAN, results' = Append(results, Result(pass))
        PROVE  \A i \in DOMAIN results' : AboutThen(results'[i].num, results'[i].image)
    <3>1. PICK v : v = Result(pass)
      OBVIOUS
    <3>2. v.num = num /\ v.image = driver.image
      BY <3>1 DEF Result
    <3>3. \A i \in DOMAIN results' : results'[i] = v \/ (i \in DOMAIN results /\ results'[i] = results[i])
      BY <2>3, <3>1 DEF Types
    <3>4. AboutThen(v.num, v.image)
      BY <1>6, <3>2
    <3>. QED
      BY <1>6, <3>3, <3>4
  <2>. QED
    BY <1>8, <1>12, <2>1, <2>2, <2>3 DEF Ends
<1>13. CASE Aborts \/ Retries \/ GoesOn
  BY <1>6, <1>13 DEF Aborts, Retries, GoesOn, Driver
<1>14. CASE Searches
  BY <1>6, <1>14 DEF Searches, FirstSource
<1>15. CASE Starts
  <2>1. PICK id, dir : MakeDriver(id, dir) /\ MayBeAbout(num, id)
    BY <1>2, <1>15 DEF Starts
  <2>. QED
    BY <1>5, <1>6, <2>1 DEF MakeDriver, AfterNewDriver, Driver
<1>. QED
  BY <1>9, <1>10, <1>11, <1>12, <1>13, <1>14, <1>15, TheSteps

LEMMA NextSound ==
  ASSUME Types, Flow, Kept, Chosen, Sound, [Next]_vars
  PROVE  Sound'
<1>1. given' = given
  BY GivenStays
<1>2. results' = results \/ \E pass \in BOOLEAN : results' = Append(results, Result(pass)) /\ (pass => IsSound(test))
  BY TheSteps DEF testVars, vars, EmptyTest, EndOfCommands, EndOfTests, BreaksOff, Ends, Aborts, Starts, MakeDriver,
     Searches, Retries, GoesOn
<1>3. CASE results' = results
  BY <1>1, <1>3 DEF Sound
<1>4. ASSUME NEW pass \in BOOLEAN, results' = Append(results, Result(pass)), pass => IsSound(test)
      PROVE  Sound'
  <2>1. PICK v : v = Result(pass)
    OBVIOUS
  <2>2. v.pass = pass /\ v.num = num
    BY <2>1 DEF Result
  <2>3. \A i \in DOMAIN results' : results'[i] = v \/ (i \in DOMAIN results /\ results'[i] = results[i])
    BY <1>4, <2>1 DEF Types
  <2>4. \A i \in DOMAIN results' : results'[i].pass => IsSound(given.tests[results'[i].num])
    BY <1>4, <2>2, <2>3 DEF Sound, test
  <2>. QED
    BY <1>1, <2>4 DEF Sound
<1>. QED
  BY <1>2, <1>3, <1>4

-----------------------------------------------------------------------------
(* The invariant, and what follows from it.                                *)

LEMMA InitIInv == Init => IInv
<1>1. SUFFICES ASSUME Init PROVE IInv
  OBVIOUS
<1>2. /\ given \in Scenarios /\ pc = "args" /\ num = 1 /\ source = "none" /\ driver = NoDriver /\ deferred = {}
      /\ dirs = {} /\ results = << >> /\ faults = {} /\ answers = given.answers /\ local = world.local
  BY <1>1 DEF Init, StartupInit, world
<1>3. NoDriver = Driver(NoDriver.image, NoDriver.dir, NoDriver.env) /\ NoDriver.image = NoImage /\ NoDriver.dir = {}
  BY DEF NoDriver, Driver
<1>4. Types
  <2>1. given.tests \in Seq(Range(given.tests)) /\ Range(world.local) \subseteq Known
    BY <1>2, ScenariosAssumption DEF Known, world
  <2>2. 1 \in 1..(Len(given.tests) + 1)
    BY <2>1, LenProperties
  <2>3. IsFiniteSet(faults) /\ Cardinality(faults) <= MaxFaults
    BY <1>2, FS_EmptySet, MaxFaultsAssumption
  <2>. QED
    BY <1>2, <1>3, <2>1, <2>2, <2>3 DEF Types, Known, Progress
<1>5. Flow /\ Kept /\ Loaded /\ Chosen /\ Sound
  BY <1>2, <1>3 DEF Flow, Kept, Loaded, Chosen, MayBeAbout, Sound, Starting, Busy
<1>6. TheAnswers
  <2>1. answers \in Seq(STRING) /\ Len(answers) \in Nat
    BY <1>2, <1>4, TheScenario, LenProperties
  <2>. QED
    BY <1>2, <2>1 DEF TheAnswers
<1>. QED
  BY <1>4, <1>5, <1>6 DEF IInv

LEMMA NextIInv == IInv /\ [Next]_vars => IInv'
BY NextTypes, NextFlow, NextAnswers, NextKept, NextLoaded, NextChosen, NextSound DEF IInv

\* The inductive invariant holds for every scenario and whatever fails.
THEOREM Inductive == Spec => []IInv
BY InitIInv, NextIInv, PTL DEF Spec

\* The type invariant: an image is one of those there are, also if it is from a
\* layout, whatever that holds; a test that runs has a directory just if it has
\* the tar driver; what is deferred is of command tests and is on the disk.
THEOREM TypeCorrect == Spec => []TypeOK
<1>1. IInv => TypeOK
  <2>1. SUFFICES ASSUME IInv PROVE TypeOK
    OBVIOUS
  <2>2. driver.image \in DOMAIN Images \union {NoImage}
    BY <2>1, LayoutKnown DEF IInv, Types, Known
  <2>3. pc = "run" => driver.dir \subseteq dirs /\ Cardinality(driver.dir) = (IF kind = "tar" THEN 1 ELSE 0)
    <3>1. SUFFICES ASSUME pc = "run" PROVE Cardinality(driver.dir) = (IF kind = "tar" THEN 1 ELSE 0)
      BY <2>1 DEF IInv, Kept
    <3>2. kind = "tar" => \E d : driver.dir = {d}
      BY <2>1, <3>1 DEF IInv, Flow
    <3>3. kind # "tar" => driver.dir = {}
      BY <2>1 DEF IInv, Flow
    <3>. QED
      BY <3>2, <3>3, FS_Singleton, FS_EmptySet
  <2>4. \A d \in deferred : given.tests[d.num].kind = "command" /\ d \in dirs
    BY <2>1 DEF IInv, Kept
  <2>. QED
    BY <2>1, <2>2, <2>3, <2>4 DEF IInv, Types, TypeOK
<1>. QED
  BY <1>1, Inductive, PTL

\* The commands and the files of the host are touched only after the user said
\* yes, with no "no" before it, or forced it.
THEOREM HostNeedsConfirmation == Spec => []HostIsConfirmed
<1>1. IInv => HostIsConfirmed
  <2>. DEFINE all == given.answers
              n == Len(all) - Len(answers)
              read == SubSeq(all, 1, n)
  <2>1. SUFFICES ASSUME IInv, kind = "host", pc \in {"tests", "env", "setup", "run", "end"}, ~args.force
                 PROVE  read # << >> /\ Last(read) = "yes" /\ "no" \notin ToSet(read)
    BY DEF HostIsConfirmed
  <2>2. all \in Seq(STRING) /\ Len(all) \in Nat /\ answers \in Seq(STRING) /\ Len(answers) \in Nat
    BY <2>1, TheScenario DEF IInv, TheAnswers
  <2>3. n \in Nat /\ n > 0 /\ n <= Len(all) /\ all[n] = "yes" /\ \A i \in 1..n : all[i] # "no"
    BY <2>1, <2>2 DEF IInv, TheAnswers
  <2>. HIDE DEF n
  <2>4. read \in Seq(STRING) /\ Len(read) = n /\ \A i \in 1..n : read[i] = all[i]
    BY <2>2, <2>3, SubSeqProperties
  <2>5. DOMAIN read = 1..n
    BY <2>4, LenProperties
  <2>. QED
    BY <2>3, <2>4, <2>5 DEF Last, ToSet
<1>. QED
  BY <1>1, Inductive, PTL

\* A directory that an image was extracted to outlives the command only where
\* the image could not be unpacked or the variables of a file test not be set.
THEOREM DirectoriesAreRemoved == Spec => []OnlyFailuresStay
<1>1. IInv => OnlyFailuresStay
  <2>1. SUFFICES ASSUME IInv, pc \in {"fatal", "end"}, ~args.save, NEW d \in dirs
                 PROVE  Explained(d)
    BY DEF OnlyFailuresStay, Explained
  <2>2. driver.dir = {} /\ deferred = {}
    BY <2>1 DEF IInv, Flow, NoDriver, Driver
  <2>. QED
    BY <2>1, <2>2 DEF IInv, Kept
<1>. QED
  BY <1>1, Inductive, PTL

\* What is tested of a layout with the docker driver is the image that has the
\* tag, which is that of the layout if nothing failed.
THEOREM LayoutIsTested == Spec => []LoadedIsTested
<1>1. IInv => LoadedIsTested
  BY DEF IInv, Loaded, IsLoaded, LoadedIsTested
<1>. QED
  BY <1>1, Inductive, PTL

\* Every test of the tar driver is about the same image, though each looks for it
\* anew and any call may fail; but a test for which the daemon failed may be about
\* the image of the registry.
THEOREM TestsSeeOneImage == Spec => []SameImage
<1>1. IInv => SameImage
  BY DEF IInv, Chosen, SameImage
<1>. QED
  BY <1>1, Inductive, PTL

\* No test passes that contradicts itself or has a pattern that does not
\* compile, whatever the image, its files and what its commands print.
THEOREM ContradictionsFail == Spec => []NoContradictionPasses
<1>1. IInv => NoContradictionPasses
  <2>1. SUFFICES ASSUME IInv, results # << >>, Last(results).pass
                 PROVE  IsSound(LastTest)
    BY DEF NoContradictionPasses, IsSound
  <2>2. Len(results) \in DOMAIN results
    BY <2>1, EmptySeq, LenProperties DEF IInv, Types
  <2>. QED
    BY <2>1, <2>2 DEF IInv, Sound, Last, LastTest
<1>. QED
  BY <1>1, Inductive, PTL

\* The search of a layout finds the first image that satisfies the platform, and
\* stops at an index that it cannot look into, whatever indexes there are and
\* however they are nested: findImageInIndex.
THEOREM FirstIsFound == Spec => []FindsFirst
<1>1. IInv => FindsFirst
  <2>1. SUFFICES ASSUME Types PROVE FindsFirst
    BY DEF IInv
  <2>2. PICK layout : layout = given.world.layout
    OBVIOUS
  <2>3. IsLayout(layout)
    BY <2>1, <2>2, ScenariosAssumption DEF Types, IsLayout
  <2>4. \A top \in DOMAIN layout.indexes : \A platform :
          FindImageInIndex(layout, top, platform) = FirstInLine(layout, Unrolled(layout, top), platform)
    BY <2>3, SearchFindsFirst
  <2>. QED
    BY <2>2, <2>4 DEF FindsFirst, world
<1>. QED
  BY <1>1, Inductive, PTL

-----------------------------------------------------------------------------
(* The contract: Command implements RunContract.                           *)

\* The results are of the tests that are over, in their order.
Numbered ==
  /\ \A i \in DOMAIN results : results[i].num \in 1..(num - 1)
  /\ \A i, j \in DOMAIN results : i < j => results[i].num < results[j].num

\* Those that are owed a result have it.
Answered ==
  \A k \in DOMAIN given.tests : k < num /\ IsOwed(k) => \E i \in DOMAIN results : results[i].num = k

\* What the variables of the contract stand for.
ItsPlaces == {PlaceOf(i) : i \in DOMAIN given.tests}
Owing     == {PlaceOf(i) : i \in {j \in DOMAIN given.tests : IsOwed(j)}}
Reported  == [i \in DOMAIN results |-> [test |-> PlaceOf(results[i].num), pass |-> results[i].pass]]

LEMMA GivenPlaces ==
  ASSUME given' = given
  PROVE  /\ ItsPlaces' = ItsPlaces /\ Owing' = Owing
         /\ \A k : IsOwed(k)' = IsOwed(k) /\ PlaceOf(k)' = PlaceOf(k)
BY DEF ItsPlaces, Owing, IsOwed, PlaceOf

LEMMA PlacesInOrder ==
  ASSUME Types, NEW k \in DOMAIN given.tests, NEW l \in DOMAIN given.tests
  PROVE  /\ k < l <=> Contract!Before(PlaceOf(k), PlaceOf(l))
         /\ PlaceOf(k) = PlaceOf(l) <=> k = l
         /\ PlaceOf(k).file = 1 /\ PlaceOf(k) # Contract!Unparsable(1)
<1>1. k \in Nat /\ l \in Nat
  BY TheScenario
<1>2. PICK s, r : s = SectionOf(given.tests[k]) /\ r = SectionOf(given.tests[l])
  OBVIOUS
<1>3. s \in 1..s /\ r \in 1..r /\ (k <= l => s \in 1..r) /\ (l <= k => r \in 1..s)
  BY <1>1, <1>2, ScenariosAssumption DEF Types
<1>4. PICK p, q : p = PlaceOf(k) /\ q = PlaceOf(l)
  OBVIOUS
<1>5. p.file = 1 /\ p.section = s /\ p.num = k /\ q.file = 1 /\ q.section = r /\ q.num = l
  BY <1>2, <1>4 DEF PlaceOf, Place
<1>6. k < l <=> Contract!Before(p, q)
  BY <1>1, <1>3, <1>5 DEF Contract!Before
<1>7. Contract!Unparsable(1).section = 0
  BY DEF Contract!Unparsable, Contract!Place
<1>8. p # Contract!Unparsable(1)
  BY <1>3, <1>5, <1>7
<1>9. p = q <=> k = l
  BY <1>2, <1>4, <1>5
<1>. QED
  BY <1>4, <1>5, <1>6, <1>8, <1>9

LEMMA ReportedAre ==
  ASSUME Types, Numbered
  PROVE  /\ \A i \in DOMAIN results : results[i].num \in DOMAIN given.tests
         /\ \A k \in DOMAIN given.tests :
              Contract!IsReported(PlaceOf(k)) <=> \E i \in DOMAIN results : results[i].num = k
         /\ ~Contract!IsReported(Contract!Unparsable(1))
<1>1. \A i \in DOMAIN results : results[i].num \in DOMAIN given.tests
  BY TheScenario DEF Numbered, Types
<1>2. DOMAIN Reported = DOMAIN results /\ \A i \in DOMAIN results : Reported[i].test = PlaceOf(results[i].num)
  BY DEF Reported
<1>3. \A t : Contract!IsReported(t) <=> \E i \in DOMAIN results : t = PlaceOf(results[i].num)
  BY <1>2 DEF Contract!IsReported, Reported
<1>. QED
  BY <1>1, <1>3, PlacesInOrder

\* What was begun before the test that is next is settled.
LEMMA BegunIsSettled ==
  ASSUME Types, Numbered, Answered, NEW k \in DOMAIN given.tests, IsOwed(k), k < num
  PROVE  Contract!Settled(PlaceOf(k))
<1>1. \E i \in DOMAIN results : results[i].num = k
  BY DEF Answered
<1>. QED
  BY <1>1, ReportedAre DEF Contract!Settled

\* The steps, by what they do to the results.
Adds == /\ \E pass \in BOOLEAN : results' = Append(results, Result(pass))
        /\ num' = num + 1 /\ num <= Len(given.tests) /\ Ending = "running" /\ pc' = "tests"

Skips == results' = results /\ num' = num + 1 /\ num <= Len(given.tests) /\ ~IsOwed(num) /\ Ending' = Ending

Quits == results' = results /\ num' = num /\ Ending = "running" /\ Ending' = "fatal"

Rests == results' = results /\ num' = num /\ Ending' = Ending

LEMMA TheResults ==
  ASSUME IInv, [Next]_vars
  PROVE  Adds \/ Skips \/ Quits \/ Rests \/ EndOfTests
<1>1. given' = given
  BY GivenStays
<1>2. CASE StartupNext /\ UNCHANGED testVars
  <2>1. results' = results /\ num' = num
    BY <1>2 DEF testVars
  <2>2. /\ pc \in {"args", "layout", "pull", "confirm", "init"}
        /\ pc' \in {"args", "layout", "pull", "confirm", "init", "tests", "refused", "fatal"}
    BY <1>2 DEF StartupNext, Refuse, OpenReport, NoLayout, LayoutUnsupported, LayoutUnusable, LoadLayout,
       LoadLayoutError, NoPull, PullImage, PullError, UserConfirmation, NoConfirmation, InitDriverImpl, Fatal, Proceed
  <2>. QED
    BY <2>1, <2>2 DEF Quits, Rests, Ending
<1>3. CASE EmptyTest
  <2>1. results' = results /\ num' = num + 1 /\ num <= Len(given.tests) /\ pc' = pc
    BY <1>3 DEF EmptyTest, NextTest
  <2>2. ~IsOwed(num)
    BY <1>3 DEF EmptyTest, IsOwed, test
  <2>. QED
    BY <2>1, <2>2 DEF Skips, Ending
<1>4. CASE Ends
  <2>1. pc \in {"tests", "new", "env", "setup", "run"} /\ pc' = "tests" /\ num' = num + 1 /\ num <= Len(given.tests)
    BY <1>4 DEF Ends, AtTest, Leave
  <2>2. Ending = "running" /\ Ending' = "running"
    BY <2>1 DEF Ending
  <2>3. CASE UNCHANGED results /\ given.schema = "v1"
    BY <2>1, <2>2, <2>3 DEF Skips, IsOwed
  <2>4. CASE \E pass \in BOOLEAN : results' = Append(results, Result(pass)) /\ (pass => IsSound(test))
    BY <2>1, <2>2, <2>4 DEF Adds
  <2>. QED
    BY <1>4, <2>3, <2>4 DEF Ends
<1>5. CASE Aborts \/ BreaksOff
  <2>1. /\ results' = results /\ num' = num
        /\ pc \in {"tests", "new", "env", "setup", "run"} /\ pc' \in {"fatal", "panic", "hung"}
    BY <1>5 DEF Aborts, AtTest, BreaksOff, testVars
  <2>. QED
    BY <2>1 DEF Quits, Rests, Ending
<1>6. CASE Starts \/ Searches \/ Retries \/ GoesOn \/ EndOfCommands
  <2>1. /\ results' = results /\ num' = num
        /\ pc \in {"tests", "new", "env", "setup", "run"} /\ pc' \in {"tests", "new", "env", "setup", "run"}
    BY <1>6 DEF Starts, Searches, Retries, GoesOn, EndOfCommands, AtTest, MakeDriver, AfterNewDriver
  <2>. QED
    BY <2>1 DEF Rests, Ending
<1>7. CASE UNCHANGED vars
  <2>1. results' = results /\ num' = num /\ pc' = pc
    BY <1>7 DEF vars, testVars
  <2>. QED
    BY <2>1 DEF Rests, Ending
<1>. QED
  BY <1>2, <1>3, <1>4, <1>5, <1>6, <1>7, TheSteps DEF IInv

LEMMA ResultAdded ==
  ASSUME Types, Adds
  PROVE  \E v : /\ results' = Append(results, v) /\ v.num = num /\ v.pass \in BOOLEAN
                /\ DOMAIN results = 1..Len(results) /\ Len(results) \in Nat
                /\ DOMAIN results' = 1..(Len(results) + 1)
                /\ results'[Len(results) + 1] = v /\ \A i \in DOMAIN results : results'[i] = results[i]
<1>1. PICK pass \in BOOLEAN : results' = Append(results, Result(pass))
  BY DEF Adds
<1>2. PICK v : v = Result(pass)
  OBVIOUS
<1>3. results' = Append(results, v)
  BY <1>1, <1>2
<1>4. v.num = num /\ v.pass = pass
  BY <1>2 DEF Result
<1>5. results \in Seq(Verdict) /\ DOMAIN results = 1..Len(results) /\ Len(results) \in Nat
  BY LenProperties DEF Types
<1>6. /\ DOMAIN results' = 1..(Len(results) + 1)
      /\ results'[Len(results) + 1] = v /\ \A i \in DOMAIN results : results'[i] = results[i]
  BY <1>3, <1>5
<1>. QED
  BY <1>3, <1>4, <1>5, <1>6

LEMMA NextNumbered ==
  ASSUME IInv, Numbered, Answered, [Next]_vars
  PROVE  Numbered' /\ Answered'
<1>1. Types /\ given' = given /\ num \in Nat
  BY GivenStays, TheScenario DEF IInv, Types
<1>2. \A k \in DOMAIN given.tests : k \in Nat
  BY <1>1, TheScenario
<1>3. CASE Quits \/ Rests \/ EndOfTests
  <2>1. results' = results /\ num' = num
    BY <1>3 DEF Quits, Rests, EndOfTests, testVars
  <2>. QED
    BY <1>1, <2>1, GivenPlaces DEF Numbered, Answered
<1>4. CASE Skips
  <2>1. results' = results /\ num' = num + 1 /\ ~IsOwed(num)
    BY <1>4 DEF Skips
  <2>2. \A k \in DOMAIN given.tests : k < num + 1 => k < num \/ k = num
    BY <1>1, <1>2
  <2>3. \A n \in 1..(num - 1) : n \in 1..(num + 1 - 1)
    BY <1>1
  <2>. QED
    BY <1>1, <2>1, <2>2, <2>3, GivenPlaces DEF Numbered, Answered
<1>5. CASE Adds
  <2>1. PICK v : /\ results' = Append(results, v) /\ v.num = num
                 /\ DOMAIN results = 1..Len(results) /\ Len(results) \in Nat
                 /\ DOMAIN results' = 1..(Len(results) + 1)
                 /\ results'[Len(results) + 1] = v /\ \A i \in DOMAIN results : results'[i] = results[i]
    BY <1>1, <1>5, ResultAdded
  <2>2. num' = num + 1 /\ num \in 1..num
    BY <1>1, <1>5 DEF Adds, IInv, Types
  <2>3. \A i \in DOMAIN results' : i \in DOMAIN results \/ i = Len(results) + 1
    BY <2>1
  <2>4. \A i \in DOMAIN results : results'[i].num \in 1..(num - 1) /\ i < Len(results) + 1
    BY <2>1 DEF Numbered
  <2>5. Numbered'
    <3>1. \A i \in DOMAIN results' : results'[i].num \in 1..(num' - 1)
      BY <1>1, <2>1, <2>2, <2>3, <2>4
    <3>2. ASSUME NEW i \in DOMAIN results', NEW j \in DOMAIN results', i < j
          PROVE  results'[i].num < results'[j].num
      <4>1. CASE j \in DOMAIN results
        <5>1. i \in DOMAIN results
          BY <2>1, <3>2, <4>1
        <5>. QED
          BY <2>1, <3>2, <4>1, <5>1 DEF Numbered
      <4>2. CASE j = Len(results) + 1
        <5>1. i \in DOMAIN results
          BY <2>1, <3>2, <4>2
        <5>2. results'[i].num \in 1..(num - 1) /\ results'[j].num = num
          BY <2>1, <2>4, <4>2, <5>1
        <5>. QED
          BY <1>1, <5>2
      <4>. QED
        BY <2>3, <4>1, <4>2
    <3>. QED
      BY <3>1, <3>2 DEF Numbered
  <2>6. Answered'
    <3>1. SUFFICES ASSUME NEW k \in DOMAIN given.tests, k < num', IsOwed(k)
                   PROVE  \E i \in DOMAIN results' : results'[i].num = k
      BY <1>1, GivenPlaces DEF Answered
    <3>2. CASE k = num
      BY <2>1, <3>2
    <3>3. CASE k < num
      <4>1. PICK i \in DOMAIN results : results[i].num = k
        BY <3>1, <3>3 DEF Answered
      <4>. QED
        BY <2>1, <4>1
    <3>. QED
      BY <1>1, <1>2, <2>2, <3>1, <3>2, <3>3
  <2>. QED
    BY <2>5, <2>6
<1>. QED
  BY <1>3, <1>4, <1>5, TheResults

\* What follows a sequence by one element is that sequence with it at the end.
Lists(f, n) == f = [i \in 1..n |-> f[i]]

LEMMA AppendIs ==
  ASSUME NEW n \in Nat, NEW f, NEW g, NEW e, Lists(f, n), Lists(g, n + 1),
         g[n + 1] = e, \A i \in 1..n : g[i] = f[i]
  PROVE  g = Append(f, e)
<1>1. PICK S : S = {f[i] : i \in 1..n} \union {e}
  OBVIOUS
<1>2. f \in [1..n -> S] /\ e \in S
  BY <1>1 DEF Lists
<1>3. f \in Seq(S) /\ Len(f) = n
  BY <1>2, SeqDef, LenProperties
<1>4. PICK h : h = Append(f, e)
  OBVIOUS
<1>5. h \in Seq(S) /\ Len(h) = n + 1 /\ (\A i \in 1..n : h[i] = f[i]) /\ h[n + 1] = e
  BY ONLY <1>2, <1>3, <1>4, AppendProperties
<1>6. h = [i \in 1..(n + 1) |-> h[i]]
  BY <1>5, LenProperties
<1>7. \A i \in 1..(n + 1) : h[i] = g[i]
  <2>1. \A i \in 1..(n + 1) : i \in 1..n \/ i = n + 1
    OBVIOUS
  <2>. QED
    BY <1>5, <2>1
<1>. QED
  BY <1>4, <1>6, <1>7 DEF Lists

\* A test that ends with a result reports it.
LEMMA AddingReports ==
  ASSUME IInv, Numbered, Answered, [Next]_vars, Adds
  PROVE  Contract!Report
<1>1. Types /\ given' = given /\ num \in Nat /\ num \in DOMAIN given.tests
  BY GivenStays, TheScenario DEF IInv, Types, Adds
<1>2. PICK v : /\ results' = Append(results, v) /\ v.num = num /\ v.pass \in BOOLEAN
               /\ DOMAIN results = 1..Len(results) /\ Len(results) \in Nat
               /\ DOMAIN results' = 1..(Len(results) + 1)
               /\ results'[Len(results) + 1] = v /\ \A i \in DOMAIN results : results'[i] = results[i]
  BY <1>1, ResultAdded
<1>3. PICK t : t = PlaceOf(num)
  OBVIOUS
<1>4. t \in ItsPlaces /\ t.file = 1
  BY <1>1, <1>3, PlacesInOrder DEF ItsPlaces
<1>5. \A i \in DOMAIN Reported : Contract!Before(Reported[i].test, t)
  <2>1. \A i \in DOMAIN results : results[i].num \in DOMAIN given.tests /\ results[i].num < num
    BY <1>1, ReportedAre DEF Numbered
  <2>2. \A i \in DOMAIN results : Contract!Before(PlaceOf(results[i].num), t)
    BY <1>1, <1>3, <2>1, PlacesInOrder
  <2>. QED
    BY <2>2 DEF Reported
<1>6. \A u \in Owing : Contract!Before(u, t) => Contract!Settled(u)
  <2>1. SUFFICES ASSUME NEW k \in DOMAIN given.tests, IsOwed(k), Contract!Before(PlaceOf(k), t)
                 PROVE  Contract!Settled(PlaceOf(k))
    BY DEF Owing
  <2>2. k < num
    BY <1>1, <1>3, <2>1, PlacesInOrder
  <2>. QED
    BY <1>1, <2>1, <2>2, BegunIsSettled
<1>7. ~Contract!IsReported(Contract!Unparsable(t.file))
  BY <1>1, <1>4, ReportedAre
<1>8. Reported' = Append(Reported, [test |-> t, pass |-> v.pass])
  <2>1. PICK r, n : r = [test |-> t, pass |-> v.pass] /\ n = Len(results)
    OBVIOUS
  <2>2. /\ DOMAIN Reported = 1..n /\ n \in Nat /\ DOMAIN Reported' = 1..(n + 1)
        /\ Reported'[n + 1] = r /\ \A i \in 1..n : Reported'[i] = Reported[i]
        /\ Reported' = [i \in 1..(n + 1) |-> Reported'[i]]
    BY <1>1, <1>2, <1>3, <2>1, GivenPlaces DEF Reported
  <2>3. PICK f, g : f = Reported /\ g = Reported'
    OBVIOUS
  <2>4. Lists(f, n) /\ Lists(g, n + 1)
    BY <2>2, <2>3 DEF Reported, Lists
  <2>5. g[n + 1] = r /\ (\A i \in 1..n : g[i] = f[i]) /\ n \in Nat
    BY <2>2, <2>3
  <2>6. g = Append(f, r)
    BY ONLY <2>4, <2>5, AppendIs
  <2>. QED
    BY <2>1, <2>3, <2>6
<1>9. Ending = "running" /\ Ending' = "running"
  BY DEF Adds, Ending
<1>10. ItsPlaces' = ItsPlaces /\ Owing' = Owing
  BY <1>1, GivenPlaces
<1>. QED
  BY <1>2, <1>4, <1>5, <1>6, <1>7, <1>8, <1>9, <1>10 DEF Contract!Report, ItsPlaces, Owing, Reported

\* The end of the tests is one that the contract allows.
LEMMA EndSettled ==
  ASSUME IInv, Numbered, Answered, [Next]_vars, EndOfTests
  PROVE  Contract!Succeed \/ Contract!Fail
<1>1. Types /\ given' = given /\ num > Len(given.tests) /\ pc = "tests" /\ pc' = "end" /\ results' = results
  BY GivenStays DEF IInv, EndOfTests, testVars
<1>2. \A u \in Owing : Contract!Settled(u)
  <2>1. \A k \in DOMAIN given.tests : k < num
    BY <1>1, TheScenario DEF Types
  <2>. QED
    BY <1>1, <2>1, BegunIsSettled DEF Owing
<1>3. ItsPlaces' = ItsPlaces /\ Owing' = Owing /\ Reported' = Reported
  BY <1>1, GivenPlaces DEF Reported
<1>4. Ending = "running"
  BY <1>1 DEF Ending
<1>5. \/ Ending' = "failed"
      \/ Ending' = "ok" /\ results # << >> /\ \A i \in DOMAIN results : results[i].pass
  BY <1>1 DEF Ending
<1>6. (results # << >> => Reported # << >>) /\ \A i \in DOMAIN Reported : Reported[i].pass = results[i].pass
  <2>1. DOMAIN Reported = DOMAIN results /\ \A i \in DOMAIN Reported : Reported[i].pass = results[i].pass
    BY DEF Reported
  <2>2. results \in Seq(Verdict) /\ DOMAIN results = 1..Len(results)
    BY <1>1, LenProperties DEF Types
  <2>3. results # << >> => 1 \in DOMAIN results
    BY <2>2, EmptySeq, LenProperties
  <2>4. DOMAIN << >> = {}
    OBVIOUS
  <2>. QED
    BY <2>1, <2>3, <2>4
<1>7. DOMAIN Reported = DOMAIN results
  BY DEF Reported
<1>. QED
  BY <1>2, <1>3, <1>4, <1>5, <1>6, <1>7 DEF Contract!Succeed, Contract!Fail, ItsPlaces, Owing, Reported

\* A command keeps the contract of a run, whatever its drivers do: no test that
\* is owed a result is passed over, none has two, and they are in order.
THEOREM CommandKeepsContract == Spec => CommandContract
<1>1. Init => Contract!Init /\ Numbered /\ Answered
  <2>1. SUFFICES ASSUME Init PROVE Contract!Init /\ Numbered /\ Answered
    OBVIOUS
  <2>2. results = << >> /\ num = 1 /\ pc = "args" /\ Types
    BY <2>1, InitIInv DEF Init, StartupInit, IInv
  <2>3. DOMAIN results = {} /\ Reported = << >>
    BY <2>2 DEF Reported
  <2>4. \A k \in DOMAIN given.tests : ~(k < 1)
    BY <2>2, TheScenario
  <2>5. Numbered /\ Answered
    BY <2>2, <2>3, <2>4 DEF Numbered, Answered
  <2>6. Owing \subseteq ItsPlaces /\ Ending = "running"
    BY <2>2 DEF Owing, ItsPlaces, Ending
  <2>. QED
    BY <2>3, <2>5, <2>6 DEF Contract!Init, Owing, ItsPlaces, Reported
<1>2. IInv /\ Numbered /\ Answered /\ [Next]_vars => Numbered' /\ Answered'
  BY NextNumbered
<1>3. IInv /\ Numbered /\ Answered /\ [Next]_vars => [Contract!Next]_(Contract!vars)
  <2>1. SUFFICES ASSUME IInv, Numbered, Answered, [Next]_vars PROVE [Contract!Next]_(Contract!vars)
    OBVIOUS
  <2>2. ItsPlaces' = ItsPlaces /\ Owing' = Owing /\ (results' = results => Reported' = Reported)
    BY <2>1, GivenStays, GivenPlaces DEF Reported
  <2>3. CASE Adds
    BY <2>1, <2>3, AddingReports DEF Contract!Next
  <2>4. CASE EndOfTests
    BY <2>1, <2>4, EndSettled DEF Contract!Next
  <2>5. CASE Quits
    BY <2>2, <2>5 DEF Quits, Contract!Next, Contract!Abort, ItsPlaces, Owing, Reported
  <2>6. CASE Skips \/ Rests
    BY <2>2, <2>6 DEF Skips, Rests, Contract!vars, ItsPlaces, Owing, Reported
  <2>. QED
    BY <2>1, <2>3, <2>4, <2>5, <2>6, TheResults
<1>. QED
  BY <1>1, <1>2, <1>3, Inductive, PTL DEF Spec, CommandContract, Contract!Spec

-----------------------------------------------------------------------------
(* The verdicts.                                                           *)

\* The variables of an image with the global ones, and what the check of a test
\* says of it, as its driver shows it.
FullEnv(id) == WithVars(EnvOf(id), {})

CheckOf(t, id) ==
  IF t.kind = "metadata" THEN MetadataPasses(t, [Images[id].config EXCEPT !.env = EnvOf(id)])
  ELSE Passes(t, FullEnv(id), View(kind, TreeOf(id)))

HasMetadata == kind = "host" => world.metadata = "readable"

\* A verdict on an image, without a failed call, is that of the check.
Judged(r) ==
  HasMetadata /\ r.image # NoImage /\ NoFault(r.num) /\ given.tests[r.num].kind # "command" =>
    r.pass = CheckOf(given.tests[r.num], r.image)

\* What the driver of a test knows when the test is run.
Equipped ==
  /\ pc = "env" => driver.env = EnvOf(driver.image) /\ test.kind \notin {"license", "metadata"}
  /\ pc = "run" /\ test.kind # "command" /\ NoFault(num) =>
       \/ driver.env = EnvOf(driver.image) /\ (test.kind = "existence" => given.schema = "v1")
       \/ driver.env = FullEnv(driver.image) /\ test.kind # "metadata"

VInv == Equipped /\ \A i \in DOMAIN results : Judged(results[i])

\* What the variables are depends on the scenario and on nothing that changes:
\* WithVars, when no inspection fails, written out with the scenario s.
VarsIn(s, env) ==
  LET value(i) == IF s.args.driver = "tar" THEN s.vars[i].value
                  ELSE Expand(s.vars[i].value, IF i \in {} THEN << >> ELSE env)
  IN IF s.args.driver = "host" THEN env
     ELSE Iterate(LAMBDA map, i : Put(map, s.vars[i].key, value(i)), env, Len(s.vars))

VarsAre == \A id : FullEnv(id) = VarsIn(given, EnvOf(id))

LEMMA FullEnvIs == VarsAre
BY Zenon DEF FullEnv, WithVars, VarsIn, kind, args, VarsAre

LEMMA FullEnvIsNext == VarsAre'
BY FullEnvIs, PTL

LEMMA PassesIs == \A t, env, view : Passes(t, env, view) = FileTestPasses(t, PathOf(t, env), view)
BY DEF Passes, With

\* Nothing that a check depends on changes.
LEMMA ChecksStay ==
  ASSUME given' = given
  PROVE  /\ \A id : FullEnv(id)' = FullEnv(id) /\ EnvOf(id)' = EnvOf(id) /\ TreeOf(id)' = TreeOf(id)
         /\ \A t, id : CheckOf(t, id)' = CheckOf(t, id)
         /\ HasMetadata' = HasMetadata
<1>1. kind' = kind /\ HasMetadata' = HasMetadata
  BY DEF kind, args, HasMetadata, world
<1>2. ASSUME NEW id
      PROVE  FullEnv(id)' = FullEnv(id) /\ EnvOf(id)' = EnvOf(id) /\ TreeOf(id)' = TreeOf(id)
  <2>1. EnvOf(id)' = EnvOf(id) /\ TreeOf(id)' = TreeOf(id)
    BY <1>1 DEF EnvOf, TreeOf
  <2>2. FullEnv(id) = VarsIn(given, EnvOf(id))
    BY FullEnvIs DEF VarsAre
  <2>3. FullEnv(id)' = VarsIn(given', EnvOf(id)')
    BY FullEnvIsNext DEF VarsAre
  <2>. QED
    BY <2>1, <2>2, <2>3
<1>3. ASSUME NEW t, NEW env
      PROVE  PathOf(t, env)' = PathOf(t, env)
  BY DEF PathOf
<1>4. ASSUME NEW t, NEW env, NEW view
      PROVE  Passes(t, env, view)' = Passes(t, env, view)
  <2>1. Passes(t, env, view)' = FileTestPasses(t, PathOf(t, env)', view)
    BY DEF Passes, With
  <2>. QED
    BY <1>3, <2>1, PassesIs
<1>5. ASSUME NEW t, NEW id
      PROVE  CheckOf(t, id)' = CheckOf(t, id)
  BY <1>1, <1>2, <1>4 DEF CheckOf
<1>. QED
  BY <1>1, <1>2, <1>5

\* A step adds no result, or one that is that of the check where no call of the
\* test failed.
Unfailed == \A f \in faults' : f.num # num

Right(pass) ==
  HasMetadata /\ driver.image # NoImage /\ Unfailed /\ test.kind # "command" => pass = CheckOf(test, driver.image)

Gives == results' = results \/ \E pass \in BOOLEAN : results' = Append(results, Result(pass)) /\ Right(pass)

LEMMA Concludes ==
  ASSUME NEW pass \in BOOLEAN, NEW left, Conclude(pass, left), Right(pass)
  PROVE  Gives
BY DEF Conclude, Gives

LEMMA FailsRightly ==
  ASSUME NEW left, Fail(left) \/ Conclude(FALSE, left) \/ NoDriverMade(left),
         driver.image = NoImage \/ test.kind = "command" \/ ~Unfailed
  PROVE  Gives
<1>1. Right(FALSE)
  BY DEF Right
<1>2. results' = results \/ Conclude(FALSE, left)
  BY DEF Fail, NoDriverMade
<1>. QED
  BY <1>1, <1>2, Concludes DEF Gives

LEMMA FaultIsSeen ==
  ASSUME NEW what, Fault(num, what)
  PROVE  ~Unfailed
<1>1. PICK f : f = [num |-> num, what |-> what]
  OBVIOUS
<1>2. f \in faults' /\ f.num = num
  BY <1>1 DEF Fault
<1>. QED
  BY <1>2 DEF Unfailed

LEMMA FileTestGives ==
  ASSUME Types, Equipped, RunFileTest
  PROVE  Gives
<1>1. /\ pc = "run" /\ test.kind \in {"content", "existence", "license"} /\ UNCHANGED faults
      /\ Conclude(Passes(test, EnvOrNone, Eyes), AfterDestroy)
  BY DEF RunFileTest, IsFileTest
<1>2. Passes(test, EnvOrNone, Eyes) \in BOOLEAN
  BY <1>1, SoundFileTest
<1>3. ASSUME HasMetadata, driver.image # NoImage, Unfailed
      PROVE  Passes(test, EnvOrNone, Eyes) = CheckOf(test, driver.image)
  <2>1. EnvOrNone = driver.env
    <3>1. driver.image \in DOMAIN Images
      BY <1>3, LayoutKnown DEF Types, Known
    <3>2. HasConfig /\ ~BrokenConfig
      BY <1>3 DEF HasMetadata, HasConfig, BrokenConfig
    <3>3. GetConfig.env = driver.env
      BY <3>1, <3>2, ImagesAssumption DEF GetConfig
    <3>. QED
      BY <3>2, <3>3 DEF EnvOrNone
  <2>2. PathOf(test, driver.env) = PathOf(test, FullEnv(driver.image))
    <3>1. NoFault(num)
      BY <1>1, <1>3 DEF Unfailed, NoFault
    <3>2. CASE driver.env = FullEnv(driver.image)
      BY <3>2
    <3>3. CASE test.kind = "existence" => given.schema = "v1"
      BY <3>3 DEF PathOf
    <3>. QED
      BY <1>1, <3>1, <3>2, <3>3 DEF Equipped
  <2>3. CheckOf(test, driver.image) = Passes(test, FullEnv(driver.image), Eyes)
    BY <1>1 DEF CheckOf, Eyes, Tree
  <2>. QED
    BY <2>1, <2>2, <2>3, PassesIs
<1>. QED
  BY <1>1, <1>2, <1>3, Concludes DEF Right

LEMMA MetadataTestGives ==
  ASSUME Types, Equipped, RunMetadataTest
  PROVE  Gives
<1>1. pc = "run" /\ test.kind = "metadata"
  BY DEF RunMetadataTest
<1>2. CASE HasConfig /\ Fault(num, "config") /\ Conclude(FALSE, AfterDestroy)
  BY <1>2, FaultIsSeen, FailsRightly
<1>3. CASE UNCHANGED faults /\ Conclude(IF HasConfig THEN MetadataPasses(test, GetConfig) ELSE FALSE, AfterDestroy)
  <2>. DEFINE pass == IF HasConfig THEN MetadataPasses(test, GetConfig) ELSE FALSE
  <2>1. pass \in BOOLEAN
    BY DEF MetadataPasses
  <2>2. ASSUME HasMetadata, driver.image # NoImage, Unfailed
        PROVE  pass = CheckOf(test, driver.image)
    <3>1. HasConfig /\ ~BrokenConfig
      BY <2>2 DEF HasMetadata, HasConfig, BrokenConfig
    <3>2. driver.env = EnvOf(driver.image)
      BY <1>1, <1>3, <2>2 DEF Equipped, NoFault, Unfailed
    <3>3. GetConfig = [Images[driver.image].config EXCEPT !.env = EnvOf(driver.image)]
      BY <3>1, <3>2 DEF GetConfig
    <3>. QED
      BY <1>1, <3>1, <3>3 DEF CheckOf
  <2>. HIDE DEF pass
  <2>3. Right(pass)
    BY <2>2 DEF Right
  <2>4. Conclude(pass, AfterDestroy)
    BY <1>3 DEF pass
  <2>. QED
    BY <2>1, <2>3, <2>4, Concludes
<1>. QED
  BY <1>2, <1>3 DEF RunMetadataTest

LEMMA EveryStepGives ==
  ASSUME IInv, Equipped, [Next]_vars
  PROVE  Gives
<1>1. Types /\ Flow /\ Kept
  BY DEF IInv
<1>2. NextTest \/ pc = "new" => driver.image = NoImage
  BY <1>1, BeforeDriver DEF NoDriver, Driver
<1>3. CASE InvalidTest \/ NewDriverError
  <2>1. NextTest /\ \E left : Fail(left) \/ NoDriverMade(left)
    BY <1>3 DEF InvalidTest, NewDriverError
  <2>. QED
    BY <1>2, <2>1, FailsRightly
<1>4. CASE NotRetrieved \/ NotExtracted
  <2>1. pc = "new" /\ \E left : AfterSourceError(left)
    BY <1>4 DEF NotRetrieved, NotExtracted
  <2>2. PICK left : results' = results \/ NoDriverMade(left)
    BY <2>1 DEF AfterSourceError
  <2>. QED
    BY <1>2, <2>1, <2>2, FailsRightly DEF Gives
<1>5. CASE SetEnvError
  BY <1>5, FaultIsSeen, FailsRightly DEF SetEnvError
<1>6. CASE SetupError
  <2>1. test.kind = "command" /\ \E left : Fail(left)
    BY <1>1, <1>6 DEF SetupError, Flow
  <2>. QED
    BY <2>1, FailsRightly
<1>7. CASE RunCommand
  <2>1. test.kind = "command" /\ \A pass : Right(pass)
    BY <1>7 DEF RunCommand, Right
  <2>2. \A out : CheckOutput(test, out) \in BOOLEAN
    BY DEF CheckOutput
  <2>3. \E pass \in BOOLEAN : Conclude(pass, dirs)
    BY <1>7, <2>2 DEF RunCommand
  <2>. QED
    BY <2>1, <2>3, Concludes
<1>8. CASE RunFileTest
  BY <1>1, <1>8, FileTestGives
<1>9. CASE RunFileTestError
  <2>1. test.kind \in {"content", "existence", "license"}
    BY <1>9 DEF RunFileTestError, IsFileTest
  <2>2. ~Unfailed
    BY <1>9, FaultIsSeen DEF RunFileTestError
  <2>3. PICK env, view : Conclude(Passes(test, env, view), AfterDestroy)
    BY <1>9 DEF RunFileTestError
  <2>4. PICK pass \in BOOLEAN : Conclude(pass, AfterDestroy)
    BY <2>1, <2>3, SoundFileTest
  <2>5. Right(pass)
    BY <2>2 DEF Right
  <2>. QED
    BY <2>4, <2>5, Concludes
<1>10. CASE RunMetadataTest
  BY <1>1, <1>10, MetadataTestGives
<1>11. CASE NewDriver \/ NewTarDriver \/ Extract \/ SetEnv \/ Setup \/ ArchiveTorn \/ Hang \/ CannotStart \/ Circling \/ UNCHANGED vars
  BY <1>11 DEF NewDriver, NewTarDriver, Extract, MakeDriver, SetEnv, Setup, ArchiveTorn, Hang, CannotStart, Circling, testVars, vars, Gives
<1>12. CASE (StartupNext /\ UNCHANGED testVars) \/ EmptyTest \/ EndOfCommands \/ EndOfTests
  BY <1>12 DEF testVars, EmptyTest, EndOfCommands, EndOfTests, Gives
<1>. QED
  BY <1>3, <1>4, <1>5, <1>6, <1>7, <1>8, <1>9, <1>10, <1>11, <1>12 DEF Next, Terminated

LEMMA NextEquipped ==
  ASSUME IInv, Equipped, [Next]_vars
  PROVE  Equipped'
<1>1. Types /\ Flow /\ Kept /\ Chosen
  BY DEF IInv
<1>2. given' = given
  BY GivenStays
<1>3. \A id : FullEnv(id)' = FullEnv(id) /\ EnvOf(id)' = EnvOf(id)
  BY <1>2, ChecksStay
<1>4. ASSUME pc' \notin {"env", "run"} PROVE Equipped'
  BY <1>4 DEF Equipped
<1>5. CASE UNCHANGED vars
  <2>1. test' = test
    BY <1>2, <1>5 DEF vars, testVars, test
  <2>2. NoFault(num)' = NoFault(num)
    BY <1>5 DEF vars, testVars, preparation, NoFault
  <2>. QED
    BY <1>2, <1>3, <1>5, <2>1, <2>2 DEF vars, testVars, Equipped
<1>6. CASE StartupNext /\ UNCHANGED testVars
  BY <1>1, <1>4, <1>6, Preparing
<1>7. ASSUME NEW id, NEW dir, MakeDriver(id, dir)
      PROVE  Equipped'
  <2>1. driver'.image = id /\ driver'.env = EnvOf(id) /\ pc' = AfterNewDriver /\ test' = test
    BY <1>2, <1>7 DEF MakeDriver, Driver, test
  <2>2. driver'.env = EnvOf(driver.image)'
    BY <1>3, <2>1
  <2>3. pc' = "env" => test.kind \notin {"license", "metadata"}
    BY <2>1 DEF AfterNewDriver
  <2>4. pc' = "run" /\ test.kind = "existence" => given.schema = "v1"
    BY <2>1 DEF AfterNewDriver
  <2>. QED
    BY <1>2, <2>1, <2>2, <2>3, <2>4 DEF Equipped
<1>8. CASE SetEnv
  <2>1. PICK blind \in Inspections :
          /\ driver' = [driver EXCEPT !.env = WithVars(@, blind)]
          /\ IF blind = {} THEN UNCHANGED faults ELSE Fault(num, "inspect")
    BY <1>8 DEF SetEnv
  <2>2. pc = "env" /\ pc' # "env" /\ num' = num /\ test' = test
    BY <1>2, <1>8 DEF SetEnv, test
  <2>3. driver.env = EnvOf(driver.image) /\ test.kind # "metadata"
    BY <2>2 DEF Equipped
  <2>4. CASE blind # {}
    <3>1. ~Unfailed
      BY <2>1, <2>4, FaultIsSeen
    <3>2. ~NoFault(num)'
      BY <2>2, <3>1 DEF Unfailed, NoFault
    <3>. QED
      BY <2>2, <3>2 DEF Equipped
  <2>5. CASE blind = {}
    <3>1. PICK id, dir, env : driver = Driver(id, dir, env)
      BY <1>1 DEF Types
    <3>2. driver'.image = driver.image /\ driver'.env = WithVars(driver.env, {})
      BY <2>1, <2>5, <3>1 DEF Driver
    <3>3. driver'.env = FullEnv(driver.image)'
      BY <1>3, <2>3, <3>2 DEF FullEnv
    <3>. QED
      BY <2>2, <2>3, <3>3 DEF Equipped
  <2>. QED
    BY <2>4, <2>5
<1>9. CASE Setup
  <2>1. test' = test /\ test.kind = "command" /\ pc' = "run"
    BY <1>1, <1>2, <1>9 DEF Setup, Flow, testVars, test
  <2>. QED
    BY <2>1 DEF Equipped
<1>10. CASE NewDriver \/ Extract
  BY <1>7, <1>10 DEF NewDriver, Extract
<1>11. CASE InvalidTest \/ EmptyTest \/ EndOfCommands \/ EndOfTests \/ NewDriverError \/ NewTarDriver
  BY <1>4, <1>11 DEF InvalidTest, EmptyTest, EndOfCommands, EndOfTests, NewDriverError, NewTarDriver, NextTest, Fail,
     NoDriverMade, Conclude, Leave
<1>12. CASE NotRetrieved \/ NotExtracted
  BY <1>4, <1>12 DEF NotRetrieved, NotExtracted, AfterSourceError, NoDriverMade, Conclude, Leave
<1>13. CASE SetEnvError \/ SetupError \/ RunCommand \/ RunFileTest \/ RunFileTestError \/ ArchiveTorn \/ Hang \/ CannotStart \/ RunMetadataTest
  BY <1>4, <1>13 DEF SetEnvError, SetupError, RunCommand, RunFileTest, RunFileTestError, ArchiveTorn, Hang, CannotStart, RunMetadataTest,
     Fail, Conclude, Leave
<1>. QED
  BY <1>5, <1>6, <1>8, <1>9, <1>10, <1>11, <1>12, <1>13 DEF Next, Circling, Terminated

LEMMA NextJudged ==
  ASSUME IInv, Equipped, \A i \in DOMAIN results : Judged(results[i]), [Next]_vars
  PROVE  (\A i \in DOMAIN results : Judged(results[i]))'
<1>1. Types
  BY DEF IInv
<1>2. /\ given' = given /\ HasMetadata' = HasMetadata
      /\ \A t, id : CheckOf(t, id)' = CheckOf(t, id)
  BY GivenStays, ChecksStay
<1>3. faults \subseteq faults'
  BY <1>1, FaultsStay
<1>4. ASSUME NEW r, Judged(r)
      PROVE  Judged(r)'
  <2>1. NoFault(r.num)' => NoFault(r.num)
    BY <1>3 DEF NoFault
  <2>. QED
    BY <1>2, <1>4, <2>1 DEF Judged
<1>5. CASE results' = results
  BY <1>4, <1>5
<1>6. ASSUME NEW pass \in BOOLEAN, results' = Append(results, Result(pass)), Right(pass)
      PROVE  (\A i \in DOMAIN results : Judged(results[i]))'
  <2>1. PICK v : v = Result(pass)
    OBVIOUS
  <2>2. v.pass = pass /\ v.num = num /\ v.image = driver.image
    BY <2>1 DEF Result
  <2>3. \A i \in DOMAIN results' : results'[i] = v \/ (i \in DOMAIN results /\ results'[i] = results[i])
    BY <1>1, <1>6, <2>1 DEF Types
  <2>4. Judged(v)'
    BY <1>2, <1>6, <2>2 DEF Judged, Right, Unfailed, NoFault, test
  <2>. QED
    BY <1>4, <2>3, <2>4
<1>. QED
  BY <1>5, <1>6, EveryStepGives DEF Gives

LEMMA InitVInv == Init => VInv
<1>1. SUFFICES ASSUME Init PROVE VInv
  OBVIOUS
<1>2. pc = "args" /\ results = << >>
  BY <1>1 DEF Init, StartupInit
<1>. QED
  BY <1>2 DEF VInv, Equipped

\* Every verdict of a test during which no call failed is that of its check, on
\* what the driver shows and with the variables of the image, as it was built or
\* with the global ones.
THEOREM VerdictsAreChecked == Spec => []VInv
<1>1. IInv /\ VInv /\ [Next]_vars => VInv'
  BY NextEquipped, NextJudged DEF VInv
<1>. QED
  BY <1>1, InitVInv, Inductive, PTL DEF Spec

\* What the driver shows of the last image is as good for the check of the last
\* test as what a process in a container is told.
ReadsAlike ==
  LastTest.kind \in {"content", "existence", "license"} =>
    Passes(LastTest, FullEnv(Last(results).image), View(kind, LastTree))
      = Passes(LastTest, FullEnv(Last(results).image), InContainer)

LEMMA LastIsJudged ==
  ASSUME Types, VInv, HasVerdict, NoFault(Last(results).num), SeesAlike, LastTest.kind # "command"
  PROVE  Last(results).pass = CheckOf(LastTest, Last(results).image)
<1>1. Len(results) \in DOMAIN results /\ Last(results) = results[Len(results)]
  BY DEF Types, HasVerdict, Last
<1>2. Judged(Last(results))
  BY <1>1 DEF VInv
<1>3. HasMetadata
  BY DEF SeesAlike, HasMetadata
<1>. QED
  BY <1>2, <1>3 DEF Judged, HasVerdict, LastTest

LEMMA LastIsKnown ==
  ASSUME Types, HasVerdict
  PROVE  Last(results).image \in DOMAIN Images
<1>1. Len(results) \in 1..Len(results) /\ Last(results) = results[Len(results)] /\ results \in Seq(Verdict)
  BY DEF Types, HasVerdict, Last
<1>2. Last(results) \in Verdict
  BY <1>1, ElementOfSeq
<1>3. Last(results).image \in Known /\ Last(results).image # NoImage
  BY <1>2 DEF Verdict, HasVerdict
<1>. QED
  BY <1>3, LayoutKnown DEF Known

LEMMA JudgedAlike ==
  ASSUME Types, VInv, HasVerdict /\ SeesAlike => ReadsAlike
  PROVE  VerdictAsInContainer
<1>1. SUFFICES ASSUME HasVerdict, NoFault(Last(results).num), SeesAlike PROVE VerdictAsInContainer
  BY DEF VerdictAsInContainer
<1>2. EnvOf(Last(results).image) = ConvertSliceToMap(LastImage.config.env)
  BY <1>1 DEF HasVerdict, EnvOf, LastImage
<1>3. CASE LastTest.kind = "metadata"
  <2>1. Last(results).pass = CheckOf(LastTest, Last(results).image)
    BY <1>1, <1>3, LastIsJudged
  <2>2. Last(results).pass = MetadataPasses(LastTest, [LastImage.config EXCEPT !.env = EnvOf(Last(results).image)])
    BY <1>3, <2>1 DEF CheckOf, LastImage
  <2>. QED
    BY <1>2, <1>3, <2>2 DEF VerdictAsInContainer
<1>4. CASE LastTest.kind \in {"content", "existence", "license"}
  <2>1. Last(results).pass = CheckOf(LastTest, Last(results).image)
    BY <1>1, <1>4, LastIsJudged
  <2>2. Last(results).pass = Passes(LastTest, FullEnv(Last(results).image), View(kind, LastTree))
    BY <1>4, <2>1 DEF CheckOf, LastTree
  <2>3. Last(results).pass = Passes(LastTest, FullEnv(Last(results).image), InContainer)
    BY <1>1, <1>4, <2>2 DEF ReadsAlike
  <2>. QED
    BY <1>2, <1>4, <2>3 DEF FullEnv, VerdictAsInContainer
<1>. QED
  BY <1>3, <1>4 DEF VerdictAsInContainer

\* A verdict rests on what the driver reads and on nothing else: with any driver,
\* over any course of calls that fail or not, a test passes if and only if its
\* check passes in a container, wherever the driver's reads are as good as those
\* of a process there.
THEOREM VerdictsRestOnReads == Spec => []((HasVerdict /\ SeesAlike => ReadsAlike) => VerdictAsInContainer)
<1>1. IInv /\ VInv => ((HasVerdict /\ SeesAlike => ReadsAlike) => VerdictAsInContainer)
  BY JudgedAlike DEF IInv
<1>. QED
  BY <1>1, Inductive, VerdictsAreChecked, PTL

\* What two views say of a place is the same but for the header.
SameStat(a, b) ==
  \/ a = NoAnswer /\ b = NoAnswer
  \/ \E node, x, y : a = Answer(Info(node, x)) /\ b = Answer(Info(node, y))

SameReads(a, b, path) ==
  ReadFile(a, path) = ReadFile(b, path) /\ SameStat(StatFile(a, path), StatFile(b, path))

\* Two lists of the same packages, whatever else is in them.
SamePackages(p, q) == IsOk(p) = IsOk(q) /\ (IsOk(p) => PackageFiles(p.value) = PackageFiles(q.value))

Root == Written(TRUE, DebianRoot)

\* The paths that the check of a test asks for.
PathsAsked(t, path, view) ==
  FilesRead(t, view)
    \union (IF t.kind # "license" THEN {path} ELSE IF t.debian THEN {Root} ELSE {})

\* Two views that tell the same are as good for a check, but for the owner.
LEMMA ChecksAlike ==
  ASSUME NEW t, NEW path, NEW a, NEW b, t.kind \in {"content", "existence", "license"},
         t.kind = "existence" => (t.uid = -1 /\ t.gid = -1) \/ StatFile(a, path) = StatFile(b, path),
         \A p \in PathsAsked(t, path, b) : SameReads(a, b, p),
         t.kind = "license" /\ t.debian => SamePackages(ReadDir(a, Root), ReadDir(b, Root))
  PROVE  FileTestPasses(t, path, a) = FileTestPasses(t, path, b)
<1>1. CASE t.kind = "content"
  <2>1. SameReads(a, b, path)
    BY <1>1 DEF PathsAsked
  <2>. QED
    BY <1>1, <2>1 DEF FileTestPasses, SameReads
<1>2. CASE t.kind = "existence"
  <2>1. ASSUME t.uid = -1, t.gid = -1, NEW node, NEW x, NEW y
        PROVE  ExistencePasses(t, Answer(Info(node, x))) = ExistencePasses(t, Answer(Info(node, y)))
    <3>1. \A info : OwnerPasses(t, info)
      BY <2>1 DEF OwnerPasses
    <3>2. PICK c, d : c = Info(node, x) /\ d = Info(node, y)
      OBVIOUS
    <3>3. c.type = d.type /\ c.exec = d.exec
      BY <3>2 DEF Info
    <3>4. \A who : ExecutableBy(who, c) = ExecutableBy(who, d)
      BY <3>3 DEF ExecutableBy
    <3>5. Mode(c) = Mode(d)
      BY <3>3 DEF Mode
    <3>6. Answer(c).value = c /\ Answer(d).value = d /\ IsOk(Answer(c)) /\ IsOk(Answer(d))
      BY DEF Answer, IsOk
    <3>7. ExistencePasses(t, Answer(c)) = ExistencePasses(t, Answer(d))
      BY <3>1, <3>4, <3>5, <3>6 DEF ExistencePasses
    <3>. QED
      BY <3>2, <3>7
  <2>2. SameStat(StatFile(a, path), StatFile(b, path))
    BY <1>2 DEF PathsAsked, SameReads
  <2>3. ExistencePasses(t, StatFile(a, path)) = ExistencePasses(t, StatFile(b, path))
    BY <1>2, <2>1, <2>2 DEF SameStat
  <2>. QED
    BY <1>2, <2>3 DEF FileTestPasses
<1>3. CASE t.kind = "license"
  <2>1. PICK p, q : p = Packages(t, a) /\ q = Packages(t, b)
    OBVIOUS
  <2>2. SamePackages(p, q)
    <3>1. CASE t.debian
      BY <1>3, <2>1, <3>1 DEF Packages, Root
    <3>2. CASE ~t.debian
      BY <2>1, <3>2 DEF Packages, SamePackages
    <3>. QED
      BY <3>1, <3>2
  <2>3. \A view : LicenseTestPasses(t, view) =
          /\ IsOk(Packages(t, view))
          /\ \A file \in PackageFiles(Packages(t, view).value) : IsOk(StatFile(view, file))
          /\ \A file \in LicenseFiles(t, Packages(t, view)) : LicensePasses(ReadFile(view, file))
    BY DEF LicenseTestPasses, With
  <2>4. \A info : IsOk(Answer(info)) = TRUE
    BY DEF IsOk, Answer
  <2>5. ASSUME IsOk(q), NEW file \in LicenseFiles(t, q)
        PROVE  /\ LicensePasses(ReadFile(a, file)) = LicensePasses(ReadFile(b, file))
               /\ IsOk(StatFile(a, file)) = IsOk(StatFile(b, file))
    <3>1. FilesRead(t, b) = LicenseFiles(t, q)
      BY <1>3, <2>1 DEF FilesRead, With
    <3>2. SameReads(a, b, file)
      BY <2>5, <3>1 DEF PathsAsked
    <3>. QED
      BY <2>4, <3>2 DEF SameReads, SameStat
  <2>6. CASE IsOk(q)
    <3>1. /\ IsOk(p) /\ PackageFiles(p.value) = PackageFiles(q.value)
          /\ LicenseFiles(t, p) = LicenseFiles(t, q) /\ PackageFiles(q.value) \subseteq LicenseFiles(t, q)
      BY <2>2, <2>6 DEF SamePackages, LicenseFiles
    <3>2. LicenseTestPasses(t, a) = LicenseTestPasses(t, b)
      BY <2>1, <2>3, <2>5, <2>6, <3>1
    <3>. QED
      BY <1>3, <3>2 DEF FileTestPasses
  <2>7. CASE ~IsOk(q)
    <3>1. ~IsOk(p)
      BY <2>2, <2>7 DEF SamePackages
    <3>2. LicenseTestPasses(t, a) = LicenseTestPasses(t, b)
      BY <2>1, <2>3, <2>7, <3>1
    <3>. QED
      BY <1>3, <3>2 DEF FileTestPasses
  <2>. QED
    BY <2>6, <2>7
<1>. QED
  BY <1>1, <1>2, <1>3

\* What is asked of a place depends on nothing but the place.
LEMMA StatsAt ==
  ASSUME NEW tree, NEW end, NEW x, NEW y
  PROVE  SameStat(StatAt(tree, end, x), StatAt(tree, end, y))
<1>1. \A hasHeader : StatAt(tree, end, hasHeader)
        = IF end.ok /\ end.place \in DOMAIN tree THEN Answer(Info(tree[end.place], hasHeader)) ELSE NoAnswer
  BY DEF StatAt, With
<1>2. CASE end.ok /\ end.place \in DOMAIN tree
  BY <1>1, <1>2 DEF SameStat
<1>3. CASE ~(end.ok /\ end.place \in DOMAIN tree)
  BY <1>1, <1>3 DEF SameStat
<1>. QED
  BY <1>2, <1>3

\* The places where two look-ups end, if they end in the tree.
Ended(tree, end) == IF end.ok /\ end.place \in DOMAIN tree THEN {end.place} ELSE {}

LEMMA EndsAlike ==
  ASSUME NEW tree, NEW r, NEW w, Ended(tree, r) = Ended(tree, w), NEW x, NEW y
  PROVE  /\ ReadAt(tree, r) = ReadAt(tree, w) /\ ListAt(tree, r) = ListAt(tree, w)
         /\ StatAt(tree, r, x) = StatAt(tree, w, x) /\ SameStat(StatAt(tree, r, x), StatAt(tree, w, y))
<1>1. \A end :
        /\ ReadAt(tree, end) = IF end.ok /\ IsA(tree, end.place, "reg") THEN Answer(tree[end.place].contents) ELSE NoAnswer
        /\ ListAt(tree, end) = IF end.ok /\ IsA(tree, end.place, "dir") THEN Answer(Entries(tree, end.place)) ELSE NoAnswer
  BY DEF ReadAt, ListAt, With
<1>2. \A end, hasHeader :
        StatAt(tree, end, hasHeader)
          = IF end.ok /\ end.place \in DOMAIN tree THEN Answer(Info(tree[end.place], hasHeader)) ELSE NoAnswer
  BY DEF StatAt, With
<1>3. CASE r.ok /\ r.place \in DOMAIN tree
  <2>1. w.ok /\ w.place \in DOMAIN tree /\ w.place = r.place
    BY <1>3 DEF Ended
  <2>. QED
    BY <1>1, <1>2, <1>3, <2>1 DEF SameStat
<1>4. CASE ~(r.ok /\ r.place \in DOMAIN tree)
  <2>1. ~(w.ok /\ w.place \in DOMAIN tree)
    BY <1>4 DEF Ended
  <2>. QED
    BY <1>1, <1>2, <1>4, <2>1 DEF SameStat, IsA
<1>. QED
  BY <1>3, <1>4

\* A path of names, within reach, that no more than MaxLinks links are on.
Direct(tree, path) ==
  /\ path \in Path /\ ~HasUp(path) /\ Len(path.parts) <= Reach
  /\ \A followFinal \in BOOLEAN : ~LinksLeft(tree, path, followFinal)

\* The links of a tree are within reach and stay inside it.
LinksInside(tree) ==
  \A q \in DOMAIN tree : tree[q].type = "sym" => StaysInside(tree, q) /\ Len(tree[q].link.parts) <= Reach

LEMMA DirectIsWalked ==
  ASSUME NEW tree, IsTree(tree), LinksInside(tree), NEW path, Direct(tree, path), NEW followFinal \in BOOLEAN
  PROVE  Ended(tree, ResolvePathInRoot(tree, path, followFinal)) = Ended(tree, Walked(tree, path, followFinal))
<1>1. PICK r, w : /\ r = ResolvePathInRoot(tree, path, followFinal)
                  /\ w = Walk(tree, path.parts, followFinal, TRUE, Fuel)
  OBVIOUS
<1>2. path \in Path /\ Plain(path) /\ Len(path.parts) <= Reach /\ path.parts \in Seq(Parts)
  BY CleanStraight DEF Direct, Plain, Path, Parts
<1>3. PlainLinks(tree, Reach)
  BY DEF LinksInside, StaysInside, PlainLinks
<1>4. EndTogether(tree, path, followFinal, r, w)
  BY <1>1, <1>2, <1>3, ReachIs, EndsTogether
<1>5. w.end = "at" => r = Found(w.at)
  BY <1>4 DEF EndTogether, Inside, Direct, LinksInside
<1>6. w.at \in DOMAIN tree
  BY <1>1, <1>2, WalkTyped
<1>7. Walked(tree, path, followFinal) = IF w.end = "at" THEN Found(w.at) ELSE Refused
  <2>1. PICK end : end = Walked(tree, path, followFinal)
    OBVIOUS
  <2>2. end \in {IF z.end = "at" THEN Found(z.at) ELSE Refused : z \in {w}}
    BY <1>1, <2>1, Zenon DEF Walked, With
  <2>. QED
    BY <2>1, <2>2
<1>8. CASE w.end = "at"
  BY <1>1, <1>5, <1>7, <1>8
<1>9. CASE w.end # "at"
  <2>1. ~(r.ok /\ r.place \in DOMAIN tree)
    BY <1>4, <1>9 DEF EndTogether
  <2>. QED
    BY <1>1, <1>7, <1>9, <2>1 DEF Ended, Refused
<1>. QED
  BY <1>8, <1>9

\* So are the reads of the tar driver, in a tree whose links stay inside it.
LEMMA TarReads ==
  ASSUME NEW tree, IsTree(tree), LinksInside(tree), NEW path, Direct(tree, path)
  PROVE  /\ SameReads(View("tar", tree), View("container", tree), path)
         /\ SamePackages(ReadDir(View("tar", tree), path), ReadDir(View("container", tree), path))
<1>1. PICK tar, inside : tar = View("tar", tree) /\ inside = View("container", tree)
  OBVIOUS
<1>2. tar.by = "tar" /\ inside.by = "container" /\ tar.tree = tree /\ inside.tree = tree
  BY <1>1 DEF View
<1>3. Ended(tree, ResolvePathInRoot(tree, path, TRUE)) = Ended(tree, Walked(tree, path, TRUE))
  BY DirectIsWalked
<1>4. Ended(tree, ResolvePathInRoot(tree, path, FALSE)) = Ended(tree, Walked(tree, path, FALSE))
  BY DirectIsWalked
<1>5. ReadFile(tar, path) = ReadFile(inside, path) /\ ReadDir(tar, path) = ReadDir(inside, path)
  BY <1>2, <1>3, EndsAlike DEF ReadFile, ReadDir, TarRead, TarList, HostRead, HostList
<1>6. SameStat(StatFile(tar, path), StatFile(inside, path))
  <2>1. PICK r, w : r = ResolvePathInRoot(tree, path, FALSE) /\ w = Walked(tree, path, FALSE)
    OBVIOUS
  <2>2. StatFile(tar, path) = StatAt(tree, r, FALSE) /\ StatFile(inside, path) = StatAt(tree, w, TRUE)
    BY <1>2, <2>1 DEF StatFile, TarStat
  <2>3. SameStat(StatAt(tree, r, FALSE), StatAt(tree, w, TRUE))
    BY <1>4, <2>1, EndsAlike
  <2>. QED
    BY <2>2, <2>3
<1>. QED
  BY <1>1, <1>5, <1>6 DEF SameReads, SamePackages

\* Unpacking an image changes no link and no place.
LEMMA ExtractedIsTree ==
  ASSUME NEW id \in DOMAIN Images, NEW tree, tree = Extracted(Images[id].tree)
  PROVE  /\ IsTree(tree)
         /\ (\A q \in LinksOf(tree) : StaysInside(tree, q)) => LinksInside(tree)
<1>1. PICK t : t = Images[id].tree
  OBVIOUS
<1>2. /\ IsTree(t)
      /\ \A q \in DOMAIN t : /\ {"type", "exec"} \subseteq DOMAIN t[q]
                             /\ t[q].type = "sym" => Len(t[q].link.parts) <= Reach
  BY <1>1, ImagesAssumption
<1>3. /\ DOMAIN tree = DOMAIN t
      /\ \A q \in DOMAIN t : /\ tree[q].type = t[q].type
                             /\ t[q].type = "sym" => tree[q] = t[q]
  BY <1>1, <1>2 DEF Extracted
<1>4. \A q, type : IsA(tree, q, type) <=> IsA(t, q, type)
  BY <1>3 DEF IsA
<1>5. IsTree(tree)
  BY <1>2, <1>3, <1>4 DEF IsTree
<1>6. (\A q \in LinksOf(tree) : StaysInside(tree, q)) => LinksInside(tree)
  BY <1>2, <1>3 DEF LinksOf, LinksInside
<1>. QED
  BY <1>5, <1>6

\* The paths that the last test asked for are direct.
AsksDirectly ==
  \A path \in PathsAsked(LastTest, PathOf(LastTest, FullEnv(Last(results).image)), InContainer) :
    Direct(LastTree, path)

\* With the tar driver each verdict is that of the check in a container, for every
\* tree whose links stay inside it and every test whose paths are names with no
\* more links on them than are followed, however many that is.
THEOREM TarVerdicts == Spec => [](kind = "tar" /\ (HasVerdict => AsksDirectly) => VerdictAsInContainer)
<1>1. ASSUME IInv, VInv, kind = "tar", HasVerdict => AsksDirectly
      PROVE  VerdictAsInContainer
  <2>1. SUFFICES ASSUME HasVerdict, SeesAlike, LastTest.kind \in {"content", "existence", "license"}
                 PROVE  Passes(LastTest, FullEnv(Last(results).image), View("tar", LastTree))
                          = Passes(LastTest, FullEnv(Last(results).image), InContainer)
    BY <1>1, JudgedAlike DEF IInv, ReadsAlike
  <2>2. /\ LastTest.kind = "existence" => LastTest.uid = -1 /\ LastTest.gid = -1
        /\ \A q \in LinksOf(LastTree) : StaysInside(LastTree, q)
    BY <1>1, <2>1 DEF SeesAlike
  <2>3. IsTree(LastTree) /\ LinksInside(LastTree)
    <3>1. PICK id \in DOMAIN Images : id = Last(results).image
      BY <1>1, <2>1, LastIsKnown DEF IInv
    <3>2. LastTree = Extracted(Images[id].tree)
      BY <1>1, <2>1, <3>1 DEF LastTree, TreeOf, Trees, HasVerdict
    <3>. QED
      BY <2>2, <3>2, ExtractedIsTree
  <2>4. PICK path : path = PathOf(LastTest, FullEnv(Last(results).image))
    OBVIOUS
  <2>5. \A p \in PathsAsked(LastTest, path, InContainer) : SameReads(View("tar", LastTree), InContainer, p)
    BY <1>1, <2>1, <2>3, <2>4, TarReads DEF AsksDirectly, InContainer
  <2>6. ASSUME LastTest.kind = "license", LastTest.debian
        PROVE  SamePackages(ReadDir(View("tar", LastTree), Root), ReadDir(InContainer, Root))
    <3>1. Root \in PathsAsked(LastTest, path, InContainer)
      BY <2>6 DEF PathsAsked
    <3>. QED
      BY <1>1, <2>1, <2>3, <2>4, <3>1, TarReads DEF AsksDirectly, InContainer
  <2>. QED
    BY <2>1, <2>2, <2>4, <2>5, <2>6, ChecksAlike, PassesIs
<1>2. IInv /\ VInv => (kind = "tar" /\ (HasVerdict => AsksDirectly) => VerdictAsInContainer)
  BY <1>1
<1>. QED
  BY <1>2, Inductive, VerdictsAreChecked, PTL

-----------------------------------------------------------------------------
(* The docker driver, which looks for the directory of a path and for what *)
(* is in it, and follows each link at the end of a path by itself.         *)

Straight == {path \in Path : ~HasUp(path)}

\* A walk that has an end, and where it is.
WalkEnd(w) == IF w.end = "at" THEN Found(w.at) ELSE Refused

LEMMA WalkedIs ==
  ASSUME NEW tree, NEW path, NEW followFinal
  PROVE  Walked(tree, path, followFinal) = WalkEnd(Walk(tree, path.parts, followFinal, TRUE, Fuel))
<1>1. PICK w, end : w = Walk(tree, path.parts, followFinal, TRUE, Fuel) /\ end = Walked(tree, path, followFinal)
  OBVIOUS
<1>2. end \in {IF z.end = "at" THEN Found(z.at) ELSE Refused : z \in {w}}
  BY <1>1, Zenon DEF Walked, With
<1>3. end = IF w.end = "at" THEN Found(w.at) ELSE Refused
  BY <1>2
<1>. QED
  BY <1>1, <1>3 DEF WalkEnd

LEMMA ArchivedIs ==
  ASSUME NEW tree, NEW path \in Straight
  PROVE  /\ path.parts \in AllPlaces
         /\ path.parts = << >> => Archived(tree, path) = Found(<< >>)
         /\ path.parts # << >> =>
              Archived(tree, path)
                = Child(tree, WalkEnd(Walk(tree, Front(path.parts), TRUE, TRUE, Fuel)), Last(path.parts))
<1>1. PICK parts : parts = path.parts
  OBVIOUS
<1>2. parts \in AllPlaces /\ Clean(Written(TRUE, parts)) = parts
  <2>1. parts \in AllPlaces
    BY <1>1, CleanStraight DEF Straight
  <2>2. Written(TRUE, parts) \in Path /\ ~HasUp(Written(TRUE, parts))
    BY <1>1, <2>1 DEF Straight, Path, HasUp, Written
  <2>3. Written(TRUE, parts).parts = parts
    BY DEF Written
  <2>. QED
    BY <2>1, <2>2, <2>3, CleanStraight
<1>3. \A x : Written(TRUE, x).parts = x
  BY DEF Written
<1>4. CASE parts = << >>
  BY <1>1, <1>2, <1>4 DEF Archived, With
<1>5. CASE parts # << >>
  <2>1. PICK dir : dir = Walked(tree, Written(TRUE, Front(parts)), TRUE)
    OBVIOUS
  <2>2. Archived(tree, path) = Child(tree, dir, Last(parts))
    BY <1>1, <1>2, <1>5, <2>1 DEF Archived, With
  <2>3. dir = WalkEnd(Walk(tree, Front(parts), TRUE, TRUE, Fuel))
    BY <1>3, <2>1, WalkedIs
  <2>. QED
    BY <1>1, <1>2, <1>5, <2>2, <2>3
<1>. QED
  BY <1>1, <1>2, <1>4, <1>5

\* What the archive of a path begins with, next to a walk along the path.
BeginsWith(tree, followFinal, g, r) ==
  \/ r = Refused /\ g[Fuel].end # "at"
  \/ /\ r.ok /\ r.place \in DOMAIN tree /\ ~(IsA(tree, r.place, "sym") /\ followFinal)
     /\ g[Fuel].end = "at" /\ g[Fuel].at = r.place
  \/ /\ r.ok /\ IsA(tree, r.place, "sym") /\ followFinal
     /\ \E k \in 1..Fuel, dir \in DOMAIN tree : g[k] = Led(tree, dir, r.place)

LEMMA ArchiveBegins ==
  ASSUME NEW tree, IsTree(tree), NEW path \in Straight, NEW followFinal \in BOOLEAN,
         NEW g, Goes(tree, followFinal, g), g[0] = Midway(<< >>, path.parts), g[Fuel].end # "no"
  PROVE  BeginsWith(tree, followFinal, g, Archived(tree, path))
<1>1. PICK parts, r : parts = path.parts /\ r = Archived(tree, path)
  OBVIOUS
<1>2. parts \in AllPlaces
  BY <1>1, ArchivedIs
<1>3. CASE parts = << >>
  <2>1. r = Found(<< >>)
    BY <1>1, <1>3, ArchivedIs
  <2>2. 1 \in 1..Fuel /\ 1 \in 0..Fuel
    BY FuelAssumption
  <2>3. g[1] = WalkStep(tree, g[1 - 1], followFinal, TRUE)
    BY <2>2 DEF Goes
  <2>4. g[1] = WalkStep(tree, Midway(<< >>, << >>), followFinal, TRUE)
    <3>1. 1 - 1 = 0 /\ g[0] = Midway(<< >>, << >>)
      BY <1>1, <1>3
    <3>. QED
      BY <2>3, <3>1
  <2>5. g[1] = [at |-> << >>, todo |-> << >>, end |-> "at"]
    BY <2>4, StepDone
  <2>6. g[Fuel] = [at |-> << >>, todo |-> << >>, end |-> "at"]
    BY <2>2, <2>5, WalkStops
  <2>7. << >> \in DOMAIN tree /\ ~IsA(tree, << >>, "sym")
    BY DEF IsTree, IsA
  <2>8. r.ok /\ r.place = << >>
    BY <2>1 DEF Found
  <2>. QED
    BY <1>1, <2>6, <2>7, <2>8 DEF BeginsWith
<1>4. CASE parts # << >>
  <2>1. Front(parts) \in AllPlaces /\ Front(parts) \in Seq(Parts)
    BY <1>2, <1>4, LastOf DEF AllPlaces, Parts
  <2>2. PICK h : /\ Goes(tree, TRUE, h) /\ h[0] = [at |-> << >>, todo |-> Front(parts), end |-> "no"]
                 /\ h[Fuel] = Walk(tree, Front(parts), TRUE, TRUE, Fuel)
    BY <2>1, WalkGoes
  <2>3. BothGo(tree, parts, followFinal, g, h)
    BY <1>1, <2>2 DEF BothGo, Midway
  <2>4. PICK w, x, child : w = h[Fuel] /\ x = Last(parts) /\ child = Append(w.at, x)
    OBVIOUS
  <2>5. EndsIn(tree, w, x, followFinal, g)
    BY <1>2, <1>4, <2>3, <2>4, WalkInDir
  <2>6. w.at \in DOMAIN tree
    BY <2>1, <2>2, <2>4, WalkTyped
  <2>7. r = Child(tree, WalkEnd(w), x)
    BY <1>1, <1>4, <2>2, <2>4, ArchivedIs
  <2>8. CASE ~(w.end = "at" /\ child \in DOMAIN tree)
    <3>1. r = Refused
      BY <2>4, <2>7, <2>8 DEF Child, WalkEnd, Found, Refused
    <3>2. g[Fuel].end # "at"
      BY <2>4, <2>5, <2>8 DEF EndsIn, IsA
    <3>. QED
      BY <1>1, <3>1, <3>2 DEF BeginsWith
  <2>9. CASE w.end = "at" /\ child \in DOMAIN tree
    <3>1. r = Found(child)
      BY <2>4, <2>7, <2>9 DEF Child, WalkEnd, Found
    <3>2. r.ok /\ r.place = child
      BY <3>1 DEF Found
    <3>3. \/ ~(IsA(tree, child, "sym") /\ followFinal) /\ g[Fuel].end = "at" /\ g[Fuel].at = child
          \/ /\ IsA(tree, child, "sym") /\ followFinal
             /\ \E k \in 1..Fuel : g[k] = Led(tree, w.at, child)
      BY <2>4, <2>5, <2>9 DEF EndsIn
    <3>. QED
      BY <1>1, <2>6, <2>9, <3>2, <3>3 DEF BeginsWith
  <2>. QED
    BY <2>8, <2>9
<1>. QED
  BY <1>3, <1>4

LEMMA ArchiveIsWalk ==
  ASSUME NEW tree, IsTree(tree), NEW path \in Straight, NEW followFinal \in BOOLEAN,
         NEW g, Goes(tree, followFinal, g), g[0] = Midway(<< >>, path.parts), g[Fuel].end # "no",
         ~(followFinal /\ IsLink(tree, Archived(tree, path)))
  PROVE  Ended(tree, Archived(tree, path)) = Ended(tree, WalkEnd(g[Fuel]))
<1>1. PICK r, w : r = Archived(tree, path) /\ w = g[Fuel]
  OBVIOUS
<1>2. BeginsWith(tree, followFinal, g, r)
  BY <1>1, ArchiveBegins
<1>3. CASE r = Refused /\ w.end # "at"
  BY <1>1, <1>3 DEF Ended, WalkEnd, Refused
<1>4. CASE r.ok /\ r.place \in DOMAIN tree /\ w.end = "at" /\ w.at = r.place
  <2>1. WalkEnd(w) = Found(r.place)
    BY <1>4 DEF WalkEnd
  <2>. QED
    BY <1>1, <1>4, <2>1 DEF Ended, Found
<1>. QED
  BY <1>1, <1>2, <1>3, <1>4 DEF BeginsWith, IsLink

\* What the header of the archive says is what a process is told.
LEMMA DockerStats ==
  ASSUME NEW tree, IsTree(tree), NEW path \in Straight, Walk(tree, path.parts, FALSE, TRUE, Fuel).end # "no"
  PROVE  StatFile(View("docker", tree), path) = StatFile(View("container", tree), path)
<1>1. path.parts \in AllPlaces /\ path.parts \in Seq(Parts)
  BY ArchivedIs DEF Straight, Path, Parts
<1>2. PICK g : /\ Goes(tree, FALSE, g) /\ g[0] = [at |-> << >>, todo |-> path.parts, end |-> "no"]
               /\ g[Fuel] = Walk(tree, path.parts, FALSE, TRUE, Fuel)
  BY <1>1, WalkGoes
<1>3. Ended(tree, Archived(tree, path)) = Ended(tree, WalkEnd(g[Fuel]))
  BY <1>2, ArchiveIsWalk DEF Midway
<1>4. Ended(tree, Archived(tree, path)) = Ended(tree, Walked(tree, path, FALSE))
  BY <1>2, <1>3, WalkedIs
<1>5. EndsInName(path)
  <2>1. path.parts # << >> => Last(path.parts) \in Names
    BY <1>1, LastOf
  <2>. QED
    BY <2>1, NamesAssumption DEF EndsInName
<1>6. PICK docker, inside : docker = View("docker", tree) /\ inside = View("container", tree)
  OBVIOUS
<1>7. docker.by = "docker" /\ inside.by = "container" /\ docker.tree = tree /\ inside.tree = tree
  BY <1>6 DEF View
<1>8. StatFile(docker, path) = StatFile(inside, path)
  <2>1. PICK r, w : r = Archived(tree, path) /\ w = Walked(tree, path, FALSE)
    OBVIOUS
  <2>2. StatFile(docker, path) = StatAt(tree, r, TRUE) /\ StatFile(inside, path) = StatAt(tree, w, TRUE)
    BY <1>5, <1>7, <2>1 DEF StatFile, DockerStat
  <2>3. StatAt(tree, r, TRUE) = StatAt(tree, w, TRUE)
    BY <1>4, <2>1, EndsAlike
  <2>. QED
    BY <2>2, <2>3
<1>. QED
  BY <1>6, <1>8

\* The links of a tree are absolute, and without "..".
AbsoluteLinks(tree) ==
  \A q \in DOMAIN tree : tree[q].type = "sym" => tree[q].link \in Straight /\ tree[q].link.abs

\* The paths that ReadFile calls itself with.
FollowsLinks(tree, it) == \A i \in 1..Fuel : it[i] = FollowAsWritten(tree, it[i - 1])

LEMMA WrittenPath ==
  ASSUME NEW tree, AbsoluteLinks(tree), NEW path \in Straight
  PROVE  /\ FollowAsWritten(tree, path) \in Straight
         /\ ~IsLink(tree, Archived(tree, path)) => FollowAsWritten(tree, path) = path
         /\ IsLink(tree, Archived(tree, path)) =>
              FollowAsWritten(tree, path) = tree[Archived(tree, path).place].link
<1>1. PICK r, p : r = Archived(tree, path) /\ p = FollowAsWritten(tree, path)
  OBVIOUS
<1>2. p \in {IF IsLink(tree, z) THEN tree[z.place].link ELSE path : z \in {r}}
  BY <1>1, Zenon DEF FollowAsWritten, With
<1>3. p = IF IsLink(tree, r) THEN tree[r.place].link ELSE path
  BY <1>2
<1>4. p \in Straight
  BY <1>3 DEF IsLink, IsA, AbsoluteLinks
<1>. QED
  BY <1>1, <1>3, <1>4

LEMMA WrittenPaths ==
  ASSUME NEW tree, AbsoluteLinks(tree), NEW path \in Straight
  PROVE  \E it \in [0..Fuel -> Straight] :
           /\ it[0] = path /\ FollowsLinks(tree, it)
           /\ DockerRead(tree, path)
                = IF IsLink(tree, Archived(tree, it[Fuel])) THEN Circle ELSE ReadAt(tree, Archived(tree, it[Fuel]))
<1>. DEFINE n == Fuel
            Step(p, i) == FollowAsWritten(tree, p)
            F(f) == [i \in 0..n |-> IF i = 0 THEN path ELSE CHOOSE y \in {Step(z, i) : z \in {f[i - 1]}} : TRUE]
            after == CHOOSE f : f = F(f)
<1>1. Iterate(LAMBDA p, i : FollowAsWritten(tree, p), path, Fuel) = after[n]
  BY DEF Iterate
<1>2. PICK last, answer : last = Archived(tree, after[n]) /\ answer = DockerRead(tree, path)
  OBVIOUS
<1>3. answer \in {IF IsLink(tree, z) THEN Circle ELSE ReadAt(tree, z) : z \in {last}}
  BY <1>1, <1>2, Zenon DEF DockerRead, With
<1>4. answer = IF IsLink(tree, last) THEN Circle ELSE ReadAt(tree, last)
  BY <1>3
<1>5. n \in Nat
  BY FuelAssumption
<1>6. \A y \in Straight, i \in 1..n : Step(y, i) \in Straight
  BY WrittenPath
<1>. HIDE DEF n, Step
<1>7. PICK G : G = [i \in 1..n |-> [y \in Straight |-> Step(y, i)]]
  OBVIOUS
<1>8. G \in [1..n -> [Straight -> Straight]] /\ \A y \in Straight, i \in 1..n : G[i][y] = Step(y, i)
  BY <1>6, <1>7
<1>9. \A f, i : (CHOOSE y \in {Step(z, i) : z \in {f[i - 1]}} : TRUE) = Step(f[i - 1], i)
  OBVIOUS
<1>10. PICK f \in [0..n -> Straight] : Follows(f, path, n, G)
  BY <1>5, <1>8, LoopExists
<1>11. after = F(after) /\ after \in [0..n -> Straight]
  <2>1. \A i \in 1..n : f[i - 1] \in Straight /\ f[i] = Step(f[i - 1], i)
    BY <1>5, <1>8, <1>10 DEF Follows
  <2>2. \A i \in 0..n : f[i] = F(f)[i]
    BY <1>5, <1>9, <1>10, <2>1 DEF Follows
  <2>3. f = F(f)
    BY <1>10, <2>2
  <2>4. after = F(after)
    BY <2>3
  <2>5. \A i \in 0..n : i \in Nat /\ (after[i] \in Straight)
    <3>. DEFINE T == {i \in Nat : i <= n => after[i] \in Straight}
    <3>. HIDE DEF after
    <3>1. 0 \in T
      BY <1>5, <2>4
    <3>2. ASSUME NEW i \in Nat, i \in T PROVE i + 1 \in T
      <4>1. SUFFICES ASSUME i + 1 <= n PROVE after[i + 1] \in Straight
        OBVIOUS
      <4>2. i + 1 \in 1..n /\ i + 1 \in 0..n /\ i + 1 # 0 /\ (i + 1) - 1 = i /\ i <= n
        BY <1>5, <4>1
      <4>3. after[i + 1] = Step(after[(i + 1) - 1], i + 1)
        BY <1>9, <2>4, <4>2
      <4>. QED
        BY <1>6, <3>2, <4>2, <4>3
    <3>. HIDE DEF T
    <3>3. Nat \subseteq T
      BY <3>1, <3>2, NatSetInduction
    <3>. QED
      BY <1>5, <3>3 DEF T
  <2>. HIDE DEF after
  <2>. QED
    BY <2>4, <2>5
<1>. HIDE DEF after
<1>12. after[0] = path /\ \A i \in 1..n : after[i] = Step(after[i - 1], i)
  BY <1>5, <1>9, <1>11
<1>. QED
  BY <1>2, <1>4, <1>11, <1>12 DEF FollowsLinks, n, Step

\* Where the walk from a path comes to, whose end is the same.
Comes(tree, g, i, path) ==
  \/ \E k \in i..Fuel : g[k] = Midway(<< >>, path.parts)
  \/ /\ ~IsLink(tree, Archived(tree, path))
     /\ Ended(tree, Archived(tree, path)) = Ended(tree, WalkEnd(g[Fuel]))

LEMMA ComesFurther ==
  ASSUME NEW tree, IsTree(tree), AbsoluteLinks(tree), NEW g, Goes(tree, TRUE, g), g[Fuel].end # "no",
         NEW i \in Nat, NEW path \in Straight, Comes(tree, g, i, path)
  PROVE  Comes(tree, g, i + 1, FollowAsWritten(tree, path))
<1>1. CASE /\ ~IsLink(tree, Archived(tree, path))
           /\ Ended(tree, Archived(tree, path)) = Ended(tree, WalkEnd(g[Fuel]))
  <2>1. FollowAsWritten(tree, path) = path
    BY <1>1, WrittenPath
  <2>. QED
    BY <1>1, <2>1 DEF Comes
<1>2. CASE \E k \in i..Fuel : g[k] = Midway(<< >>, path.parts)
  <2>1. PICK k \in i..Fuel : g[k] = Midway(<< >>, path.parts)
    BY <1>2
  <2>2. k \in 0..Fuel /\ Fuel - k \in 0..Fuel /\ k + (Fuel - k) = Fuel
    BY <2>1, FuelAssumption
  <2>3. path.parts \in Seq(Parts)
    BY DEF Straight, Path, Parts
  <2>4. PICK f : Goes(tree, TRUE, f) /\ f[0] = Midway(<< >>, path.parts)
    <3>1. PICK parts \in Seq(Parts) : parts = path.parts
      BY <2>3
    <3>2. PICK f : Goes(tree, TRUE, f) /\ f[0] = [at |-> << >>, todo |-> parts, end |-> "no"]
      BY WalkGoes
    <3>. QED
      BY <3>1, <3>2 DEF Midway
  <2>5. \A j \in 0..(Fuel - k) : f[j] = g[k + j]
    <3>1. f[0] = g[k]
      BY <2>1, <2>4
    <3>2. PICK followFinal : followFinal = TRUE
      OBVIOUS
    <3>3. Goes(tree, followFinal, g) /\ Goes(tree, followFinal, f)
      BY <2>4, <3>2
    <3>. QED
      BY <2>2, <3>1, <3>3, WalkGoesOn
  <2>6. f[Fuel - k] = g[Fuel]
    <3>1. Fuel - k \in 0..(Fuel - k)
      BY <2>2, FuelAssumption
    <3>. QED
      BY <2>2, <2>5, <3>1
  <2>7. f[Fuel] = g[Fuel]
    <3>1. f[Fuel - k].end # "no"
      BY <2>6
    <3>2. PICK followFinal, s : followFinal = TRUE /\ s = Fuel - k
      OBVIOUS
    <3>3. Goes(tree, followFinal, f) /\ s \in 0..Fuel /\ f[s].end # "no"
      BY <2>2, <2>4, <3>1, <3>2
    <3>4. f[Fuel] = f[s]
      BY <3>3, WalkStops
    <3>. QED
      BY <2>6, <3>2, <3>4
  <2>8. CASE ~IsLink(tree, Archived(tree, path))
    <3>1. Ended(tree, Archived(tree, path)) = Ended(tree, WalkEnd(g[Fuel]))
      <4>1. TRUE \in BOOLEAN /\ f[Fuel].end # "no"
        BY <2>7
      <4>2. Ended(tree, Archived(tree, path)) = Ended(tree, WalkEnd(f[Fuel]))
        BY <2>4, <2>8, <4>1, ArchiveIsWalk
      <4>. QED
        BY <2>7, <4>2
    <3>2. FollowAsWritten(tree, path) = path
      BY <2>8, WrittenPath
    <3>. QED
      BY <2>8, <3>1, <3>2 DEF Comes
  <2>9. CASE IsLink(tree, Archived(tree, path))
    <3>1. PICK r, next : r = Archived(tree, path) /\ next = FollowAsWritten(tree, path)
      OBVIOUS
    <3>2. BeginsWith(tree, TRUE, f, r)
      <4>1. TRUE \in BOOLEAN /\ f[Fuel].end # "no"
        BY <2>7
      <4>. QED
        BY <2>4, <3>1, <4>1, ArchiveBegins
    <3>3. r.ok /\ IsA(tree, r.place, "sym")
      BY <2>9, <3>1 DEF IsLink
    <3>4. PICK m \in 1..Fuel, dir \in DOMAIN tree : f[m] = Led(tree, dir, r.place)
      BY <3>2, <3>3 DEF BeginsWith, Refused
    <3>5. next = tree[r.place].link /\ next.abs
      BY <2>9, <3>1, <3>3, WrittenPath DEF AbsoluteLinks, IsA
    <3>6. f[m] = Midway(<< >>, next.parts)
      BY <3>4, <3>5 DEF Led
    <3>7. m \in 0..Fuel /\ f[m].end = "no"
      BY <3>4, <3>6, FuelAssumption DEF Midway
    <3>8. m <= Fuel - k
      <4>1. SUFFICES ASSUME ~(m <= Fuel - k) PROVE FALSE
        OBVIOUS
      <4>2. Fuel - k \in 0..m
        BY <2>2, <3>7, <4>1, FuelAssumption
      <4>3. f[Fuel - k].end = "no"
        BY <2>4, <3>7, <4>2, StillGoing
      <4>. QED
        BY <2>6, <4>3
    <3>9. k + m \in (i + 1)..Fuel /\ m \in 0..(Fuel - k)
      BY <2>1, <2>2, <3>4, <3>8, FuelAssumption
    <3>10. g[k + m] = Midway(<< >>, next.parts)
      BY <2>5, <3>6, <3>9
    <3>. QED
      BY <3>1, <3>9, <3>10 DEF Comes
  <2>. QED
    BY <2>8, <2>9
<1>. QED
  BY <1>1, <1>2 DEF Comes

\* What is read at the end of every link is what a process reads.
LEMMA DockerReads ==
  ASSUME NEW tree, IsTree(tree), AbsoluteLinks(tree), NEW path \in Straight,
         Walk(tree, path.parts, TRUE, TRUE, Fuel).end # "no"
  PROVE  ReadFile(View("docker", tree), path) = ReadFile(View("container", tree), path)
<1>1. path.parts \in Seq(Parts)
  BY DEF Straight, Path, Parts
<1>2. PICK g : /\ Goes(tree, TRUE, g) /\ g[0] = [at |-> << >>, todo |-> path.parts, end |-> "no"]
               /\ g[Fuel] = Walk(tree, path.parts, TRUE, TRUE, Fuel)
  BY <1>1, WalkGoes
<1>3. PICK it \in [0..Fuel -> Straight] :
        /\ it[0] = path /\ FollowsLinks(tree, it)
        /\ DockerRead(tree, path)
             = IF IsLink(tree, Archived(tree, it[Fuel])) THEN Circle ELSE ReadAt(tree, Archived(tree, it[Fuel]))
  BY WrittenPaths
<1>. DEFINE T == {i \in Nat : i <= Fuel => Comes(tree, g, i, it[i])}
<1>4. 0 \in T
  <2>1. 0 \in 0..Fuel
    BY FuelAssumption
  <2>. QED
    BY <1>2, <1>3, <2>1 DEF Comes, Midway
<1>5. ASSUME NEW i \in Nat, i \in T PROVE i + 1 \in T
  <2>1. SUFFICES ASSUME i + 1 <= Fuel PROVE Comes(tree, g, i + 1, it[i + 1])
    OBVIOUS
  <2>2. i \in 0..Fuel /\ i + 1 \in 1..Fuel /\ (i + 1) - 1 = i
    BY <2>1, FuelAssumption
  <2>3. it[i] \in Straight /\ Comes(tree, g, i, it[i])
    BY <1>3, <1>5, <2>2
  <2>4. it[i + 1] = FollowAsWritten(tree, it[(i + 1) - 1])
    BY <1>3, <2>2 DEF FollowsLinks
  <2>5. it[i + 1] = FollowAsWritten(tree, it[i])
    BY <2>2, <2>4
  <2>6. Comes(tree, g, i + 1, FollowAsWritten(tree, it[i]))
    BY <1>2, <2>3, ComesFurther
  <2>. QED
    BY <2>5, <2>6
<1>. HIDE DEF T
<1>6. Nat \subseteq T
  BY <1>4, <1>5, NatSetInduction
<1>7. Comes(tree, g, Fuel, it[Fuel])
  BY <1>6, FuelAssumption DEF T
<1>8. ~\E k \in Fuel..Fuel : g[k] = Midway(<< >>, it[Fuel].parts)
  <2>1. SUFFICES ASSUME NEW k \in Fuel..Fuel, g[k] = Midway(<< >>, it[Fuel].parts) PROVE FALSE
    OBVIOUS
  <2>2. k = Fuel
    BY <2>1, FuelAssumption
  <2>3. g[Fuel].end = "no"
    BY <2>1, <2>2 DEF Midway
  <2>. QED
    BY <1>2, <2>3
<1>9. PICK r, w : r = Archived(tree, it[Fuel]) /\ w = Walked(tree, path, TRUE)
  OBVIOUS
<1>10. ~IsLink(tree, r) /\ Ended(tree, r) = Ended(tree, w)
  BY <1>2, <1>7, <1>8, <1>9, WalkedIs DEF Comes
<1>11. DockerRead(tree, path) = ReadAt(tree, r) /\ ReadAt(tree, r) = ReadAt(tree, w)
  BY <1>3, <1>9, <1>10, EndsAlike
<1>12. PICK docker, inside : docker = View("docker", tree) /\ inside = View("container", tree)
  OBVIOUS
<1>13. docker.by = "docker" /\ inside.by = "container" /\ docker.tree = tree /\ inside.tree = tree
  BY <1>12 DEF View
<1>14. ReadFile(docker, path) = ReadFile(inside, path)
  BY <1>9, <1>11, <1>13 DEF ReadFile, HostRead
<1>. QED
  BY <1>12, <1>14

\* A path of names on which no walk goes in a circle.
HasEnd(tree, path) ==
  path \in Straight /\ \A followFinal \in BOOLEAN : Walk(tree, path.parts, followFinal, TRUE, Fuel).end # "no"

\* The directory of the packages, if it is one, has the same directories in it.
LEMMA DockerPackages ==
  ASSUME NEW tree, IsTree(tree), NEW path, HasEnd(tree, path),
         LET stat == StatFile(View("container", tree), path) IN IsOk(stat) => stat.value.type = "dir"
  PROVE  SamePackages(ReadDir(View("docker", tree), path), ReadDir(View("container", tree), path))
<1>1. path \in Straight /\ path.parts \in Seq(Parts)
  BY DEF HasEnd, Straight, Path, Parts
<1>2. PICK r, w, kept : r = Archived(tree, path) /\ w = Walked(tree, path, TRUE) /\ kept = Walked(tree, path, FALSE)
  OBVIOUS
<1>3. ASSUME NEW followFinal \in BOOLEAN
      PROVE  \/ r = Refused /\ Walked(tree, path, followFinal) = Refused
             \/ r.ok /\ r.place \in DOMAIN tree /\ ~IsA(tree, r.place, "sym")
                /\ Walked(tree, path, followFinal) = Found(r.place)
             \/ r.ok /\ IsA(tree, r.place, "sym") /\ (~followFinal => Walked(tree, path, followFinal) = Found(r.place))
  <2>1. PICK g : /\ Goes(tree, followFinal, g) /\ g[0] = [at |-> << >>, todo |-> path.parts, end |-> "no"]
                 /\ g[Fuel] = Walk(tree, path.parts, followFinal, TRUE, Fuel)
    BY <1>1, WalkGoes
  <2>2. g[0] = Midway(<< >>, path.parts) /\ g[Fuel].end # "no"
    BY <2>1 DEF Midway, HasEnd
  <2>3. BeginsWith(tree, followFinal, g, r)
    BY <1>1, <1>2, <2>1, <2>2, ArchiveBegins
  <2>4. PICK v : v = g[Fuel] /\ Walked(tree, path, followFinal) = WalkEnd(v)
    BY <2>1, WalkedIs
  <2>5. WalkEnd(v) = IF v.end = "at" THEN Found(v.at) ELSE Refused
    BY DEF WalkEnd
  <2>. QED
    BY <2>3, <2>4, <2>5 DEF BeginsWith
<1>4. PICK docker, inside : docker = View("docker", tree) /\ inside = View("container", tree)
  OBVIOUS
<1>5. docker.by = "docker" /\ inside.by = "container" /\ docker.tree = tree /\ inside.tree = tree
  BY <1>4 DEF View
<1>6. /\ ReadDir(docker, path) = DockerList(tree, path) /\ ReadDir(inside, path) = ListAt(tree, w)
      /\ StatFile(inside, path) = StatAt(tree, kept, TRUE)
  BY <1>2, <1>5 DEF ReadDir, HostList, StatFile
<1>7. DockerList(tree, path) =
        IF r.ok THEN Answer(IF IsA(tree, r.place, "dir") THEN DirEntries(tree, r.place) ELSE {}) ELSE NoAnswer
  <2>1. PICK list : list = DockerList(tree, path)
    OBVIOUS
  <2>2. list \in {IF z.ok THEN Answer(IF IsA(tree, z.place, "dir") THEN DirEntries(tree, z.place) ELSE {})
                  ELSE NoAnswer : z \in {r}}
    BY <1>2, <2>1, Zenon DEF DockerList, With
  <2>. QED
    BY <2>1, <2>2
<1>8. /\ \A end : ListAt(tree, end)
                     = IF end.ok /\ IsA(tree, end.place, "dir") THEN Answer(Entries(tree, end.place)) ELSE NoAnswer
      /\ \A end : StatAt(tree, end, TRUE)
                     = IF end.ok /\ end.place \in DOMAIN tree THEN Answer(Info(tree[end.place], TRUE)) ELSE NoAnswer
  <2>1. \A end : ListAt(tree, end)
                   = IF end.ok /\ IsA(tree, end.place, "dir") THEN Answer(Entries(tree, end.place)) ELSE NoAnswer
    BY DEF ListAt, With
  <2>2. \A end, hasHeader :
          StatAt(tree, end, hasHeader)
            = IF end.ok /\ end.place \in DOMAIN tree THEN Answer(Info(tree[end.place], hasHeader)) ELSE NoAnswer
    BY DEF StatAt, With
  <2>. QED
    BY <2>1, <2>2
<1>9. CASE r = Refused
  <2>1. w = Refused
    <3>1. ~r.ok
      BY <1>9 DEF Refused
    <3>. QED
      BY <1>2, <1>3, <3>1
  <2>2. ReadDir(docker, path) = NoAnswer /\ ReadDir(inside, path) = NoAnswer
    BY <1>6, <1>7, <1>8, <1>9, <2>1 DEF Refused
  <2>. QED
    BY <1>4, <2>2 DEF SamePackages, IsOk, NoAnswer
<1>10. CASE r # Refused
  <2>1. r.ok /\ r.place \in DOMAIN tree /\ kept = Found(r.place)
    BY <1>2, <1>3, <1>10 DEF IsA
  <2>2. kept.ok /\ kept.place = r.place
    BY <2>1 DEF Found
  <2>3. StatFile(inside, path) = Answer(Info(tree[r.place], TRUE))
    BY <1>6, <1>8, <2>1, <2>2
  <2>4. tree[r.place].type = "dir"
    <3>1. PICK info : info = Info(tree[r.place], TRUE)
      OBVIOUS
    <3>2. IsOk(Answer(info)) /\ Answer(info).value = info /\ info.type = tree[r.place].type
      BY <3>1 DEF IsOk, Answer, Info
    <3>. QED
      BY <1>4, <2>3, <3>1, <3>2
  <2>5. IsA(tree, r.place, "dir") /\ ~IsA(tree, r.place, "sym")
    BY <2>1, <2>4 DEF IsA
  <2>6. w = Found(r.place)
    BY <1>2, <1>3, <1>10, <2>5
  <2>7. w.ok /\ w.place = r.place
    BY <2>6 DEF Found
  <2>8. PICK few, all : few = DirEntries(tree, r.place) /\ all = Entries(tree, r.place)
    OBVIOUS
  <2>9. ReadDir(docker, path) = Answer(few) /\ ReadDir(inside, path) = Answer(all)
    BY <1>6, <1>7, <1>8, <2>1, <2>5, <2>7, <2>8
  <2>10. PackageFiles(few) = PackageFiles(all)
    BY <2>8 DEF PackageFiles, DirEntries
  <2>11. Answer(few).value = few /\ Answer(all).value = all /\ IsOk(Answer(few)) /\ IsOk(Answer(all))
    BY DEF Answer, IsOk
  <2>12. SamePackages(Answer(few), Answer(all))
    BY <2>10, <2>11 DEF SamePackages
  <2>. QED
    BY <1>4, <2>9, <2>12
<1>. QED
  BY <1>9, <1>10

\* The links of the last image and the paths that its test asked for are without
\* "..", and no path leads in a circle.
AsksStraight ==
  /\ \A q \in LinksOf(LastTree) : ~HasUp(LastTree[q].link)
  /\ \A path \in PathsAsked(LastTest, PathOf(LastTest, FullEnv(Last(results).image)), InContainer) :
       HasEnd(LastTree, path)

\* With the docker driver, which downloads an archive for each path and for each
\* link it follows, each verdict is that of the check in a container, for every tree
\* of absolute links and every test whose paths are names that have an end, however
\* many links there are on the way.
THEOREM DockerVerdicts == Spec => [](kind = "docker" /\ (HasVerdict => AsksStraight) => VerdictAsInContainer)
<1>1. ASSUME IInv, VInv, kind = "docker", HasVerdict => AsksStraight
      PROVE  VerdictAsInContainer
  <2>1. SUFFICES ASSUME HasVerdict, SeesAlike, LastTest.kind \in {"content", "existence", "license"}
                 PROVE  Passes(LastTest, FullEnv(Last(results).image), View("docker", LastTree))
                          = Passes(LastTest, FullEnv(Last(results).image), InContainer)
    BY <1>1, JudgedAlike DEF IInv, ReadsAlike
  <2>2. /\ \A q \in LinksOf(LastTree) : LastTree[q].link.abs
        /\ IsOk(StatFile(InContainer, Root)) => StatFile(InContainer, Root).value.type = "dir"
    BY <1>1, <2>1 DEF SeesAlike, Root
  <2>3. IsTree(LastTree)
    <3>1. PICK id \in DOMAIN Images : id = Last(results).image
      BY <1>1, <2>1, LastIsKnown DEF IInv
    <3>2. LastTree = Images[id].tree
      BY <1>1, <2>1, <3>1 DEF LastTree, TreeOf, Trees, HasVerdict
    <3>. QED
      BY <3>2, ImagesAssumption
  <2>4. AbsoluteLinks(LastTree)
    <3>1. \A q \in DOMAIN LastTree : LastTree[q].type = "sym" => LastTree[q].link \in Path
      BY <2>3 DEF IsTree
    <3>. QED
      BY <1>1, <2>1, <2>2, <3>1 DEF AsksStraight, AbsoluteLinks, LinksOf, Straight
  <2>5. PICK path : path = PathOf(LastTest, FullEnv(Last(results).image))
    OBVIOUS
  <2>6. ASSUME NEW p \in PathsAsked(LastTest, path, InContainer)
        PROVE  /\ ReadFile(View("docker", LastTree), p) = ReadFile(InContainer, p)
               /\ StatFile(View("docker", LastTree), p) = StatFile(InContainer, p)
    <3>1. HasEnd(LastTree, p)
      BY <1>1, <2>1, <2>5, <2>6 DEF AsksStraight
    <3>2. /\ p \in Straight /\ Walk(LastTree, p.parts, FALSE, TRUE, Fuel).end # "no"
          /\ Walk(LastTree, p.parts, TRUE, TRUE, Fuel).end # "no"
      BY <3>1 DEF HasEnd
    <3>. QED
      BY <2>3, <2>4, <3>2, DockerStats, DockerReads DEF InContainer
  <2>7. ASSUME NEW p \in PathsAsked(LastTest, path, InContainer)
        PROVE  SameReads(View("docker", LastTree), InContainer, p)
    <3>1. SameStat(StatFile(InContainer, p), StatFile(InContainer, p))
      <4>1. StatFile(InContainer, p) = StatAt(LastTree, Walked(LastTree, p, FALSE), TRUE)
        <5>1. PICK inside : inside = InContainer /\ inside.by = "container" /\ inside.tree = LastTree
          BY DEF InContainer, View
        <5>. QED
          BY <5>1 DEF StatFile
      <4>. QED
        BY <4>1, StatsAt
    <3>. QED
      BY <2>6, <2>7, <3>1 DEF SameReads
  <2>8. ASSUME LastTest.kind = "existence"
        PROVE  StatFile(View("docker", LastTree), path) = StatFile(InContainer, path)
    <3>1. path \in PathsAsked(LastTest, path, InContainer)
      BY <2>8 DEF PathsAsked
    <3>. QED
      BY <2>6, <3>1
  <2>9. ASSUME LastTest.kind = "license", LastTest.debian
        PROVE  SamePackages(ReadDir(View("docker", LastTree), Root), ReadDir(InContainer, Root))
    <3>1. Root \in PathsAsked(LastTest, path, InContainer)
      BY <2>9 DEF PathsAsked
    <3>2. HasEnd(LastTree, Root)
      BY <1>1, <2>1, <2>5, <3>1 DEF AsksStraight
    <3>. QED
      BY <2>2, <2>3, <3>2, DockerPackages DEF InContainer
  <2>. QED
    BY <2>1, <2>5, <2>7, <2>8, <2>9, ChecksAlike, PassesIs
<1>2. IInv /\ VInv => (kind = "docker" /\ (HasVerdict => AsksStraight) => VerdictAsInContainer)
  BY <1>1
<1>. QED
  BY <1>2, Inductive, VerdictsAreChecked, PTL
=============================================================================
