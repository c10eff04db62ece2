------------------------------ MODULE Command ------------------------------
(***************************************************************************)
(* One invocation of "container-structure-test test" with one config file, *)
(* from its arguments to its verdicts: Startup, then the tests of the file *)
(* one after the other (structure.go in pkg/types/v1 and pkg/types/v2), in *)
(* the order of their sections, each with a driver of its own.  Where the  *)
(* tar driver takes its image from and the directories it makes            *)
(* (pkg/drivers/tar_driver.go, GetImage and ImageFromV1 in                 *)
(* internal/pkgutil/image_utils.go) are modelled in full.                  *)
(*                                                                         *)
(* The goroutines that run the tests and collect their results are the     *)
(* subject of Pipeline; the containers of the docker driver are that of    *)
(* DockerDriver, the process environment of the host that of HostDriver.   *)
(***************************************************************************)
EXTENDS Startup, Places

VARIABLES
  num,      \* the test that is next, or run
  source,   \* where NewTarDriver looks for the image
  driver,   \* the driver of the test
  deferred, \* the directories that the deferred calls of the section remove
  dirs,     \* the temporary directories on the disk
  results

testVars == <<num, source, driver, deferred, dirs, results>>
vars     == <<preparation, pc, faults, testVars>>

test == given.tests[num]

\* A driver: the image it looks at, the directory it was extracted to and the
\* environment of its config.
Driver(id, dir, env) == [image |-> id, dir |-> dir, env |-> env]
NoDriver == Driver(NoImage, {}, << >>)

EnvOf(id) == IF id = NoImage THEN << >> ELSE ConvertSliceToMap(Images[id].config.env)

\* A result, with what it was about for the properties.
Result(pass) == [num |-> num, pass |-> pass, image |-> driver.image]

Init ==
  /\ StartupInit
  /\ num = 1 /\ source = "none" /\ driver = NoDriver
  /\ deferred = {} /\ dirs = {} /\ results = << >>

InCommands == num <= Len(given.tests) /\ test.kind = "command"

-----------------------------------------------------------------------------
(* The sections.                                                           *)

\* The test is over: its driver is dropped and left is what stays on the disk.
Leave(left) ==
  /\ num' = num + 1 /\ pc' = "tests" /\ source' = "none" /\ driver' = NoDriver
  /\ dirs' = left
  /\ UNCHANGED <<preparation, deferred>>

Conclude(pass, left) == Leave(left) /\ results' = Append(results, Result(pass))

\* MUTANT of Fail: schema v2 has only a line in the log, too.
FailSilently(left) == Leave(left) /\ UNCHANGED results

\* Schema v1 has only a line in the log for a test that is invalid or whose
\* setup failed.
Fail(left) == IF given.schema = "v1" THEN Leave(left) /\ UNCHANGED results ELSE Conclude(FALSE, left)

NextTest == pc = "tests" /\ num <= Len(given.tests) /\ (InCommands \/ deferred = {})

\* A test that is invalid, and a metadata test that asks for nothing.
InvalidTest ==
  /\ NextTest /\ ~Validate(test)
  /\ Fail(dirs) /\ UNCHANGED faults

EmptyTest ==
  /\ NextTest /\ test.kind = "metadata" /\ IsEmpty(test)
  /\ num' = num + 1
  /\ UNCHANGED <<preparation, pc, faults, source, driver, deferred, dirs, results>>

HasWork == Validate(test) /\ ~(test.kind = "metadata" /\ IsEmpty(test))

\* The deferred calls of RunCommandTests destroy the drivers of the section.
EndOfCommands ==
  /\ pc = "tests" /\ ~InCommands /\ deferred # {}
  /\ dirs' = IF args.save THEN dirs ELSE dirs \ deferred
  /\ deferred' = {}
  /\ UNCHANGED <<preparation, pc, faults, num, source, driver, results>>

EndOfTests ==
  /\ pc = "tests" /\ num > Len(given.tests) /\ deferred = {}
  /\ pc' = "end"
  /\ UNCHANGED <<preparation, faults, testVars>>

-----------------------------------------------------------------------------
(* A driver is made.                                                       *)

\* License and metadata tests do not call SetEnv, and schema v1 never does.
AfterNewDriver ==
  IF given.schema = "v1" THEN (IF test.kind = "command" THEN "setup" ELSE "run")
  ELSE IF test.kind \in {"license", "metadata"} THEN "run" ELSE "env"

\* Schema v1 defers the Destroy of a command test when its Setup is done, which
\* no driver with a directory gets to.
DefersDestroy == test.kind = "command" /\ given.schema = "v2"

\* MUTANT of MakeDriver: every section defers the Destroy.
MakeDriverDefers(id, dir) ==
  /\ driver' = Driver(id, dir, EnvOf(id))
  /\ dirs' = dirs \union dir
  /\ deferred' = deferred \union dir
  /\ pc' = AfterNewDriver
  /\ UNCHANGED <<preparation, faults, num, results>>

MakeDriver(id, dir) ==
  /\ driver' = Driver(id, dir, EnvOf(id))
  /\ dirs' = dirs \union dir
  /\ deferred' = IF DefersDestroy THEN deferred \union dir ELSE deferred
  /\ pc' = AfterNewDriver
  /\ UNCHANGED <<preparation, faults, num, results>>

\* A license test, or any of schema v1, without a driver ends the process.
NoDriverMade(left) ==
  IF test.kind = "license" \/ given.schema = "v1"
  THEN /\ pc' = "fatal" /\ dirs' = left
       /\ UNCHANGED <<preparation, num, source, driver, deferred, results>>
  ELSE Conclude(FALSE, left)

\* NewDockerDriver and NewHostDriver: whether there is an image, or a config, is
\* not asked.
NewDriver ==
  /\ NextTest /\ HasWork /\ kind \in {"docker", "host"}
  /\ MakeDriver(IF kind = "docker" THEN ImageIn(local, image) ELSE world.host, {})
  /\ UNCHANGED source

NewDriverError ==
  /\ NextTest /\ HasWork /\ kind = "docker"
  /\ Fault(num, "client")
  /\ NoDriverMade(dirs)

\* MUTANT of FirstSource: the daemon is not asked.
FirstSourceRemote == IF args.layout THEN "layout" ELSE IF IsTar(image) THEN "archive" ELSE "remote"

\* NewTarDriver.
FirstSource == IF args.layout THEN "layout" ELSE IF IsTar(image) THEN "archive" ELSE "daemon"

NewTarDriver ==
  /\ NextTest /\ HasWork /\ kind = "tar"
  /\ source' = FirstSource
  /\ pc' = "new"
  /\ UNCHANGED <<preparation, faults, num, driver, deferred, dirs, results>>

ImageAtSource ==
  CASE source = "layout"  -> FromLayout
    [] source = "archive" -> ImageIn(world.archives, image)
    [] source = "daemon"  -> ImageIn(local, image)
    [] source = "remote"  -> ImageIn(world.remote, image)

Directory == [num |-> num, source |-> source]

\* Any error of the daemon's image sends the driver to the registry.
AfterSourceError(left) ==
  IF source = "daemon"
  THEN source' = "remote" /\ dirs' = left /\ UNCHANGED <<preparation, pc, num, driver, deferred, results>>
  ELSE NoDriverMade(left)

\* GetImage and ImageFromV1: the image is extracted to a directory of its own.
Extract ==
  /\ pc = "new" /\ ImageAtSource # NoImage
  /\ MakeDriver(ImageAtSource, {Directory})
  /\ source' = "none"

NotRetrieved ==
  /\ pc = "new"
  /\ IF ImageAtSource = NoImage THEN UNCHANGED faults ELSE Fault(num, "retrieve")
  /\ AfterSourceError(dirs)

\* The archive of the image cannot be unpacked: GetImage leaves the directory
\* where it is, ImageFromV1 removes it.
NotExtracted ==
  /\ pc = "new" /\ ImageAtSource # NoImage
  /\ Fault(num, "extract")
  /\ AfterSourceError(IF source = "layout" THEN dirs ELSE dirs \union {Directory})

-----------------------------------------------------------------------------
(* SetEnv and Setup.                                                       *)

\* The global variables: the docker driver expands their values, the tar driver
\* takes them as they are written; on the host the config is not concerned.  A
\* value for which the image cannot be inspected is expanded as if none were set.
WithVars(env, blind) ==
  LET value(i) == IF kind = "tar" THEN given.vars[i].value
                  ELSE Expand(given.vars[i].value, IF i \in blind THEN << >> ELSE env)
  IN IF kind = "host" THEN env
     ELSE Iterate(LAMBDA map, i : Put(map, given.vars[i].key, value(i)), env, Len(given.vars))

\* The docker driver makes no call when there is nothing to set.
CallsSetEnv == kind = "tar" \/ given.vars # << >>

\* The docker driver inspects the image anew for each value; one may fail.
Inspections == {{}} \union (IF kind = "docker" THEN {{i} : i \in DOMAIN given.vars} ELSE {})

\* MUTANT of SetEnv: the new image of the tar driver is without its directory.
SetEnvDropsPath ==
  /\ pc = "env" /\ (CallsSetEnv => driver.image # NoImage)
  /\ \E blind \in Inspections :
       /\ driver' = [driver EXCEPT !.env = WithVars(@, blind), !.dir = {}]
       /\ IF blind = {} THEN UNCHANGED faults ELSE Fault(num, "inspect")
  /\ pc' = IF test.kind = "command" THEN "setup" ELSE "run"
  /\ UNCHANGED <<preparation, num, source, deferred, dirs, results>>

SetEnv ==
  /\ pc = "env" /\ (CallsSetEnv => driver.image # NoImage)
  /\ \E blind \in Inspections :
       /\ driver' = [driver EXCEPT !.env = WithVars(@, blind)]
       /\ IF blind = {} THEN UNCHANGED faults ELSE Fault(num, "inspect")
  /\ pc' = IF test.kind = "command" THEN "setup" ELSE "run"
  /\ UNCHANGED <<preparation, num, source, deferred, dirs, results>>

\* The driver of a file test is not destroyed.
SetEnvError ==
  /\ pc = "env" /\ CallsSetEnv
  /\ IF driver.image = NoImage THEN UNCHANGED faults ELSE Fault(num, "setenv")
  /\ Conclude(FALSE, dirs)

\* Destroy, by an explicit call.
AfterDestroy == IF args.save THEN dirs ELSE dirs \ driver.dir

Setup ==
  /\ pc = "setup" /\ kind # "tar"
  /\ test.commands # {} => driver.image # NoImage
  /\ pc' = "run"
  /\ UNCHANGED <<preparation, faults, testVars>>

\* The tar driver cannot process commands.
SetupError ==
  /\ pc = "setup"
  /\ IF kind = "tar" \/ (test.commands # {} /\ driver.image = NoImage)
     THEN UNCHANGED faults ELSE Fault(num, "setup")
  /\ Fail(IF DefersDestroy THEN dirs ELSE AfterDestroy)

-----------------------------------------------------------------------------
(* Commands: those of Setup, and the one of a command test.                *)

CommandUnderWay ==
  /\ kind # "tar" /\ driver.image # NoImage
  /\ \/ pc = "setup" /\ test.commands # {}
     \/ pc = "run" /\ test.kind = "command"

\* The command does not end, and it is waited for without a limit of time.
Hang ==
  /\ CommandUnderWay
  /\ pc' = "hung"
  /\ UNCHANGED <<preparation, faults, testVars>>

\* The host driver ends the process when a command cannot be started.
CannotStart ==
  /\ CommandUnderWay /\ kind = "host"
  /\ Fault(num, "start")
  /\ pc' = "fatal"
  /\ UNCHANGED <<preparation, testVars>>

-----------------------------------------------------------------------------
(* Run.                                                                    *)

EmptyConfig ==
  [env |-> << >>, labels |-> << >>, entrypoint |-> << >>, cmd |-> << >>,
   volumes |-> {}, ports |-> {}, workdir |-> "", user |-> ""]

\* GetConfig.  A metadata file of the host that is not JSON counts as empty.
HasConfig == IF kind = "host" THEN world.metadata # "missing" ELSE driver.image # NoImage
BrokenConfig == kind = "host" /\ world.metadata = "broken"

GetConfig ==
  IF BrokenConfig THEN EmptyConfig ELSE [Images[driver.image].config EXCEPT !.env = driver.env]

\* What GetConfig gives when its error is only logged.
EnvOrNone == IF HasConfig THEN GetConfig.env ELSE << >>

\* What a command prints and how it ends is not known, if it does (Hang).
RunCommand ==
  /\ pc = "run" /\ test.kind = "command"
  /\ \/ /\ driver.image # NoImage
        /\ \E out \in given.outputs : Conclude(CheckOutput(test, out), dirs)
        /\ UNCHANGED faults
     \/ /\ IF driver.image = NoImage THEN UNCHANGED faults ELSE Fault(num, "command")
        /\ Conclude(FALSE, dirs)

\* What the drivers look at: for each image its tree, as it is and extracted.
Trees == [id \in DOMAIN Images |-> [kept |-> Images[id].tree, extracted |-> Extracted(Images[id].tree)]]

TreeOf(id) ==
  CASE id = NoImage -> << >>
    [] id # NoImage /\ kind = "tar" -> Trees[id].extracted
    [] OTHER -> Trees[id].kept

Tree == TreeOf(driver.image)

Eyes == View(kind, Tree)

\* The path of an existence test may name variables, but not in schema v1.
PathOf(t, env) ==
  IF t.kind = "existence" /\ given.schema = "v2" THEN SubstituteEnvVar(t.path, env)
  ELSE IF t.kind = "license" THEN Written(TRUE, DebianRoot)
  ELSE t.path

\* The test of files on what view shows, with a config of these variables.
Passes(t, env, view) == With(PathOf(t, env), LAMBDA path : FileTestPasses(t, path, view))

Circles == \E file \in FilesRead(test, Eyes) : ReadFile(Eyes, file).end = "circle"

IsFileTest == test.kind \in {"content", "existence", "license"}

RunFileTest ==
  /\ pc = "run" /\ IsFileTest /\ ~Circles
  /\ Conclude(Passes(test, EnvOrNone, Eyes), AfterDestroy)
  /\ UNCHANGED faults

\* The config, or what is looked at, cannot be had: the daemon or the disk fails.
RunFileTestError ==
  /\ pc = "run" /\ IsFileTest /\ ~Circles
  /\ \/ test.kind = "existence" /\ Fault(num, "config")
        /\ Conclude(Passes(test, << >>, Eyes), AfterDestroy)
     \/ Fault(num, "file")
        /\ Conclude(Passes(test, EnvOrNone, View("nothing", Tree)), AfterDestroy)

\* What the docker driver downloads first, if anything.
Asked ==
  IF test.kind = "license" /\ ~test.debian THEN test.files ELSE {PathOf(test, EnvOrNone)}

\* An archive that is cut short: the header that was not read is used all the
\* same, and the process ends with a panic.
ArchiveTorn ==
  /\ pc = "run" /\ IsFileTest /\ kind = "docker"
  /\ \E path \in Asked : Archived(Tree, path).ok
  /\ Fault(num, "torn")
  /\ pc' = "panic"
  /\ UNCHANGED <<preparation, testVars>>

\* Two links that lead to each other: ReadFile never returns.
Circling == pc = "run" /\ IsFileTest /\ Circles /\ UNCHANGED vars

RunMetadataTest ==
  /\ pc = "run" /\ test.kind = "metadata"
  /\ \/ /\ Conclude(IF HasConfig THEN MetadataPasses(test, GetConfig) ELSE FALSE, AfterDestroy)
        /\ UNCHANGED faults
     \/ /\ HasConfig /\ Fault(num, "config")
        /\ Conclude(FALSE, AfterDestroy)

-----------------------------------------------------------------------------

Terminal == {"refused", "fatal", "panic", "hung", "end"}

Terminated == pc \in Terminal /\ UNCHANGED vars

Next ==
  \/ StartupNext /\ UNCHANGED testVars
  \/ InvalidTest \/ EmptyTest \/ EndOfCommands \/ EndOfTests
  \/ NewDriver \/ NewDriverError
  \/ NewTarDriver \/ Extract \/ NotRetrieved \/ NotExtracted
  \/ SetEnv \/ SetEnvError \/ Setup \/ SetupError \/ Hang \/ CannotStart
  \/ RunCommand \/ RunFileTest \/ RunFileTestError \/ ArchiveTorn \/ Circling \/ RunMetadataTest
  \/ Terminated

\* The process is not stopped while it has something to do.
Spec == Init /\ [][Next]_vars /\ WF_vars(Next)

-----------------------------------------------------------------------------
(* Properties.                                                             *)

Progress == {"args", "layout", "pull", "confirm", "init", "tests", "new", "env", "setup", "run"}

\* A test that is run has a driver, whose directory is there, and the deferred
\* calls are those of the commands only.
TypeOK ==
  /\ pc \in Progress \union Terminal
  /\ num \in 1..(Len(given.tests) + 1)
  /\ source \in {"none", "layout", "archive", "daemon", "remote"}
  /\ driver.image \in DOMAIN Images \union {NoImage}
  /\ pc = "run" => driver.dir \subseteq dirs /\ Cardinality(driver.dir) = (IF kind = "tar" THEN 1 ELSE 0)
  /\ \A d \in deferred : given.tests[d.num].kind = "command" /\ d \in dirs
  /\ Cardinality(faults) <= MaxFaults

\* The image that is found in a layout is the first in the order of the
\* descriptors, nested indexes included, that satisfies the platform; there is
\* none when an index on the way to it cannot be looked into.
FindsFirst ==
  pc = "layout" /\ args.layout /\ world.layout.readable =>
    \A top \in DOMAIN world.layout.indexes :
      FindImageInIndex(world.layout, top, args.platform)
        = FirstInLine(world.layout, Unrolled(world.layout, top), args.platform)

\* Where the image of the tar driver is, when nothing fails.
Preferred ==
  IF args.layout THEN FromLayout
  ELSE IF IsTar(image) THEN ImageIn(world.archives, image)
  ELSE IF image \in DOMAIN local THEN local[image]
  ELSE ImageIn(world.remote, image)

\* What the daemon has of the image could not be had for test n, or not unpacked.
SentOn(n) ==
  /\ ~args.layout /\ ~IsTar(image)
  /\ \E what \in {"retrieve", "extract"} : [num |-> n, what |-> what] \in faults

\* Whether test n may be about this image.
MayBeAbout(n, id) ==
  id \in {Preferred, NoImage} \/ (SentOn(n) /\ id = ImageIn(world.remote, image))

\* The tests of the tar driver are about one image, each having looked for it
\* anew, whatever failed for the others: only a test for which the daemon failed
\* may be about another, and that is the one of the registry.
SameImage ==
  kind = "tar" => \A i \in DOMAIN results : MayBeAbout(results[i].num, results[i].image)

\* With the docker driver a layout is tested as the image of its tag: the one it
\* held, or the one that had the tag before when the daemon loaded nothing.
LoadedIsTested ==
  kind = "docker" /\ args.layout /\ results # << >> =>
    /\ image = Name(LayoutTag, "") /\ image \in DOMAIN local
    /\ local[image] \in {FromLayout, ImageIn(world.local, image)}
    /\ faults = {} => local[image] = FromLayout

FailedFor(d, what) == [num |-> d.num, what |-> what] \in faults

\* A directory outlives the command only if it was extracted to in vain, or if
\* the variables of its file test could not be set; with --save every directory
\* that was made stays.
OnlyFailuresStay ==
  pc \in {"fatal", "end"} /\ ~args.save =>
    \A d \in dirs :
      \/ FailedFor(d, "extract") /\ d.source # "layout"
      \/ FailedFor(d, "setenv") /\ given.tests[d.num].kind # "command"

\* The host's commands and files are touched only after the user said yes, or
\* forced it.
HostIsConfirmed ==
  kind = "host" /\ (pc \in {"tests", "env", "setup", "run", "end"}) /\ ~args.force =>
    LET read == SubSeq(given.answers, 1, Len(given.answers) - Len(answers))
    IN read # << >> /\ Last(read) = "yes" /\ "no" \notin ToSet(read)

\* A test of schema v2 is owed a result, unless it asks for nothing.
IsOwed(i) == given.schema = "v2" /\ ~(given.tests[i].kind = "metadata" /\ IsEmpty(given.tests[i]))

PlaceOf(i) == Place(1, SectionOf(given.tests[i]), i)

Ending ==
  CASE pc \in {"refused", "fatal", "panic"} -> "fatal"
    [] pc = "end" -> IF results # << >> /\ \A i \in DOMAIN results : results[i].pass THEN "ok" ELSE "failed"
    [] OTHER -> "running"

\* Whatever its drivers do, a command keeps the contract that Pipeline keeps
\* whatever its goroutines do: each test of schema v2 has a result when the next
\* one is begun, however far it got, no test has two, and they come in the order
\* of the sections.
Contract == INSTANCE RunContract WITH
  places   <- {PlaceOf(i) : i \in DOMAIN given.tests},
  owed     <- {PlaceOf(i) : i \in {j \in DOMAIN given.tests : IsOwed(j)}},
  reported <- [i \in DOMAIN results |-> [test |-> PlaceOf(results[i].num), pass |-> results[i].pass]],
  outcome  <- Ending

CommandContract == Contract!Spec

-----------------------------------------------------------------------------
(* The verdicts.                                                           *)

LastTest   == given.tests[Last(results).num]
LastImage  == Images[Last(results).image]
HasVerdict == results # << >> /\ Last(results).image # NoImage

NoFault(n) == \A f \in faults : f.num # n

LastTree == TreeOf(Last(results).image)

LinksOf(tree) == {q \in DOMAIN tree : tree[q].type = "sym"}

\* What a process is told in a container of the image.
InContainer == View("container", LastTree)

\* The cases in which a driver is known to see something else: the docker driver
\* takes a relative link from the top and finds no packages behind a link or in
\* a file; the others do not know the owner, and the tar driver resolves ".." by
\* its letters.
SeesAlike ==
  IF kind = "docker"
  THEN /\ \A q \in LinksOf(LastTree) : LastTree[q].link.abs
       /\ \A root \in {StatFile(InContainer, Written(TRUE, DebianRoot))} : IsOk(root) => root.value.type = "dir"
  ELSE /\ kind = "tar" => \A q \in LinksOf(LastTree) : StaysInside(LastTree, q)
       /\ LastTest.kind = "existence" => LastTest.uid = -1 /\ LastTest.gid = -1
       /\ kind = "host" => world.metadata = "readable"

\* A test passes if and only if its check passes on what a process would find in
\* a container of the image: its files by way of every link, its config as it
\* was built and, for the path of an existence test, with the global variables.
VerdictAsInContainer ==
  HasVerdict /\ NoFault(Last(results).num) /\ SeesAlike =>
    CASE LastTest.kind = "metadata" ->
           Last(results).pass =
             MetadataPasses(LastTest, [LastImage.config EXCEPT !.env = ConvertSliceToMap(@)])
      [] LastTest.kind \in {"content", "existence", "license"} ->
           Last(results).pass =
             Passes(LastTest, WithVars(ConvertSliceToMap(LastImage.config.env), {}), InContainer)
      [] OTHER -> TRUE

Patterns(t) ==
  CASE t.kind = "command" -> t.expectedOutput \union t.excludedOutput \union t.expectedError \union t.excludedError
    [] t.kind = "content" -> t.expectedContents \union t.excludedContents
    [] t.kind = "metadata" -> {v.value : v \in {v \in t.envVars \union t.labels : v.isRegex}}
    [] OTHER -> {}

Contradicts(t) ==
  CASE t.kind = "command" ->
         \/ t.expectedOutput \intersect t.excludedOutput # {}
         \/ t.expectedError \intersect t.excludedError # {}
    [] t.kind = "content" -> t.expectedContents \intersect t.excludedContents # {}
    [] t.kind = "metadata" ->
         \/ \E p \in t.exposedPorts, q \in t.unexposedPorts : p.port = q.port /\ q.proto \in {"", p.proto}
         \/ {v.key : v \in t.envVars} \intersect t.unboundEnvVars # {}
         \/ t.volumes \intersect t.unmountedVolumes # {}
    [] OTHER -> FALSE

\* A test never passes, whatever the image, that asks for something and for its
\* absence, or has a pattern that does not compile.
NoContradictionPasses ==
  results # << >> /\ Last(results).pass =>
    /\ ~Contradicts(LastTest)
    /\ \A pattern \in Patterns(LastTest) : pattern.compiles

\* The images that may be tested have absolute links only, each with an end.
HasNoCircle(tree) ==
  \A q \in LinksOf(tree) : tree[q].link.abs /\ Walk(tree, q, TRUE, TRUE, Fuel).end # "no"

NeverCircles ==
  \A id \in Range(world.local) \union Range(world.remote) \union {FromLayout} :
    id # NoImage => HasNoCircle(Images[id].tree)

\* What the calls owe to the outside: no command of a test hangs, no two links
\* send the docker driver in a circle, and no archive is cut short.
CallsReturn ==
  /\ kind = "docker" => NeverCircles
  /\ [](pc # "hung")
  /\ [](\A f \in faults : f.what # "torn")

\* If its calls return, the command comes to an end with an exit code: the user is
\* not asked for ever, no test is left undone and no driver waited for.  Where they
\* do not, nothing in the code sets a limit of time or recovers.
CommandEnds == CallsReturn => <>(pc \in {"refused", "fatal", "end"})

-----------------------------------------------------------------------------
(* What the documentation says and the code does not do.                   *)

\* "These tests can also be used to ensure a file or directory is **not**
\* present in the file system": such a test passes only if there is an image
\* and the file is not in it.
AbsentIsAbsent ==
  results # << >> /\ Last(results).pass /\ LastTest.kind = "existence" /\ ~LastTest.shouldExist =>
    HasVerdict /\ ~IsOk(StatFile(InContainer, LastTest.path))

\* "File content tests open a file on the file system and check its contents":
\* the file that a process in the container would open.
ContentIsOfTheFile ==
  HasVerdict /\ NoFault(Last(results).num) /\ LastTest.kind = "content" =>
    Last(results).pass = Passes(LastTest, << >>, InContainer)
=============================================================================
