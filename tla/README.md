# Verification of container-structure-test

TLA+ models of `container-structure-test`, the TLC runs that check them and the
theorems about them that TLAPS proves. Paths are relative to `src/`.

## 1. The system

`container-structure-test test` reads config files, runs the tests they list
against an image (or the host) through a *driver*, and reports the results.

| Component | Code | State it keeps | Operations |
|---|---|---|---|
| Command line, start-up | `cmd/.../cmd/test.go` 54-204, `cmd/test/util.go` 35-55 | options, driver constructor, report file | `ValidateArgs`, `RunE`, `run`: OCI layout to daemon, pull, confirmation |
| Run | `cmd/test.go` 200-223, `cmd/test/util.go` 57-177, `pkg/types/v1` and `v2` `structure.go` | result channel, `fileProcessed`, deferred calls, results and counts | `runTests`, `Parse`, `RunAll`, `Run...Tests`, `ProcessResults`, `channelToSlice` |
| Tests and checks | `pkg/types/v1`, `pkg/types/v2`, `pkg/utils` | a `TestResult`: `Pass`, `Errors` | `Validate`, `Run` of command, content, existence, license, metadata tests |
| Docker driver | `pkg/drivers/docker_driver.go` | `currentImage`; containers and images at the daemon | `SetEnv`, `Setup`, `ProcessCommand`, file reads, `Destroy` |
| Host driver | `pkg/drivers/host_driver.go` | `GlobalVars`; the environment of the process | `SetEnv`, `Setup`, `Teardown`, `ProcessCommand` |
| Tar driver | `pkg/drivers/tar_driver.go` | the extracted file system, the image's config | `NewTarDriver`, `SetEnv`, file reads, `Destroy` |
| Image retrieval, OCI | `internal/pkgutil/image_utils.go`, `oci_layout.go` | temporary directories | `GetImage`, `ImageFromOCILayout`, `findImageInIndex`, `CleanupImage` |
| Extraction, paths | `internal/pkgutil/tar_utils.go`, `root_path.go`, `fs_utils.go` | the tree being written, pending hard links, modes to restore | `unpackTar`, `resolveHardlink`, `ResolvePathInRoot` |
| Output | `pkg/output`, `pkg/color` | the length of the last banner | `Banner`, `OutputResult`, `FinalResults` |

**How they interact.** `run` makes a channel of capacity 1, starts the goroutine
`runTests` and becomes the collector in `ProcessResults`. For every file,
`runTests` prints a banner, parses the file and calls `RunAll`, which starts a
third goroutine `runAll` and waits on `fileProcessed`. `runAll` goes through the
sections; each test gets a new driver, and its result is sent on the channel.
Drivers are destroyed by an explicit call (file, license and metadata tests) or
by a deferred one when the section of the command tests returns.

**What is hard.** The capacity-1 channel between three goroutines that must not
wait in a circle, and its close; errors on any path, which must become failing
results or the exit code is wrong; deferred calls that pile up in a loop and run
in reverse; series of daemon calls any of which can fail half-way; the
environment of the process as a shared variable with manual undo; a command
that never ends; links that are resolved inside the image and not on the host.

**What makes each component correct.**

- Run: results in order and at most once; nothing sent after the close; no
  circular wait; the summary after all work; exit code 0 only when earned;
  every driver destroyed once and after its teardown.
- Docker driver: a command sees the image its setup made; containers and images
  are gone in the end, or all kept with `--save`.
- Host driver: a command sees the variables of its config; the environment is put
  back.
- Tar driver, retrieval, extraction: the directories are removed; a path never
  resolves through a link to a place outside the tree; the tree is what the
  archive says; the first matching image is found.
- Checks: a result passes exactly when it has no errors.
- Start-up: the driver that runs is the one the options allow; a report that
  was asked for exists.

## 2. The modules

| Module | What it is |
|---|---|
| `Places` | the place of a test in a run and the order of places; extended by `RunContract`, `Pipeline` and `Command` |
| `RunContract` | the abstract specification of a run: no goroutine, channel or driver; `Pipeline` and `Command` refine it |
| `Pipeline` | the run: `runTests`, `runAll`, `ProcessResults` |
| `PipelineProofs` | the invariant of `Pipeline`, the theorems about its results, and that it implements `RunContract` |
| `PipelineDriverProofs` | the drivers and the deferred calls of `Pipeline`; extends `PipelineProofs` |
| `HostDriver` | the environment of the process, driven by the command sections |
| `HostDriverProofs` | the theorems about `HostDriver` |
| `DockerDriver` | containers and images of the tests of one v2 file |
| `DockerDriverProofs` | the theorems about `DockerDriver` |
| `RootPath` | `ResolvePathInRoot`, and the kernel's walk along a path |
| `Extraction` | `unpackTar`: an archive is written to a directory; extends `RootPath` |
| `RootPathProofs` | lemmas about `RootPath`: where a path is resolved to, and that the walk goes there |
| `ExtractionProofs` | the theorems about `Extraction`; extends `RootPathProofs` |
| `Iteration` | a loop up to a bound as a recursive function, evaluated strictly |
| `IterationProofs` | what such a loop keeps; induction over sets of numbers |
| `OciIndex` | `ImageFromOCILayout` and `findImageInIndex` over the files of a layout |
| `FileReads` | `StatFile`, `ReadFile`, `ReadDir` of the three drivers; extends `RootPath` |
| `Checks` | `Validate` and the check of each kind of test; extends `FileReads` |
| `Startup` | from the arguments to the first test; extends `OciIndex` and `Checks` |
| `Command` | a whole command: `Startup`, then its tests one after the other, each with a driver |
| `CommandProofs` | the theorems about `Command`, its refinement of `RunContract`, the search of a layout and the reads of the drivers; extends `RootPathProofs` |
| `MCPipeline`, `MCHostDriver`, `MCDockerDriver`, `MCExtraction`, `MCCommand` | the constants of the TLC runs |

Operators whose comment begins with *MUTANT of* are not part of a specification:
each is the definition it names with one plausible bug, kept to show that a
property notices it.

### Pipeline

One variable or group for each goroutine's local state: `pcTests`, `file`
(`runTests`); `pcRun`, `section`, `num`, `deferred` (`runAll`; `deferred` is Go's
stack of deferred calls, next to run first); `pcMain`, `results`, `totalPass`,
`totalFail` (`ProcessResults`). `channel`, `closed` and `outbox` are the result
channel: a goroutine that executes `channel <- r` puts `r` into `outbox` and does
nothing until `Send` moves it into the channel. `live` is the set of tests whose
driver exists. `opts` is the command line: the files (schema and number of tests
of each section), the output format, whether a report was asked for.

Each action is a piece of code between two points where another goroutine can
notice: `NextFile`, `ParseOk`, `ParseError`, `FileDone`, `CloseChannel` for
`runTests`; `NextTest`/`InvalidTest` (`Validate`), `NewDriver`, `SetEnv`,
`Setup`, each with its error, `RunTest`, `DestroyDriver`, `EndSection`,
`UnwindDeferred`, `NextSection`, `SignalFileProcessed` for `runAll`; `Collect`,
`EndCollect`, `Tally`, `FinalResults`, `WriteReport` with their errors and
`Return` for the main goroutine. The schemas differ in the actions: v1 drops
invalid tests and ends the process when a driver cannot be made; v2 sends a
failing result. `BreakOff` is the end of the process in the middle of a driver
call: `logrus.Fatalf` in the host driver when a command cannot be started, the
docker driver's panic at the end of an archive that is cut short. `Hang` is a call
that never returns: a command, which is waited for with no limit of time, or a
`ReadFile` of the docker driver that is sent round a circle of links.

`channelToSlice`'s error (a value of another type in the channel) is left out:
every send in the program sends a `*TestResult`.

### HostDriver

`env` is the environment of the process. A variable's value is a sequence of
pieces; an `EnvVar` is an optional reference to a variable followed by a literal,
which is what `os.ExpandEnv` needs to make order matter. `undo` is the stack of
deferred teardowns, `own` what the call under way saved. `SetEnvVars` and
`ResetEnvVars` are the loops of the code (`Iterate`). The variables a command run on
the host changes for itself do not reach the process and are not modelled. A setup
or teardown command, or the one of a test, may fail to start (`CannotStart`); one
that never returns is a behaviour that stops there, which safety allows anyway.

### DockerDriver

The daemon is external. `Calls` lists the calls of each operation (create, start,
wait, commit, ...) and `call` counts those made; every one may fail (`CallError`).
An image is the test and the sequence of commits that made it, so "built on" is
the prefix relation. `RemoveImage` is the daemon's rule: an image with a
container is not removed, and the untagged parents go with it up to the first
that is held. `abandoned` (history) are the containers no code path will remove.
The image under test is taken to have a name, as it does when it is given by
`--image`. The variables that a container is given are not in this model
(`HostDriver` and `Command` have those of the other drivers and of `SetEnv`), nor
that `exec` drops the test's own ones when run options are set.

### RootPath and Extraction

`tree` is what has been written: a function from places (sequences of names) to
directories, files and symbolic links; `from` is the number of the entry that
made a node, 0 if none did. `pending` is the map `hardlinks`, `perms` the list
`originalPerms`. Each kind of entry is an action (`UnpackDir`, `UnpackReg`,
`UnpackSym`, `UnpackLink`), then come the links that were put off
(`PendingLink`, in any order as `sync.Map.Range` promises none) and the modes
(`RestorePerm`). A mode is its owner's bits; contents are not modelled.

`ResolvePathInRoot` is a function of the tree: each round of `around` replaces
the first link on the way, as the loop does between two restarts. `Walk` is the
reference: what the kernel does, confined to the tree or on the host. Where the
code asks the host about a path with an absolute link in it (`os.Stat`,
`os.Chmod`), the answer depends on files the model does not have, and both are
taken; that something is hard-linked from or to the outside is left out.
`ReadError` stands for every failing read of the archive and every call to the
operating system that fails for a reason outside the model (no space, no rights).
A prefix in the whitelist skips an entry; no caller passes one, and it is not
modelled.

### OciIndex

A layout is what its `index.json` lists (`readable`, `manifests`), and the blobs
that can be read, indexes and images apart, by digest; a digest that is in
neither function is a blob that is missing or broken. A descriptor has the set of
platforms it satisfies, which is empty when it names none. `SearchIndex` is
the loop of `findImageInIndex` over the descriptors of one index, given what was
found in the indexes below; `NoImageFound` is the sentinel `errNoImageFound` and
`Failed` every other error. The recursion has a depth limit, so
`FindImageInIndex` works it out from the deepest level up (`SearchAll`, once for
every level): what the code would find in a subtree does not depend on when it
looks. `FirstInLine` and
`Unrolled` are the reference: the descriptors of the whole tree in one line, in
which an index stands for the line below it (`LineOf`) down to the deepest level
that is looked at, and the first of them that decides.

### FileReads

A tree is a function from places to nodes, as in `RootPath`, with the owner and
the executable bits of each node and a file's contents. Each driver has its own
way to a file, and each is modelled by what it does with links:

- `TarStat`, `TarRead`, `TarList` go through `ResolvePathInRoot` over the tree as
  it was extracted (the forced `x` of the owner stays, see `Extraction`);
- `HostStat`, `HostRead`, `HostList` are the kernel's walk;
- `DockerStat`, `DockerRead`, `DockerList` search the archive that the daemon
  makes of a path (`Archived`, external: the links before the last component are
  followed, the last is not). `DockerRead` takes a link's target as it is
  written; after `Fuel` targets the answer is `Circle`. `DockerList` sees only
  the directories in the archive and none behind a link.

`View` says who looks and at which tree. Besides the drivers there are
`container`, a process whose root is the tree, and `nothing`, a driver whose
calls fail.

### Checks

`Validate`, and for each kind of test what makes it pass, on what the driver
answered. A pattern is a record of whether it compiles and of what it matches. A
path or value that names a variable is one that `References` maps to the
variable. A field of a test that may be left out and is compared as a whole
(`cmd`, `entrypoint`, `permissions`) is a set of at most one value.

### Startup and Command

`given` is the scenario: the arguments, the lines the user will type, the world
(the images of the daemon, of the registry and in archives, the layout, the
files of the host and its metadata file), the global variables, the tests in the
order of their sections, the outputs a command may have and the schema. `pc` goes
through `RunE` and `run`: `Refuse`, `OpenReport`; `NoLayout`, `LoadLayout` and
its errors; `PullImage`; `UserConfirmation`; `InitDriverImpl`. Then each test is
validated (`InvalidTest`, `EmptyTest`), gets a driver (`NewDriver`, or
`NewTarDriver` and then `Extract`, `NotRetrieved`, `NotExtracted` for each source
that is tried), its variables (`SetEnv`), its setup (`Setup`, `SetupError`) and
is run (`RunCommand`, `RunFileTest`, `RunMetadataTest`). `dirs` are the temporary
directories on the disk, each named by the test and the source it was made for;
`deferred` are those that the deferred calls of the command section will remove
(`EndOfCommands`). Schema v1 differs in `Fail` (no result), `NoDriverMade`
(the process ends), `AfterNewDriver` (no `SetEnv`), `DefersDestroy` and `PathOf`
(no variables in a path).

Any call that can fail does so by `Fault`, which adds the test and the kind of
call to `faults`; at most `MaxFaults` fail in a command. `faults` is a history
variable: no guard but that bound reads it. `ArchiveTorn` is the archive that is
cut short: `StatFile`, `ReadFile` and `ReadDir` look only for `io.EOF` and then
use the header that is nil. `Circling` is `ReadFile` calling itself for ever. The commands of a setup and of a
command test, with the docker or the host driver, may never return (`Hang`), as
neither `WaitContainer` nor `Wait` has a limit of time, and the host driver ends
the process when one cannot be started (`CannotStart`). The daemon, the registry
and the disk are taken to answer every other call, well or with an error.
Teardown commands come after the last result of the section and are in `Pipeline`
and `HostDriver` only.

The goroutines are not in `Command`: they are the subject of `Pipeline`, in which
the tests come in the same order and a test's outcome is left open. `Command` has
no order of its own to add, and what is open there is decided here. What the two
have in common is `RunContract`: `Pipeline` keeps it with any outcome of a test
and every schedule of the goroutines, `Command` with what the tests, drivers and
failing calls really do and one goroutine. In `Command` a test's place is its
section (`SectionOf`) and its number in the one file, and the contract's outcome
is `Ending`: `fatal` for a refusal, a `log.Fatal` or a panic, otherwise what the
results add up to.

## 3. What the runs check

| Run | Config | States | Shows |
|---|---|---|---|
| `pipeline` | `MCPipeline.cfg` | 14728 | all properties of the run, for six command lines |
| `pipeline_banner` | `MCPipelineBanner.cfg` | - | violation: results are not displayed per file |
| `pipeline_v1` | `MCPipelineV1.cfg` | - | violation: v1 drops tests and succeeds |
| `host` | `MCHostDriver.cfg` | 158450 | the environment is put back; commands see the literals of their config |
| `host_local` | `MCHostDriverLocal.cfg` | - | violation: test-local variables reach later tests |
| `host_substitution` | `MCHostDriverSubstitution.cfg` | - | violation: `$PATH` in a test's `PATH` is expanded twice |
| `docker` | `MCDockerDriver.cfg` | 2429 | images build on each other; what stays behind is known |
| `extraction` | `MCExtraction.cfg` | 50793 | the tree is what the archive says, in whatever order it comes |
| `extraction_symlinks` | `MCExtractionSymlinks.cfg` | - | violation: a link before its directory is not made |
| `command` | `MCCommand.cfg` | 68556 | what is tested, what stays on the disk, what the verdicts mean |
| `absent` | `MCCommandAbsent.cfg` | - | violation: a file counts as absent when there is no image |
| `file_links` | `MCCommandLinks.cfg` | - | violation: a relative link is looked for at the top of the image |

**Properties of the run.** `NoSendOnClosed`, `InOrderOnce`, `SummaryIsLast`,
`DeferredFindDriver`, `YoungestFirst`, `ExitZeroIsEarned` and
`SuccessLeavesNothing` are invariants. `Termination` says that the process
ends if every driver call returns (`Hang` is never taken): no goroutine waits for
another for ever. When a call does not return, nothing in the code has a limit of
time, and the run does not end. `ContractSpec` is the refinement of `RunContract`:
`reported` is `results \o channel \o outbox`, so a result counts as reported when
its test is done with it, and moving it through the channel is a stutter.

**Properties of the drivers.** `CommandSeesItsLiterals` is about the names to which
the config gives a literal, and the test's own values that refer to one of those:
a command finds them as written, those of its test before the globals, whatever
the tests before it left behind. Of a value that refers to anything else the code
does not promise as much, and the property leaves it out: it is expanded against
what the process has by then, which another test may have set (`TestLocalIsLocal`),
and more than once (`SubstitutedOnce`); both are violations. `SectionRestores`
excuses four kinds of variable for which the code's bookkeeping is not enough (see
`Excused`): the globals of v2, a name set twice in one list, a variable that was set but empty, what a
failed `Setup` set. `OnlyAbandonedStay` and `ImagesGoWithContainers` say exactly
what a run without `--save` leaves at the daemon.

**Properties of the extraction.** `DirsStayOpen` and `ModesAsShipped` are the two
sides of the forced owner bits: a directory can be written to for as long as
entries come, and has its own mode in the end, but for the owner's `x`.
`ModesAsShipped` has one exception, which the proof brought to light: modes are
noted by path, so when a link takes the place of a directory that was noted
(`os.RemoveAll` and `os.Symlink` of a later entry), the `os.Chmod` at the end
follows the link and gives the mode to another directory of the tree. The
property says that such a mode is then of an entry of which nothing is left.
`HardLinksAreMade` is about links to regular files, before or after their source,
in an archive in which each name means its own place (`Straight`): the other
entries may be anything, but no name is there twice, leads up or goes through a
link. Its proof brought to light why: a file that is written a second time, by a
name that leads through a symbolic link of the archive, is a new file, and a hard
link made before is still the old one.
`ResolutionIsWalk` compares `ResolvePathInRoot` with the walk in every tree that
can come about, for paths and links whose `..` are at the front: after a name,
the code removes the name with its `..` (`path.Clean`), which the kernel does not
do when the name is a link. Where the code finds something, the walk ends there;
where the walk ends, the code gets, unless it gave up with a link still ahead
(`LinksLeft`).

**Properties of the command.**

- `FindsFirst`: the recursive search of nested indexes finds what the line of all
  descriptors has first, and an error on the way is never taken for "not here".
- `SameImage`: every test of the tar driver looks for its image anew, and
  they all find the same one, the first of layout, archive, daemon and registry
  that has it, whatever calls fail: only a test for which the daemon's image could
  not be retrieved or unpacked may be about another, which is that of the registry.
- `LoadedIsTested`: with the docker driver a layout is tested as the image of its
  tag, though `daemon.Write` may load nothing without saying so.
- `OnlyFailuresStay`: without `--save`, a temporary directory outlives the command
  only after one of two failures, both of which the code has (`GetImage` that
  cannot unpack; `SetEnv` that fails for a file test).
- `HostIsConfirmed`: nothing is run on the host before a yes, or `--force`.
- `VerdictAsInContainer`: a verdict is that of the same check on what a process in
  a container of the image is told. `SeesAlike` lists the cases it leaves out,
  each of them a known difference between a driver and a container: relative links
  and packages behind a link (docker), owners (tar, host), links
  that lead out of the image by `..` (tar) and a metadata file that cannot be read
  (host). A test of which a call failed has no such verdict (`NoFault`).
- `NoContradictionPasses`: a test that asks for a thing and for its absence, or has
  a pattern that does not compile, fails on every image.
- `CommandEnds`: every command ends with an exit code, if what it calls returns
  (`CallsReturn`): no setup or test command hangs, no links send the docker driver
  in a circle or past a relative one (`NeverCircles`), no archive is cut short (which
  ends the process with a panic). The code has no limit of time, bound or recovery
  for any of the three. What is left is that the command does not ask the user for
  ever, and that no test is left undone, whichever other calls fail.
- `CommandContract`: `Command` implements `RunContract`. Wherever a v2 test stops
  (invalid, no driver, no variables, no setup), it has a result when the next one
  is begun; no test has two, and they come in the order of the sections. A v1
  test is owed nothing, and neither is a metadata test that asks for nothing
  (`IsOwed`).

**Bounds and why they are enough.** `MCPipeline`: three command tests in a row
make the deferred calls pile up past one; three files make `fileProcessed` be
used again; both schemas, every section, every output format and the file without
tests occur. The channel has the code's capacity, 1. A test that fails does not
depend on any other, so one test of a kind after another of the same kind reaches
every pair of steps. `MCHostDriver`: two names and values that refer to each
other are the smallest case in which the order of undoing matters; two tests and
a second file show what is carried over. `MCDockerDriver`: two setup commands
make a chain of images, three tests make deferred destroys overlap with a file
test. `MCExtraction`: archives of three entries have a file, its directory and a
link to or above it in every order; `MaxLinks` is 6 where the code has 255, more
than the links a tree of three entries can lead through unless they go in a
circle; `Fuel` is 22, one more than a walk takes along a path of three parts
through six links of three parts each (`Reach` says it in general: the longest
path or link for which `Fuel` is enough). `MCCommand` has
four groups of scenarios and, of two of them, what schema v1 can say: the
arguments in every combination that `ValidateArgs` and `RunE` tell apart; the
places an image may be, with up to three tests that each look for it; layouts of
three indexes that hold each other, with descriptors that are missing, broken,
without a platform or of another kind; and each of 66 tests on each of six images
with each driver. The images are the smallest with a link to a file, a link to a
directory, a relative link, a circle, a license that is not allowed, and packages
behind a link. `MaxLinks` is 2, which no path of theirs needs more than, except
round the circle; with `Fuel` 16 the longest link, of five parts, is within
`Reach`. `MaxSubIndexes` is 1 where the code has 5: with three indexes the
limit is met in the middle of the search. `MaxFaults` is 2: the directory that
`GetImage` leaves when it cannot unpack the daemon's image, and the failure of
the registry, or of `SetEnv`, after it. `MaxFaults` is the only bound in a guard,
and no run has a state constraint.

**Fairness.** `Pipeline` assumes weak fairness of each goroutine (`Send`,
`RunTests`, `RunAll`, `Main`): the Go runtime schedules every goroutine that can
run, and a blocked send proceeds once there is room. Nothing is assumed of which
branch a call takes. A call that never returns (`Hang`) is a step like any other,
after which its goroutine has none; that it is not taken is a premise of
`Termination` and `CommandEnds`, no fairness. `Command` assumes
weak fairness of the one goroutine it shows: the process goes on while it can.
The user's answers are a finite list after which the input ends, as `Scanln`
reports it. `Circling` is a step that changes nothing, so that fairness does not
get the process out of it. `HostDriver`, `DockerDriver` and `Extraction` state
safety only.

**Deadlock** is checked in every run: the ends of a run are explicit (`Finished`,
`Stuck`, `Terminated`), so any other state without a successor is an error.

### What the violations say

Each of these seven runs checks a sentence of a document or comment that the code
does not keep; `findings` in `PROJECT.json` quotes them.

## 4. What is proved

Every safety invariant of the runs (`VerdictAsInContainer` for the tar and the docker
driver, for paths of names) and both refinements of `RunContract`, for every value of
the constants that meets the named assumptions. Each proof has one inductive invariant (`IInv`; `DInv` beside it
for the drivers), a lemma for each action that it is kept, and a short theorem
for each property.

**The run** (`OptionsAssumption`: there is a file, the counts are numbers;
`ChanCapAssumption`: the capacity is at least 1).

- `PipelineProofs`: `TypeCorrect` (`TypeOK`), `ClosedForGood`
  (`NoSendOnClosed`), `ResultsInOrder` (`InOrderOnce`), `SummaryAtTheEnd`
  (`SummaryIsLast`), `ExitCode` (`ExitZeroIsEarned`). `IInv` is `TypeOK`;
  `Control`, which says which program counters of the three goroutines go
  together and what `closed` implies; `Complete`, that every test of a v2 file
  before the place where `runAll` stands has its result in `Emitted`, or its file
  could not be parsed; `Ordered`; and `Account`, that the tally is right.
  `NoSendOnClosed` needs to know that `runAll` is idle whenever `runTests` is
  between files; `ExitZeroIsEarned` needs the completeness of what was emitted,
  carried through the channel to `results`.
- `PipelineDriverProofs`: `DeferredCallsFindDrivers` (`DeferredFindDriver`),
  `DeferredYoungestFirst` (`YoungestFirst`), `SuccessIsClean`
  (`SuccessLeavesNothing`). `DInv` adds whose calls are on the stack at each point
  of a test (`DeferredHere`), their order (`Stacked`) and, for every driver that
  exists, the deferred call, the step of `runAll` or the failed result that
  accounts for it (`Accounted`).
- `PipelineProofs`, at its end: `RunImplementsContract`, the refinement mapping of
  `Pipeline` into `RunContract`, action by action.

**The host driver** (`HostAssumption`, `RunsAssumption`: what a config file and an
environment are). `EnvironmentIsRestored` (`SectionRestores`), `LiteralsAreSeen`
(`CommandSeesItsLiterals`: the literals of a config, and the test's values that
refer to one), `TypeCorrect`. The invariant follows a variable `k`
through the stack of teardowns (`Kept`): what it was when the section began is
what the *last* teardown that names it puts back, or what the Setup under way has
noted, or no teardown names it and it is in the environment. It is the last one
because every teardown before it puts back what some other test had set. That
`ProcessCommand` does no harm needs `Noted`: it sets and puts back only names
that the youngest teardown has too. Below it are the loops: `SetEnvVarsSets` and
`ResetEnvVarsSets` say what a list of variables does to each name, `OriginalsAre`
that what is noted of a name set once is its value before.

**The docker driver** (`FilesAssumption`, `RemovalAssumption`).
`CommandsBuildOnSetup` (`CommandBuildsOnSetup`), `ContainersAreRemoved`
(`OnlyAbandonedStay`), `ImagesAreRemoved` (`ImagesGoWithContainers`),
`EverythingIsSaved` (`SaveKeeps`), `TypeCorrect`. The invariant says what the
current image was built by (`Built`), which containers there are (`Containers`)
and what accounts for each image (`Images`): a container that holds it, or a
Destroy to come whose image was built on it.

**The extraction** (`ArchivesAssumption`: only a directory can be the top of the
tree or have `..` for its last name; `NamesAssumption`: nothing is called `..`;
`MaxLinksAssumption`; `FuelAssumption` and `ReachAssumption`: the walk of the
reference has a step for each part of the path and of the links that the code may
follow). `TypeCorrect` (`TypeOK`: it is a tree), `DirsOpen`
(`DirsStayOpen`), `ModesRestored` (`ModesAsShipped`). The invariant adds that an
entry made at most one directory (`Once`), that each mode noted is of an entry
that made the directory in that place or is gone (`Noted`), and that each
directory has its mode or is still owed it (`Owed`). The lemmas about `RootPath`
say that a path is resolved to a place, and to one below the top when it ends in a
name.

- `HardLinksMade` (`HardLinksAreMade`). `HInv` says of a `Straight` archive what
  is in the place of each name so far: a file that was read is in its place
  (`FilesThere`), a link to one is made or pending with that source
  (`LinksThere`, `PutOff`), and whatever else is not a directory was made by an
  entry of that very name (`FilesNamed`). Each kind of entry keeps it because it
  writes at its own name, and removes only what is there or below.
- `ResolvedAsWalked` (`ResolutionIsWalk`). The loop of the code and the walk are
  two sequences of states, and the proof lets them run side by side:
  after each round the walk has been, or will be within the steps that are left
  to it, on the way to the place the round resolved to (`OnTheWay`), with the
  parts before it all directories. A round that follows a link (`Follow`) takes the
  walk past the directories before the link (`Along`), through the link, up the
  `..` at the front of its target (`GoUp`), and on to the new place. Each round costs no
  more steps than the longest path has parts (`Budget`), hence the assumption on
  `Fuel`. Where nothing is left to follow, the walk goes down to the same place
  (`FoundIsWalk`); where the walk ends, no round was refused (`NoRoundRefuses`,
  `WalkIsFound`). That the links of the tree are no longer than those shipped is
  an invariant of its own (`LinksShipped`).

**The command** (`ScenariosAssumption`; `ImagesAssumption`: an image holds a tree,
whose links are within reach; `MaxFaultsAssumption`, `MaxSubIndexesAssumption` and
those of `RootPath`). `HostNeedsConfirmation`
(`HostIsConfirmed`), `DirectoriesAreRemoved` (`OnlyFailuresStay`),
`LayoutIsTested` (`LoadedIsTested`), `TestsSeeOneImage` (`SameImage`),
`ContradictionsFail` (`NoContradictionPasses`), `TypeCorrect`; and of the search,
`LayoutYields`: for indexes of any depth, it yields an image the layout has, the
sentinel or an error; and `FirstIsFound` (`FindsFirst`): by induction over the
levels of the search, and over the descriptors of an index, what is found in an
index is what its line has first, as a line that is followed by another decides
before it. The invariant has a part for each property, on top of what
is known at each place of the program (`Flow`). `ScenariosAssumption` says, among
other things, that the tests come in the order of their sections.

- `CommandKeepsContract` (`CommandContract`): every step of `Command` is a step of
  `RunContract` or a stutter. Four kinds of step are told apart (`TheResults`):
  one that adds a result and goes to the next test, one that goes on without a
  result (a test that is owed none), one that quits, and the rest. Beside `IInv` it
  needs that the results are of tests that are over, in their order (`Numbered`),
  and that each of those that is owed a result has it (`Answered`). The contract's
  order of places is that of the tests because of their sections
  (`PlacesInOrder`).

- `VerdictsRestOnReads` (`VerdictAsInContainer`): what is proved for
  every driver is that a verdict is that of its check on what the driver shows,
  whatever came before it and whatever failed (`VerdictsAreChecked`, the invariant
  `VInv`). It is carried from the making of the driver, over `SetEnv`, to `Run`:
  the driver has the variables of its image as it was built, or with all global
  ones, or a call of the test failed; and the first happens to an existence test
  only in schema v1, which expands no path (`Equipped`). For a metadata test, which
  reads nothing, this is `VerdictAsInContainer` itself. For a test of files the
  reads remain (`ReadsAlike`), of the paths that its check asks for (`PathsAsked`,
  `ChecksAlike`), and they are where the drivers differ: the two theorems below. Those
  of the host driver are the kernel's walk, as the container's are, so that there is
  nothing to prove of them.
- `TarVerdicts` (`VerdictAsInContainer`), for tests whose paths are names, within
  reach, with no more links on them than are followed (`AsksDirectly`). Under
  `SeesAlike` the links of the tree stay inside it, so that each path is resolved to
  where the walk ends, or to nothing where the walk finds nothing (`DirectIsWalked`,
  from the lemmas under `ResolvedAsWalked`); that the tree was unpacked changes
  neither its links nor its places (`ExtractedIsTree`).
- `DockerVerdicts` (`VerdictAsInContainer`), for tests whose paths are names that do
  not lead in a circle, when the links of the image, which are absolute under
  `SeesAlike`, have no `..` either (`AsksStraight`). The archive of a path is looked
  for in the directory of the path: two walks are compared, one that has the last
  name still to go after all that the other has (`OneMore`, `ReachedAfter`), to say
  that the archive begins where the walk ends or is led on (`ArchiveBegins`).
  `ReadFile` follows the links by itself, each from a path of its own. That chain
  and the one walk of the process go together: the path that is read next is where
  the walk is at some later step, or both have come to the end (`Comes`), and since
  the walk takes a step for each link the chain ends within `Fuel` (`DockerReads`).
  What is listed of the packages has the same directories in it (`DockerPackages`).

**Loops.** The induction theorems of the library have an operator as a parameter,
which the installed provers cannot instantiate. `IterationProofs` says the same of
sets: a set of numbers that has 0 and with each number the next has them all
(`NatSetInduction`, from the well-foundedness of `<`). A loop whose steps are
functions exists (`LoopExists`) and stays where each of its steps does
(`LoopStays`); what is not changed from a step on is in the end what it was there
(`SameFrom`); two loops that take the same steps end alike (`SameLoop`).

**Only model-checked.** `Termination` and `CommandEnds` are liveness, which the
prover cannot do under fairness. `VerdictAsInContainer` with the tar or the docker
driver for a path with `..`, and for one that leads in a circle or through too many
links: with `..` after a name that is a link the daemon and the driver, which go by
the letters of the path, do leave the walk, and the images of the run have no such
path. `VerdictAsInContainer` with the host driver. The seven violations are TLC's, as a proof cannot find them.

## 5. Not modelled

- What go-containerregistry, the Docker client and the registry do: an image is
  there or not, and a call succeeds or fails. `transport_builder.go` only chooses
  a transport.
- The layers and the cache directory of `GetImage`, and the helpers of
  `image_utils.go` and `fs_utils.go` that nothing calls, or that only read a tree.
- What `UnmarshalYAML` fills in for fields that are not given (`shouldExist`, the
  owner -1): the tests of `Command` have their values. That a JSON config does
  not go through it is a difference in the values and not in what is done with
  them.
- A path that ends in `..`, read with the docker driver (no entry of an archive
  has that name, `FileReads` only says so of `StatFile`), and a link whose
  target ends in it.
- What a regular expression matches, what a command prints, layout, wording and
  colours of the output (`pkg/output`, `pkg/color`).
- Flags that only set a value or the level of the log; version and build files.

## 6. Plan

1. `Places`, `RunContract`, `Pipeline`, `PipelineProofs`, `HostDriver`,
   `DockerDriver`: done.
2. `RootPath`, `Extraction`: done.
3. `OciIndex`, `FileReads`, `Checks`, `Startup`, `Command`: done.
4. Proofs of `Pipeline`, `HostDriver`, `DockerDriver`, `Extraction` and `Command`,
   and of the refinement of `RunContract`: done.
5. `FindsFirst`, `HardLinksAreMade`, `ResolutionIsWalk`, and `Command` as a second
   implementation of `RunContract`: done.
6. `VerdictAsInContainer`, with the tar and the docker driver: done, for paths of
   names.
7. The global variables that v2 leaves set in the process, as a property
   (`SubstitutedOnce`): done.
