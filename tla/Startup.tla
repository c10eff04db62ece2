------------------------------ MODULE Startup ------------------------------
(***************************************************************************)
(* "container-structure-test test" from its arguments to its first test:   *)
(* ValidateArgs, RunE and run (cmd/container-structure-test/app/cmd), up   *)
(* to the goroutine that runs the tests.                                   *)
(***************************************************************************)
EXTENDS OciIndex, Checks

CONSTANTS
  Scenarios, \* what the command is given: arguments, answers, tests, world
  Images,    \* the images there are: config and tree
  MaxFaults  \* how many calls may fail in a command

ASSUME MaxFaultsAssumption == MaxFaults \in Nat

\* The section of a test, as runAll takes them.
SectionOf(test) ==
  CASE test.kind = "command" -> 1
    [] test.kind = "content" -> 2
    [] test.kind = "existence" -> 3
    [] test.kind = "license" -> 4
    [] test.kind = "metadata" -> 5

NoImage == "no image"

ASSUME ImagesAssumption ==
  /\ NoImage \notin DOMAIN Images
  /\ \A id \in DOMAIN Images :
       /\ "env" \in DOMAIN Images[id].config /\ IsTree(Images[id].tree)
       /\ \A q \in DOMAIN Images[id].tree :
            /\ {"type", "exec"} \subseteq DOMAIN Images[id].tree[q]
            /\ Images[id].tree[q].type = "sym" => Len(Images[id].tree[q].link.parts) <= Reach

ASSUME ScenariosAssumption ==
  \A s \in Scenarios :
    /\ s.answers \in Seq(STRING) /\ s.tests \in Seq(Range(s.tests)) /\ s.schema \in {"v1", "v2"}
    /\ \A i, j \in DOMAIN s.tests : i <= j => SectionOf(s.tests[i]) \in 1..SectionOf(s.tests[j])
    /\ UNION {Range(s.world.local), Range(s.world.remote), Range(s.world.archives),
              Range(s.world.layout.images), {s.world.host}} \subseteq DOMAIN Images
    /\ \A digest \in DOMAIN s.world.layout.indexes :
         /\ s.world.layout.indexes[digest] \in Seq(Range(s.world.layout.indexes[digest]))
         /\ \A desc \in Range(s.world.layout.indexes[digest]) : desc.media \in Media

VARIABLES
  given,    \* the scenario, never changed
  pc,
  answers,  \* the lines of the user that were not read yet
  image,    \* args.Image
  local,    \* the images of the daemon by name
  report,   \* the report file was created
  faults    \* the calls that failed, for the properties only

preparation == <<given, answers, image, local, report>>

args  == given.args
world == given.world
kind  == args.driver

Name(base, ext) == [base |-> base, ext |-> ext]
NoName == Name("", "")

\* IsTar: filepath.Ext is what follows the last dot, so that ".tar.gz", whose
\* extension is ".gz", is not one.
IsTar(name) == name.ext \in {".tar", ".tgz"}

ImageIn(map, name) == IF name \in DOMAIN map THEN map[name] ELSE NoImage

\* A call that may fail does, now and then: one of test num, or of the start
\* (0).
Fault(num, what) ==
  /\ Cardinality(faults) < MaxFaults
  /\ faults' = faults \union {[num |-> num, what |-> what]}

Proceed(to) == pc' = to /\ UNCHANGED <<preparation, faults>>

-----------------------------------------------------------------------------
(* The arguments.                                                          *)

StartupInit ==
  /\ given \in Scenarios
  /\ pc = "args"
  /\ answers = given.answers /\ image = given.args.image /\ local = given.world.local
  /\ report = FALSE
  /\ faults = {}

\* ValidateArgs.
ValidArgs ==
  /\ IF kind = "host" THEN args.metadata /\ args.image = NoName
     ELSE (args.image # NoName \/ args.layout) /\ ~args.metadata
  /\ args.configs

\* The flags that exclude each other, which cobra looks at before RunE.
ValidFlags == ~(args.layout /\ (args.image # NoName \/ args.pull))

\* RunE: a report is never text, and is JSON when no format is given.
ValidReport == IF args.report THEN args.format # "text" ELSE args.format = "not given"

Refuse ==
  /\ pc = "args" /\ ~(ValidArgs /\ ValidFlags /\ ValidReport)
  /\ Proceed("refused")

\* os.Create, before anything else is looked at.
OpenReport ==
  /\ pc = "args" /\ ValidArgs /\ ValidFlags /\ ValidReport
  /\ \/ /\ report' = args.report
        /\ pc' = "layout"
        /\ UNCHANGED faults
     \/ /\ args.report /\ Fault(0, "report")
        /\ pc' = "refused"
        /\ UNCHANGED report
  /\ UNCHANGED <<given, answers, image, local>>

-----------------------------------------------------------------------------
(* run: the preparation.  logrus.Fatal ends the process.                   *)

Fatal == Proceed("fatal")

NoLayout ==
  /\ pc = "layout" /\ (args.layout => kind = "tar")
  /\ Proceed("pull")

LayoutUnsupported ==
  /\ pc = "layout" /\ args.layout /\ kind \notin {"docker", "tar"}
  /\ Fatal

FromLayout ==
  LET r == ImageFromOCILayout(world.layout, args.platform)
  IN IF r.kind = "image" THEN world.layout.images[r.digest] ELSE NoImage

\* The tag for the daemon: the reference annotation or --default-image-tag.
LayoutTag ==
  LET ref == IF FromLayout = NoImage THEN "" ELSE world.layout.ref
  IN IF ref # "" /\ ~args.ignoreRef THEN ref ELSE args.defaultTag

\* The image and the tag, if there are.
LayoutIds  == {FromLayout} \ {NoImage}
LayoutTags == IF LayoutTag \in {"", "unparsable"} THEN {} ELSE {Name(LayoutTag, "")}

LayoutUnusable ==
  /\ pc = "layout" /\ args.layout /\ kind = "docker"
  /\ LayoutIds = {} \/ LayoutTags = {}
  /\ Fatal

\* MUTANT of LoadLayout: the image is not looked for after it was written.
LoadLayoutTrusting ==
  /\ pc = "layout" /\ args.layout /\ kind = "docker"
  /\ \E id \in LayoutIds, tag \in LayoutTags :
       /\ \/ local' = Put(local, tag, id) /\ UNCHANGED faults
          \/ UNCHANGED local /\ Fault(0, "load")
       /\ image' = tag
       /\ pc' = "pull"
  /\ UNCHANGED <<given, answers, report>>

\* daemon.Write may load nothing and not say so: the image is looked for, and
\* one that had the tag before is as good.
LoadLayout ==
  /\ pc = "layout" /\ args.layout /\ kind = "docker"
  /\ \E id \in LayoutIds, tag \in LayoutTags :
       /\ \/ local' = Put(local, tag, id) /\ UNCHANGED faults
          \/ UNCHANGED local /\ Fault(0, "load")
       /\ IF tag \in DOMAIN local'
          THEN image' = tag /\ pc' = "pull"
          ELSE UNCHANGED image /\ pc' = "fatal"
  /\ UNCHANGED <<given, answers, report>>

\* Writing the image, or looking for it afterwards, fails and says so.
LoadLayoutError ==
  /\ pc = "layout" /\ args.layout /\ kind = "docker"
  /\ \E id \in LayoutIds, tag \in LayoutTags : local' \in {local, Put(local, tag, id)}
  /\ Fault(0, "load")
  /\ pc' = "fatal"
  /\ UNCHANGED <<given, answers, image, report>>

NoPull ==
  /\ pc = "pull" /\ ~args.pull
  /\ Proceed("confirm")

PullImage ==
  /\ pc = "pull" /\ args.pull /\ kind = "docker" /\ image \in DOMAIN world.remote
  /\ local' = Put(local, image, world.remote[image])
  /\ pc' = "confirm"
  /\ UNCHANGED <<given, answers, image, report, faults>>

PullError ==
  /\ pc = "pull" /\ args.pull
  /\ IF kind = "docker" /\ image \in DOMAIN world.remote THEN Fault(0, "pull") ELSE UNCHANGED faults
  /\ pc' = "fatal"
  /\ UNCHANGED preparation

\* MUTANT of UserConfirmation: what is neither yes nor no is taken for yes.
UserConfirmationLoose ==
  /\ pc = "confirm" /\ kind = "host" /\ ~args.force
  /\ IF answers = << >>
     THEN pc' = "fatal" /\ UNCHANGED answers
     ELSE /\ answers' = Tail(answers)
          /\ IF Head(answers) = "no" THEN pc' = "fatal" ELSE pc' = "init"
  /\ UNCHANGED <<given, image, local, report, faults>>

\* MUTANT of UserConfirmation: the question is asked again when there is no line
\* to read.
UserConfirmationInsists ==
  /\ pc = "confirm" /\ kind = "host" /\ ~args.force
  /\ IF answers = << >>
     THEN UNCHANGED <<pc, answers>>
     ELSE /\ answers' = Tail(answers)
          /\ CASE Head(answers) = "yes" -> pc' = "init"
               [] Head(answers) = "no"  -> pc' = "fatal"
               [] OTHER -> pc' = "confirm"
  /\ UNCHANGED <<given, image, local, report, faults>>

\* UserConfirmation: what is neither yes nor no is asked again, and when there
\* is no line to read the answer is no.
UserConfirmation ==
  /\ pc = "confirm" /\ kind = "host" /\ ~args.force
  /\ IF answers = << >>
     THEN pc' = "fatal" /\ UNCHANGED answers
     ELSE /\ answers' = Tail(answers)
          /\ CASE Head(answers) = "yes" -> pc' = "init"
               [] Head(answers) = "no"  -> pc' = "fatal"
               [] OTHER -> pc' = "confirm"
  /\ UNCHANGED <<given, image, local, report, faults>>

NoConfirmation ==
  /\ pc = "confirm" /\ (kind = "host" => args.force)
  /\ Proceed("init")

\* InitDriverImpl.
InitDriverImpl ==
  /\ pc = "init"
  /\ Proceed(IF kind \in {"docker", "tar", "host"} THEN "tests" ELSE "fatal")

StartupNext ==
  \/ Refuse \/ OpenReport
  \/ NoLayout \/ LayoutUnsupported \/ LayoutUnusable \/ LoadLayout \/ LoadLayoutError
  \/ NoPull \/ PullImage \/ PullError
  \/ UserConfirmation \/ NoConfirmation \/ InitDriverImpl
=============================================================================
