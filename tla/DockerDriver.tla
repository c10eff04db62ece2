---------------------------- MODULE DockerDriver ----------------------------
(***************************************************************************)
(* The containers and images that the docker driver                        *)
(* (pkg/drivers/docker_driver.go) makes for the tests of a schema v2 file. *)
(*                                                                         *)
(* Every operation of the driver is a fixed series of calls to the daemon, *)
(* any of which may fail.  SetEnv and each setup command end by committing *)
(* their container to a new image, which the operations after it build on. *)
(*                                                                         *)
(* An image is the test it belongs to and the commits that made it; with   *)
(* no commit it is the image under test.  The parent of an image lacks its *)
(* last commit.  The daemon is external code.                              *)
(***************************************************************************)
EXTENDS Integers, Sequences, SequencesExt, FiniteSets

CONSTANTS
  Files,        \* the lists of tests considered
  RemovalFails  \* whether the removal of a container may fail

ASSUME RemovalAssumption == RemovalFails \in BOOLEAN

\* A test, with what its driver is asked for: to set global variables, and how
\* many setup commands to run or files to read.
DriverTest == [kind: {"command", "file"}, globals: BOOLEAN, todo: Nat]

ASSUME FilesAssumption == \A f \in Files : f \in Seq(DriverTest)

VARIABLES
  tests, save, \* the file's tests and --save: chosen once and never changed
  test,       \* the test whose driver is at work
  op, call,   \* the operation, and how many of its calls were made
  todo,       \* the setup commands, or the files to read, still to come
  current,    \* the currentImage of each driver made so far
  pending,    \* the drivers whose Destroy is deferred, next first
  containers, \* those at the daemon: a number and an image each
  images,     \* the images at the daemon, but for the one under test
  made,       \* how many containers were made
  abandoned   \* history: containers nobody is going to remove

config == <<tests, save>>
vars   == <<config, test, op, call, todo, current, pending, containers, images, made,
            abandoned>>

OriginalFor(t) == [of |-> t, by |-> << >>]
IsOriginal(i)  == i.by = << >>

\* i is j or an image that j was built on.
Under(i, j) == i.of = j.of /\ IsPrefix(i.by, j.by)

\* The calls each operation makes, in order.
Calls == [setEnv |-> <<"create", "commit">>,
          setup  |-> <<"create", "start", "wait", "commit">>,
          exec   |-> <<"create", "start", "wait", "logs">>,
          read   |-> <<"create", "download">>]

Current  == current[test]
Working  == op \in DOMAIN Calls
NextCall == Calls[op][call + 1]
LastCall == call + 1 = Len(Calls[op])

\* The container of the operation under way, once it was created.
Mine == IF call = 0 THEN {} ELSE {c \in containers : c.id = made}

Init ==
  /\ tests \in Files /\ save \in BOOLEAN
  /\ test = 0 /\ op = "next" /\ call = 0 /\ todo = 0
  /\ current = << >> /\ pending = << >>
  /\ containers = {} /\ images = {} /\ made = 0
  /\ abandoned = {}

-----------------------------------------------------------------------------
(* The drivers of the tests.                                               *)

\* What is left of test t once its environment is set and n setup commands, or
\* reads, are still to come.
Work(t, n) ==
  IF t.kind = "command" THEN IF n > 0 THEN "setup" ELSE "exec"
                        ELSE IF n > 0 THEN "read" ELSE "destroy"

\* The next test gets a driver; SetEnv does nothing without global variables.
\* The deferred calls run before the first test that is not a command test.
NewDriver ==
  /\ op = "next" /\ test < Len(tests)
  /\ tests[test + 1].kind = "command" \/ pending = << >>
  /\ LET t == tests[test + 1] IN
       /\ pending' = IF t.kind = "command" THEN <<test + 1>> \o pending ELSE pending
       /\ op' = IF t.globals THEN "setEnv" ELSE Work(t, t.todo)
       /\ todo' = t.todo
  /\ test' = test + 1
  /\ current' = Append(current, OriginalFor(test + 1))
  /\ UNCHANGED <<config, call, containers, images, made, abandoned>>

-----------------------------------------------------------------------------
(* The calls of an operation.                                              *)

Create ==
  /\ Working /\ NextCall = "create"
  /\ made' = made + 1
  /\ containers' = containers \union {[id |-> made + 1, image |-> Current]}
  /\ call' = 1
  /\ UNCHANGED <<config, test, op, todo, current, pending, images, abandoned>>

MidCall ==
  /\ Working /\ call > 0 /\ ~LastCall
  /\ call' = call + 1
  /\ UNCHANGED <<config, test, op, todo, current, pending, containers, images, made, abandoned>>

\* The removal of the operation's container: none with --save, and a failure
\* is only logged.
RemoveContainer ==
  \/ containers' = (IF save THEN containers ELSE containers \ Mine) /\ UNCHANGED abandoned
  \/ /\ RemovalFails /\ ~save /\ Mine # {}
     /\ abandoned' = abandoned \union Mine
     /\ UNCHANGED containers

\* The image a commit makes.
Committed == [Current EXCEPT !.by = Append(@, op)]

\* What is still to come after the operation: each setup command and each read
\* is one of those.
Remaining == IF op \in {"setup", "read"} THEN todo - 1 ELSE todo

AfterOp == IF op = "exec" THEN "next" ELSE Work(tests[test], Remaining)

\* MUTANTS of Finish: a setup command's image does not become the current one;
\* SetEnv is taken for one of the setup commands.
FinishDropsImage ==
  /\ Working /\ call > 0 /\ LastCall
  /\ images' = IF NextCall = "commit" THEN images \union {Committed} ELSE images
  /\ current' = IF op = "setEnv" THEN [current EXCEPT ![test] = Committed] ELSE current
  /\ op' = AfterOp /\ todo' = Remaining /\ call' = 0
  /\ RemoveContainer
  /\ UNCHANGED <<config, test, pending, made>>

FinishCountsSetEnv ==
  /\ Working /\ call > 0 /\ LastCall
  /\ images' = IF NextCall = "commit" THEN images \union {Committed} ELSE images
  /\ current' = IF NextCall = "commit" THEN [current EXCEPT ![test] = Committed] ELSE current
  /\ op' = AfterOp /\ todo' = todo - 1 /\ call' = 0
  /\ RemoveContainer
  /\ UNCHANGED <<config, test, pending, made>>

\* The last call succeeds; a commit's image is the current one from now on.
Finish ==
  /\ Working /\ call > 0 /\ LastCall
  /\ images' = IF NextCall = "commit" THEN images \union {Committed} ELSE images
  /\ current' = IF NextCall = "commit" THEN [current EXCEPT ![test] = Committed] ELSE current
  /\ op' = AfterOp /\ todo' = Remaining /\ call' = 0
  /\ RemoveContainer
  /\ UNCHANGED <<config, test, pending, made>>

\* Where a failed call leads: a file test has its driver destroyed once it got
\* as far as reading, and a license test goes on to its next file; any other
\* test is over.
AfterError == IF op = "read" THEN {"destroy", AfterOp} ELSE {"next"}

\* MUTANT of CallError: no removal is deferred anywhere.
CallErrorKeeps ==
  /\ Working
  /\ op' \in AfterError
  /\ todo' = Remaining /\ call' = 0
  /\ UNCHANGED <<config, test, current, pending, containers, images, made, abandoned>>

\* A call fails.  The container is removed where that was deferred, which
\* runAndCommit does not do.
CallError ==
  /\ Working
  /\ op' \in AfterError
  /\ todo' = Remaining /\ call' = 0
  /\ IF op = "setup" THEN abandoned' = abandoned \union Mine /\ UNCHANGED containers
                     ELSE RemoveContainer
  /\ UNCHANGED <<config, test, current, pending, images, made>>

-----------------------------------------------------------------------------
(* Destroy.                                                                *)

\* MUTANTS of RemoveImage: the image is removed by force; its parents stay.
RemoveImageForced(img) == {i \in images : ~Under(i, img)}
RemoveImageOnly(img) == {i \in images : i # img \/ \E c \in containers : c.image = img}

\* The daemon refuses to remove an image that a container was made from.  With
\* the image go its parents, as they have no name, up to the first that a
\* container holds.
RemoveImage(img) ==
  {i \in images : Under(i, img) => \E c \in containers : Under(i, c.image)}

\* Destroy leaves the image under test alone; an error is logged.
Destroy(t) == images' = IF IsOriginal(current[t]) THEN images ELSE RemoveImage(current[t])

DestroyFileDriver ==
  /\ op = "destroy"
  /\ Destroy(test)
  /\ op' = "next"
  /\ UNCHANGED <<config, test, call, todo, current, pending, containers, made, abandoned>>

CommandsDone == op = "next" /\ (test < Len(tests) => tests[test + 1].kind = "file")

DestroyPending ==
  /\ CommandsDone /\ pending # << >>
  /\ Destroy(Head(pending))
  /\ pending' = Tail(pending)
  /\ UNCHANGED <<config, test, op, call, todo, current, containers, made, abandoned>>

Done == op = "next" /\ test = Len(tests) /\ pending = << >>

Finished == Done /\ UNCHANGED vars

Next ==
  \/ NewDriver \/ Create \/ MidCall \/ Finish \/ CallError
  \/ DestroyFileDriver \/ DestroyPending \/ Finished

Spec == Init /\ [][Next]_vars

-----------------------------------------------------------------------------
(* Properties.                                                             *)

\* The driver keeps track of its operation, and no two containers share a
\* number.
TypeOK ==
  /\ test \in 0..Len(tests) /\ Len(current) = test
  /\ op \in DOMAIN Calls \union {"next", "destroy"}
  /\ Working => call \in 0..(Len(Calls[op]) - 1)
  /\ todo \in Nat
  /\ \A c \in containers : c.id \in 1..made
  /\ \A c, d \in containers : c.id = d.id => c = d
  /\ abandoned \subseteq containers

\* A command runs on an image that holds the global environment and everything
\* its setup commands did, in their order, and nothing else.
CommandBuildsOnSetup ==
  op = "exec" =>
    LET t == tests[test]
        commits == (IF t.globals THEN <<"setEnv">> ELSE << >>) \o [i \in 1..t.todo |-> "setup"]
    IN Current = [of |-> test, by |-> commits]

\* Without --save, the containers left behind are those whose setup command
\* failed half-way and those the daemon would not remove; every other way a
\* test can fail cleans up after itself.
OnlyAbandonedStay == Done /\ ~save => containers = abandoned

\* Destroy removes the current image only, and yet no image is left behind
\* except under a container that was.
ImagesGoWithContainers == Done => \A i \in images : \E c \in containers : Under(i, c.image)

\* With --save every container and the image it was made from are kept to be
\* looked at, although Destroy asks for the removal of the image all the same.
SaveKeeps ==
  save => /\ Cardinality(containers) = made
          /\ \A c \in containers : IsOriginal(c.image) \/ c.image \in images
=============================================================================
