----------------------------- MODULE HostDriver -----------------------------
(***************************************************************************)
(* The environment of the process under the host driver                    *)
(* (pkg/drivers/host_driver.go), driven by the command sections of the     *)
(* config files (pkg/types/v1 and v2, structure.go).                       *)
(*                                                                         *)
(* The commands of a test run on the host itself, so the variables a test  *)
(* asks for are set in the process and put back afterwards: by Setup and   *)
(* Teardown around the test, the latter deferred to the end of the whole   *)
(* section, and by ProcessCommand around the command.  v2 sets the global  *)
(* variables with SetEnv, which puts nothing back; v1 hands them to Setup. *)
(*                                                                         *)
(* A value is a sequence of pieces; << >> is the empty string, which is    *)
(* not the same as Unset, though os.Getenv does not tell them apart.       *)
(***************************************************************************)
EXTENDS Iteration, Integers, Sequences

CONSTANTS
  Keys,    \* the names of variables
  BadKey,  \* a name os.Setenv refuses
  Pieces,  \* what values are made of
  Unset,   \* no value
  NoRef,   \* no variable referred to
  Runs     \* the starting environments and config files considered

ASSUME HostAssumption == BadKey \notin Keys /\ NoRef \notin Keys /\ Unset \notin Seq(Pieces)

\* An EnvVar of a config: its value is a reference (or none) and a literal.
EnvVar == [key: Keys \union {BadKey}, ref: Keys \union {NoRef}, lit: Seq(Pieces)]
Values == Seq(Pieces) \union {Unset}

CommandTest == [vars: Seq(EnvVar), setup: Nat]
StructureTest ==
  [schema: {"v1", "v2"}, globals: Seq(EnvVar), tests: Seq(CommandTest), fileTests: Nat]

ASSUME RunsAssumption ==
  \A r \in Runs :
    r.env \in [Keys -> Values] /\ r.files \in Seq(StructureTest) /\ r.files # << >>

VARIABLES
  run,       \* the run considered, never changed
  env,       \* the environment of the process
  file, num, \* the config file and the command test it is at
  pc,
  left,      \* setup commands, or file tests, still to come
  own,       \* what the ProcessCommand under way has to put back
  undo,      \* the deferred teardowns: what each puts back, next first
  atStart,   \* history: the environment when the command section began
  dropped    \* history: the names set by tests that get no teardown

vars == <<run, env, file, num, pc, left, own, undo, atStart, dropped>>

File  == run.files[file]
Tests == File.tests
Vars  == Tests[num].vars

-----------------------------------------------------------------------------
(* The environment.                                                        *)

Getenv(e, k) == IF k \notin Keys \/ e[k] = Unset THEN << >> ELSE e[k]

ExpandEnv(e, x) == Getenv(e, x.ref) \o x.lit

Setenv(e, x) == IF x.key \in Keys THEN [e EXCEPT ![x.key] = ExpandEnv(e, x)] ELSE e

\* The loop of SetEnvVars: a variable that cannot be set is logged.
SetEnvVars(e, xs) == Iterate(LAMBDA now, i : Setenv(now, xs[i]), e, Len(xs))

\* What it returns: the value each variable had just before it was set.
Originals(e, xs) ==
  [i \in DOMAIN xs |-> [key |-> xs[i].key,
                        value |-> Getenv(SetEnvVars(e, SubSeq(xs, 1, i - 1)), xs[i].key)]]

Resetenv(e, o) ==
  IF o.key \in Keys THEN [e EXCEPT ![o.key] = IF o.value = << >> THEN Unset ELSE o.value] ELSE e

ResetEnvVars(e, os) == Iterate(LAMBDA now, i : Resetenv(now, os[i]), e, Len(os))

\* The position of the first variable os.Setenv refuses, if there is one.
Refused(xs) == {i \in DOMAIN xs : xs[i].key = BadKey}

\* The prefix of xs that SetEnv gets through.
Accepted(xs) == SubSeq(xs, 1, CHOOSE n \in 0..Len(xs) :
                                /\ \A i \in 1..n : i \notin Refused(xs)
                                /\ n = Len(xs) \/ n + 1 \in Refused(xs))

-----------------------------------------------------------------------------
(* The steps.                                                              *)

Init ==
  /\ run \in Runs
  /\ env = run.env
  /\ file = 1 /\ num = 0 /\ pc = "next" /\ left = 0
  /\ own = << >> /\ undo = << >>
  /\ atStart = run.env /\ dropped = {}

NextTest ==
  /\ pc = "next" /\ num < Len(Tests)
  /\ num' = num + 1
  /\ pc' = IF File.schema = "v2" THEN "setEnv" ELSE "setup"
  /\ UNCHANGED <<run, env, file, left, own, undo, atStart, dropped>>

\* MUTANT of SetEnv: a variable that is refused is passed over in silence.
SetEnvIgnoresError ==
  /\ pc \in {"setEnv", "fileTests"} /\ (pc = "fileTests" => left > 0)
  /\ env' = SetEnvVars(env, Accepted(File.globals))
  /\ \/ pc = "fileTests" /\ left' = left - 1 /\ UNCHANGED pc
     \/ pc = "setEnv" /\ pc' = "setup" /\ UNCHANGED left
  /\ UNCHANGED <<run, file, num, own, undo, atStart, dropped>>

\* SetEnv of a command test (v2), or of a content or existence test.  The
\* first variable that is refused ends it: the test has failed.
SetEnv ==
  /\ pc \in {"setEnv", "fileTests"} /\ (pc = "fileTests" => left > 0)
  /\ env' = SetEnvVars(env, Accepted(File.globals))
  /\ \/ pc = "fileTests" /\ left' = left - 1 /\ UNCHANGED pc
     \/ /\ pc = "setEnv" /\ UNCHANGED left
        /\ pc' = IF Refused(File.globals) = {} THEN "setup" ELSE "next"
  /\ UNCHANGED <<run, file, num, own, undo, atStart, dropped>>

\* The variables Setup is called with.
SetupVars == IF File.schema = "v2" THEN Vars ELSE File.globals \o Vars

\* Setup sets the variables and then runs its commands.
Setup ==
  /\ pc = "setup"
  /\ env' = SetEnvVars(env, SetupVars)
  /\ own' = Originals(env, SetupVars)
  /\ left' = Tests[num].setup
  /\ pc' = "setupCommands"
  /\ UNCHANGED <<run, file, num, undo, atStart, dropped>>

SetupCommand ==
  /\ pc = "setupCommands" /\ left > 0
  /\ left' = left - 1
  /\ UNCHANGED <<run, env, file, num, pc, own, undo, atStart, dropped>>

\* A command that cannot be waited for fails Setup: the test is over and its
\* teardown was not deferred yet.
SetupCommandError ==
  /\ pc = "setupCommands" /\ left > 0
  /\ pc' = "next"
  /\ left' = 0
  /\ own' = << >>
  /\ dropped' = dropped \union {own[i].key : i \in DOMAIN own}
  /\ UNCHANGED <<run, env, file, num, undo, atStart>>

\* MUTANT of DeferTeardown: the teardowns run in the order of the tests.
DeferTeardownLast ==
  /\ pc = "setupCommands" /\ left = 0
  /\ undo' = Append(undo, own)
  /\ own' = << >>
  /\ pc' = "run"
  /\ UNCHANGED <<run, env, file, num, left, atStart, dropped>>

\* Setup succeeded: the teardown is deferred.
DeferTeardown ==
  /\ pc = "setupCommands" /\ left = 0
  /\ undo' = <<own>> \o undo
  /\ own' = << >>
  /\ pc' = "run"
  /\ UNCHANGED <<run, env, file, num, left, atStart, dropped>>

\* ProcessCommand sets the variables of the test, once more, and starts the
\* command.
StartCommand ==
  /\ pc = "run"
  /\ env' = SetEnvVars(env, Vars)
  /\ own' = Originals(env, Vars)
  /\ pc' = "running"
  /\ UNCHANGED <<run, file, num, left, undo, atStart, dropped>>

\* The command has ended, well or not: what was set is put back.
FinishCommand ==
  /\ pc = "running"
  /\ env' = ResetEnvVars(env, own)
  /\ own' = << >>
  /\ pc' = "next"
  /\ UNCHANGED <<run, file, num, left, undo, atStart, dropped>>

\* The deferred Teardowns, when every command test of the file is done.
Teardown ==
  /\ pc = "next" /\ num = Len(Tests) /\ undo # << >>
  /\ env' = ResetEnvVars(env, Head(undo))
  /\ undo' = Tail(undo)
  /\ UNCHANGED <<run, file, num, pc, left, own, atStart, dropped>>

EndSection ==
  /\ pc = "next" /\ num = Len(Tests) /\ undo = << >>
  /\ pc' = "fileTests"
  /\ left' = IF File.schema = "v2" THEN File.fileTests ELSE 0
  /\ UNCHANGED <<run, env, file, num, own, undo, atStart, dropped>>

\* MUTANT of NextFile: the tests are not counted from the start again.
NextFileKeepsNum ==
  /\ pc = "fileTests" /\ left = 0 /\ file < Len(run.files)
  /\ file' = file + 1
  /\ pc' = "next"
  /\ atStart' = env
  /\ dropped' = {}
  /\ UNCHANGED <<run, env, num, left, own, undo>>

NextFile ==
  /\ pc = "fileTests" /\ left = 0 /\ file < Len(run.files)
  /\ file' = file + 1
  /\ num' = 0
  /\ pc' = "next"
  /\ atStart' = env
  /\ dropped' = {}
  /\ UNCHANGED <<run, env, left, own, undo>>

\* A command that cannot be started ends the process.
CannotStart ==
  /\ \/ pc = "setupCommands" /\ left > 0
     \/ pc = "running"
     \/ pc = "next" /\ num = Len(Tests) /\ undo # << >>
  /\ pc' = "fatal"
  /\ UNCHANGED <<run, env, file, num, left, own, undo, atStart, dropped>>

Stopped == pc = "fatal" \/ (pc = "fileTests" /\ left = 0 /\ file = Len(run.files))

Finished == Stopped /\ UNCHANGED vars

Next ==
  \/ NextTest \/ SetEnv \/ Setup \/ SetupCommand \/ SetupCommandError
  \/ DeferTeardown \/ StartCommand \/ FinishCommand \/ Teardown
  \/ EndSection \/ NextFile \/ CannotStart \/ Finished

Spec == Init /\ [][Next]_vars

-----------------------------------------------------------------------------
(* Properties.                                                             *)

KeysOf(xs) == {xs[i].key : i \in DOMAIN xs}

\* Every variable has its type, and no test has two teardowns.
TypeOK ==
  /\ env \in [Keys -> Values] /\ atStart \in [Keys -> Values]
  /\ file \in DOMAIN run.files /\ num \in 0..Len(Tests)
  /\ pc \in {"next", "setEnv", "setup", "setupCommands", "run", "running", "fileTests", "fatal"}
  /\ left \in Nat
  /\ Len(undo) <= num

\* The names for which the code's bookkeeping is not enough: the globals of v2
\* (SetEnv puts nothing back), a name that one list sets twice (the second
\* "original" is what the first set), a variable that was set but empty, and
\* what a test set whose Setup failed.
Repeated(xs) == {xs[i].key : i \in {j \in DOMAIN xs : \E k \in DOMAIN xs : k # j /\ xs[k].key = xs[j].key}}

Excused ==
  dropped
  \union (IF File.schema = "v2" THEN KeysOf(File.globals) ELSE {})
  \union (UNION {Repeated(IF File.schema = "v2" THEN Tests[n].vars
                          ELSE File.globals \o Tests[n].vars) : n \in DOMAIN Tests})
  \union {k \in Keys : atStart[k] = << >>}

\* When the command section of a file is over, the environment is what it was
\* when the section began, however the tests' variables refer to each other
\* and whichever tests failed.
SectionRestores ==
  pc = "fileTests" /\ (left = File.fileTests \/ File.schema = "v1") =>
    \A k \in Keys \ Excused : env[k] = atStart[k]

\* The last variable of a list with the name k.
LastOf(xs, k) == xs[CHOOSE i \in DOMAIN xs : xs[i].key = k /\ \A j \in (i + 1)..Len(xs) : xs[j].key # k]

\* What the config asks for the test, and the names that it gives a literal.
Asked    == File.globals \o Vars
Literals == {k \in KeysOf(Asked) \ {BadKey} : LastOf(Asked, k).ref = NoRef}

\* The command of a test finds the literals that its config gives, those of the
\* test before the globals, and in the values of the test that refer to one of
\* them, before or after it in the list; never what another test left in their
\* place.  A value that refers to anything else is left out: it depends on what
\* the process has by then (see SubstitutedOnce and TestLocalIsLocal).
CommandSeesItsLiterals ==
  pc = "running" =>
    /\ \A k \in Literals : env[k] = LastOf(Asked, k).lit
    /\ \A k \in KeysOf(Vars) \ {BadKey} :
         LET last == LastOf(Vars, k) IN
           last.ref \in Literals \ Repeated(Vars) => env[k] = LastOf(Asked, last.ref).lit \o last.lit

\* "Unix-style environment variable substitution is supported", as in the value
\* "/env/bin:$PATH" for PATH: a command finds a variable whose only value refers
\* to itself with the literal put once before what it was when the run started.
SubstitutedOnce ==
  pc = "running" /\ file = 1 =>
    \A i \in DOMAIN Asked :
      LET asked == Asked[i] IN
        asked.ref = asked.key /\ asked.key \notin Repeated(Asked) =>
          env[asked.key] = ExpandEnv(run.env, asked)

\* "or test-local as part of individual command test runs": a command finds
\* the other variables as they were when the run started.
TestLocalIsLocal ==
  pc = "running" /\ file = 1 =>
    \A k \in Keys \ KeysOf(File.globals \o Vars) : env[k] = run.env[k]
=============================================================================
