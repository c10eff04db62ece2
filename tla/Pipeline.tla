------------------------------ MODULE Pipeline ------------------------------
(***************************************************************************)
(* One run of "container-structure-test test": three goroutines and the    *)
(* calls they make.                                                        *)
(*                                                                         *)
(*  - runTests (cmd/test.go) goes through the config files: it prints a    *)
(*    banner, parses the file, has its tests run and, at the end, closes   *)
(*    the result channel;                                                  *)
(*  - runAll (pkg/types/v1 and v2, structure.go) runs the tests of one     *)
(*    file, section by section, each on a driver of its own, and sends one *)
(*    result after another;                                                *)
(*  - the main goroutine, in ProcessResults (cmd/test/util.go), collects   *)
(*    the results, prints and counts them, writes the summary and the      *)
(*    report and decides the exit code.                                    *)
(*                                                                         *)
(* What a driver call does is left open: it succeeds or fails.  Where the  *)
(* code does not guard against it, it ends the process (logrus.Fatal, a    *)
(* panic) or never returns (a command, two links that circle).             *)
(***************************************************************************)
EXTENDS Integers, Sequences, Places

CONSTANTS
  Options,   \* the command lines considered: files, output format, report
  ChanCap    \* the capacity of the result channel (the code's value is 1)

Schemas  == {"v1", "v2"}
Formats  == {"text", "json", "junit"}
\* The sections of a config file, in the order runAll takes them.
Command   == 1
Content   == 2
Existence == 3
License   == 4
Metadata  == 5
Sections  == 1..5

ConfigFile == [schema: Schemas, tests: [Sections -> Nat]]

ASSUME ChanCapAssumption == ChanCap \in Nat \ {0}

\* ValidateArgs asks for a config file; only v2 has a metadata test, and one.
ASSUME OptionsAssumption ==
  \A o \in Options :
    /\ o \in [files: Seq(ConfigFile), output: Formats, report: BOOLEAN]
    /\ o.files # << >>
    /\ \A f \in DOMAIN o.files :
         o.files[f].tests[Metadata] <= IF o.files[f].schema = "v2" THEN 1 ELSE 0

VARIABLES
  opts,           \* the command line of this run, never changed
  pcTests, file,  \* runTests: where it is, the file it is at
  pcRun,          \* runAll: where it is (or "idle")
  section, num,   \*   the test it is at: section and position (0: none yet)
  deferred,       \*   its stack of deferred calls, the next to run first
  outbox,         \* the result a goroutine is blocked on sending, if any
  channel, closed, \* the result channel
  fileProcessed,  \* whether fileProcessed holds its signal
  live,           \* the tests whose driver exists and was not destroyed
  pcMain,         \* ProcessResults: where it is
  results, totalPass, totalFail,
  printed,        \* what was printed to the primary output, in order
  reportFile,     \* "none", "empty" (created) or "written"
  exit            \* "running", or how the process ended

testsVars == <<pcTests, file>>
runVars   == <<pcRun, section, num, deferred, live>>
sendVars  == <<outbox, channel, closed, fileProcessed>>
mainVars  == <<pcMain, results, totalPass, totalFail, reportFile>>
vars == <<opts, testsVars, runVars, sendVars, mainVars, printed, exit>>

\* A test, by its place; section 0 stands for a file that could not be parsed.
Test == [file: Nat, section: 0..5, num: Nat]
Result == [test: Test, pass: BOOLEAN]

Schema(f)   == opts.files[f].schema
Count(f, s) == opts.files[f].tests[s]
Here        == Place(file, section, num)

Emitted == results \o channel \o outbox

Show(kind, what) ==
  IF opts.output = "text" THEN Append(printed, [kind |-> kind, what |-> what])
                          ELSE printed

Init ==
  /\ opts \in Options
  /\ pcTests = "next" /\ file = 0
  /\ pcRun = "idle" /\ section = 1 /\ num = 0 /\ deferred = << >> /\ live = {}
  /\ outbox = << >> /\ channel = << >> /\ closed = FALSE /\ fileProcessed = FALSE
  /\ pcMain = "collect" /\ results = << >> /\ totalPass = 0 /\ totalFail = 0
  /\ printed = << >>
  /\ reportFile = IF opts.report THEN "empty" ELSE "none"
  /\ exit = "running"

-----------------------------------------------------------------------------
(* Sending.  A goroutine whose result is in outbox is blocked until the    *)
(* channel takes it: no other step of runTests or runAll happens then.     *)

\* MUTANT of Send: the capacity is not respected.
SendUnbounded ==
  /\ exit = "running" /\ outbox # << >>
  /\ channel' = channel \o outbox
  /\ outbox' = << >>
  /\ UNCHANGED <<opts, testsVars, runVars, closed, fileProcessed, mainVars, printed, exit>>

Send ==
  /\ exit = "running"
  /\ outbox # << >>
  /\ Len(channel) < ChanCap
  /\ channel' = channel \o outbox
  /\ outbox' = << >>
  /\ UNCHANGED <<opts, testsVars, runVars, closed, fileProcessed, mainVars, printed, exit>>

Emit(t, pass) == outbox' = <<[test |-> t, pass |-> pass]>>

Running == exit = "running" /\ outbox = << >>

-----------------------------------------------------------------------------
(* runTests.                                                               *)

NextFile ==
  /\ Running /\ pcTests = "next" /\ file < Len(opts.files)
  /\ file' = file + 1
  /\ pcTests' = "parse"
  /\ printed' = Show("banner", file + 1)
  /\ UNCHANGED <<opts, runVars, sendVars, mainVars, exit>>

\* MUTANT of ParseOk: RunAll returns without waiting for fileProcessed.
ParseOkNoWait ==
  /\ Running /\ pcTests = "parse"
  /\ pcTests' = "next"
  /\ pcRun' = "next" /\ section' = 1 /\ num' = 0
  /\ fileProcessed' = FALSE
  /\ UNCHANGED <<opts, file, deferred, live, outbox, channel, closed, mainVars, printed, exit>>

\* Parse succeeds: RunAll makes its channel, starts runAll and waits.
ParseOk ==
  /\ Running /\ pcTests = "parse"
  /\ pcTests' = "waiting"
  /\ pcRun' = "next" /\ section' = 1 /\ num' = 0
  /\ fileProcessed' = FALSE
  /\ UNCHANGED <<opts, file, deferred, live, outbox, channel, closed, mainVars, printed, exit>>

\* MUTANT of ParseError: runTests returns at the first file it cannot parse.
ParseErrorReturns ==
  /\ Running /\ pcTests = "parse"
  /\ Emit(Unparsable(file), FALSE)
  /\ pcTests' = "done"
  /\ UNCHANGED <<opts, file, runVars, channel, closed, fileProcessed, mainVars, printed, exit>>

ParseError ==
  /\ Running /\ pcTests = "parse"
  /\ Emit(Unparsable(file), FALSE)
  /\ pcTests' = "next"
  /\ UNCHANGED <<opts, file, runVars, channel, closed, fileProcessed, mainVars, printed, exit>>

FileDone ==
  /\ Running /\ pcTests = "waiting" /\ fileProcessed
  /\ pcTests' = "next"
  /\ fileProcessed' = FALSE
  /\ UNCHANGED <<opts, file, runVars, outbox, channel, closed, mainVars, printed, exit>>

CloseChannel ==
  /\ Running /\ pcTests = "next" /\ file = Len(opts.files)
  /\ pcTests' = "done"
  /\ closed' = TRUE
  /\ UNCHANGED <<opts, file, runVars, outbox, channel, fileProcessed, mainVars, printed, exit>>

RunTests == NextFile \/ ParseOk \/ ParseError \/ FileDone \/ CloseChannel

-----------------------------------------------------------------------------
(* runAll, and the Run...Tests methods it calls.                           *)

At(pc) == Running /\ pcRun = pc
V2     == Schema(file) = "v2"

runFrame == <<opts, testsVars, channel, closed, mainVars, printed>>

Fatal ==
  /\ exit' = "fatal"
  /\ UNCHANGED <<runVars, outbox, fileProcessed>>

\* The next test of the section passes its Validate (licenses have none).
NextTest ==
  /\ At("next") /\ section \in Sections /\ num < Count(file, section)
  /\ num' = num + 1
  /\ pcRun' = "driver"
  /\ UNCHANGED <<runFrame, section, deferred, live, outbox, fileProcessed, exit>>

\* MUTANT of InvalidTest: the failing result is sent but the test still runs.
InvalidTestRuns ==
  /\ At("next") /\ section \in Sections \ {License} /\ num < Count(file, section)
  /\ num' = num + 1
  /\ IF V2 THEN Emit(Place(file, section, num + 1), FALSE) ELSE UNCHANGED outbox
  /\ pcRun' = "driver"
  /\ UNCHANGED <<runFrame, section, deferred, live, fileProcessed, exit>>

\* It does not: v2's Validate sends the failing result, v1 logs the error.
InvalidTest ==
  /\ At("next") /\ section \in Sections \ {License} /\ num < Count(file, section)
  /\ num' = num + 1
  /\ IF V2 THEN Emit(Place(file, section, num + 1), FALSE) ELSE UNCHANGED outbox
  /\ UNCHANGED <<runFrame, pcRun, section, deferred, live, fileProcessed, exit>>

\* What follows NewDriver: v2 sets the global environment, except for license
\* and metadata tests; v1 goes on to Setup for a command test.
AfterNewDriver ==
  CASE V2 /\ section \in {Command, Content, Existence} -> "setEnv"
    [] ~V2 /\ section = Command -> "setup"
    [] OTHER -> "run"

\* MUTANT of NewDriver: the deferred calls run in the order they were made.
NewDriverFifo ==
  /\ At("driver")
  /\ live' = live \union {Here}
  /\ pcRun' = AfterNewDriver
  /\ deferred' = IF V2 /\ section = Command
                 THEN deferred \o <<[call |-> "destroy", test |-> Here]>>
                 ELSE deferred
  /\ UNCHANGED <<runFrame, section, num, outbox, fileProcessed, exit>>

NewDriver ==
  /\ At("driver")
  /\ live' = live \union {Here}
  /\ pcRun' = AfterNewDriver
  /\ deferred' = IF V2 /\ section = Command
                 THEN <<[call |-> "destroy", test |-> Here]>> \o deferred
                 ELSE deferred
  /\ UNCHANGED <<runFrame, section, num, outbox, fileProcessed, exit>>

NewDriverError ==
  /\ At("driver")
  /\ IF V2 /\ section # License
     THEN /\ Emit(Here, FALSE)
          /\ pcRun' = "next"
          /\ UNCHANGED <<section, num, deferred, live, fileProcessed, exit>>
     ELSE Fatal
  /\ UNCHANGED runFrame

SetEnv ==
  /\ At("setEnv")
  /\ pcRun' = IF section = Command THEN "setup" ELSE "run"
  /\ UNCHANGED <<runFrame, section, num, deferred, live, outbox, fileProcessed, exit>>

\* The driver of a command test has its Destroy deferred; the driver of a
\* file test is left as it is.
SetEnvError ==
  /\ At("setEnv")
  /\ Emit(Here, FALSE)
  /\ pcRun' = "next"
  /\ UNCHANGED <<runFrame, section, num, deferred, live, fileProcessed, exit>>

\* v1 defers one closure that tears down and then destroys.
Setup ==
  /\ At("setup")
  /\ pcRun' = "run"
  /\ deferred' = <<[call |-> "teardown", test |-> Here]>>
                   \o (IF V2 THEN << >> ELSE <<[call |-> "destroy", test |-> Here]>>)
                   \o deferred
  /\ UNCHANGED <<runFrame, section, num, live, outbox, fileProcessed, exit>>

\* MUTANT of SetupError: v2 goes on to the next test, as v1 does, and sends
\* nothing.
SetupErrorSilent ==
  /\ At("setup")
  /\ pcRun' = "next"
  /\ live' = IF V2 THEN live ELSE live \ {Here}
  /\ UNCHANGED <<runFrame, section, num, deferred, outbox, fileProcessed, exit>>

SetupError ==
  /\ At("setup")
  /\ pcRun' = "next"
  /\ IF V2 THEN Emit(Here, FALSE) /\ UNCHANGED live
           ELSE live' = live \ {Here} /\ UNCHANGED outbox
  /\ UNCHANGED <<runFrame, section, num, deferred, fileProcessed, exit>>

\* MUTANT of RunTest: the driver of every test is destroyed after its result.
RunTestDestroysAll ==
  /\ At("run")
  /\ \E pass \in BOOLEAN : Emit(Here, pass)
  /\ pcRun' = "destroy"
  /\ UNCHANGED <<runFrame, section, num, deferred, live, fileProcessed, exit>>

\* MUTANT of RunTest: no driver is destroyed there.
RunTestKeepsAll ==
  /\ At("run")
  /\ \E pass \in BOOLEAN : Emit(Here, pass)
  /\ pcRun' = "next"
  /\ UNCHANGED <<runFrame, section, num, deferred, live, fileProcessed, exit>>

\* The test runs and its result is sent.
RunTest ==
  /\ At("run")
  /\ \E pass \in BOOLEAN : Emit(Here, pass)
  /\ pcRun' = IF section = Command THEN "next" ELSE "destroy"
  /\ UNCHANGED <<runFrame, section, num, deferred, live, fileProcessed, exit>>

\* A command of the test is being executed: its setup, itself, its teardown.
InCommand ==
  \/ At("setup")
  \/ At("run") /\ section = Command
  \/ At("unwind") /\ deferred # << >> /\ Head(deferred).call = "teardown"

\* A command is waited for with no timeout; the docker driver's ReadFile calls
\* itself for each link.
Hang ==
  /\ InCommand \/ (At("run") /\ section \in {Content, License})
  /\ pcRun' = "hung"
  /\ UNCHANGED <<runFrame, section, num, deferred, live, outbox, fileProcessed, exit>>

\* The host driver ends the process when the command cannot be started; the docker
\* driver panics at the end of an archive that is cut short.
BreakOff ==
  /\ InCommand \/ (At("run") /\ section # Metadata)
  /\ Fatal
  /\ UNCHANGED runFrame

\* The explicit driver.Destroy() after the result of a file, license or
\* metadata test was sent.
DestroyDriver ==
  /\ At("destroy")
  /\ live' = live \ {Here}
  /\ pcRun' = "next"
  /\ UNCHANGED <<runFrame, section, num, deferred, outbox, fileProcessed, exit>>

EndSection ==
  /\ At("next") /\ section \in Sections /\ num = Count(file, section)
  /\ pcRun' = "unwind"
  /\ UNCHANGED <<runFrame, section, num, deferred, live, outbox, fileProcessed, exit>>

\* The deferred calls run as the section's method returns; Teardown's error
\* is logged and nothing else.
UnwindDeferred ==
  /\ At("unwind") /\ deferred # << >>
  /\ deferred' = Tail(deferred)
  /\ live' = IF Head(deferred).call = "destroy" THEN live \ {Head(deferred).test} ELSE live
  /\ UNCHANGED <<runFrame, pcRun, section, num, outbox, fileProcessed, exit>>

NextSection ==
  /\ At("unwind") /\ deferred = << >>
  /\ section' = section + 1
  /\ num' = 0
  /\ pcRun' = "next"
  /\ UNCHANGED <<runFrame, deferred, live, outbox, fileProcessed, exit>>

SignalFileProcessed ==
  /\ At("next") /\ section \notin Sections
  /\ fileProcessed' = TRUE
  /\ pcRun' = "idle"
  /\ UNCHANGED <<runFrame, section, num, deferred, live, outbox, exit>>

RunAll ==
  \/ NextTest \/ InvalidTest \/ NewDriver \/ NewDriverError
  \/ SetEnv \/ SetEnvError \/ Setup \/ SetupError
  \/ RunTest \/ Hang \/ BreakOff \/ DestroyDriver
  \/ EndSection \/ UnwindDeferred \/ NextSection \/ SignalFileProcessed

-----------------------------------------------------------------------------
(* The main goroutine: ProcessResults and the return to main.              *)

mainFrame == <<opts, testsVars, runVars, outbox, closed, fileProcessed>>

MainAt(pc) == exit = "running" /\ pcMain = pc

\* channelToSlice receives until the channel is closed and drained.
Collect ==
  /\ MainAt("collect") /\ channel # << >>
  /\ results' = Append(results, Head(channel))
  /\ channel' = Tail(channel)
  /\ UNCHANGED <<mainFrame, pcMain, totalPass, totalFail, printed, reportFile, exit>>

\* MUTANT of EndCollect: an empty channel is taken for a closed one.
EndCollectOnEmpty ==
  /\ MainAt("collect") /\ channel = << >> /\ results # << >>
  /\ pcMain' = "tally"
  /\ UNCHANGED <<mainFrame, channel, results, totalPass, totalFail, printed, reportFile, exit>>

EndCollect ==
  /\ MainAt("collect") /\ channel = << >> /\ closed
  /\ pcMain' = "tally"
  /\ UNCHANGED <<mainFrame, channel, results, totalPass, totalFail, printed, reportFile, exit>>

Tallied == totalPass + totalFail

Tally ==
  /\ MainAt("tally") /\ Tallied < Len(results)
  /\ LET r == results[Tallied + 1] IN
       /\ printed' = Show("result", r.test)
       /\ totalPass' = IF r.pass THEN totalPass + 1 ELSE totalPass
       /\ totalFail' = IF r.pass THEN totalFail ELSE totalFail + 1
  /\ UNCHANGED <<mainFrame, channel, pcMain, results, reportFile, exit>>

\* FinalResults on the primary output; the text form never returns an error.
FinalResults ==
  /\ MainAt("tally") /\ Tallied = Len(results)
  /\ printed' = Append(printed, [kind |-> "summary", what |-> totalFail])
  /\ pcMain' = "report"
  /\ UNCHANGED <<mainFrame, channel, results, totalPass, totalFail, reportFile, exit>>

FinalResultsError ==
  /\ MainAt("tally") /\ Tallied = Len(results)
  /\ opts.output # "text"
  /\ exit' = "failed"
  /\ UNCHANGED <<mainFrame, channel, pcMain, results, totalPass, totalFail, printed, reportFile>>

WriteReport ==
  /\ MainAt("report") /\ opts.report
  /\ reportFile' = "written"
  /\ pcMain' = "return"
  /\ UNCHANGED <<mainFrame, channel, results, totalPass, totalFail, printed, exit>>

WriteReportError ==
  /\ MainAt("report") /\ opts.report
  /\ exit' = "failed"
  /\ UNCHANGED <<mainFrame, channel, pcMain, results, totalPass, totalFail, printed, reportFile>>

\* MUTANT of Return: only a run without results fails.
ReturnIgnoresFail ==
  /\ MainAt("return") \/ (MainAt("report") /\ ~opts.report)
  /\ exit' = IF Tallied = 0 THEN "failed" ELSE "ok"
  /\ UNCHANGED <<mainFrame, channel, pcMain, results, totalPass, totalFail, printed, reportFile>>

\* ProcessResults returns the error it built before it wrote anything.
Return ==
  /\ MainAt("return") \/ (MainAt("report") /\ ~opts.report)
  /\ exit' = IF Tallied = 0 \/ totalFail > 0 THEN "failed" ELSE "ok"
  /\ UNCHANGED <<mainFrame, channel, pcMain, results, totalPass, totalFail, printed, reportFile>>

Main ==
  \/ Collect \/ EndCollect \/ Tally
  \/ FinalResults \/ FinalResultsError
  \/ WriteReport \/ WriteReportError \/ Return

-----------------------------------------------------------------------------
\* A stopped run stays as it is, so that any other deadlock is an error.
Finished == exit # "running" /\ UNCHANGED vars
Stuck    == pcRun = "hung" /\ UNCHANGED vars

Next == Send \/ RunTests \/ RunAll \/ Main \/ Finished \/ Stuck

\* Each goroutine is scheduled again and again by the Go runtime.
Fairness == WF_vars(Send) /\ WF_vars(RunTests) /\ WF_vars(RunAll) /\ WF_vars(Main)

Spec == Init /\ [][Next]_vars /\ Fairness

-----------------------------------------------------------------------------
(* Properties.                                                             *)

\* Every variable has its type, the channel never holds more than its
\* capacity and at most one result waits to be sent.
TypeOK ==
  /\ opts \in Options
  /\ pcTests \in {"next", "parse", "waiting", "done"}
  /\ file \in 0..Len(opts.files)
  /\ pcRun \in {"idle", "next", "driver", "setEnv", "setup", "run", "destroy", "unwind", "hung"}
  /\ section \in 1..6 /\ num \in Nat
  /\ deferred \in Seq([call: {"teardown", "destroy"}, test: Test])
  /\ live \subseteq Test
  /\ outbox \in Seq(Result) /\ Len(outbox) <= 1
  /\ channel \in Seq(Result) /\ Len(channel) <= ChanCap
  /\ closed \in BOOLEAN /\ fileProcessed \in BOOLEAN
  /\ pcMain \in {"collect", "tally", "report", "return"}
  /\ results \in Seq(Result) /\ totalPass \in Nat /\ totalFail \in Nat
  /\ reportFile \in {"none", "empty", "written"}
  /\ exit \in {"running", "ok", "failed", "fatal"}

\* The channel is closed only once nobody can send on it any more: runTests
\* waits for fileProcessed before it goes on (a send on a closed channel would
\* panic).
NoSendOnClosed == closed => pcTests = "done" /\ pcRun = "idle" /\ outbox = << >>

\* The results, wherever they are on their way, are in the order of the files
\* and of their tests, and no test has two.
InOrderOnce ==
  \A i, j \in DOMAIN Emitted : i < j => Before(Emitted[i].test, Emitted[j].test)

IsIn(t, seq) == \E i \in DOMAIN seq : seq[i].test = t

TestsOf(f) == UNION {{Place(f, s, n) : n \in 1..Count(f, s)} : s \in Sections}

\* Exit code 0 is earned: there is a result and every result is a pass, every
\* test of every v2 file is among them, and the report asked for is written.
\* No error on the way (a driver that cannot be made, a failing setup, a file
\* that cannot be parsed) can be lost.
ExitZeroIsEarned ==
  exit = "ok" =>
    /\ results # << >>
    /\ \A i \in DOMAIN results : results[i].pass
    /\ \A f \in DOMAIN opts.files : Schema(f) = "v2" =>
         \A t \in TestsOf(f) : IsIn(t, results)
    /\ opts.report => reportFile = "written"

\* Every deferred call finds its driver alive when it runs: no driver is
\* destroyed twice, and none is torn down after it was destroyed.
DeferredFindDriver ==
  \A i, j \in DOMAIN deferred :
    /\ deferred[i].test \in live
    /\ deferred[j] = deferred[i] => i = j
    /\ deferred[j] = [call |-> "destroy", test |-> deferred[i].test] => i <= j

\* A run that succeeds leaves no driver (container, image or extracted file
\* system) behind: the one path that forgets its driver also sends a failing
\* result.
SuccessLeavesNothing == exit = "ok" => live = {}

\* The summary and the report are written only once every test has run and
\* every deferred teardown and destroy is done, so the process does not end
\* in the middle of them.
SummaryIsLast ==
  pcMain # "collect" =>
    /\ pcTests = "done" /\ pcRun = "idle" /\ deferred = << >>
    /\ channel = << >> /\ outbox = << >>

\* The deferred calls undo the tests in the reverse of their order: the host
\* driver's teardown puts back the environment the test before had left.
YoungestFirst ==
  \A i, j \in DOMAIN deferred : i < j => ~Before(deferred[i].test, deferred[j].test)

\* Unless a call of a driver hangs, the process ends: runTests, runAll and the
\* main goroutine do not wait for each other in a circle, whatever fails.  That
\* no call hangs is assumed, the code sets no limit.
Termination == [](pcRun # "hung") => <>(exit # "running")

\* The run implements its contract.
Contract == INSTANCE RunContract WITH
  places   <- UNION {TestsOf(f) \union {Unparsable(f)} : f \in DOMAIN opts.files},
  owed     <- UNION {TestsOf(f) : f \in {g \in DOMAIN opts.files : Schema(g) = "v2"}},
  reported <- Emitted,
  outcome  <- exit

ContractSpec == Contract!Spec

\* What the comment in RunAll says waiting is for: the results of a file are
\* displayed under its banner.
ResultsUnderTheirBanner ==
  \A i \in DOMAIN printed : printed[i].kind = "result" =>
    \E b \in 1..i :
      /\ printed[b] = [kind |-> "banner", what |-> printed[i].what.file]
      /\ \A k \in b..i : printed[k].kind = "banner" => k = b

\* "will execute the tests in order": a run that succeeds has run every test
\* of every file, whatever its schema.
SuccessRanEveryTest ==
  exit = "ok" => \A f \in DOMAIN opts.files : \A t \in TestsOf(f) : IsIn(t, results)
=============================================================================
