--------------------------- MODULE PipelineProofs ---------------------------
(***************************************************************************)
(* Proofs about Pipeline, for every set of command lines and every         *)
(* capacity of the result channel.                                         *)
(*                                                                         *)
(* The properties are not inductive: that exit code 0 is earned depends on *)
(* no result having been lost on its way from the test to the tally, which *)
(* depends on who may still send when the main goroutine stops collecting. *)
(* The inductive invariant has three parts beside the types: Control says  *)
(* which goroutine can be where, Complete that every test of schema v2     *)
(* that the run is past has its result, Account that the tally is right.   *)
(***************************************************************************)
EXTENDS Pipeline, SequenceTheorems, TLAPS

\* Where the three goroutines can be at once: runAll runs only while runTests
\* waits for it, deferred calls exist only in the command section, and the
\* main goroutine is past collecting only when the channel is closed and empty.
Control ==
  /\ closed <=> pcTests = "done"
  /\ pcTests \in {"parse", "waiting"} => file # 0
  /\ closed => file = Len(opts.files) /\ outbox = << >>
  /\ pcTests # "waiting" => pcRun = "idle"
  /\ pcRun = "idle" => deferred = << >>
  /\ deferred # << >> => section = Command
  /\ pcRun \in {"driver", "setEnv", "setup", "run", "destroy"} =>
       section \in Sections /\ num \in 1..Count(file, section)
  /\ pcRun \in {"next", "unwind"} => section = 6 \/ num <= Count(file, section)
  /\ pcRun = "setEnv" => V2
  /\ pcRun = "setup" => section = Command
  /\ pcRun = "destroy" => section # Command
  /\ pcRun = "unwind" => section # 6 /\ num = Count(file, section)
  /\ pcRun = "idle" /\ pcTests = "waiting" => fileProcessed /\ section = 6
  /\ fileProcessed => pcTests = "waiting" /\ pcRun = "idle"
  /\ pcMain # "collect" => closed /\ channel = << >>

\* The run is past t: the step that sends its result has been taken.
Past(t) ==
  \/ t.file < file
  \/ (t.file = file /\ pcTests \in {"next", "done"})
  \/ (t.file = file /\ pcTests = "waiting" /\ t.section < section)
  \/ /\ t.file = file /\ pcTests = "waiting" /\ t.section = section
     /\ t.num < num \/ (t.num = num /\ pcRun \in {"next", "destroy", "unwind"})

\* No result is lost: a v2 test that the run is past has its result, or its
\* file has the result that says it could not be parsed, which is a failure.
Complete ==
  /\ \A f \in DOMAIN opts.files : Schema(f) = "v2" => \A t \in TestsOf(f) :
       Past(t) => IsIn(t, Emitted) \/ IsIn(Unparsable(f), Emitted)
  /\ \A i \in DOMAIN Emitted : Emitted[i].test.section = 0 => ~Emitted[i].pass

\* Every result there is comes from behind the place the run is at, and the
\* results are in order.
Behind(t) ==
  \/ t.file < file
  \/ (t.file = file /\ pcTests \in {"next", "done"})
  \/ (t.file = file /\ pcTests = "waiting" /\ t.section < section)
  \/ /\ t.file = file /\ pcTests = "waiting" /\ t.section = section
     /\ t.num < num \/ (t.num = num /\ pcRun \notin {"driver", "setEnv", "setup", "run"})

Ordered ==
  /\ InOrderOnce
  /\ \A i \in DOMAIN Emitted : Behind(Emitted[i].test)

\* The tally is right as far as it went, and the process ends well only when
\* it went all the way without a failure.
Account ==
  /\ Tallied <= Len(results)
  /\ totalFail = 0 => \A i \in 1..Tallied : results[i].pass
  /\ pcMain = "collect" => Tallied = 0
  /\ pcMain \in {"report", "return"} => Tallied = Len(results)
  /\ pcMain = "return" => reportFile = "written"
  /\ exit = "ok" =>
       /\ pcMain \in {"report", "return"} /\ Tallied > 0 /\ totalFail = 0
       /\ opts.report => reportFile = "written"

IInv == TypeOK /\ Control /\ Complete /\ Ordered /\ Account

-----------------------------------------------------------------------------
(* Facts about the command line and the results on their way.              *)

\* What OptionsAssumption says of the command line of the run.
LEMMA CommandLine ==
  ASSUME opts \in Options
  PROVE  /\ opts.files \in Seq(ConfigFile)
         /\ Len(opts.files) \in Nat \ {0}
         /\ DOMAIN opts.files = 1..Len(opts.files)
         /\ opts.report \in BOOLEAN
         /\ \A f \in DOMAIN opts.files : \A s \in Sections : Count(f, s) \in Nat
<1>1. /\ opts \in [files: Seq(ConfigFile), output: Formats, report: BOOLEAN]
      /\ opts.files # << >>
  BY OptionsAssumption
<1>2. \A f \in DOMAIN opts.files : opts.files[f] \in ConfigFile
  BY <1>1
<1>3. \A f \in DOMAIN opts.files : \A s \in Sections : Count(f, s) \in Nat
  BY <1>2 DEF ConfigFile, Count
<1>. QED
  BY <1>1, <1>3

\* At runs of a test, its place is a Test.
LEMMA HereIsTest ==
  ASSUME TypeOK, section \in Sections
  PROVE  /\ Here \in Test
         /\ Place(file, section, num + 1) \in Test
  BY CommandLine DEF TypeOK, Here, Place, Test, Sections

\* The failing result that Emit puts in the outbox.
LEMMA FailingResult ==
  ASSUME NEW t \in Test
  PROVE  /\ <<[test |-> t, pass |-> FALSE]>> \in Seq(Result)
         /\ Len(<<[test |-> t, pass |-> FALSE]>>) = 1
  BY DEF Result

-----------------------------------------------------------------------------
(* Types.                                                                  *)

LEMMA InitTypeOK == Init => TypeOK
<1>. SUFFICES ASSUME Init PROVE TypeOK
  OBVIOUS
<1>1. Len(opts.files) \in Nat
  BY CommandLine DEF Init
<1>2. closed \in BOOLEAN /\ fileProcessed \in BOOLEAN
  BY Zenon DEF Init
<1>. QED
  BY <1>1, <1>2, ChanCapAssumption DEF Init, TypeOK

\* Every step keeps the types.  The places a step records are those of tests,
\* which Control says of runAll at each point.
LEMMA NextTypeOK ==
  ASSUME TypeOK, Control, [Next]_vars
  PROVE  TypeOK'
<1>. USE CommandLine, ChanCapAssumption DEF Sections, Running
<1>1. CASE Send
  BY <1>1 DEF Send, TypeOK, testsVars, runVars, mainVars
<1>2. CASE RunTests
  <2>1. CASE NextFile
    BY <2>1 DEF NextFile, TypeOK, runVars, sendVars, mainVars
  <2>2. CASE ParseOk
    <3>1. closed' \in BOOLEAN /\ fileProcessed' \in BOOLEAN
      BY <2>2, Zenon DEF ParseOk, TypeOK
    <3>. QED
      BY <2>2, <3>1 DEF ParseOk, TypeOK, mainVars
  <2>3. CASE ParseError
    <3>1. Unparsable(file) \in Test
      BY DEF TypeOK, Unparsable, Place, Test
    <3>. QED
      BY <2>3, <3>1 DEF ParseError, Emit, Result, TypeOK, runVars, mainVars
  <2>4. CASE FileDone
    BY <2>4 DEF FileDone, TypeOK, runVars, mainVars
  <2>5. CASE CloseChannel
    BY <2>5 DEF CloseChannel, TypeOK, runVars, mainVars
  <2>. QED
    BY <1>2, <2>1, <2>2, <2>3, <2>4, <2>5 DEF RunTests
<1>3. CASE RunAll
  <2>. USE DEF At, runFrame, runVars, testsVars, mainVars
  <2>1. CASE NextTest
    BY <2>1 DEF NextTest, TypeOK
  <2>2. CASE InvalidTest
    <3>1. Place(file, section, num + 1) \in Test
      BY <2>2, HereIsTest DEF InvalidTest, Control
    <3>2. outbox' = outbox \/ outbox' = <<[test |-> Place(file, section, num + 1), pass |-> FALSE]>>
      BY <2>2 DEF InvalidTest, Emit
    <3>3. outbox' \in Seq(Result) /\ Len(outbox') <= 1
      <4>1. CASE outbox' = outbox
        BY <4>1, Zenon DEF TypeOK
      <4>2. CASE outbox' = <<[test |-> Place(file, section, num + 1), pass |-> FALSE]>>
        BY <4>2, <3>1, FailingResult
      <4>. QED
        BY <3>2, <4>1, <4>2
    <3>. QED
      BY <2>2, <3>1, <3>3 DEF InvalidTest, TypeOK
  <2>3. CASE NewDriver
    <3>1. Here \in Test
      BY <2>3, HereIsTest DEF NewDriver, Control
    <3>2. AfterNewDriver \in {"setEnv", "setup", "run"}
      BY DEF AfterNewDriver
    <3>3. <<[call |-> "destroy", test |-> Here]>> \in Seq([call: {"teardown", "destroy"}, test: Test])
      BY <3>1
    <3>4. deferred' \in Seq([call: {"teardown", "destroy"}, test: Test])
      BY <2>3, <3>3, ConcatProperties DEF NewDriver, TypeOK
    <3>. QED
      BY <2>3, <3>1, <3>2, <3>4 DEF NewDriver, TypeOK
  <2>4. CASE NewDriverError
    <3>1. Here \in Test
      BY <2>4, HereIsTest DEF NewDriverError, Control
    <3>2. outbox' = outbox \/ outbox' = <<[test |-> Here, pass |-> FALSE]>>
      BY <2>4 DEF NewDriverError, Fatal, Emit
    <3>3. outbox' \in Seq(Result) /\ Len(outbox') <= 1
      <4>1. CASE outbox' = outbox
        BY <4>1, Zenon DEF TypeOK
      <4>2. CASE outbox' = <<[test |-> Here, pass |-> FALSE]>>
        BY <4>2, <3>1, FailingResult
      <4>. QED
        BY <3>2, <4>1, <4>2
    <3>. QED
      BY <2>4, <3>1, <3>3 DEF NewDriverError, Fatal, TypeOK
  <2>5. CASE SetEnv
    BY <2>5 DEF SetEnv, TypeOK
  <2>6. CASE SetEnvError
    BY <2>6, HereIsTest DEF SetEnvError, Control, Emit, Result, TypeOK
  <2>7. CASE Setup
    <3>. DEFINE Calls == [call: {"teardown", "destroy"}, test: Test]
    <3>1. Here \in Test
      BY <2>7, HereIsTest DEF Setup, Control
    <3>2. /\ <<[call |-> "teardown", test |-> Here]>> \in Seq(Calls)
          /\ <<[call |-> "destroy", test |-> Here]>> \in Seq(Calls)
          /\ << >> \in Seq(Calls)
      BY <3>1
    <3>3. deferred' \in Seq(Calls)
      BY <2>7, <3>2, ConcatProperties DEF Setup, TypeOK
    <3>. QED
      BY <2>7, <3>3 DEF Setup, TypeOK
  <2>8. CASE SetupError
    <3>1. Here \in Test
      BY <2>8, HereIsTest DEF SetupError, Control
    <3>2. outbox' = outbox \/ outbox' = <<[test |-> Here, pass |-> FALSE]>>
      BY <2>8 DEF SetupError, Emit
    <3>3. outbox' \in Seq(Result) /\ Len(outbox') <= 1
      <4>1. CASE outbox' = outbox
        BY <4>1, Zenon DEF TypeOK
      <4>2. CASE outbox' = <<[test |-> Here, pass |-> FALSE]>>
        BY <4>2, <3>1, FailingResult
      <4>. QED
        BY <3>2, <4>1, <4>2
    <3>. QED
      BY <2>8, <3>1, <3>3 DEF SetupError, TypeOK
  <2>9. CASE RunTest
    BY <2>9, HereIsTest DEF RunTest, Control, Emit, Result, TypeOK
  <2>10. CASE Hang
    BY <2>10 DEF Hang, TypeOK
  <2>11. CASE BreakOff
    BY <2>11 DEF BreakOff, Fatal, TypeOK
  <2>12. CASE DestroyDriver
    BY <2>12 DEF DestroyDriver, TypeOK
  <2>13. CASE EndSection
    BY <2>13 DEF EndSection, TypeOK
  <2>14. CASE UnwindDeferred
    BY <2>14, HeadTailProperties DEF UnwindDeferred, TypeOK
  <2>15. CASE NextSection
    BY <2>15 DEF NextSection, Control, TypeOK
  <2>16. CASE SignalFileProcessed
    BY <2>16 DEF SignalFileProcessed, TypeOK
  <2>. QED
    BY <1>3, <2>1, <2>2, <2>3, <2>4, <2>5, <2>6, <2>7, <2>8, <2>9, <2>10, <2>11,
       <2>12, <2>13, <2>14, <2>15, <2>16 DEF RunAll
<1>4. CASE Main
  <2>. USE DEF MainAt, mainFrame, testsVars, runVars
  <2>1. CASE Collect
    BY <2>1, HeadTailProperties DEF Collect, TypeOK
  <2>2. CASE EndCollect
    BY <2>2 DEF EndCollect, TypeOK
  <2>3. CASE Tally
    BY <2>3 DEF Tally, TypeOK
  <2>4. CASE FinalResults
    BY <2>4 DEF FinalResults, TypeOK
  <2>5. CASE FinalResultsError
    BY <2>5 DEF FinalResultsError, TypeOK
  <2>6. CASE WriteReport
    BY <2>6 DEF WriteReport, TypeOK
  <2>7. CASE WriteReportError
    BY <2>7 DEF WriteReportError, TypeOK
  <2>8. CASE Return
    BY <2>8 DEF Return, TypeOK
  <2>. QED
    BY <1>4, <2>1, <2>2, <2>3, <2>4, <2>5, <2>6, <2>7, <2>8 DEF Main
<1>5. CASE UNCHANGED vars
  BY <1>5 DEF vars, testsVars, runVars, sendVars, mainVars, TypeOK
<1>. QED
  BY <1>1, <1>2, <1>3, <1>4, <1>5 DEF Next, Finished, Stuck
-----------------------------------------------------------------------------
(* Where the goroutines are.                                               *)

LEMMA InitControl == Init => Control
<1>. SUFFICES ASSUME Init PROVE Control
  OBVIOUS
<1>. QED
  BY CommandLine DEF Init, Control, V2

\* While runAll is at a file, the file exists and its counts are numbers.
LEMMA FileHere ==
  ASSUME TypeOK, Control, pcRun # "idle"
  PROVE  /\ file \in DOMAIN opts.files
         /\ \A s \in Sections : Count(file, s) \in Nat
<1>1. pcTests = "waiting" /\ file # 0
  BY Zenon DEF Control
<1>2. file \in 1..Len(opts.files)
  BY <1>1, CommandLine DEF TypeOK
<1>. QED
  BY <1>2, CommandLine DEF TypeOK

LEMMA NextTestHere ==
  ASSUME TypeOK, Control, At("next"), section \in Sections, num < Count(file, section)
  PROVE  num + 1 \in 1..Count(file, section)
<1>1. Count(file, section) \in Nat
  BY FileHere DEF At
<1>2. num \in Nat
  BY DEF TypeOK
<1>. QED
  BY <1>1, <1>2

LEMMA NextSectionHere ==
  ASSUME TypeOK, Control, At("unwind")
  PROVE  section + 1 = 6 \/ (section + 1 \in Sections /\ Count(file, section + 1) \in Nat)
<1>1. section \in 1..5
  BY DEF At, TypeOK, Control
<1>2. section + 1 = 6 \/ section + 1 \in Sections
  BY <1>1 DEF Sections
<1>. QED
  BY <1>2, FileHere DEF At

LEMMA NextControl ==
  ASSUME TypeOK, Control, [Next]_vars
  PROVE  Control'
<1>. USE CommandLine, ChanCapAssumption
     DEF Sections, Running, TypeOK, Control, V2, Schema, Count, Command
<1>1. CASE Send
  BY <1>1 DEF Send, testsVars, runVars, mainVars
<1>2. CASE RunTests
  <2>1. CASE NextFile
    BY <2>1 DEF NextFile, runVars, sendVars, mainVars
  <2>2. CASE ParseOk
    BY <2>2 DEF ParseOk, mainVars
  <2>3. CASE ParseError
    BY <2>3 DEF ParseError, Emit, runVars, mainVars
  <2>4. CASE FileDone
    BY <2>4 DEF FileDone, runVars, mainVars
  <2>5. CASE CloseChannel
    BY <2>5 DEF CloseChannel, runVars, mainVars
  <2>. QED
    BY <1>2, <2>1, <2>2, <2>3, <2>4, <2>5 DEF RunTests
<1>3. CASE RunAll
  <2>. USE DEF At, runFrame, runVars, testsVars, mainVars
  <2>1. CASE NextTest
    <3>1. num + 1 \in 1..Count(file, section)
      BY <2>1, NextTestHere DEF NextTest
    <3>. QED
      BY <2>1, <3>1 DEF NextTest
  <2>2. CASE InvalidTest
    <3>1. num + 1 \in 1..Count(file, section)
      BY <2>2, NextTestHere DEF InvalidTest
    <3>. QED
      BY <2>2, <3>1 DEF InvalidTest, Emit
  <2>3. CASE NewDriver
    BY <2>3 DEF NewDriver, AfterNewDriver
  <2>4. CASE NewDriverError
    <3>1. CASE V2 /\ section # License
      BY <2>4, <3>1 DEF NewDriverError, Emit
    <3>2. CASE ~(V2 /\ section # License)
      BY <2>4, <3>2 DEF NewDriverError, Fatal
    <3>. QED
      BY <3>1, <3>2
  <2>5. CASE SetEnv
    BY <2>5 DEF SetEnv
  <2>6. CASE SetEnvError
    BY <2>6 DEF SetEnvError, Emit
  <2>7. CASE Setup
    BY <2>7 DEF Setup
  <2>8. CASE SetupError
    BY <2>8 DEF SetupError, Emit
  <2>9. CASE RunTest
    BY <2>9 DEF RunTest, Emit
  <2>10. CASE Hang
    BY <2>10 DEF Hang, InCommand
  <2>11. CASE BreakOff
    BY <2>11 DEF BreakOff, Fatal, InCommand
  <2>12. CASE DestroyDriver
    BY <2>12 DEF DestroyDriver
  <2>13. CASE EndSection
    BY <2>13 DEF EndSection
  <2>14. CASE UnwindDeferred
    BY <2>14 DEF UnwindDeferred
  <2>15. CASE NextSection
    <3>1. section + 1 = 6 \/ Count(file, section + 1) \in Nat
      BY <2>15, NextSectionHere DEF NextSection
    <3>. QED
      BY <2>15, <3>1 DEF NextSection
  <2>16. CASE SignalFileProcessed
    BY <2>16 DEF SignalFileProcessed
  <2>. QED
    BY <1>3, <2>1, <2>2, <2>3, <2>4, <2>5, <2>6, <2>7, <2>8, <2>9, <2>10, <2>11,
       <2>12, <2>13, <2>14, <2>15, <2>16 DEF RunAll
<1>4. CASE Main
  <2>. USE DEF MainAt, mainFrame, testsVars, runVars
  <2>1. CASE Collect
    BY <2>1 DEF Collect
  <2>2. CASE EndCollect
    BY <2>2 DEF EndCollect
  <2>3. CASE Tally
    BY <2>3 DEF Tally
  <2>4. CASE FinalResults
    BY <2>4 DEF FinalResults
  <2>5. CASE FinalResultsError
    BY <2>5 DEF FinalResultsError
  <2>6. CASE WriteReport
    BY <2>6 DEF WriteReport
  <2>7. CASE WriteReportError
    BY <2>7 DEF WriteReportError
  <2>8. CASE Return
    BY <2>8 DEF Return
  <2>. QED
    BY <1>4, <2>1, <2>2, <2>3, <2>4, <2>5, <2>6, <2>7, <2>8 DEF Main
<1>5. CASE UNCHANGED vars
  BY <1>5 DEF vars, testsVars, runVars, sendVars, mainVars
<1>. QED
  BY <1>1, <1>2, <1>3, <1>4, <1>5 DEF Next, Finished, Stuck
-----------------------------------------------------------------------------
(* What each step does to the results that were sent.                      *)

LEMMA EmittedType ==
  ASSUME TypeOK
  PROVE  /\ Emitted \in Seq(Result)
         /\ Len(Emitted) \in Nat
         /\ DOMAIN Emitted = 1..Len(Emitted)
         /\ \A i \in DOMAIN Emitted : Emitted[i] \in Result
<1>1. Emitted \in Seq(Result)
  BY ConcatProperties DEF TypeOK, Emitted
<1>. QED
  BY <1>1, LenProperties, ElementOfSeq

\* The channel and the main goroutine pass the results on as they are.
LEMMA SendKeepsEmitted ==
  ASSUME TypeOK, Send
  PROVE  Emitted' = Emitted
<1>1. /\ results' = results /\ channel' = channel \o outbox /\ outbox' = << >>
  BY DEF Send, mainVars
<1>2. /\ results \in Seq(Result) /\ channel \in Seq(Result) /\ outbox \in Seq(Result)
      /\ results \o (channel \o outbox) \in Seq(Result)
  BY ConcatProperties DEF TypeOK
<1>3. (results \o (channel \o outbox)) \o << >> = results \o (channel \o outbox)
  BY <1>2, ConcatEmptySeq
<1>4. results \o (channel \o outbox) = (results \o channel) \o outbox
  BY <1>2, ConcatAssociative
<1>. QED
  BY <1>1, <1>3, <1>4 DEF Emitted

LEMMA CollectKeepsEmitted ==
  ASSUME TypeOK, Collect
  PROVE  Emitted' = Emitted
<1>1. /\ results' = Append(results, Head(channel)) /\ channel' = Tail(channel)
      /\ outbox' = outbox /\ channel # << >>
  BY DEF Collect, mainFrame
<1>2. results \in Seq(Result) /\ channel \in Seq(Result) /\ outbox \in Seq(Result)
  BY DEF TypeOK
<1>3. Append(results, Head(channel)) \o Tail(channel) = results \o channel
  <2>. DEFINE r == Append(results, Head(channel))
              a == r \o Tail(channel)
              b == results \o channel
  <2>1. /\ Head(channel) \in Result /\ Tail(channel) \in Seq(Result)
        /\ Len(Tail(channel)) = Len(channel) - 1
        /\ \A i \in 1..Len(Tail(channel)) : Tail(channel)[i] = channel[i + 1]
        /\ Len(channel) \in Nat \ {0} /\ Len(results) \in Nat
    BY <1>1, <1>2, HeadTailProperties, EmptySeq, LenProperties
  <2>2. /\ r \in Seq(Result) /\ Len(r) = Len(results) + 1
        /\ \A i \in 1..Len(results) : r[i] = results[i]
        /\ r[Len(results) + 1] = channel[1]
    BY <1>2, <2>1
  <2>3. /\ a \in Seq(Result) /\ Len(a) = Len(results) + Len(channel)
        /\ \A i \in 1..Len(a) : a[i] = IF i <= Len(r) THEN r[i] ELSE Tail(channel)[i - Len(r)]
    <3>. HIDE DEF r
    <3>1. /\ a \in Seq(Result) /\ Len(a) = Len(r) + Len(Tail(channel))
          /\ \A i \in 1..(Len(r) + Len(Tail(channel))) :
               a[i] = IF i <= Len(r) THEN r[i] ELSE Tail(channel)[i - Len(r)]
      BY <2>1, <2>2, ConcatProperties
    <3>2. Len(a) = Len(results) + Len(channel)
      BY <2>1, <2>2, <3>1
    <3>. HIDE DEF a
    <3>. QED
      BY <3>1, <3>2
  <2>4. /\ b \in Seq(Result) /\ Len(b) = Len(results) + Len(channel)
        /\ \A i \in 1..Len(b) : b[i] = IF i <= Len(results) THEN results[i] ELSE channel[i - Len(results)]
    BY <1>2, ConcatProperties
  <2>. HIDE DEF r, a, b
  <2>5. ASSUME NEW i \in 1..Len(a) PROVE a[i] = b[i]
    <3>1. CASE i <= Len(results)
      BY <2>1, <2>2, <2>3, <2>4, <3>1
    <3>2. CASE i = Len(results) + 1
      BY <2>1, <2>2, <2>3, <2>4, <3>2
    <3>3. CASE i > Len(results) + 1
      <4>1. /\ i - Len(r) \in 1..Len(Tail(channel))
            /\ (i - Len(r)) + 1 = i - Len(results)
        BY <2>1, <2>2, <2>3, <3>3
      <4>2. Tail(channel)[i - Len(r)] = channel[i - Len(results)]
        BY <2>1, <4>1
      <4>. QED
        BY <2>1, <2>2, <2>3, <2>4, <3>3, <4>2
    <3>4. i \in Nat /\ Len(results) \in Nat
      BY <2>1, <2>3
    <3>. QED
      BY <3>1, <3>2, <3>3, <3>4
  <2>6. a = b
    BY <2>3, <2>4, <2>5, SeqEqual
  <2>. QED
    BY <2>6 DEF a, b, r
<1>. QED
  BY <1>1, <1>3 DEF Emitted

\* A result put in the empty outbox is the last of those sent.
LEMMA EmitAppends ==
  ASSUME TypeOK, outbox = << >>, NEW u \in Test, NEW p \in BOOLEAN,
         outbox' = <<[test |-> u, pass |-> p]>>,
         results' = results, channel' = channel
  PROVE  /\ DOMAIN Emitted' = 1..(Len(Emitted) + 1)
         /\ \A i \in DOMAIN Emitted : Emitted'[i] = Emitted[i]
         /\ Emitted'[Len(Emitted) + 1] = [test |-> u, pass |-> p]
<1>. DEFINE r == [test |-> u, pass |-> p]
            e == results \o channel
<1>1. r \in Result /\ <<r>> \in Seq(Result) /\ Len(<<r>>) = 1 /\ <<r>>[1] = r
  BY DEF Result
<1>2. e \in Seq(Result) /\ Len(e) \in Nat /\ DOMAIN e = 1..Len(e)
  BY ConcatProperties, LenProperties DEF TypeOK
<1>3. Emitted = e
  BY <1>2, ConcatEmptySeq DEF Emitted
<1>4. Emitted' = e \o <<r>>
  BY DEF Emitted
<1>. HIDE DEF e, r
<1>5. /\ e \o <<r>> \in Seq(Result)
      /\ Len(e \o <<r>>) = Len(e) + 1
      /\ \A i \in 1..(Len(e) + 1) : (e \o <<r>>)[i] = IF i <= Len(e) THEN e[i] ELSE <<r>>[i - Len(e)]
  BY <1>1, <1>2, ConcatProperties
<1>6. DOMAIN (e \o <<r>>) = 1..(Len(e) + 1)
  BY <1>5, LenProperties
<1>7. (e \o <<r>>)[Len(e) + 1] = r
  BY <1>1, <1>2, <1>5
<1>. QED
  BY <1>2, <1>3, <1>4, <1>5, <1>6, <1>7 DEF r
-----------------------------------------------------------------------------
(* No result is lost, none is out of order.                                *)

\* What there is to show of a step that sends nothing: the run is past no
\* more tests of schema v2 than before, and not behind any place it was past.
PastKept ==
  \A f \in DOMAIN opts.files : Schema(f) = "v2" =>
    \A t \in TestsOf(f) : Past(t)' => Past(t)

BehindKept == \A t \in Test : Behind(t) => Behind(t)'

QuietStep == opts' = opts /\ Emitted' = Emitted /\ PastKept /\ BehindKept

\* Where runTests and runAll can send the result of u.
EmitsAt(u) ==
  /\ Running
  /\ \/ pcTests = "parse" /\ file \in DOMAIN opts.files /\ u = Unparsable(file)
     \/ /\ pcTests = "waiting" /\ file \in DOMAIN opts.files /\ section \in Sections
        /\ u = Place(file, section, u.num) /\ u.num \in 1..Count(file, section)
        /\ \/ u.num = num /\ pcRun \in {"driver", "setEnv", "setup", "run"}
           \/ u.num = num + 1 /\ pcRun = "next"

\* And of a step that sends the result of u: u is all that the run gets past,
\* unless u speaks for its whole file, and everything sent before is before u.
EmittingStep(u, p) ==
  /\ EmitsAt(u) /\ opts' = opts /\ exit' = exit
  /\ outbox = << >> /\ outbox' = <<[test |-> u, pass |-> p]>>
  /\ results' = results /\ channel' = channel
  /\ u.section = 0 => ~p
  /\ \A f \in DOMAIN opts.files : Schema(f) = "v2" =>
       \A t \in TestsOf(f) : Past(t)' => Past(t) \/ t = u \/ u = Unparsable(f)
  /\ \A t \in Test : Behind(t) => Behind(t)' /\ Before(t, u)
  /\ Behind(u)'

SendsOne == \E u \in Test, p \in BOOLEAN : EmittingStep(u, p)

LEMMA Quiet ==
  ASSUME TypeOK, Complete, Ordered, QuietStep
  PROVE  Complete' /\ Ordered'
<1>1. opts' = opts /\ Emitted' = Emitted
  BY DEF QuietStep
<1>2. Complete'
  BY <1>1 DEF QuietStep, PastKept, Complete, Schema, TestsOf, Count, IsIn
<1>3. \A i \in DOMAIN Emitted : Emitted[i].test \in Test
  BY EmittedType DEF Result
<1>4. Ordered'
  <2>1. InOrderOnce'
    BY <1>1 DEF Ordered, InOrderOnce
  <2>2. \A i \in DOMAIN Emitted : Behind(Emitted[i].test)'
    <3>1. ASSUME NEW t \in Test, Behind(t) PROVE Behind(t)'
      BY <3>1 DEF QuietStep, BehindKept
    <3>. QED
      BY <1>1, <1>3, <3>1 DEF Ordered, Behind
  <2>. QED
    BY <1>1, <2>1, <2>2 DEF Ordered, Behind
<1>. QED
  BY <1>2, <1>4

LEMMA Emitting ==
  ASSUME TypeOK, Complete, Ordered, NEW u \in Test, NEW p \in BOOLEAN, EmittingStep(u, p)
  PROVE  Complete' /\ Ordered'
<1>. DEFINE n == Len(Emitted)
<1>1. /\ opts' = opts
      /\ DOMAIN Emitted' = 1..(n + 1)
      /\ \A i \in 1..n : Emitted'[i] = Emitted[i]
      /\ Emitted'[n + 1] = [test |-> u, pass |-> p]
  BY EmitAppends, EmittedType DEF EmittingStep
<1>2. n \in Nat /\ DOMAIN Emitted = 1..n /\ \A i \in 1..n : Emitted[i].test \in Test
  BY EmittedType DEF Result
<1>. HIDE DEF n
<1>3. \A t : IsIn(t, Emitted) => IsIn(t, Emitted')
  BY <1>1, <1>2 DEF IsIn
<1>4. IsIn(u, Emitted')
  BY <1>1, <1>2 DEF IsIn
<1>5. Complete'
  <2>1. ASSUME NEW f \in DOMAIN opts.files, Schema(f) = "v2", NEW t \in TestsOf(f), Past(t)'
        PROVE  IsIn(t, Emitted') \/ IsIn(Unparsable(f), Emitted')
    <3>1. Past(t) \/ t = u \/ u = Unparsable(f)
      BY <2>1 DEF EmittingStep
    <3>2. CASE Past(t)
      BY <2>1, <3>2, <1>3 DEF Complete
    <3>. QED
      BY <3>1, <3>2, <1>4
  <2>2. \A i \in DOMAIN Emitted' : Emitted'[i].test.section = 0 => ~Emitted'[i].pass
    BY <1>1, <1>2 DEF EmittingStep, Complete
  <2>. QED
    BY <1>1, <2>1, <2>2 DEF Complete, Schema, TestsOf, Count, IsIn
<1>6. Ordered'
  <2>1. \A i \in 1..n : Behind(Emitted[i].test) /\ Before(Emitted[i].test, u)
    BY <1>2 DEF EmittingStep, Ordered
  <2>2. InOrderOnce'
    <3>1. ASSUME NEW i \in 1..(n + 1), NEW j \in 1..(n + 1), i < j
          PROVE  Before(Emitted'[i].test, Emitted'[j].test)
      <4>1. CASE j = n + 1
        BY <1>1, <1>2, <2>1, <3>1, <4>1
      <4>2. CASE j # n + 1
        <5>1. i \in 1..n /\ j \in 1..n
          BY <1>2, <3>1, <4>2
        <5>. QED
          BY <1>1, <1>2, <3>1, <5>1 DEF Ordered, InOrderOnce
      <4>. QED
        BY <4>1, <4>2
    <3>. QED
      BY <1>1, <3>1 DEF InOrderOnce
  <2>3. ASSUME NEW i \in 1..(n + 1) PROVE Behind(Emitted[i].test)'
    <3>1. CASE i = n + 1
      <4>1. Emitted'[i].test = u /\ Behind(u)'
        BY <1>1, <3>1 DEF EmittingStep
      <4>. QED
        BY <4>1 DEF Behind
    <3>2. CASE i # n + 1
      <4>1. ASSUME NEW t \in Test, Behind(t) PROVE Behind(t)'
        BY <4>1 DEF EmittingStep
      <4>2. i \in 1..n
        BY <1>2, <3>2
      <4>. QED
        BY <1>1, <1>2, <2>1, <4>1, <4>2 DEF Behind
    <3>. QED
      BY <3>1, <3>2
  <2>. QED
    BY <1>1, <2>2, <2>3 DEF Ordered
<1>. QED
  BY <1>5, <1>6

\* The tests of a file are at the places of the file.
LEMMA TestPlaces ==
  ASSUME opts \in Options, NEW f \in DOMAIN opts.files, NEW t \in TestsOf(f)
  PROVE  /\ t.file = f /\ f \in Nat
         /\ t.section \in Sections
         /\ t.num \in 1..Count(f, t.section) /\ Count(f, t.section) \in Nat
         /\ t = Place(f, t.section, t.num)
<1>1. PICK s \in Sections : \E n \in 1..Count(f, s) : t = Place(f, s, n)
  BY DEF TestsOf
<1>. QED
  BY <1>1, CommandLine DEF Place
\* Every step either sends nothing or sends one result.
LEMMA NextSends ==
  ASSUME TypeOK, Control, [Next]_vars
  PROVE  QuietStep \/ SendsOne
<1>. USE DEF Running
<1>0. opts \in Options
  BY DEF TypeOK
<1>1. CASE Send
  <2>1. opts' = opts /\ Emitted' = Emitted
    BY <1>1, SendKeepsEmitted DEF Send, testsVars, runVars, mainVars
  <2>2. PastKept
    BY <1>1, <1>0, TestPlaces DEF Send, testsVars, runVars, mainVars, PastKept, Past, Sections, TypeOK, Control, V2
  <2>3. BehindKept
    BY <1>1 DEF Send, testsVars, runVars, mainVars, BehindKept, Behind, Test, TypeOK, Control
  <2>. QED
    BY <2>1, <2>2, <2>3 DEF QuietStep
<1>2. CASE RunTests
  <2>1. CASE NextFile
    <3>1. opts' = opts /\ Emitted' = Emitted
      BY <2>1 DEF NextFile, runVars, sendVars, mainVars, Emitted
    <3>2. PastKept
      BY <2>1, <1>0, TestPlaces DEF NextFile, runVars, sendVars, mainVars, PastKept, Past, Sections, TypeOK, Control, V2
    <3>3. BehindKept
      BY <2>1 DEF NextFile, runVars, sendVars, mainVars, BehindKept, Behind, Test, TypeOK, Control
    <3>. QED
      BY <3>1, <3>2, <3>3 DEF QuietStep
  <2>2. CASE ParseOk
    <3>1. opts' = opts /\ Emitted' = Emitted
      BY <2>2 DEF ParseOk, mainVars, Emitted
    <3>2. PastKept
      BY <2>2, <1>0, TestPlaces, SMTT(30) DEF ParseOk, mainVars, PastKept, Past, Sections, TypeOK, Control, V2
    <3>3. BehindKept
      BY <2>2 DEF ParseOk, mainVars, BehindKept, Behind, Test, TypeOK, Control
    <3>. QED
      BY <3>1, <3>2, <3>3 DEF QuietStep
  <2>3. CASE ParseError
    <3>1. PICK u \in Test : u = Unparsable(file)
      BY <2>3, HereIsTest DEF ParseError, Emit, runVars, mainVars, Control, TypeOK, Unparsable, Place, Test
    <3>2. EmittingStep(u, FALSE)
      <4>1. /\ opts' = opts /\ outbox = << >> /\ outbox' = <<[test |-> u, pass |-> FALSE]>>
            /\ results' = results /\ channel' = channel
        BY <2>3, <3>1 DEF ParseError, Emit, runVars, mainVars
      <4>2. u.section = 0 => ~FALSE
        BY <2>3, <3>1 DEF ParseError, Emit, runVars, mainVars, Control, Here, Place, Sections
      <4>3. \A f \in DOMAIN opts.files : Schema(f) = "v2" =>
            \A t \in TestsOf(f) : Past(t)' => Past(t) \/ t = u \/ u = Unparsable(f)
        BY <2>3, <3>1, <1>0, TestPlaces DEF ParseError, Emit, runVars, mainVars, Past, Here, Place, Unparsable, TypeOK, Control
      <4>4. \A t \in Test : Behind(t) => Behind(t)' /\ Before(t, u)
        BY <2>3, <3>1 DEF ParseError, Emit, runVars, mainVars, Behind, Before, Here, Place, Unparsable, Test, TypeOK, Control
      <4>5. Behind(u)'
        BY <2>3, <3>1 DEF ParseError, Emit, runVars, mainVars, Behind, Here, Place, Unparsable, TypeOK, Control
      <4>6. EmitsAt(u) /\ exit' = exit
        BY <2>3, <3>1, CommandLine, FileHere DEF ParseError, Emit, runVars, mainVars, EmitsAt, Here, Place, Unparsable, TypeOK, Control
      <4>. QED
        BY <4>1, <4>2, <4>3, <4>4, <4>5, <4>6 DEF EmittingStep
    <3>. QED
      BY <3>1, <3>2 DEF SendsOne
  <2>4. CASE FileDone
    <3>1. opts' = opts /\ Emitted' = Emitted
      BY <2>4 DEF FileDone, runVars, mainVars, Emitted
    <3>2. PastKept
      BY <2>4, <1>0, TestPlaces, SMTT(30) DEF FileDone, runVars, mainVars, PastKept, Past, Sections, TypeOK, Control, V2
    <3>3. BehindKept
      BY <2>4 DEF FileDone, runVars, mainVars, BehindKept, Behind, Test, TypeOK, Control
    <3>. QED
      BY <3>1, <3>2, <3>3 DEF QuietStep
  <2>5. CASE CloseChannel
    <3>1. opts' = opts /\ Emitted' = Emitted
      BY <2>5 DEF CloseChannel, runVars, mainVars, Emitted
    <3>2. PastKept
      BY <2>5, <1>0, TestPlaces DEF CloseChannel, runVars, mainVars, PastKept, Past, Sections, TypeOK, Control, V2
    <3>3. BehindKept
      BY <2>5 DEF CloseChannel, runVars, mainVars, BehindKept, Behind, Test, TypeOK, Control
    <3>. QED
      BY <3>1, <3>2, <3>3 DEF QuietStep
  <2>. QED
    BY <1>2, <2>1, <2>2, <2>3, <2>4, <2>5 DEF RunTests
<1>3. CASE RunAll
  <2>. USE DEF At, runFrame, runVars, testsVars, mainVars
  <2>1. CASE NextTest
    <3>1. opts' = opts /\ Emitted' = Emitted
      BY <2>1 DEF NextTest, Emitted
    <3>2. PastKept
      BY <2>1, <1>0, TestPlaces DEF NextTest, PastKept, Past, Sections, TypeOK, Control, V2
    <3>3. BehindKept
      BY <2>1 DEF NextTest, BehindKept, Behind, Test, TypeOK, Control
    <3>. QED
      BY <3>1, <3>2, <3>3 DEF QuietStep
  <2>2. CASE InvalidTest
    <3>1. CASE V2
      <4>1. PICK u \in Test : u = Place(file, section, num + 1)
        BY <2>2, <3>1, HereIsTest DEF InvalidTest, Emit, Control, TypeOK, Unparsable, Place, Test
      <4>2. EmittingStep(u, FALSE)
        <5>1. /\ opts' = opts /\ outbox = << >> /\ outbox' = <<[test |-> u, pass |-> FALSE]>>
              /\ results' = results /\ channel' = channel
          BY <2>2, <3>1, <4>1 DEF InvalidTest, Emit
        <5>2. u.section = 0 => ~FALSE
          BY <2>2, <3>1, <4>1 DEF InvalidTest, Emit, Control, Here, Place, Sections
        <5>3. \A f \in DOMAIN opts.files : Schema(f) = "v2" =>
              \A t \in TestsOf(f) : Past(t)' => Past(t) \/ t = u \/ u = Unparsable(f)
          BY <2>2, <3>1, <4>1, <1>0, TestPlaces DEF InvalidTest, Emit, Past, Here, Place, Unparsable, TypeOK, Control
        <5>4. \A t \in Test : Behind(t) => Behind(t)' /\ Before(t, u)
          BY <2>2, <3>1, <4>1 DEF InvalidTest, Emit, Behind, Before, Here, Place, Unparsable, Test, TypeOK, Control
        <5>5. Behind(u)'
          BY <2>2, <3>1, <4>1 DEF InvalidTest, Emit, Behind, Here, Place, Unparsable, TypeOK, Control
        <5>6. EmitsAt(u) /\ exit' = exit
          BY <2>2, <3>1, <4>1, CommandLine, FileHere DEF InvalidTest, Emit, runVars, mainVars, EmitsAt, Here, Place, Unparsable, TypeOK, Control
        <5>. QED
          BY <5>1, <5>2, <5>3, <5>4, <5>5, <5>6 DEF EmittingStep
      <4>. QED
        BY <4>1, <4>2 DEF SendsOne
    <3>2. CASE ~V2
      <4>1. opts' = opts /\ Emitted' = Emitted
        BY <2>2, <3>2 DEF InvalidTest, Emitted
      <4>2. PastKept
        BY <2>2, <3>2, <1>0, TestPlaces DEF InvalidTest, PastKept, Past, Sections, TypeOK, Control, V2
      <4>3. BehindKept
        BY <2>2, <3>2 DEF InvalidTest, BehindKept, Behind, Test, TypeOK, Control
      <4>. QED
        BY <4>1, <4>2, <4>3 DEF QuietStep
    <3>. QED
      BY <3>1, <3>2
  <2>3. CASE NewDriver
    <3>1. opts' = opts /\ Emitted' = Emitted
      BY <2>3 DEF NewDriver, AfterNewDriver, Emitted
    <3>2. PastKept
      BY <2>3, <1>0, TestPlaces DEF NewDriver, AfterNewDriver, PastKept, Past, Sections, TypeOK, Control, V2
    <3>3. BehindKept
      BY <2>3 DEF NewDriver, AfterNewDriver, BehindKept, Behind, Test, TypeOK, Control
    <3>. QED
      BY <3>1, <3>2, <3>3 DEF QuietStep
  <2>4. CASE NewDriverError
    <3>1. CASE V2 /\ section # License
      <4>1. PICK u \in Test : u = Here
        BY <2>4, <3>1, HereIsTest DEF NewDriverError, Emit, Control, TypeOK, Unparsable, Place, Test
      <4>2. EmittingStep(u, FALSE)
        <5>1. /\ opts' = opts /\ outbox = << >> /\ outbox' = <<[test |-> u, pass |-> FALSE]>>
              /\ results' = results /\ channel' = channel
          BY <2>4, <3>1, <4>1 DEF NewDriverError, Emit
        <5>2. u.section = 0 => ~FALSE
          BY <2>4, <3>1, <4>1 DEF NewDriverError, Emit, Control, Here, Place, Sections
        <5>3. \A f \in DOMAIN opts.files : Schema(f) = "v2" =>
              \A t \in TestsOf(f) : Past(t)' => Past(t) \/ t = u \/ u = Unparsable(f)
          BY <2>4, <3>1, <4>1, <1>0, TestPlaces DEF NewDriverError, Emit, Past, Here, Place, Unparsable, TypeOK, Control
        <5>4. \A t \in Test : Behind(t) => Behind(t)' /\ Before(t, u)
          BY <2>4, <3>1, <4>1 DEF NewDriverError, Emit, Behind, Before, Here, Place, Unparsable, Test, TypeOK, Control
        <5>5. Behind(u)'
          BY <2>4, <3>1, <4>1 DEF NewDriverError, Emit, Behind, Here, Place, Unparsable, TypeOK, Control
        <5>6. EmitsAt(u) /\ exit' = exit
          BY <2>4, <3>1, <4>1, CommandLine, FileHere DEF NewDriverError, Emit, runVars, mainVars, EmitsAt, Here, Place, Unparsable, TypeOK, Control
        <5>. QED
          BY <5>1, <5>2, <5>3, <5>4, <5>5, <5>6 DEF EmittingStep
      <4>. QED
        BY <4>1, <4>2 DEF SendsOne
    <3>2. CASE ~(V2 /\ section # License)
      <4>1. opts' = opts /\ Emitted' = Emitted
        BY <2>4, <3>2 DEF NewDriverError, Fatal, Emitted
      <4>2. PastKept
        BY <2>4, <3>2, <1>0, TestPlaces DEF NewDriverError, Fatal, PastKept, Past, Sections, TypeOK, Control, V2
      <4>3. BehindKept
        BY <2>4, <3>2 DEF NewDriverError, Fatal, BehindKept, Behind, Test, TypeOK, Control
      <4>. QED
        BY <4>1, <4>2, <4>3 DEF QuietStep
    <3>. QED
      BY <3>1, <3>2
  <2>5. CASE SetEnv
    <3>1. opts' = opts /\ Emitted' = Emitted
      BY <2>5 DEF SetEnv, Emitted
    <3>2. PastKept
      BY <2>5, <1>0, TestPlaces DEF SetEnv, PastKept, Past, Sections, TypeOK, Control, V2
    <3>3. BehindKept
      BY <2>5 DEF SetEnv, BehindKept, Behind, Test, TypeOK, Control
    <3>. QED
      BY <3>1, <3>2, <3>3 DEF QuietStep
  <2>6. CASE SetEnvError
    <3>1. PICK u \in Test : u = Here
      BY <2>6, HereIsTest DEF SetEnvError, Emit, Control, TypeOK, Unparsable, Place, Test
    <3>2. EmittingStep(u, FALSE)
      <4>1. /\ opts' = opts /\ outbox = << >> /\ outbox' = <<[test |-> u, pass |-> FALSE]>>
            /\ results' = results /\ channel' = channel
        BY <2>6, <3>1 DEF SetEnvError, Emit
      <4>2. u.section = 0 => ~FALSE
        BY <2>6, <3>1 DEF SetEnvError, Emit, Control, Here, Place, Sections
      <4>3. \A f \in DOMAIN opts.files : Schema(f) = "v2" =>
            \A t \in TestsOf(f) : Past(t)' => Past(t) \/ t = u \/ u = Unparsable(f)
        BY <2>6, <3>1, <1>0, TestPlaces DEF SetEnvError, Emit, Past, Here, Place, Unparsable, TypeOK, Control
      <4>4. \A t \in Test : Behind(t) => Behind(t)' /\ Before(t, u)
        BY <2>6, <3>1 DEF SetEnvError, Emit, Behind, Before, Here, Place, Unparsable, Test, TypeOK, Control
      <4>5. Behind(u)'
        BY <2>6, <3>1 DEF SetEnvError, Emit, Behind, Here, Place, Unparsable, TypeOK, Control
      <4>6. EmitsAt(u) /\ exit' = exit
        BY <2>6, <3>1, CommandLine, FileHere DEF SetEnvError, Emit, runVars, mainVars, EmitsAt, Here, Place, Unparsable, TypeOK, Control
      <4>. QED
        BY <4>1, <4>2, <4>3, <4>4, <4>5, <4>6 DEF EmittingStep
    <3>. QED
      BY <3>1, <3>2 DEF SendsOne
  <2>7. CASE Setup
    <3>1. opts' = opts /\ Emitted' = Emitted
      BY <2>7 DEF Setup, Emitted
    <3>2. PastKept
      BY <2>7, <1>0, TestPlaces DEF Setup, PastKept, Past, Sections, TypeOK, Control, V2
    <3>3. BehindKept
      BY <2>7 DEF Setup, BehindKept, Behind, Test, TypeOK, Control
    <3>. QED
      BY <3>1, <3>2, <3>3 DEF QuietStep
  <2>8. CASE SetupError
    <3>1. CASE V2
      <4>1. PICK u \in Test : u = Here
        BY <2>8, <3>1, HereIsTest DEF SetupError, Emit, Control, TypeOK, Unparsable, Place, Test
      <4>2. EmittingStep(u, FALSE)
        <5>1. /\ opts' = opts /\ outbox = << >> /\ outbox' = <<[test |-> u, pass |-> FALSE]>>
              /\ results' = results /\ channel' = channel
          BY <2>8, <3>1, <4>1 DEF SetupError, Emit
        <5>2. u.section = 0 => ~FALSE
          BY <2>8, <3>1, <4>1 DEF SetupError, Emit, Control, Here, Place, Sections
        <5>3. \A f \in DOMAIN opts.files : Schema(f) = "v2" =>
              \A t \in TestsOf(f) : Past(t)' => Past(t) \/ t = u \/ u = Unparsable(f)
          BY <2>8, <3>1, <4>1, <1>0, TestPlaces DEF SetupError, Emit, Past, Here, Place, Unparsable, TypeOK, Control
        <5>4. \A t \in Test : Behind(t) => Behind(t)' /\ Before(t, u)
          BY <2>8, <3>1, <4>1 DEF SetupError, Emit, Behind, Before, Here, Place, Unparsable, Test, TypeOK, Control
        <5>5. Behind(u)'
          BY <2>8, <3>1, <4>1 DEF SetupError, Emit, Behind, Here, Place, Unparsable, TypeOK, Control
        <5>6. EmitsAt(u) /\ exit' = exit
          BY <2>8, <3>1, <4>1, CommandLine, FileHere DEF SetupError, Emit, runVars, mainVars, EmitsAt, Here, Place, Unparsable, TypeOK, Control
        <5>. QED
          BY <5>1, <5>2, <5>3, <5>4, <5>5, <5>6 DEF EmittingStep
      <4>. QED
        BY <4>1, <4>2 DEF SendsOne
    <3>2. CASE ~V2
      <4>1. opts' = opts /\ Emitted' = Emitted
        BY <2>8, <3>2 DEF SetupError, Emitted
      <4>2. PastKept
        BY <2>8, <3>2, <1>0, TestPlaces DEF SetupError, PastKept, Past, Sections, TypeOK, Control, V2
      <4>3. BehindKept
        BY <2>8, <3>2 DEF SetupError, BehindKept, Behind, Test, TypeOK, Control
      <4>. QED
        BY <4>1, <4>2, <4>3 DEF QuietStep
    <3>. QED
      BY <3>1, <3>2
  <2>9. CASE RunTest
    <3>0. PICK pass \in BOOLEAN : Emit(Here, pass)
      BY <2>9 DEF RunTest
    <3>1. PICK u \in Test : u = Here
      BY <2>9, <3>0, HereIsTest DEF RunTest, Emit, Control, TypeOK, Unparsable, Place, Test
    <3>2. EmittingStep(u, pass)
      <4>1. /\ opts' = opts /\ outbox = << >> /\ outbox' = <<[test |-> u, pass |-> pass]>>
            /\ results' = results /\ channel' = channel
        BY <2>9, <3>0, <3>1 DEF RunTest, Emit
      <4>2. u.section = 0 => ~pass
        BY <2>9, <3>0, <3>1 DEF RunTest, Emit, Control, Here, Place, Sections
      <4>3. \A f \in DOMAIN opts.files : Schema(f) = "v2" =>
            \A t \in TestsOf(f) : Past(t)' => Past(t) \/ t = u \/ u = Unparsable(f)
        BY <2>9, <3>0, <3>1, <1>0, TestPlaces DEF RunTest, Emit, Past, Here, Place, Unparsable, TypeOK, Control
      <4>4. \A t \in Test : Behind(t) => Behind(t)' /\ Before(t, u)
        BY <2>9, <3>0, <3>1 DEF RunTest, Emit, Behind, Before, Here, Place, Unparsable, Test, TypeOK, Control
      <4>5. Behind(u)'
        BY <2>9, <3>0, <3>1 DEF RunTest, Emit, Behind, Here, Place, Unparsable, TypeOK, Control
      <4>6. EmitsAt(u) /\ exit' = exit
        BY <2>9, <3>0, <3>1, CommandLine, FileHere DEF RunTest, Emit, runVars, mainVars, EmitsAt, Here, Place, Unparsable, TypeOK, Control
      <4>. QED
        BY <4>1, <4>2, <4>3, <4>4, <4>5, <4>6 DEF EmittingStep
    <3>. QED
      BY <3>1, <3>2 DEF SendsOne
  <2>10. CASE Hang
    <3>1. opts' = opts /\ Emitted' = Emitted
      BY <2>10 DEF Hang, InCommand, Emitted
    <3>2. PastKept
      BY <2>10, <1>0, TestPlaces DEF Hang, InCommand, PastKept, Past, Sections, TypeOK, Control, V2
    <3>3. BehindKept
      BY <2>10 DEF Hang, InCommand, BehindKept, Behind, Test, TypeOK, Control
    <3>. QED
      BY <3>1, <3>2, <3>3 DEF QuietStep
  <2>11. CASE BreakOff
    <3>1. opts' = opts /\ Emitted' = Emitted
      BY <2>11 DEF BreakOff, Fatal, InCommand, Emitted
    <3>2. PastKept
      BY <2>11, <1>0, TestPlaces DEF BreakOff, Fatal, InCommand, PastKept, Past, Sections, TypeOK, Control, V2
    <3>3. BehindKept
      BY <2>11 DEF BreakOff, Fatal, InCommand, BehindKept, Behind, Test, TypeOK, Control
    <3>. QED
      BY <3>1, <3>2, <3>3 DEF QuietStep
  <2>12. CASE DestroyDriver
    <3>1. opts' = opts /\ Emitted' = Emitted
      BY <2>12 DEF DestroyDriver, Emitted
    <3>2. PastKept
      BY <2>12, <1>0, TestPlaces DEF DestroyDriver, PastKept, Past, Sections, TypeOK, Control, V2
    <3>3. BehindKept
      BY <2>12 DEF DestroyDriver, BehindKept, Behind, Test, TypeOK, Control
    <3>. QED
      BY <3>1, <3>2, <3>3 DEF QuietStep
  <2>13. CASE EndSection
    <3>1. opts' = opts /\ Emitted' = Emitted
      BY <2>13 DEF EndSection, Emitted
    <3>2. PastKept
      BY <2>13, <1>0, TestPlaces DEF EndSection, PastKept, Past, Sections, TypeOK, Control, V2
    <3>3. BehindKept
      BY <2>13 DEF EndSection, BehindKept, Behind, Test, TypeOK, Control
    <3>. QED
      BY <3>1, <3>2, <3>3 DEF QuietStep
  <2>14. CASE UnwindDeferred
    <3>1. opts' = opts /\ Emitted' = Emitted
      BY <2>14 DEF UnwindDeferred, Emitted
    <3>2. PastKept
      BY <2>14, <1>0, TestPlaces DEF UnwindDeferred, PastKept, Past, Sections, TypeOK, Control, V2
    <3>3. BehindKept
      BY <2>14 DEF UnwindDeferred, BehindKept, Behind, Test, TypeOK, Control
    <3>. QED
      BY <3>1, <3>2, <3>3 DEF QuietStep
  <2>15. CASE NextSection
    <3>1. opts' = opts /\ Emitted' = Emitted
      BY <2>15 DEF NextSection, Emitted
    <3>2. PastKept
      <4>1. ASSUME NEW f \in DOMAIN opts.files, NEW t \in TestsOf(f), Past(t)'
            PROVE  Past(t)
        <5>1. /\ t.section \in 1..5 /\ t.num \in Nat \ {0} /\ t.file = f /\ f \in Nat
              /\ t.num <= Count(f, t.section)
          BY <1>0, TestPlaces DEF Sections
        <5>2. /\ pcTests = "waiting" /\ pcRun = "unwind" /\ num = Count(file, section)
              /\ section \in Nat /\ file \in Nat
              /\ file' = file /\ pcTests' = pcTests /\ section' = section + 1 /\ num' = 0
          BY <2>15 DEF NextSection, TypeOK, Control
        <5>3. t.file = file /\ t.section = section => t.num < num \/ t.num = num
          <6>. SUFFICES ASSUME t.file = file, t.section = section
                       PROVE  t.num <= num /\ num \in Nat
            BY <5>1
          <6>. QED
            BY <5>1, <5>2 DEF TypeOK
        <5>4. t.file < file \/ (t.file = file /\ t.section < section + 1)
          BY <4>1, <5>1, <5>2 DEF Past
        <5>5. t.file = file => t.section < section \/ t.section = section
          BY <5>1, <5>2, <5>4
        <5>. QED
          BY <5>2, <5>3, <5>4, <5>5 DEF Past
      <4>. QED
        BY <4>1 DEF PastKept
    <3>3. BehindKept
      BY <2>15 DEF NextSection, BehindKept, Behind, Test, TypeOK, Control
    <3>. QED
      BY <3>1, <3>2, <3>3 DEF QuietStep
  <2>16. CASE SignalFileProcessed
    <3>1. opts' = opts /\ Emitted' = Emitted
      BY <2>16 DEF SignalFileProcessed, Emitted
    <3>2. PastKept
      BY <2>16, <1>0, TestPlaces DEF SignalFileProcessed, PastKept, Past, Sections, TypeOK, Control, V2
    <3>3. BehindKept
      BY <2>16 DEF SignalFileProcessed, BehindKept, Behind, Test, TypeOK, Control
    <3>. QED
      BY <3>1, <3>2, <3>3 DEF QuietStep
  <2>. QED
    BY <1>3, <2>1, <2>2, <2>3, <2>4, <2>5, <2>6, <2>7, <2>8, <2>9, <2>10, <2>11,
       <2>12, <2>13, <2>14, <2>15, <2>16 DEF RunAll
<1>4. CASE Main
  <2>. USE DEF MainAt, mainFrame, testsVars, runVars
  <2>1. UNCHANGED <<opts, file, pcTests, pcRun, section, num>>
    BY <1>4 DEF Main, Collect, EndCollect, Tally, FinalResults, FinalResultsError,
                WriteReport, WriteReportError, Return
  <2>2. Emitted' = Emitted
    <3>1. CASE Collect
      BY <3>1, CollectKeepsEmitted
    <3>2. CASE Main /\ ~Collect
      BY <3>2 DEF Main, EndCollect, Tally, FinalResults, FinalResultsError,
                  WriteReport, WriteReportError, Return, Emitted
    <3>. QED
      BY <1>4, <3>1, <3>2
  <2>. QED
    BY <2>1, <2>2 DEF QuietStep, PastKept, BehindKept, Past, Behind
<1>5. CASE UNCHANGED vars
  BY <1>5 DEF vars, testsVars, runVars, sendVars, mainVars, Emitted, QuietStep,
                     PastKept, BehindKept, Past, Behind
<1>. QED
  BY <1>1, <1>2, <1>3, <1>4, <1>5 DEF Next, Finished, Stuck

LEMMA NextResults ==
  ASSUME TypeOK, Control, Complete, Ordered, [Next]_vars
  PROVE  Complete' /\ Ordered'
BY NextSends, Quiet, Emitting DEF SendsOne

-----------------------------------------------------------------------------
(* The tally and the exit code.                                            *)

LEMMA NextAccount ==
  ASSUME TypeOK, Control, Account, [Next]_vars
  PROVE  Account'
<1>. USE CommandLine DEF TypeOK, Account, Tallied
<1>1. CASE Send
  BY <1>1 DEF Send, mainVars
<1>2. CASE RunTests
  <2>1. UNCHANGED <<opts, pcMain, results, totalPass, totalFail, reportFile, exit>>
    BY <1>2 DEF RunTests, NextFile, ParseOk, ParseError, FileDone, CloseChannel, mainVars
  <2>. QED
    BY <2>1
<1>3. CASE RunAll
  <2>1. UNCHANGED <<opts, pcMain, results, totalPass, totalFail, reportFile>>
    BY <1>3 DEF RunAll, NextTest, InvalidTest, NewDriver, NewDriverError, SetEnv, SetEnvError,
       Setup, SetupError, RunTest, Hang, BreakOff, DestroyDriver, EndSection, UnwindDeferred,
       NextSection, SignalFileProcessed, runFrame, mainVars
  <2>2. exit = "running" /\ exit' \in {"running", "fatal"}
    BY <1>3 DEF RunAll, NextTest, InvalidTest, NewDriver, NewDriverError, SetEnv, SetEnvError,
       Setup, SetupError, RunTest, Hang, BreakOff, InCommand, Fatal, DestroyDriver, EndSection,
       UnwindDeferred, NextSection, SignalFileProcessed, At, Running
  <2>. QED
    BY <2>1, <2>2
<1>4. CASE Main
  <2>. USE DEF MainAt, mainFrame
  <2>1. CASE Collect
    BY <2>1, HeadTailProperties DEF Collect
  <2>2. CASE EndCollect
    BY <2>2 DEF EndCollect
  <2>3. CASE Tally
    BY <2>3 DEF Tally
  <2>4. CASE FinalResults
    BY <2>4 DEF FinalResults
  <2>5. CASE FinalResultsError
    BY <2>5 DEF FinalResultsError
  <2>6. CASE WriteReport
    BY <2>6 DEF WriteReport
  <2>7. CASE WriteReportError
    BY <2>7 DEF WriteReportError
  <2>8. CASE Return
    BY <2>8 DEF Return
  <2>. QED
    BY <1>4, <2>1, <2>2, <2>3, <2>4, <2>5, <2>6, <2>7, <2>8 DEF Main
<1>5. CASE UNCHANGED vars
  BY <1>5 DEF vars, mainVars
<1>. QED
  BY <1>1, <1>2, <1>3, <1>4, <1>5 DEF Next, Finished, Stuck

LEMMA InitResults == Init => Complete /\ Ordered /\ Account
<1>. SUFFICES ASSUME Init PROVE Complete /\ Ordered /\ Account
  OBVIOUS
<1>1. Emitted = << >> /\ DOMAIN Emitted = {}
  BY DEF Init, Emitted
<1>2. Complete
  <2>1. \A f \in DOMAIN opts.files : \A t \in TestsOf(f) : ~Past(t)
    BY TestPlaces, CommandLine DEF Init, Past
  <2>. QED
    BY <1>1, <2>1 DEF Complete
<1>3. Ordered
  BY <1>1 DEF Ordered, InOrderOnce
<1>4. Account
  BY DEF Init, Account, Tallied
<1>. QED
  BY <1>2, <1>3, <1>4

-----------------------------------------------------------------------------
(* The theorems.                                                           *)

THEOREM Inductive == Spec => []IInv
<1>1. Init => IInv
  BY InitTypeOK, InitControl, InitResults DEF IInv
<1>2. IInv /\ [Next]_vars => IInv'
  BY NextTypeOK, NextControl, NextResults, NextAccount DEF IInv
<1>. QED
  BY <1>1, <1>2, PTL DEF Spec

\* Every variable keeps its type and the channel its bound, whatever the
\* command line and the capacity.
THEOREM TypeCorrect == Spec => []TypeOK
<1>1. IInv => TypeOK
  BY DEF IInv
<1>. QED
  BY <1>1, Inductive, PTL

\* No goroutine can send on the channel once runTests has closed it.
THEOREM ClosedForGood == Spec => []NoSendOnClosed
<1>1. IInv => NoSendOnClosed
  BY DEF IInv, Control, NoSendOnClosed
<1>. QED
  BY <1>1, Inductive, PTL

\* The results are in the order of the files and tests, each test at most once.
THEOREM ResultsInOrder == Spec => []InOrderOnce
<1>1. IInv => InOrderOnce
  BY DEF IInv, Ordered
<1>. QED
  BY <1>1, Inductive, PTL

\* The summary is written only when every goroutine but the main one is done.
THEOREM SummaryAtTheEnd == Spec => []SummaryIsLast
<1>1. IInv => SummaryIsLast
  BY DEF IInv, Control, SummaryIsLast
<1>. QED
  BY <1>1, Inductive, PTL

\* Exit code 0 is earned, whatever the files hold and whatever fails.
THEOREM ExitCode == Spec => []ExitZeroIsEarned
<1>1. ASSUME IInv, exit = "ok" PROVE ExitZeroIsEarned
  <2>1. /\ pcMain # "collect" /\ Tallied = Len(results) /\ Tallied > 0 /\ totalFail = 0
        /\ opts.report => reportFile = "written"
        /\ \A i \in 1..Tallied : results[i].pass
    BY <1>1 DEF IInv, Account
  <2>2. /\ pcTests = "done" /\ file = Len(opts.files)
        /\ channel = << >> /\ outbox = << >>
    BY <1>1, <2>1 DEF IInv, Control
  <2>3. results \in Seq(Result) /\ DOMAIN results = 1..Len(results)
    BY <1>1 DEF IInv, TypeOK
  <2>4. Emitted = results
    BY <2>2, <2>3, ConcatEmptySeq DEF Emitted
  <2>5. \A i \in DOMAIN results : results[i].pass
    BY <2>1, <2>3
  <2>6. \A f \in DOMAIN opts.files : ~IsIn(Unparsable(f), results)
    BY <1>1, <2>4, <2>5 DEF IInv, Complete, IsIn, Unparsable, Place
  <2>7. \A f \in DOMAIN opts.files : \A t \in TestsOf(f) : Past(t)
    BY <1>1, <2>2, CommandLine, TestPlaces DEF Past, IInv, TypeOK
  <2>8. \A f \in DOMAIN opts.files : Schema(f) = "v2" => \A t \in TestsOf(f) : IsIn(t, results)
    BY <1>1, <2>4, <2>6, <2>7 DEF IInv, Complete
  <2>9. results # << >>
    BY <2>1, <2>3, EmptySeq
  <2>. QED
    BY <2>1, <2>5, <2>8, <2>9 DEF ExitZeroIsEarned
<1>2. IInv => ExitZeroIsEarned
  BY <1>1 DEF ExitZeroIsEarned
<1>. QED
  BY <1>2, Inductive, PTL

-----------------------------------------------------------------------------
(* The contract: every behaviour of Pipeline is one of RunContract, in     *)
(* which there is neither a goroutine nor a channel nor a driver.  The     *)
(* results reported are those on their way to or in the main goroutine, so *)
(* a result counts from the moment a test sends it.  What Complete says of *)
(* the tests the run is past is what the contract calls settled; what IInv *)
(* lacks is that a file that could not be parsed is over when its result   *)
(* is there (UnparsedIsOver).                                              *)

FileOver(f) == f < file \/ (f = file /\ pcTests \in {"next", "done"})

UnparsedIsOver ==
  \A i \in DOMAIN Emitted : Emitted[i].test.section = 0 => FileOver(Emitted[i].test.file)

CInv == IInv /\ UnparsedIsOver

-----------------------------------------------------------------------------
\* A file that is over stays over, and at a result for a test of section 0 the
\* step ends its file.
LEMMA FilesStayOver ==
  ASSUME TypeOK, Control, [Next]_vars
  PROVE  /\ \A f \in Nat : FileOver(f) => FileOver(f)'
         /\ pcTests = "parse" /\ outbox = << >> /\ outbox' # << >> =>
             \A f : f = file => FileOver(f)'
<1>. USE DEF FileOver, TypeOK, Control
<1>0. file \in Nat
  BY CommandLine
<1>1. CASE RunTests
  <2>1. CASE NextFile
    BY <1>0, <2>1 DEF NextFile, sendVars
  <2>2. CASE ParseOk \/ ParseError \/ FileDone \/ CloseChannel
    BY <1>0, <2>2 DEF ParseOk, ParseError, FileDone, CloseChannel
  <2>. QED
    BY <1>1, <2>1, <2>2 DEF RunTests
<1>2. CASE RunAll
  <2>1. pcTests = "waiting" /\ file' = file /\ pcTests' = pcTests
    BY <1>2 DEF RunAll, NextTest, InvalidTest, NewDriver, NewDriverError, SetEnv, SetEnvError,
       Setup, SetupError, RunTest, Hang, BreakOff, InCommand, DestroyDriver, EndSection,
       UnwindDeferred, NextSection, SignalFileProcessed, runFrame, testsVars, At
  <2>. QED
    BY <2>1
<1>3. CASE Send \/ Main \/ UNCHANGED vars
  BY <1>3 DEF Send, Main, Collect, EndCollect, Tally, FinalResults, FinalResultsError,
              WriteReport, WriteReportError, Return, mainFrame, vars, testsVars, sendVars
<1>. QED
  BY <1>1, <1>2, <1>3 DEF Next, Finished, Stuck

LEMMA NextUnparsed ==
  ASSUME IInv, UnparsedIsOver, [Next]_vars
  PROVE  UnparsedIsOver'
<1>1. TypeOK /\ Control
  BY DEF IInv
<1>2. DOMAIN Emitted = 1..Len(Emitted) /\ Len(Emitted) \in Nat
  BY <1>1, EmittedType
<1>3. ASSUME NEW i \in DOMAIN Emitted, Emitted[i].test.section = 0, NEW t, t = Emitted[i].test
      PROVE  FileOver(t.file)'
  <2>1. t.file \in Nat
    BY <1>1, <1>3, EmittedType DEF Result, Test
  <2>. QED
    BY <1>1, <1>3, <2>1, FilesStayOver DEF UnparsedIsOver
<1>4. CASE Emitted' = Emitted
  <2>1. ASSUME NEW i \in DOMAIN Emitted', NEW t, t = Emitted'[i].test, t.section = 0
        PROVE  FileOver(t.file)'
    BY <1>3, <1>4, <2>1
  <2>. QED
    BY <2>1 DEF UnparsedIsOver, FileOver
<1>5. CASE SendsOne
  <2>1. PICK u \in Test, p \in BOOLEAN : EmittingStep(u, p)
    BY <1>5 DEF SendsOne
  <2>2. /\ DOMAIN Emitted' = 1..(Len(Emitted) + 1)
        /\ \A i \in DOMAIN Emitted : Emitted'[i] = Emitted[i]
        /\ Emitted'[Len(Emitted) + 1].test = u
    BY <1>1, <2>1, EmitAppends DEF EmittingStep
  <2>3. u.section = 0 => FileOver(u.file)'
    <3>1. u.section = 0 => pcTests = "parse" /\ u.file = file
      BY <2>1 DEF EmittingStep, EmitsAt, Unparsable, Place, Sections
    <3>2. outbox = << >> /\ outbox' # << >>
      BY <2>1 DEF EmittingStep
    <3>. QED
      BY <1>1, <3>1, <3>2, FilesStayOver
  <2>4. ASSUME NEW i \in DOMAIN Emitted', NEW t, t = Emitted'[i].test, t.section = 0
        PROVE  FileOver(t.file)'
    <3>1. CASE i \in DOMAIN Emitted
      BY <1>3, <2>2, <2>4, <3>1
    <3>2. CASE i = Len(Emitted) + 1
      BY <2>2, <2>3, <2>4, <3>2
    <3>. QED
      BY <1>2, <2>2, <2>4, <3>1, <3>2
  <2>. QED
    BY <2>4 DEF UnparsedIsOver, FileOver
<1>. QED
  BY <1>1, <1>4, <1>5, NextSends DEF QuietStep

-----------------------------------------------------------------------------
(* The state functions that the contract's variables stand for.            *)

PlacesOfRun == UNION {TestsOf(f) \union {Unparsable(f)} : f \in DOMAIN opts.files}
OwedByRun   == UNION {TestsOf(f) : f \in {g \in DOMAIN opts.files : Schema(g) = "v2"}}

LEMMA SameRun ==
  ASSUME opts' = opts
  PROVE  PlacesOfRun' = PlacesOfRun /\ OwedByRun' = OwedByRun
BY DEF PlacesOfRun, OwedByRun, TestsOf, Count, Schema

\* What the run is past is settled.
LEMMA PastIsSettled ==
  ASSUME IInv, NEW t \in OwedByRun, Past(t)
  PROVE  Contract!Settled(t)
<1>1. PICK f \in DOMAIN opts.files : Schema(f) = "v2" /\ t \in TestsOf(f)
  BY DEF OwedByRun
<1>2. t.file = f
  BY <1>1, TestPlaces DEF IInv, TypeOK
<1>3. IsIn(t, Emitted) \/ IsIn(Unparsable(f), Emitted)
  BY <1>1 DEF IInv, Complete
<1>. QED
  BY <1>2, <1>3 DEF Contract!Settled, Contract!IsReported, Contract!Unparsable, Contract!Place,
                    Unparsable, Place, IsIn

\* When the main goroutine has collected the results, nothing is owed.
LEMMA AllSettled ==
  ASSUME IInv, pcMain # "collect"
  PROVE  \A t \in OwedByRun : Contract!Settled(t)
<1>1. pcTests = "done" /\ file = Len(opts.files)
  BY DEF IInv, Control
<1>2. ASSUME NEW t \in OwedByRun PROVE Past(t)
  <2>1. PICK f \in DOMAIN opts.files : t \in TestsOf(f)
    BY <1>2 DEF OwedByRun
  <2>. QED
    BY <1>1, <2>1, TestPlaces, CommandLine DEF Past, IInv, TypeOK
<1>. QED
  BY <1>2, PastIsSettled

\* The steps that send a result report it.
LEMMA SendingReports ==
  ASSUME CInv, SendsOne
  PROVE  Contract!Report
<1>1. PICK u \in Test, p \in BOOLEAN : EmittingStep(u, p)
  BY DEF SendsOne
<1>2. TypeOK /\ Control /\ EmitsAt(u) /\ outbox = << >> /\ opts' = opts /\ exit' = exit
  BY <1>1 DEF CInv, IInv, EmittingStep
<1>3. exit = "running"
  BY <1>2 DEF EmitsAt, Running
<1>4. u \in PlacesOfRun /\ u.file = file
  BY <1>2 DEF EmitsAt, PlacesOfRun, TestsOf, Unparsable, Place
<1>5. \A i \in DOMAIN Emitted : Before(Emitted[i].test, u)
  BY <1>1, <1>2, EmittedType DEF EmittingStep, CInv, IInv, Ordered, Result
<1>6. ASSUME NEW t \in OwedByRun, Before(t, u) PROVE Contract!Settled(t)
  <2>1. PICK f \in DOMAIN opts.files : t \in TestsOf(f)
    BY <1>6 DEF OwedByRun
  <2>2. Past(t)
    <3>1. /\ t.file \in Nat /\ t.section \in 1..5 /\ t.num \in Nat
      <4>1. opts \in Options
        BY <1>2 DEF TypeOK
      <4>. QED
        BY <2>1, <4>1, TestPlaces DEF Sections
    <3>2. CASE pcTests = "parse" /\ u = Unparsable(file)
      <4>1. u.file = file /\ u.section = 0
        BY <3>2 DEF Unparsable, Place
      <4>. QED
        BY <1>6, <3>1, <4>1 DEF Before, Past
    <3>3. CASE /\ pcTests = "waiting" /\ u = Place(file, section, u.num)
               /\ \/ u.num = num /\ pcRun \in {"driver", "setEnv", "setup", "run"}
                  \/ u.num = num + 1 /\ pcRun = "next"
      <4>1. u.file = file /\ u.section = section
        <5>1. \A v, g, s, n : v = Place(g, s, n) => v.file = g /\ v.section = s
          BY DEF Place
        <5>. QED
          BY <3>3, <5>1
      <4>2. t.num < num + 1 => t.num < num \/ t.num = num
        BY <1>2, <3>1 DEF TypeOK
      <4>. QED
        BY <1>6, <3>1, <3>3, <4>1, <4>2 DEF Before, Past
    <3>. QED
      BY <1>2, <3>2, <3>3 DEF EmitsAt
  <2>. QED
    BY <2>2, PastIsSettled DEF CInv
<1>7. ~Contract!IsReported(Contract!Unparsable(u.file))
  <2>1. ~FileOver(file)
    BY <1>2, CommandLine DEF EmitsAt, FileOver, TypeOK
  <2>. QED
    BY <1>4, <2>1 DEF CInv, UnparsedIsOver, Contract!IsReported, Contract!Unparsable, Contract!Place
<1>8. Emitted' = Append(Emitted, [test |-> u, pass |-> p])
  <2>. DEFINE r == [test |-> u, pass |-> p]
              e == results \o channel
  <2>1. r \in Result /\ e \in Seq(Result)
    BY <1>2, ConcatProperties DEF Result, TypeOK
  <2>2. Emitted = e /\ Emitted' = e \o <<r>>
    BY <1>1, <2>1, ConcatEmptySeq DEF EmittingStep, Emitted
  <2>. HIDE DEF r, e
  <2>3. Append(e, r) = e \o <<r>>
    BY <2>1, AppendIsConcat
  <2>. QED
    BY <2>2, <2>3 DEF r
<1>9. /\ \A i \in DOMAIN Emitted : Contract!Before(Emitted[i].test, u)
      /\ \A t \in OwedByRun : Contract!Before(t, u) => Contract!Settled(t)
  BY <1>5, <1>6 DEF Contract!Before, Before
<1>. QED
  BY <1>2, <1>3, <1>4, <1>7, <1>8, <1>9, SameRun DEF Contract!Report, PlacesOfRun, OwedByRun

\* A step that sends nothing ends the run as the contract allows, or it is a
\* stuttering step of the contract.
LEMMA QuietEnds ==
  ASSUME CInv, [Next]_vars, QuietStep
  PROVE  [Contract!Next]_(Contract!vars)
<1>1. opts' = opts /\ Emitted' = Emitted
  BY DEF QuietStep
<1>2. PlacesOfRun' = PlacesOfRun /\ OwedByRun' = OwedByRun
  BY <1>1, SameRun
<1>. USE DEF PlacesOfRun, OwedByRun
<1>3. CASE exit' = exit
  BY <1>1, <1>2, <1>3 DEF Contract!vars
<1>4. CASE exit = "running" /\ exit' = "fatal"
  BY <1>1, <1>2, <1>4 DEF Contract!Next, Contract!Abort
<1>5. CASE exit = "running" /\ pcMain # "collect" /\ exit' = "failed"
  BY <1>1, <1>2, <1>5, AllSettled DEF CInv, Contract!Next, Contract!Fail
<1>6. CASE Return /\ exit' = "ok"
  <2>1. exit = "running" /\ pcMain \in {"report", "return"} /\ Tallied # 0 /\ ~(totalFail > 0)
    BY <1>6 DEF Return, MainAt
  <2>2. /\ channel = << >> /\ outbox = << >> /\ Tallied = Len(results) /\ totalFail = 0
        /\ results \in Seq(Result)
        /\ \A i \in 1..Tallied : results[i].pass
    BY <2>1 DEF CInv, IInv, Control, Account, TypeOK
  <2>3. Emitted = results /\ results # << >> /\ DOMAIN results = 1..Len(results)
    BY <2>1, <2>2, ConcatEmptySeq, EmptySeq, LenProperties DEF Emitted
  <2>. QED
    BY <1>1, <1>2, <1>6, <2>1, <2>2, <2>3, AllSettled DEF CInv, Contract!Next, Contract!Succeed
<1>7. \/ exit' = exit
      \/ exit = "running" /\ exit' = "fatal"
      \/ exit = "running" /\ pcMain # "collect" /\ exit' = "failed"
      \/ Return /\ exit' = "ok"
  <2>1. CASE Send \/ UNCHANGED vars
    BY <2>1 DEF Send, vars
  <2>2. CASE RunTests
    BY <2>2 DEF RunTests, NextFile, ParseOk, ParseError, FileDone, CloseChannel
  <2>3. CASE RunAll
    BY <2>3 DEF RunAll, NextTest, InvalidTest, NewDriver, NewDriverError, SetEnv, SetEnvError,
       Setup, SetupError, RunTest, Hang, BreakOff, Fatal, InCommand, DestroyDriver, EndSection,
       UnwindDeferred, NextSection, SignalFileProcessed, At, Running
  <2>4. CASE Main
    BY <2>4 DEF Main, Collect, EndCollect, Tally, FinalResults, FinalResultsError,
       WriteReport, WriteReportError, Return, MainAt
  <2>. QED
    BY <2>1, <2>2, <2>3, <2>4 DEF Next, Finished, Stuck
<1>. QED
  BY <1>3, <1>4, <1>5, <1>6, <1>7

-----------------------------------------------------------------------------
(* The theorem.                                                            *)

\* The run implements its contract: the results come in order, no test of a
\* v2 file is passed over, and the run succeeds only when nothing is owed.
THEOREM RunImplementsContract == Spec => ContractSpec
<1>1. Init => Contract!Init
  <2>. SUFFICES ASSUME Init PROVE Contract!Init
    OBVIOUS
  <2>1. Emitted = << >>
    BY DEF Init, Emitted
  <2>2. OwedByRun \subseteq PlacesOfRun
    BY DEF OwedByRun, PlacesOfRun
  <2>. QED
    BY <2>1, <2>2 DEF Init, Contract!Init, OwedByRun, PlacesOfRun
<1>2. Init => UnparsedIsOver
  BY DEF Init, Emitted, UnparsedIsOver
<1>3. IInv /\ UnparsedIsOver /\ [Next]_vars => UnparsedIsOver'
  BY NextUnparsed
<1>4. IInv /\ UnparsedIsOver /\ [Next]_vars => [Contract!Next]_(Contract!vars)
  <2>. SUFFICES ASSUME CInv, [Next]_vars PROVE [Contract!Next]_(Contract!vars)
    BY DEF CInv
  <2>. QED
    BY NextSends, SendingReports, QuietEnds DEF CInv, IInv, Contract!Next
<1>. QED
  BY <1>1, <1>2, <1>3, <1>4, Inductive, PTL DEF Spec, ContractSpec, Contract!Spec
=============================================================================
