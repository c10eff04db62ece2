------------------------ MODULE PipelineDriverProofs ------------------------
(***************************************************************************)
(* Proofs about the drivers of a run: what the deferred calls find when    *)
(* they run, in which order they run, and what is left when the run ends.  *)
(*                                                                         *)
(* None of the three properties is inductive.  That a deferred call finds  *)
(* its driver alive depends on whose calls are deferred, in which order,   *)
(* and on the point of the current test where its own calls are pushed     *)
(* (DeferredHere and Stacked); that a successful run leaves no driver      *)
(* depends on every live driver being somebody's to destroy, or else the   *)
(* driver of a test that has failed (Accounted).                           *)
(***************************************************************************)
EXTENDS PipelineProofs

Calls == [call: {"teardown", "destroy"}, test: Test]

\* What a deferred call is: that of a live driver, of a command test of the
\* current file which runAll has begun and, if it is the test runAll is at,
\* has made a driver for; before its Setup only the Destroy of v2 is there.
IsHere(c) ==
  /\ c.test \in live
  /\ c.test = Place(file, Command, c.test.num) /\ c.test.num \in 1..num
  /\ c.test.num = num => pcRun # "driver"
  /\ c.test.num = num /\ pcRun \in {"setEnv", "setup"} => V2 /\ c.call = "destroy"

\* While a test is under way its driver is alive.
HasDriver == pcRun \in {"setEnv", "setup", "run", "destroy"} => Here \in live

DeferredHere == HasDriver /\ \A c \in Range(deferred) : IsHere(c)

\* c may be above d on the stack: d is of a test before, or it is the Destroy
\* of the driver that c tears down.
Above(c, d) ==
  \/ d.test.num < c.test.num
  \/ d.test.num = c.test.num /\ c.call = "teardown" /\ d.call = "destroy"

Stacked(s) == \A i, j \in DOMAIN s : i < j => Above(s[i], s[j])

\* The ways a driver that exists is accounted for: a deferred call destroys
\* it, or runAll is on its way to (or, in v1, on its way to defer that call),
\* or its test has failed.
WillBeDestroyed(t) == [call |-> "destroy", test |-> t] \in Range(deferred)

AtHand(t) ==
  /\ t = Here
  /\ \/ section # Command /\ pcRun \in {"setEnv", "run", "destroy", "hung"}
     \/ ~V2 /\ pcRun \in {"setup", "hung"}

HasFailed(t) == \E i \in DOMAIN Emitted : Emitted[i] = [test |-> t, pass |-> FALSE]

Accounted == \A t \in live : WillBeDestroyed(t) \/ AtHand(t) \/ HasFailed(t)

DInv == DeferredHere /\ Stacked(deferred) /\ Accounted

-----------------------------------------------------------------------------
(* The stack of deferred calls.                                            *)

\* What pushing a call does to the calls there are.
LEMMA Push ==
  ASSUME NEW S, NEW s \in Seq(S), NEW c \in S, NEW p, p = <<c>> \o s
  PROVE  /\ p \in Seq(S)
         /\ Range(p) = {c} \union Range(s)
         /\ Len(p) = Len(s) + 1
         /\ p[1] = c
         /\ \A i \in 1..Len(s) : p[i + 1] = s[i]
<1>1. <<c>> \in Seq(S) /\ Len(<<c>>) = 1 /\ <<c>>[1] = c /\ Len(s) \in Nat
  OBVIOUS
<1>2. Range(<<c>>) = {c}
  BY DEF Range
<1>3. Range(<<c>> \o s) = {c} \union Range(s)
  <2>1. ASSUME NEW a \in Seq(S) PROVE Range(a \o s) = Range(a) \union Range(s)
    BY RangeConcatenation
  <2>. QED
    BY <1>1, <1>2, <2>1
<1>4. /\ <<c>> \o s \in Seq(S)
      /\ Len(<<c>> \o s) = Len(s) + 1
      /\ \A i \in 1..(Len(s) + 1) :
           (<<c>> \o s)[i] = IF i <= 1 THEN <<c>>[i] ELSE s[i - 1]
  BY <1>1, ConcatProperties
<1>. QED
  BY <1>1, <1>3, <1>4

\* And what running the top one does.
LEMMA Pop ==
  ASSUME NEW S, NEW s \in Seq(S), s # << >>
  PROVE  /\ Tail(s) \in Seq(S)
         /\ Range(s) = {Head(s)} \union Range(Tail(s))
         /\ \A i \in DOMAIN Tail(s) : i + 1 \in DOMAIN s /\ i + 1 > 1 /\ Tail(s)[i] = s[i + 1]
         /\ 1 \in DOMAIN s /\ Head(s) = s[1]
<1>1. /\ Tail(s) \in Seq(S) /\ Head(s) \in S
      /\ Len(Tail(s)) = Len(s) - 1 /\ Len(s) \in Nat \ {0}
      /\ \A i \in 1..Len(Tail(s)) : Tail(s)[i] = s[i + 1]
      /\ DOMAIN Tail(s) = 1..Len(Tail(s)) /\ DOMAIN s = 1..Len(s)
  BY HeadTailProperties, EmptySeq, LenProperties
<1>2. Head(s) = s[1]
  OBVIOUS
<1>3. \A i \in DOMAIN Tail(s) : i + 1 \in DOMAIN s /\ i + 1 > 1 /\ Tail(s)[i] = s[i + 1]
  BY <1>1
<1>4. \A i \in DOMAIN s : i = 1 \/ (i - 1 \in DOMAIN Tail(s) /\ s[i] = Tail(s)[i - 1])
  BY <1>1
<1>5. Range(s) = {Head(s)} \union Range(Tail(s))
  <2>1. ASSUME NEW d \in Range(s) PROVE d \in {Head(s)} \union Range(Tail(s))
    BY <1>2, <1>4 DEF Range
  <2>2. ASSUME NEW d \in Range(Tail(s)) PROVE d \in Range(s)
    BY <1>3 DEF Range
  <2>3. Head(s) \in Range(s)
    BY <1>1, <1>2 DEF Range
  <2>. QED
    BY <2>1, <2>2, <2>3
<1>. QED
  BY <1>1, <1>2, <1>3, <1>5

LEMMA PushStacked ==
  ASSUME NEW s \in Seq(Calls), NEW c \in Calls, Stacked(s), \A d \in Range(s) : Above(c, d),
         NEW p, p = <<c>> \o s
  PROVE  Stacked(p)
<1>1. /\ p \in Seq(Calls) /\ Len(p) = Len(s) + 1 /\ p[1] = c
      /\ \A i \in 1..Len(s) : p[i + 1] = s[i]
  BY Push
<1>2. Len(s) \in Nat /\ DOMAIN s = 1..Len(s) /\ DOMAIN p = 1..(Len(s) + 1)
  BY <1>1, LenProperties
<1>3. ASSUME NEW i \in DOMAIN p, NEW j \in DOMAIN p, i < j PROVE Above(p[i], p[j])
  <2>1. j - 1 \in DOMAIN s /\ p[j] = s[j - 1] /\ s[j - 1] \in Range(s)
    BY <1>1, <1>2, <1>3 DEF Range
  <2>2. CASE i = 1
    BY <1>1, <2>1, <2>2
  <2>3. CASE i # 1
    <3>1. i - 1 \in DOMAIN s /\ p[i] = s[i - 1] /\ i - 1 < j - 1
      BY <1>1, <1>2, <1>3, <2>3
    <3>. QED
      BY <2>1, <3>1 DEF Stacked
  <2>. QED
    BY <2>2, <2>3
<1>. QED
  BY <1>3 DEF Stacked

LEMMA PopStacked ==
  ASSUME NEW s \in Seq(Calls), s # << >>, Stacked(s)
  PROVE  /\ Stacked(Tail(s))
         /\ \A d \in Range(Tail(s)) : Above(Head(s), d)
<1>1. \A i, j \in DOMAIN Tail(s) : i < j => i + 1 < j + 1
  BY Pop, HeadTailProperties, LenProperties
<1>2. Stacked(Tail(s))
  BY <1>1, Pop DEF Stacked
<1>3. \A d \in Range(Tail(s)) : \E i \in DOMAIN Tail(s) : d = Tail(s)[i]
  BY DEF Range
<1>. QED
  BY <1>2, <1>3, Pop DEF Stacked

-----------------------------------------------------------------------------
(* The deferred calls find their drivers, youngest first.                  *)

\* What there is to show of a step that leaves the stack as it is.
StackKept ==
  /\ deferred' = deferred
  /\ HasDriver => HasDriver'
  /\ deferred # << >> => \A c \in Calls : IsHere(c) => IsHere(c)'

LEMMA DeferredCalls ==
  ASSUME TypeOK
  PROVE  deferred \in Seq(Calls) /\ \A c \in Range(deferred) : c \in Calls /\ deferred # << >>
<1>1. deferred \in Seq(Calls)
  BY DEF TypeOK, Calls
<1>2. \A c \in Range(deferred) : c \in Calls
  BY <1>1, RangeOfSeq
<1>3. Range(<< >>) = {}
  BY DEF Range
<1>. QED
  BY <1>1, <1>2, <1>3

LEMMA Kept ==
  ASSUME TypeOK, DeferredHere, Stacked(deferred), StackKept
  PROVE  DeferredHere' /\ Stacked(deferred)'
<1>1. deferred' = deferred
  BY DEF StackKept
<1>2. Stacked(deferred)'
  BY <1>1 DEF Stacked
<1>3. ASSUME NEW c \in Range(deferred)' PROVE IsHere(c)'
  BY <1>1, <1>3, DeferredCalls DEF StackKept, DeferredHere
<1>. QED
  BY <1>2, <1>3 DEF DeferredHere, StackKept

LEMMA PushOne ==
  ASSUME deferred \in Seq(Calls), Stacked(deferred),
         NEW c \in Calls, deferred' = <<c>> \o deferred,
         \A d \in Range(deferred) : Above(c, d) /\ IsHere(d)',
         IsHere(c)', HasDriver'
  PROVE  DeferredHere' /\ Stacked(deferred)'
<1>1. Stacked(deferred')
  BY PushStacked
<1>2. Range(deferred') = {c} \union Range(deferred)
  BY Push
<1>. QED
  BY <1>1, <1>2 DEF DeferredHere, Stacked

LEMMA PushTwo ==
  ASSUME deferred \in Seq(Calls), Stacked(deferred),
         NEW c \in Calls, NEW d \in Calls, deferred' = (<<c>> \o <<d>>) \o deferred,
         \A e \in Range(deferred) : Above(c, e) /\ Above(d, e) /\ IsHere(e)',
         Above(c, d), IsHere(c)', IsHere(d)', HasDriver'
  PROVE  DeferredHere' /\ Stacked(deferred)'
<1>. DEFINE s == <<d>> \o deferred
<1>1. deferred' = <<c>> \o s
  <2>1. <<c>> \in Seq(Calls) /\ <<d>> \in Seq(Calls)
    OBVIOUS
  <2>. QED
    BY <2>1, ConcatAssociative
<1>2. s \in Seq(Calls) /\ Range(s) = {d} \union Range(deferred)
  <2>1. PICK p : p = <<d>> \o deferred
    OBVIOUS
  <2>2. p \in Seq(Calls) /\ Range(p) = {d} \union Range(deferred)
    BY <2>1, Push
  <2>. QED
    BY <2>1, <2>2
<1>3. Stacked(s)
  BY PushStacked
<1>. HIDE DEF s
<1>4. \A e \in Range(s) : Above(c, e)
  BY <1>2
<1>5. Stacked(deferred')
  BY <1>1, <1>2, <1>3, <1>4, PushStacked
<1>6. Range(deferred') = {c} \union Range(s)
  <2>1. PICK p, q : q = s /\ p = <<c>> \o q
    OBVIOUS
  <2>2. q \in Seq(Calls) /\ p = <<c>> \o q
    BY <1>2, <2>1
  <2>3. Range(p) = {c} \union Range(q)
    BY <2>2, Push
  <2>. QED
    BY <1>1, <2>1, <2>3
<1>. QED
  BY <1>2, <1>5, <1>6 DEF DeferredHere, Stacked

\* A test in the middle of the command section: its place, and that of every
\* deferred call there is.
LEMMA AtCommand ==
  ASSUME TypeOK, Control, DeferredHere, section = Command,
         pcRun \in {"driver", "setEnv", "setup", "run"}
  PROVE  /\ Here \in Test /\ Here = Place(file, Command, num) /\ num \in 1..num
         /\ \A c \in Range(deferred) : c \in Calls /\ c.test \in Test /\ c.test.num \in 1..num
<1>1. num \in 1..Count(file, section) /\ num \in Nat
  BY DEF Control, TypeOK
<1>2. num >= 1
  <2>1. Count(file, section) \in Nat
    BY FileHere DEF Command, Sections
  <2>. QED
    BY <1>1, <2>1
<1>3. \A c \in Range(deferred) : c \in Calls /\ c.test \in Test /\ c.test.num \in 1..num
  BY DeferredCalls DEF DeferredHere, IsHere, Calls
<1>. QED
  BY <1>1, <1>2, <1>3, HereIsTest DEF Here, Command, Sections

LEMMA NextDeferred ==
  ASSUME TypeOK, Control, DeferredHere, Stacked(deferred), [Next]_vars
  PROVE  DeferredHere' /\ Stacked(deferred)'
<1>0. deferred \in Seq(Calls)
  BY DeferredCalls
<1>1. CASE Send
  BY <1>1, Kept DEF Send, runVars, testsVars, StackKept, IsHere, HasDriver, Here, V2, Schema
<1>2. CASE RunTests
  <2>1. deferred = << >> /\ deferred' = << >> /\ HasDriver'
    BY <1>2 DEF RunTests, NextFile, ParseOk, ParseError, FileDone, CloseChannel, runVars, Control,
                HasDriver, Running
  <2>. QED
    BY <2>1, Kept DEF StackKept
<1>3. CASE RunAll
  <2>. USE DEF At, runFrame, testsVars, TypeOK, Control, StackKept, IsHere, HasDriver, Here, HasDriver, Here, V2, Schema, Place
  <2>1. CASE NextTest
    BY <2>1, Kept DEF NextTest
  <2>2. CASE InvalidTest
    BY <2>2, Kept DEF InvalidTest
  <2>3. CASE NewDriver
    <3>1. CASE V2 /\ section = Command
      <4>1. /\ Here \in Test /\ Here = Place(file, Command, num) /\ num \in 1..num
            /\ \A d \in Range(deferred) : d \in Calls /\ d.test.num \in 1..num /\ d.test.num # num
        BY <2>3, <3>1, AtCommand DEF NewDriver, DeferredHere
      <4>2. PICK c \in Calls : c = [call |-> "destroy", test |-> Here]
        BY <4>1 DEF Calls
      <4>3. deferred' = <<c>> \o deferred
        BY <2>3, <3>1, <4>2 DEF NewDriver
      <4>4. \A d \in Range(deferred) : Above(c, d)
        BY <4>1, <4>2 DEF Above
      <4>5. IsHere(c)' /\ HasDriver'
        BY <2>3, <3>1, <4>1, <4>2 DEF NewDriver, AfterNewDriver
      <4>6. \A d \in Range(deferred) : IsHere(d)'
        BY <2>3, <3>1, <4>1 DEF NewDriver, AfterNewDriver, DeferredHere
      <4>. QED
        BY <1>0, <4>3, <4>4, <4>5, <4>6, PushOne
    <3>2. CASE ~(V2 /\ section = Command)
      BY <2>3, <3>2, Kept DEF NewDriver, AfterNewDriver
    <3>. QED
      BY <3>1, <3>2
  <2>4. CASE NewDriverError
    BY <2>4, Kept DEF NewDriverError, Fatal, runVars
  <2>5. CASE SetEnv
    BY <2>5, Kept DEF SetEnv
  <2>6. CASE SetEnvError
    BY <2>6, Kept DEF SetEnvError
  <2>7. CASE Setup
    <3>1. /\ Here \in Test /\ Here = Place(file, Command, num) /\ num \in 1..num
          /\ \A c \in Range(deferred) : c \in Calls /\ c.test.num \in 1..num
      BY <2>7, AtCommand DEF Setup
    <3>2. PICK t \in Calls : t = [call |-> "teardown", test |-> Here]
      BY <3>1 DEF Calls
    <3>3. PICK d \in Calls : d = [call |-> "destroy", test |-> Here]
      BY <3>1 DEF Calls
    <3>4. \A c \in Range(deferred) : IsHere(c)'
      BY <2>7, <3>1 DEF Setup, DeferredHere
    <3>5. IsHere(t)' /\ HasDriver' /\ (~V2 => IsHere(d)')
      BY <2>7, <3>1, <3>2, <3>3 DEF Setup, DeferredHere
    <3>6. CASE V2
      <4>1. deferred' = <<t>> \o deferred
        BY <2>7, <3>2, <3>6 DEF Setup
      <4>2. \A c \in Range(deferred) : Above(t, c)
        BY <2>7, <3>1, <3>2, <3>6 DEF Above, Setup, DeferredHere
      <4>. QED
        BY <1>0, <3>4, <3>5, <4>1, <4>2, PushOne
    <3>7. CASE ~V2
      <4>1. deferred' = (<<t>> \o <<d>>) \o deferred
        BY <2>7, <3>2, <3>3, <3>7 DEF Setup
      <4>2. \A c \in Range(deferred) : Above(d, c) /\ Above(t, c)
        BY <2>7, <3>1, <3>2, <3>3, <3>7 DEF Above, Setup, DeferredHere
      <4>3. Above(t, d)
        BY <3>1, <3>2, <3>3 DEF Above
      <4>. QED
        BY <1>0, <3>4, <3>5, <3>7, <4>1, <4>2, <4>3, PushTwo
    <3>. QED
      BY <3>6, <3>7
  <2>8. CASE SetupError
    BY <2>8, Kept DEF SetupError, Here
  <2>9. CASE RunTest
    BY <2>9, Kept DEF RunTest
  <2>10. CASE Hang
    BY <2>10, Kept DEF Hang
  <2>11. CASE BreakOff
    BY <2>11, Kept DEF BreakOff, Fatal, runVars
  <2>12. CASE DestroyDriver
    BY <2>12, Kept DEF DestroyDriver
  <2>13. CASE EndSection
    BY <2>13, Kept DEF EndSection
  <2>14. CASE UnwindDeferred
    <3>1. /\ deferred # << >> /\ deferred' = Tail(deferred)
          /\ \A d \in Range(deferred') : Above(Head(deferred), d) /\ d \in Range(deferred)
          /\ Head(deferred) \in Range(deferred)
          /\ Stacked(deferred')
      BY <1>0, <2>14, Pop, PopStacked DEF UnwindDeferred
    <3>2. \A d \in Range(deferred') : d.test # Head(deferred).test \/ Head(deferred).call = "teardown"
      <4>1. \A d \in Range(deferred) : d.test.num \in Nat
        BY DeferredCalls DEF Calls, Test
      <4>. QED
        BY <3>1, <4>1 DEF Above
    <3>3. HasDriver'
      BY <2>14 DEF UnwindDeferred
    <3>4. ASSUME NEW d \in Range(deferred') PROVE IsHere(d)'
      <4>1. d.test \in live'
        BY <2>14, <3>1, <3>2, <3>4 DEF UnwindDeferred, DeferredHere
      <4>. QED
        BY <2>14, <3>1, <4>1 DEF UnwindDeferred, DeferredHere
    <3>. QED
      BY <3>1, <3>3, <3>4 DEF DeferredHere, Stacked
  <2>15. CASE NextSection
    BY <2>15, Kept DEF NextSection
  <2>16. CASE SignalFileProcessed
    BY <2>16, Kept DEF SignalFileProcessed
  <2>. QED
    BY <1>3, <2>1, <2>2, <2>3, <2>4, <2>5, <2>6, <2>7, <2>8, <2>9, <2>10, <2>11,
       <2>12, <2>13, <2>14, <2>15, <2>16 DEF RunAll
<1>4. CASE Main
  <2>1. UNCHANGED <<opts, file, pcRun, section, num, deferred, live>>
    BY <1>4 DEF Main, Collect, EndCollect, Tally, FinalResults, FinalResultsError,
                WriteReport, WriteReportError, Return, mainFrame, testsVars, runVars
  <2>. QED
    BY <2>1, Kept DEF StackKept, IsHere, HasDriver, Here, V2, Schema
<1>5. CASE UNCHANGED vars
  BY <1>5, Kept DEF vars, runVars, testsVars, StackKept, IsHere, HasDriver, Here, V2, Schema
<1>. QED
  BY <1>1, <1>2, <1>3, <1>4, <1>5 DEF Next, Finished, Stuck

-----------------------------------------------------------------------------
(* Every driver that exists is accounted for.                              *)

\* A result that was sent stays sent.
LEMMA FailuresStay ==
  ASSUME TypeOK, Control, [Next]_vars, NEW t, HasFailed(t)
  PROVE  HasFailed(t)'
<1>1. CASE Emitted' = Emitted
  BY <1>1 DEF HasFailed
<1>2. CASE SendsOne
  <2>1. PICK u \in Test, p \in BOOLEAN : EmittingStep(u, p)
    BY <1>2 DEF SendsOne
  <2>2. /\ DOMAIN Emitted' = 1..(Len(Emitted) + 1)
        /\ \A i \in DOMAIN Emitted : Emitted'[i] = Emitted[i]
    BY <2>1, EmitAppends DEF EmittingStep
  <2>3. DOMAIN Emitted = 1..Len(Emitted) /\ Len(Emitted) \in Nat
    BY EmittedType
  <2>. QED
    <3>1. PICK i \in DOMAIN Emitted : Emitted[i] = [test |-> t, pass |-> FALSE]
      BY DEF HasFailed
    <3>2. i \in DOMAIN Emitted' /\ Emitted'[i] = Emitted[i]
      <4>. DEFINE n == Len(Emitted)
      <4>1. n \in Nat /\ i \in 1..n /\ DOMAIN Emitted' = 1..(n + 1)
        BY <2>2, <2>3
      <4>. HIDE DEF n
      <4>. QED
        BY <2>2, <4>1
    <3>. QED
      BY <3>1, <3>2 DEF HasFailed
<1>. QED
  BY <1>1, <1>2, NextSends DEF QuietStep

\* The result of the test at hand, when it is a failure.
LEMMA FailsHere ==
  ASSUME TypeOK, outbox = << >>, NEW t \in Test, Emit(t, FALSE),
         results' = results, channel' = channel
  PROVE  HasFailed(t)'
<1>1. /\ DOMAIN Emitted' = 1..(Len(Emitted) + 1)
      /\ Emitted'[Len(Emitted) + 1] = [test |-> t, pass |-> FALSE]
  BY EmitAppends DEF Emit
<1>2. Len(Emitted) + 1 \in DOMAIN Emitted'
  BY <1>1, EmittedType
<1>. QED
  BY <1>1, <1>2 DEF HasFailed

\* What there is to show of a step that makes no driver: what destroys a
\* driver remains to be done, unless the driver is gone or its test fails.
LiveKept ==
  /\ live' \subseteq live
  /\ \A t \in live' : WillBeDestroyed(t) => WillBeDestroyed(t)'
  /\ \A t \in live' : AtHand(t) => WillBeDestroyed(t)' \/ AtHand(t)' \/ HasFailed(t)'

LEMMA KeptAccounted ==
  ASSUME TypeOK, Control, Accounted, [Next]_vars, LiveKept
  PROVE  Accounted'
<1>1. ASSUME NEW t \in live' PROVE WillBeDestroyed(t)' \/ AtHand(t)' \/ HasFailed(t)'
  <2>1. t \in live
    BY <1>1 DEF LiveKept
  <2>2. CASE WillBeDestroyed(t)
    BY <1>1, <2>2 DEF LiveKept
  <2>3. CASE AtHand(t)
    BY <1>1, <2>3 DEF LiveKept
  <2>4. CASE HasFailed(t)
    BY <2>4, FailuresStay
  <2>. QED
    BY <2>1, <2>2, <2>3, <2>4 DEF Accounted
<1>. QED
  BY <1>1 DEF Accounted

LEMMA NextAccounted ==
  ASSUME TypeOK, Control, DeferredHere, Stacked(deferred), Accounted, [Next]_vars
  PROVE  Accounted'
<1>0. deferred \in Seq(Calls)
  BY DeferredCalls
<1>. USE DEF LiveKept, WillBeDestroyed, AtHand, Here, V2, Schema
<1>1. CASE Send
  BY <1>1, KeptAccounted DEF Send, runVars, testsVars
<1>2. CASE RunTests
  <2>1. pcRun = "idle" /\ live' = live /\ deferred' = deferred
    BY <1>2 DEF RunTests, NextFile, ParseOk, ParseError, FileDone, CloseChannel, runVars, Control
  <2>. QED
    BY <2>1, KeptAccounted
<1>3. CASE RunAll
  <2>. USE DEF At, runFrame, testsVars
  <2>1. CASE NextTest
    BY <2>1, KeptAccounted DEF NextTest
  <2>2. CASE InvalidTest
    BY <2>2, KeptAccounted DEF InvalidTest
  <2>3. CASE NewDriver
    <3>1. PICK u \in Test : u = Here
      BY <2>3, HereIsTest DEF NewDriver, Control
    <3>2. /\ WillBeDestroyed(u)' \/ AtHand(u)'
          /\ Range(deferred) \subseteq Range(deferred')
      <4>1. CASE V2 /\ section = Command
        <5>1. PICK c \in Calls : c = [call |-> "destroy", test |-> u]
          BY DEF Calls
        <5>2. deferred' = <<c>> \o deferred
          BY <2>3, <3>1, <4>1, <5>1 DEF NewDriver
        <5>3. Range(deferred') = {c} \union Range(deferred)
          BY <1>0, <5>2, Push
        <5>. QED
          BY <5>1, <5>3
      <4>2. CASE ~(V2 /\ section = Command)
        BY <2>3, <3>1, <4>2 DEF NewDriver, AfterNewDriver
      <4>. QED
        BY <4>1, <4>2
    <3>3. live' = live \union {u}
      BY <2>3, <3>1 DEF NewDriver
    <3>4. \A t : ~AtHand(t)
      BY <2>3 DEF NewDriver
    <3>5. ASSUME NEW t \in live' PROVE WillBeDestroyed(t)' \/ AtHand(t)' \/ HasFailed(t)'
      <4>1. CASE t = u
        BY <3>2, <4>1
      <4>2. CASE t # u
        <5>1. WillBeDestroyed(t) \/ HasFailed(t)
          BY <3>3, <3>4, <3>5, <4>2 DEF Accounted
        <5>2. WillBeDestroyed(t) => WillBeDestroyed(t)'
          BY <3>2
        <5>. QED
          BY <5>1, <5>2, FailuresStay
      <4>. QED
        BY <4>1, <4>2
    <3>. QED
      BY <3>5 DEF Accounted
  <2>4. CASE NewDriverError
    BY <2>4, KeptAccounted DEF NewDriverError, Fatal, runVars
  <2>5. CASE SetEnv
    BY <2>5, KeptAccounted DEF SetEnv
  <2>6. CASE SetEnvError
    <3>1. PICK u \in Test : u = Here
      BY <2>6, HereIsTest DEF SetEnvError, Control
    <3>2. HasFailed(u)'
      BY <2>6, <3>1, FailsHere DEF SetEnvError, mainVars, Running
    <3>. QED
      BY <2>6, <3>1, <3>2, KeptAccounted DEF SetEnvError
  <2>7. CASE Setup
    <3>1. PICK u \in Test : u = Here
      BY <2>7, HereIsTest DEF Setup, Control
    <3>2. PICK t \in Calls : t = [call |-> "teardown", test |-> u]
      BY DEF Calls
    <3>3. PICK d \in Calls : d = [call |-> "destroy", test |-> u]
      BY DEF Calls
    <3>4. Range(deferred) \subseteq Range(deferred') /\ (~V2 => d \in Range(deferred'))
      <4>1. <<t>> \in Seq(Calls) /\ <<d>> \in Seq(Calls) /\ << >> \in Seq(Calls)
        OBVIOUS
      <4>2. \A a, b \in Seq(Calls) : Range((a \o b) \o deferred) = (Range(a) \union Range(b)) \union Range(deferred)
        <5>1. ASSUME NEW a \in Seq(Calls), NEW b \in Seq(Calls)
              PROVE  Range(a \o b) = Range(a) \union Range(b) /\ a \o b \in Seq(Calls)
          BY RangeConcatenation, ConcatProperties
        <5>2. ASSUME NEW a \in Seq(Calls), NEW b \in Seq(Calls)
              PROVE  Range((a \o b) \o deferred) = Range(a \o b) \union Range(deferred)
          BY <1>0, <5>1
        <5>. QED
          BY <5>1, <5>2
      <4>3. Range(<<d>>) = {d}
        BY DEF Range
      <4>4. CASE V2
        <5>1. deferred' = (<<t>> \o << >>) \o deferred
          BY <2>7, <3>1, <3>2, <4>4 DEF Setup
        <5>. QED
          BY <4>1, <4>2, <4>4, <5>1
      <4>5. CASE ~V2
        <5>1. deferred' = (<<t>> \o <<d>>) \o deferred
          BY <2>7, <3>1, <3>2, <3>3, <4>5 DEF Setup
        <5>2. Range((<<t>> \o <<d>>) \o deferred) = (Range(<<t>>) \union Range(<<d>>)) \union Range(deferred)
          BY <4>1, <4>2
        <5>3. Range(deferred') = (Range(<<t>>) \union {d}) \union Range(deferred)
          BY <4>3, <5>1, <5>2
        <5>. QED
          BY <5>3
      <4>. QED
        BY <4>4, <4>5
    <3>. QED
      BY <2>7, <3>1, <3>3, <3>4, KeptAccounted DEF Setup, Control
  <2>8. CASE SetupError
    <3>1. PICK u \in Test : u = Here
      BY <2>8, HereIsTest DEF SetupError, Control
    <3>2. CASE V2
      <4>1. HasFailed(u)'
        BY <2>8, <3>1, <3>2, FailsHere DEF SetupError, mainVars, Running
      <4>. QED
        BY <2>8, <3>1, <3>2, <4>1, KeptAccounted DEF SetupError
    <3>3. CASE ~V2
      BY <2>8, <3>3, KeptAccounted DEF SetupError
    <3>. QED
      BY <3>2, <3>3
  <2>9. CASE RunTest
    BY <2>9, KeptAccounted DEF RunTest
  <2>10. CASE Hang
    BY <2>10, KeptAccounted DEF Hang, InCommand, Control
  <2>11. CASE BreakOff
    BY <2>11, KeptAccounted DEF BreakOff, Fatal, runVars
  <2>12. CASE DestroyDriver
    BY <2>12, KeptAccounted DEF DestroyDriver
  <2>13. CASE EndSection
    BY <2>13, KeptAccounted DEF EndSection
  <2>14. CASE UnwindDeferred
    <3>1. /\ deferred # << >> /\ deferred' = Tail(deferred)
          /\ Range(deferred) = {Head(deferred)} \union Range(deferred')
      BY <1>0, <2>14, Pop DEF UnwindDeferred
    <3>2. \A t \in live' : WillBeDestroyed(t) => WillBeDestroyed(t)'
      BY <2>14, <3>1 DEF UnwindDeferred
    <3>. QED
      BY <2>14, <3>2, KeptAccounted DEF UnwindDeferred
  <2>15. CASE NextSection
    BY <2>15, KeptAccounted DEF NextSection
  <2>16. CASE SignalFileProcessed
    BY <2>16, KeptAccounted DEF SignalFileProcessed
  <2>. QED
    BY <1>3, <2>1, <2>2, <2>3, <2>4, <2>5, <2>6, <2>7, <2>8, <2>9, <2>10, <2>11,
       <2>12, <2>13, <2>14, <2>15, <2>16 DEF RunAll
<1>4. CASE Main
  <2>1. UNCHANGED <<opts, file, pcRun, section, num, deferred, live>>
    BY <1>4 DEF Main, Collect, EndCollect, Tally, FinalResults, FinalResultsError,
                WriteReport, WriteReportError, Return, mainFrame, testsVars, runVars
  <2>. QED
    BY <2>1, KeptAccounted
<1>5. CASE UNCHANGED vars
  BY <1>5, KeptAccounted DEF vars, runVars, testsVars
<1>. QED
  BY <1>1, <1>2, <1>3, <1>4, <1>5 DEF Next, Finished, Stuck

-----------------------------------------------------------------------------
(* The theorems.                                                           *)

THEOREM DriversInductive == Spec => []DInv
<1>1. Init => DInv
  <2>. SUFFICES ASSUME Init PROVE DInv
    OBVIOUS
  <2>1. Range(deferred) = {} /\ DOMAIN deferred = {}
    BY DEF Init, Range
  <2>. QED
    BY <2>1 DEF Init, DInv, DeferredHere, HasDriver, Stacked, Accounted
<1>2. IInv /\ DInv /\ [Next]_vars => DInv'
  BY NextDeferred, NextAccounted DEF IInv, DInv
<1>. QED
  BY <1>1, <1>2, Inductive, PTL DEF Spec

\* Every deferred call finds its driver alive, whatever fails and however many
\* tests have their calls deferred.
THEOREM DeferredCallsFindDrivers == Spec => []DeferredFindDriver
<1>1. ASSUME IInv, DInv PROVE DeferredFindDriver
  <2>1. \A i, j \in DOMAIN deferred : i < j => Above(deferred[i], deferred[j])
    BY <1>1 DEF DInv, Stacked
  <2>2. \A i \in DOMAIN deferred : IsHere(deferred[i])
    BY <1>1 DEF DInv, DeferredHere, Range
  <2>3. /\ \A i \in DOMAIN deferred : deferred[i] \in Calls /\ deferred[i].test.num \in Nat
        /\ DOMAIN deferred \subseteq Nat
    <3>1. deferred \in Seq(Calls)
      BY <1>1, DeferredCalls DEF IInv
    <3>2. \A i \in DOMAIN deferred : deferred[i] \in Calls
      BY <3>1, LenProperties, ElementOfSeq
    <3>. QED
      BY <3>1, <3>2, LenProperties DEF Calls, Test
  <2>4. ASSUME NEW i \in DOMAIN deferred, NEW j \in DOMAIN deferred, deferred[j] = deferred[i]
        PROVE  i = j
    BY <2>1, <2>3, <2>4 DEF Above
  <2>5. ASSUME NEW i \in DOMAIN deferred, NEW j \in DOMAIN deferred,
               deferred[j] = [call |-> "destroy", test |-> deferred[i].test]
        PROVE  i <= j
    BY <2>1, <2>3, <2>5 DEF Above
  <2>. QED
    BY <2>2, <2>4, <2>5 DEF DeferredFindDriver, IsHere
<1>. QED
  BY <1>1, Inductive, DriversInductive, PTL

\* The deferred calls run in the reverse of the order of their tests.
THEOREM DeferredYoungestFirst == Spec => []YoungestFirst
<1>1. ASSUME IInv, DInv PROVE YoungestFirst
  <2>1. \A i, j \in DOMAIN deferred : i < j => Above(deferred[i], deferred[j])
    BY <1>1 DEF DInv, Stacked
  <2>2. \A i \in DOMAIN deferred :
          /\ deferred[i].test = Place(file, Command, deferred[i].test.num)
          /\ deferred[i].test.num \in Nat /\ file \in Nat
    BY <1>1, DeferredCalls, LenProperties DEF IInv, DInv, DeferredHere, Range, IsHere, Calls, Test, TypeOK
  <2>3. ASSUME NEW i \in DOMAIN deferred, NEW j \in DOMAIN deferred, i < j
        PROVE  ~Before(deferred[i].test, deferred[j].test)
    <3>1. deferred[j].test.num <= deferred[i].test.num
      BY <2>1, <2>2, <2>3 DEF Above
    <3>2. /\ deferred[i].test.file = file /\ deferred[j].test.file = file
          /\ deferred[i].test.section = Command /\ deferred[j].test.section = Command
      <4>1. \A t, f, s, n : t = Place(f, s, n) => t.file = f /\ t.section = s
        BY DEF Place
      <4>. QED
        BY <2>2, <4>1
    <3>. QED
      BY <2>2, <3>1, <3>2 DEF Before, Command
  <2>. QED
    BY <2>3 DEF YoungestFirst
<1>. QED
  BY <1>1, Inductive, DriversInductive, PTL

\* A run that ends with exit code 0 leaves no container, image or extracted
\* file system behind.
THEOREM SuccessIsClean == Spec => []SuccessLeavesNothing
<1>1. ASSUME IInv, DInv, exit = "ok" PROVE live = {}
  <2>1. /\ pcRun = "idle" /\ deferred = << >> /\ channel = << >> /\ outbox = << >>
        /\ \A i \in DOMAIN results : results[i].pass
    BY <1>1 DEF IInv, Control, Account, TypeOK
  <2>2. Emitted = results
    BY <1>1, <2>1, ConcatEmptySeq DEF Emitted, IInv, TypeOK
  <2>3. \A t : ~HasFailed(t)
    BY <2>1, <2>2 DEF HasFailed
  <2>4. Range(deferred) = {}
    BY <2>1 DEF Range
  <2>. QED
    BY <1>1, <2>1, <2>3, <2>4 DEF DInv, Accounted, WillBeDestroyed, AtHand
<1>. QED
  BY <1>1, Inductive, DriversInductive, PTL DEF SuccessLeavesNothing
=============================================================================
