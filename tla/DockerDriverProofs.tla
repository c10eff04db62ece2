------------------------- MODULE DockerDriverProofs -------------------------
(***************************************************************************)
(* Proofs about DockerDriver, for every list of tests and whatever calls   *)
(* to the daemon fail.                                                     *)
(*                                                                         *)
(* The inductive invariant says where an operation stands (Flow), what the *)
(* current image was built by (Built), which containers there are and who  *)
(* is going to remove them (Containers), and, for each image, which later  *)
(* Destroy or which container left behind accounts for it (Images).        *)
(***************************************************************************)
EXTENDS DockerDriver, SequenceTheorems, FiniteSetTheorems, TLAPS

Image     == [of: Nat, by: Seq({"setEnv", "setup"})]
Container == [id: Nat, image: Image]

Types ==
  /\ TypeOK
  /\ tests \in Files /\ save \in BOOLEAN
  /\ call \in Nat /\ made \in Nat
  /\ current \in Seq(Image) /\ pending \in Seq(Nat)
  /\ containers \subseteq Container /\ images \subseteq Image

\* Where the operation under way stands: what is still to come of it, for
\* which kind of test it is, and that the Destroy of a command test is
\* deferred while the test is under way.
Flow ==
  /\ ~Working => call = 0
  /\ op # "next" => test > 0
  /\ op \in {"setup", "read"} => todo > 0
  /\ op = "exec" => todo = 0
  /\ op = "setEnv" => tests[test].globals /\ todo = tests[test].todo
  /\ op \in {"setup", "exec"} => tests[test].kind = "command" /\ todo <= tests[test].todo
  /\ op \in {"read", "destroy"} => tests[test].kind = "file"
  /\ op # "next" /\ tests[test].kind = "command" => test \in Range(pending)

\* The commits of a test's image when n of its setup commands are to come.
Commits(t, n) ==
  (IF tests[t].globals THEN <<"setEnv">> ELSE << >>) \o [i \in 1..(tests[t].todo - n) |-> "setup"]

Built ==
  /\ \A t \in 1..test : current[t].of = t
  /\ op = "setEnv" => Current.by = << >>
  /\ op \in {"setup", "exec"} => Current.by = Commits(test, todo)

\* The container of the operation under way is made from the current image and
\* is nobody else's; without --save all the others were abandoned.
Containers ==
  /\ \A c \in containers : call > 0 /\ c.id = made => c.image = Current
  /\ \A c \in abandoned : call > 0 => c.id # made
  /\ ~save => containers = abandoned \union Mine
  /\ save => IsFiniteSet(containers) /\ Cardinality(containers) = made

Held(i) == \E c \in containers : Under(i, c.image)

\* Every image is one the current image of its test was built on, and a
\* container holds it, or else a Destroy to come is going to remove it.
Images ==
  /\ \A i \in images : i.of \in 1..test /\ ~IsOriginal(i) /\ Under(i, current[i.of])
  /\ \A i \in images : op = "setEnv" => i.of # test
  /\ \A i \in images : \/ Held(i)
                       \/ i.of \in Range(pending)
                       \/ i.of = test /\ op \in {"read", "destroy"}
  /\ save => \A c \in containers : IsOriginal(c.image) \/ c.image \in images
  /\ save /\ Working => IsOriginal(Current) \/ Current \in images

IInv == Types /\ Flow /\ Built /\ Containers /\ Images

-----------------------------------------------------------------------------
(* The calls of the operations, and images built on one another.           *)

LEMMA TheCalls ==
  /\ DOMAIN Calls = {"setEnv", "setup", "exec", "read"}
  /\ Len(Calls["setEnv"]) = 2 /\ Len(Calls["setup"]) = 4
  /\ Len(Calls["exec"]) = 4 /\ Len(Calls["read"]) = 2
  /\ Calls["setEnv"][1] = "create" /\ Calls["setEnv"][2] = "commit"
  /\ Calls["setup"][1] = "create" /\ Calls["setup"][4] = "commit"
  /\ Calls["exec"][1] = "create" /\ Calls["exec"][4] = "logs"
  /\ Calls["read"][1] = "create" /\ Calls["read"][2] = "download"
  /\ \A o \in {"setup", "exec"} : Calls[o][2] = "start" /\ Calls[o][3] = "wait"
BY DEF Calls

\* An operation begins with the creation of its container, and two of them end
\* with a commit.
LEMMA FirstAndLast ==
  ASSUME Types, Working
  PROVE  /\ NextCall = "create" <=> call = 0
         /\ LastCall => (NextCall = "commit" <=> op \in {"setEnv", "setup"})
         /\ ~LastCall => call + 1 <= Len(Calls[op]) - 1
         /\ LastCall => call > 0
<1>1. call \in 0..(Len(Calls[op]) - 1)
  BY DEF Types, TypeOK
<1>. QED
  BY <1>1, TheCalls DEF Working, NextCall, LastCall

LEMMA UnderItself ==
  ASSUME NEW i \in Image
  PROVE  Under(i, i)
BY DEF Under, IsPrefix, Image

\* A commit builds on what its image was built on.
LEMMA UnderCommitted ==
  ASSUME NEW i \in Image, NEW j \in Image, NEW o \in {"setEnv", "setup"}, Under(i, j),
         NEW k \in Image, k.of = j.of, k.by = Append(j.by, o)
  PROVE  Under(i, k)
<1>. DEFINE s == i.by
            t == j.by
<1>1. s \in Seq({"setEnv", "setup"}) /\ t \in Seq({"setEnv", "setup"})
  BY DEF Image
<1>2. Len(s) <= Len(t) /\ SubSeq(s, 1, Len(s)) = SubSeq(t, 1, Len(s)) /\ i.of = j.of
  BY DEF Under, IsPrefix
<1>. HIDE DEF s, t
<1>3. Len(Append(t, o)) = Len(t) + 1 /\ SubSeq(Append(t, o), 1, Len(s)) = SubSeq(t, 1, Len(s))
  BY <1>1, <1>2
<1>. QED
  BY <1>1, <1>2, <1>3 DEF Under, IsPrefix, s, t

-----------------------------------------------------------------------------
(* What each step does.                                                    *)

LEMMA TestsAreTests ==
  ASSUME Types
  PROVE  /\ tests \in Seq(DriverTest) /\ Len(tests) \in Nat
         /\ \A t \in 1..Len(tests) : tests[t] \in DriverTest
         /\ test \in Nat /\ test <= Len(tests) /\ DOMAIN current = 1..test
<1>1. tests \in Seq(DriverTest)
  BY FilesAssumption DEF Types
<1>2. \A t \in 1..Len(tests) : tests[t] \in DriverTest
  BY <1>1, ElementOfSeq
<1>. QED
  BY <1>1, <1>2, LenProperties DEF Types, TypeOK

\* The test under way and its current image.
LEMMA UnderWay ==
  ASSUME Types, Flow, op # "next"
  PROVE  /\ test \in 1..Len(tests) /\ test \in DOMAIN current /\ test \in Nat
         /\ tests[test] \in DriverTest /\ Current \in Image
<1>1. test \in 1..Len(tests) /\ test \in DOMAIN current
  BY TestsAreTests DEF Flow
<1>. QED
  BY <1>1, TestsAreTests DEF Types, Current

\* NewDriver starts with SetEnv or with what comes after it.
LEMMA AtNewDriver ==
  ASSUME Types, Flow, NewDriver
  PROVE  LET t == tests[test + 1] IN
         /\ t \in DriverTest /\ test + 1 \in 1..Len(tests)
         /\ test' = test + 1 /\ todo' = t.todo /\ op = "next" /\ call = 0
         /\ \/ op' = "setEnv" /\ t.globals
            \/ op' = "setup" /\ ~t.globals /\ t.kind = "command" /\ t.todo > 0
            \/ op' = "exec" /\ ~t.globals /\ t.kind = "command" /\ t.todo = 0
            \/ op' = "read" /\ ~t.globals /\ t.kind = "file" /\ t.todo > 0
            \/ op' = "destroy" /\ ~t.globals /\ t.kind = "file"
         /\ current' = Append(current, OriginalFor(test + 1))
         /\ OriginalFor(test + 1) \in Image
         /\ \/ t.kind = "command" /\ pending' = <<test + 1>> \o pending
            \/ t.kind = "file" /\ pending' = pending /\ pending = << >>
         /\ UNCHANGED <<config, call, containers, images, made, abandoned>>
<1>1. test + 1 \in 1..Len(tests) /\ tests[test + 1] \in DriverTest
  BY TestsAreTests DEF NewDriver
<1>2. OriginalFor(test + 1) \in Image
  BY <1>1 DEF OriginalFor, Image
<1>3. op = "next" /\ call = 0
  BY TheCalls DEF NewDriver, Flow, Working
<1>. QED
  BY <1>1, <1>2, <1>3 DEF NewDriver, Work, DriverTest

\* What may come after an operation that succeeded.
LEMMA AfterIt ==
  ASSUME Types, Flow, Working
  PROVE  /\ Remaining \in Nat
         /\ op = "exec" => AfterOp = "next"
         /\ op = "setEnv" => Remaining = tests[test].todo
         /\ op = "setup" => AfterOp \in {"setup", "exec"} /\ Remaining = todo - 1
         /\ op = "read" => AfterOp \in {"read", "destroy"}
         /\ op = "setEnv" /\ tests[test].kind = "command" => AfterOp \in {"setup", "exec"}
         /\ op = "setEnv" /\ tests[test].kind = "file" => AfterOp \in {"read", "destroy"}
         /\ AfterOp \in {"setup", "read"} => Remaining > 0
         /\ AfterOp = "exec" => Remaining = 0
<1>1. op # "next" /\ op \in {"setEnv", "setup", "exec", "read"}
  BY TheCalls DEF Working
<1>2. todo \in Nat /\ tests[test] \in DriverTest
  BY <1>1, UnderWay DEF Types, TypeOK
<1>. QED
  BY <1>1, <1>2 DEF Remaining, AfterOp, Work, Flow, DriverTest

\* The image a commit makes, as the new current image.
LEMMA AtCommit ==
  ASSUME Types, Flow, op \in {"setEnv", "setup"}
  PROVE  /\ Committed \in Image /\ Committed.of = Current.of
         /\ Committed.by = Append(Current.by, op)
         /\ [current EXCEPT ![test] = Committed] \in Seq(Image)
         /\ Len([current EXCEPT ![test] = Committed]) = Len(current)
<1>1. Current \in Image /\ test \in DOMAIN current
  BY UnderWay
<1>2. Committed \in Image /\ Committed.of = Current.of /\ Committed.by = Append(Current.by, op)
  BY <1>1 DEF Committed, Image
<1>3. test \in 1..Len(current) /\ current \in Seq(Image)
  BY <1>1, LenProperties DEF Types
<1>. QED
  BY <1>2, <1>3, ExceptSeq

\* The calls that remove the container of the operation.
LEMMA Removal ==
  ASSUME Types, Flow, Containers, RemoveContainer
  PROVE  /\ containers' \subseteq containers /\ abandoned' \subseteq containers'
         /\ save => containers' = containers
         /\ ~save => containers' = abandoned'
         /\ containers \ Mine \subseteq containers'
<1>1. \A c \in abandoned : c \notin Mine
  BY DEF Containers, Mine, Types, TypeOK
<1>. QED
  BY <1>1 DEF RemoveContainer, Containers, Types, TypeOK, Mine

-----------------------------------------------------------------------------
(* Types.                                                                  *)

\* An operation that ends, well or not, leaves its test or goes on with it.
LEMMA AtEnd ==
  ASSUME Types, Flow, Working, Finish \/ CallError
  PROVE  /\ op' \in {"setup", "exec", "read", "next", "destroy"}
         /\ todo' \in Nat /\ call' = 0 /\ test' = test /\ made' = made /\ pending' = pending
         /\ tests' = tests /\ save' = save
         /\ Working' => call' \in 0..(Len(Calls[op']) - 1)
<1>1. AfterOp \in {"setup", "exec", "read", "next", "destroy"} /\ Remaining \in Nat
  <2>1. tests[test].kind \in {"command", "file"}
    BY UnderWay, TheCalls DEF Working, DriverTest
  <2>. QED
    BY <2>1, AfterIt, TheCalls DEF Working
<1>2. /\ op' \in {"setup", "exec", "read", "next", "destroy"}
      /\ todo' \in Nat /\ call' = 0 /\ test' = test /\ made' = made /\ pending' = pending
      /\ tests' = tests /\ save' = save
  BY <1>1 DEF Finish, CallError, AfterError, config
<1>3. \A o \in {"setup", "exec", "read"} : 0 \in 0..(Len(Calls[o]) - 1)
  BY TheCalls
<1>4. Working' => op' \in {"setup", "exec", "read"}
  BY <1>2, TheCalls DEF Working
<1>. QED
  BY <1>2, <1>3, <1>4

LEMMA NextTypes ==
  ASSUME Types, Flow, Containers, [Next]_vars
  PROVE  Types'
<1>. USE TheCalls DEF Types, TypeOK, config
<1>1. CASE NewDriver
  <2>1. current' \in Seq(Image) /\ Len(current') = test + 1
    <3>1. PICK o \in Image : current' = Append(current, o)
      BY <1>1, AtNewDriver
    <3>. QED
      BY <3>1, AppendProperties
  <2>2. pending' \in Seq(Nat)
    <3>1. <<test + 1>> \in Seq(Nat)
      BY TestsAreTests
    <3>2. \A q \in Seq(Nat) : q \o pending \in Seq(Nat)
      BY ConcatProperties
    <3>. QED
      BY <1>1, <3>1, <3>2, AtNewDriver
  <2>3. op' \in {"setEnv", "setup", "exec", "read", "destroy"} /\ call' = 0 /\ todo' \in Nat
    BY <1>1, AtNewDriver DEF DriverTest
  <2>4. /\ tests' = tests /\ save' = save /\ made' = made /\ containers' = containers
        /\ images' = images /\ abandoned' = abandoned /\ test' = test + 1 /\ test' \in 0..Len(tests)
    <3>1. test + 1 \in DOMAIN tests /\ DOMAIN tests = 1..Len(tests)
      BY <1>1, AtNewDriver, TestsAreTests
    <3>2. /\ tests' = tests /\ save' = save /\ made' = made /\ containers' = containers
          /\ images' = images /\ abandoned' = abandoned /\ test' = test + 1
      BY <1>1, AtNewDriver
    <3>. QED
      BY <3>1, <3>2
  <2>5. Working' => call' \in 0..(Len(Calls[op']) - 1)
    BY <2>3 DEF Working
  <2>. QED
    BY <2>1, <2>2, <2>3, <2>4, <2>5
<1>2. CASE Create
  <2>1. Current \in Image
    BY <1>2, UnderWay DEF Create, Working
  <2>2. PICK c \in Container : c = [id |-> made + 1, image |-> Current]
    <3>1. made + 1 \in Nat
      OBVIOUS
    <3>. QED
      BY <2>1, <3>1, Zenon DEF Container
  <2>3. containers' = containers \union {c} /\ made' = made + 1
    BY <1>2, <2>2 DEF Create
  <2>4. \A e \in containers : e.id \in 1..made
    OBVIOUS
  <2>5. \A e, d \in containers' : e.id = d.id => e = d
    BY <2>2, <2>3, <2>4
  <2>6. Working' => call' \in 0..(Len(Calls[op']) - 1)
    BY <1>2 DEF Create, Working
  <2>7. /\ UNCHANGED <<tests, save, test, op, todo, current, pending, images, abandoned>>
        /\ call' = 1
    BY <1>2 DEF Create
  <2>8. \A e \in containers' : e.id \in 1..made'
    BY <2>2, <2>3, <2>4
  <2>9. containers' \subseteq Container /\ abandoned' \subseteq containers' /\ made' \in Nat
    BY <2>2, <2>3, <2>7
  <2>. QED
    BY <2>5, <2>6, <2>7, <2>8, <2>9
<1>3. CASE MidCall
  <2>1. call' = call + 1 /\ op' = op /\ op \in DOMAIN Calls /\ call + 1 <= Len(Calls[op]) - 1
    BY <1>3, FirstAndLast DEF MidCall, Working
  <2>2. Len(Calls[op]) \in Nat
    BY <2>1
  <2>3. Working' => call' \in 0..(Len(Calls[op']) - 1)
    BY <2>1, <2>2
  <2>. QED
    BY <1>3, <2>1, <2>3 DEF MidCall
<1>4. CASE Finish
  <2>1. Working /\ RemoveContainer /\ LastCall
    BY <1>4 DEF Finish
  <2>2. current' \in Seq(Image) /\ Len(current') = Len(current) /\ images' \subseteq Image
    <3>1. CASE NextCall = "commit"
      BY <1>4, <2>1, <3>1, FirstAndLast, AtCommit DEF Finish
    <3>2. CASE NextCall # "commit"
      BY <1>4, <3>2 DEF Finish
    <3>. QED
      BY <3>1, <3>2
  <2>3. containers' \subseteq containers /\ abandoned' \subseteq containers'
    BY <2>1, Removal
  <2>4. Working' => call' \in 0..(Len(Calls[op']) - 1)
    BY <1>4, <2>1, AtEnd
  <2>5. /\ op' \in {"setup", "exec", "read", "next", "destroy"}
        /\ todo' \in Nat /\ call' = 0 /\ test' = test /\ made' = made /\ pending' = pending
        /\ tests' = tests /\ save' = save
    BY <1>4, <2>1, AtEnd
  <2>6. TypeOK'
    BY <2>2, <2>3, <2>4, <2>5
  <2>. QED
    BY <2>2, <2>3, <2>5, <2>6
<1>5. CASE CallError
  <2>1. Working /\ current' = current /\ images' = images
    BY <1>5 DEF CallError
  <2>2. containers' \subseteq containers /\ abandoned' \subseteq containers'
    BY <1>5, Removal DEF CallError, Mine
  <2>3. Working' => call' \in 0..(Len(Calls[op']) - 1)
    BY <1>5, <2>1, AtEnd
  <2>4. /\ op' \in {"setup", "exec", "read", "next", "destroy"}
        /\ todo' \in Nat /\ call' = 0 /\ test' = test /\ made' = made /\ pending' = pending
        /\ tests' = tests /\ save' = save
    BY <1>5, <2>1, AtEnd
  <2>. QED
    BY <2>1, <2>2, <2>3, <2>4
<1>6. CASE DestroyFileDriver
  <2>1. images' \subseteq images /\ ~Working'
    BY <1>6 DEF DestroyFileDriver, Destroy, RemoveImage, Working
  <2>. QED
    BY <1>6, <2>1 DEF DestroyFileDriver
<1>7. CASE DestroyPending
  <2>1. images' \subseteq images /\ ~Working'
    BY <1>7 DEF DestroyPending, CommandsDone, Destroy, RemoveImage, Working
  <2>2. pending' \in Seq(Nat)
    BY <1>7, HeadTailProperties DEF DestroyPending
  <2>. QED
    BY <1>7, <2>1, <2>2 DEF DestroyPending
<1>8. CASE UNCHANGED vars
  BY <1>8 DEF vars, Working
<1>. QED
  BY <1>1, <1>2, <1>3, <1>4, <1>5, <1>6, <1>7, <1>8 DEF Next, Finished

-----------------------------------------------------------------------------
(* Where the operation stands.                                             *)

LEMMA NextFlow ==
  ASSUME Types, Flow, [Next]_vars
  PROVE  Flow'
<1>. USE TheCalls DEF config
<1>1. CASE NewDriver
  <2>1. \/ tests[test + 1].kind = "file"
        \/ test + 1 \in Range(pending')
    <3>1. CASE pending' = <<test + 1>> \o pending
      <4>1. <<test + 1>> \in Seq(Nat) /\ pending \in Seq(Nat) /\ Len(<<test + 1>>) = 1
        BY TestsAreTests DEF Types
      <4>2. pending'[1] = test + 1 /\ 1 \in DOMAIN pending'
        BY <3>1, <4>1, ConcatProperties, LenProperties
      <4>. QED
        BY <4>2 DEF Range
    <3>. QED
      BY <1>1, <3>1, AtNewDriver
  <2>2. test \in Nat /\ tests[test + 1].todo \in Nat
    BY <1>1, AtNewDriver, TestsAreTests DEF DriverTest
  <2>. QED
    BY <1>1, <2>1, <2>2, AtNewDriver DEF Flow, Working
<1>2. CASE Create
  BY <1>2 DEF Create, Flow, Working
<1>3. CASE MidCall
  BY <1>3 DEF MidCall, Flow, Working
<1>4. CASE Finish
  <2>1. Working /\ op' = AfterOp /\ todo' = Remaining
    BY <1>4 DEF Finish
  <2>2. UNCHANGED <<tests, test, pending>> /\ call' = 0
    BY <1>4 DEF Finish
  <2>3. tests[test] \in DriverTest /\ todo \in Nat
    BY <2>1, UnderWay DEF Working, Types, TypeOK
  <2>. QED
    BY <2>1, <2>2, <2>3, AfterIt DEF Flow, Working, DriverTest
<1>5. CASE CallError
  BY <1>5, AfterIt, AtEnd, UnderWay DEF CallError, AfterError, Flow, Working, DriverTest
<1>6. CASE DestroyFileDriver
  BY <1>6 DEF DestroyFileDriver, Flow, Working
<1>7. CASE DestroyPending
  BY <1>7 DEF DestroyPending, CommandsDone, Flow, Working
<1>8. CASE UNCHANGED vars
  BY <1>8 DEF vars, Flow, Working
<1>. QED
  BY <1>1, <1>2, <1>3, <1>4, <1>5, <1>6, <1>7, <1>8 DEF Next, Finished

-----------------------------------------------------------------------------
(* What the current image was built by.                                    *)

LEMMA CommitsGrow ==
  ASSUME NEW e \in Seq({"setEnv", "setup"}), NEW m \in Nat
  PROVE  /\ e \o [i \in 1..0 |-> "setup"] = e
         /\ e \o [i \in 1..(m + 1) |-> "setup"] = Append(e \o [i \in 1..m |-> "setup"], "setup")
<1>. DEFINE C == {"setEnv", "setup"}
            Steps(n) == [i \in 1..n |-> "setup"]
<1>1. \A n \in Nat : Steps(n) \in Seq(C) /\ Len(Steps(n)) = n /\ \A i \in 1..n : Steps(n)[i] = "setup"
  OBVIOUS
<1>2. e \o Steps(0) = e
  <2>1. Steps(0) = << >>
    OBVIOUS
  <2>. QED
    BY <2>1, ConcatEmptySeq
<1>. HIDE DEF Steps
<1>3. e \o Steps(m + 1) = Append(e \o Steps(m), "setup")
  <2>. DEFINE a == e \o Steps(m + 1)
              b == e \o Steps(m)
  <2>1. /\ a \in Seq(C) /\ Len(a) = Len(e) + (m + 1) /\ Len(e) \in Nat
        /\ \A i \in 1..Len(a) : a[i] = IF i <= Len(e) THEN e[i] ELSE "setup"
    <3>1. m + 1 \in Nat /\ Len(e) \in Nat
      OBVIOUS
    <3>2. /\ a \in Seq(C) /\ Len(a) = Len(e) + Len(Steps(m + 1))
          /\ \A i \in 1..(Len(e) + Len(Steps(m + 1))) :
               a[i] = IF i <= Len(e) THEN e[i] ELSE Steps(m + 1)[i - Len(e)]
      BY <1>1, <3>1, ConcatProperties
    <3>3. Len(Steps(m + 1)) = m + 1 /\ \A i \in 1..(m + 1) : Steps(m + 1)[i] = "setup"
      BY <1>1, <3>1
    <3>4. \A i \in 1..(Len(e) + (m + 1)) : i <= Len(e) \/ i - Len(e) \in 1..(m + 1)
      BY <3>1
    <3>. HIDE DEF a
    <3>. QED
      BY <3>1, <3>2, <3>3, <3>4
  <2>2. /\ b \in Seq(C) /\ Len(b) = Len(e) + m
        /\ \A i \in 1..Len(b) : b[i] = IF i <= Len(e) THEN e[i] ELSE "setup"
    <3>1. Len(e) \in Nat
      OBVIOUS
    <3>2. /\ b \in Seq(C) /\ Len(b) = Len(e) + Len(Steps(m))
          /\ \A i \in 1..(Len(e) + Len(Steps(m))) :
               b[i] = IF i <= Len(e) THEN e[i] ELSE Steps(m)[i - Len(e)]
      BY <1>1, ConcatProperties
    <3>3. Len(Steps(m)) = m /\ \A i \in 1..(m) : Steps(m)[i] = "setup"
      BY <1>1, <3>1
    <3>4. \A i \in 1..(Len(e) + (m)) : i <= Len(e) \/ i - Len(e) \in 1..(m)
      BY <3>1
    <3>. HIDE DEF b
    <3>. QED
      BY <3>1, <3>2, <3>3, <3>4
  <2>. HIDE DEF a, b
  <2>3. /\ Append(b, "setup") \in Seq(C) /\ Len(Append(b, "setup")) = Len(b) + 1
        /\ \A i \in 1..Len(b) : Append(b, "setup")[i] = b[i]
        /\ Append(b, "setup")[Len(b) + 1] = "setup"
    BY <2>2
  <2>. DEFINE c == Append(b, "setup")
  <2>. HIDE DEF c
  <2>4. \A i \in 1..Len(a) : a[i] = c[i]
    BY <2>1, <2>2, <2>3 DEF c
  <2>5. a = c
    BY <2>1, <2>2, <2>3, <2>4, SeqEqual DEF c
  <2>. QED
    BY <2>5 DEF a, b, c
<1>. QED
  BY <1>2, <1>3 DEF Steps

\* The commits of a test whose setup commands are all to come, and after one
\* of them.
LEMMA TestCommits ==
  ASSUME Types, NEW t \in 1..Len(tests)
  PROVE  /\ Commits(t, tests[t].todo) = IF tests[t].globals THEN <<"setEnv">> ELSE << >>
         /\ \A n \in 1..tests[t].todo : Commits(t, n - 1) = Append(Commits(t, n), "setup")
<1>. DEFINE e == IF tests[t].globals THEN <<"setEnv">> ELSE << >>
<1>1. tests[t].todo \in Nat
  BY TestsAreTests DEF DriverTest
<1>2. e \in Seq({"setEnv", "setup"})
  <2>1. e = <<"setEnv">> \/ e = << >>
    OBVIOUS
  <2>2. <<"setEnv">> \in Seq({"setEnv", "setup"}) /\ << >> \in Seq({"setEnv", "setup"})
    OBVIOUS
  <2>. QED
    BY <2>1, <2>2
<1>3. \A n : Commits(t, n) = e \o [i \in 1..(tests[t].todo - n) |-> "setup"]
  BY DEF Commits
<1>. HIDE DEF e
<1>4. Commits(t, tests[t].todo) = e
  <2>1. tests[t].todo - tests[t].todo = 0
    BY <1>1
  <2>2. e \o [i \in 1..0 |-> "setup"] = e
    BY <1>2, CommitsGrow
  <2>. QED
    BY <1>3, <2>1, <2>2
<1>5. ASSUME NEW n \in 1..tests[t].todo
      PROVE  Commits(t, n - 1) = Append(Commits(t, n), "setup")
  <2>1. PICK m \in Nat : m = tests[t].todo - n
    BY <1>1
  <2>2. tests[t].todo - (n - 1) = m + 1
    BY <1>1, <2>1
  <2>3. Commits(t, n) = e \o [i \in 1..m |-> "setup"]
    BY <1>3, <2>1
  <2>4. Commits(t, n - 1) = e \o [i \in 1..(m + 1) |-> "setup"]
    BY <1>3, <2>2
  <2>. QED
    BY <1>2, <2>3, <2>4, CommitsGrow
<1>. QED
  BY <1>4, <1>5 DEF e

LEMMA NextBuilt ==
  ASSUME Types, Flow, Built, [Next]_vars
  PROVE  Built'
<1>. USE TheCalls DEF config
<1>1. CASE NewDriver
  <2>. DEFINE o == OriginalFor(test + 1)
  <2>1. /\ current' = Append(current, o) /\ test' = test + 1 /\ tests' = tests
        /\ o.of = test + 1 /\ o.by = << >> /\ o \in Image
    BY <1>1, AtNewDriver DEF OriginalFor
  <2>2. current \in Seq(Image) /\ Len(current) = test /\ test \in Nat
    BY TestsAreTests DEF Types, TypeOK
  <2>. HIDE DEF o
  <2>3. current'[test + 1] = o /\ \A t \in 1..test : current'[t] = current[t]
    BY <2>1, <2>2, AppendProperties
  <2>4. \A t \in 1..test' : current'[t].of = t
    BY <2>1, <2>2, <2>3 DEF Built
  <2>5. Current' = o
    BY <2>1, <2>3 DEF Current
  <2>6. op' \in {"setup", "exec"} => Commits(test + 1, tests[test + 1].todo) = << >>
    BY <1>1, AtNewDriver, TestCommits
  <2>7. op' \in {"setup", "exec"} => o.by = Commits(test, todo)'
    BY <1>1, <2>1, <2>6, AtNewDriver DEF Commits
  <2>. QED
    BY <2>1, <2>4, <2>5, <2>7 DEF Built
<1>2. CASE Create
  BY <1>2 DEF Create, Built, Current, Commits
<1>3. CASE MidCall
  BY <1>3 DEF MidCall, Built, Current, Commits
<1>4. CASE Finish
  <2>1. Working /\ op' = AfterOp /\ todo' = Remaining /\ LastCall
        /\ UNCHANGED <<tests, test>>
    BY <1>4 DEF Finish
  <2>2. test \in 1..Len(tests) /\ Current.of = test /\ tests[test] \in DriverTest /\ todo \in Nat
        /\ test \in 1..test
    BY <2>1, UnderWay, TestsAreTests DEF Working, Built, Current, Types, TypeOK
  <2>3. CASE op \in {"setEnv", "setup"}
    <3>1. current' = [current EXCEPT ![test] = Committed]
      BY <1>4, <2>1, <2>3, FirstAndLast DEF Finish
    <3>2. Committed.of = test /\ Committed.by = Append(Current.by, op)
      BY <2>2, <2>3, AtCommit
    <3>3. test \in DOMAIN current /\ DOMAIN current = 1..test
      BY <2>1, UnderWay, TestsAreTests DEF Working
    <3>4. Current' = Committed /\ \A t \in 1..test' : current'[t].of = t
      BY <2>1, <3>1, <3>2, <3>3 DEF Current, Built
    <3>5. op' # "setEnv"
      BY <2>1, <1>4, AtEnd
    <3>6. op' \in {"setup", "exec"} => Committed.by = Commits(test, Remaining)
      <4>1. CASE op = "setEnv"
        <5>1. Committed.by = <<"setEnv">>
          <6>1. Current.by = << >> /\ Append(<< >>, "setEnv") = <<"setEnv">>
            BY <4>1 DEF Built
          <6>. QED
            BY <3>2, <4>1, <6>1
        <5>2. Remaining = tests[test].todo /\ tests[test].globals
          BY <2>1, <4>1, AfterIt DEF Flow
        <5>. QED
          BY <2>2, <5>1, <5>2, TestCommits
      <4>2. CASE op = "setup"
        <5>1. Remaining = todo - 1 /\ todo \in 1..tests[test].todo
          BY <2>1, <2>2, <4>2, AfterIt DEF Flow, DriverTest
        <5>2. Commits(test, todo - 1) = Append(Commits(test, todo), "setup")
          BY <2>2, <5>1, TestCommits
        <5>. QED
          BY <3>2, <4>2, <5>1, <5>2 DEF Built
      <4>. QED
        BY <2>3, <4>1, <4>2
    <3>. QED
      BY <2>1, <3>4, <3>5, <3>6 DEF Built, Commits
  <2>4. CASE op \in {"exec", "read"}
    <3>1. current' = current
      BY <1>4, <2>1, <2>4, FirstAndLast DEF Finish
    <3>2. op' \notin {"setEnv", "setup", "exec"}
      BY <2>1, <2>4, AfterIt
    <3>. QED
      BY <2>1, <3>1, <3>2 DEF Built
  <2>. QED
    BY <2>1, <2>3, <2>4 DEF Working
<1>5. CASE CallError
  <2>1. op' \notin {"setEnv", "setup", "exec"}
    BY <1>5, AfterIt DEF CallError, AfterError
  <2>. QED
    BY <1>5, <2>1 DEF CallError, Built
<1>6. CASE DestroyFileDriver
  BY <1>6 DEF DestroyFileDriver, Built
<1>7. CASE DestroyPending
  BY <1>7 DEF DestroyPending, CommandsDone, Built
<1>8. CASE UNCHANGED vars
  BY <1>8 DEF vars, Built, Current, Commits
<1>. QED
  BY <1>1, <1>2, <1>3, <1>4, <1>5, <1>6, <1>7, <1>8 DEF Next, Finished

-----------------------------------------------------------------------------
(* The containers.                                                         *)

LEMMA NextContainers ==
  ASSUME Types, Flow, Containers, [Next]_vars
  PROVE  Containers'
<1>. USE TheCalls DEF config
<1>1. CASE NewDriver
  BY <1>1, AtNewDriver DEF Containers, Mine
<1>2. CASE Create
  <2>1. call = 0 /\ Mine = {} /\ save' = save /\ call' = 1 /\ made' = made + 1 /\ made \in Nat
        /\ abandoned' = abandoned /\ Current' = Current
    BY <1>2, FirstAndLast DEF Create, Mine, Types, Current
  <2>2. PICK c : c = [id |-> made + 1, image |-> Current]
    OBVIOUS
  <2>3. containers' = containers \union {c}
    BY <1>2, <2>2 DEF Create
  <2>4. \A d \in containers : d.id \in 1..made
    BY DEF Types, TypeOK
  <2>5. Mine' = {c}
    BY <2>1, <2>2, <2>3, <2>4 DEF Mine
  <2>6. \A d \in containers' : d.id = made' => d.image = Current'
    BY <2>1, <2>2, <2>3, <2>4
  <2>7. \A d \in abandoned' : d.id # made'
    BY <2>1, <2>4 DEF Types, TypeOK
  <2>8. ~save => containers' = abandoned' \union Mine'
    BY <2>1, <2>3, <2>5 DEF Containers
  <2>9. save => IsFiniteSet(containers') /\ Cardinality(containers') = made'
    <3>1. c \notin containers
      BY <2>1, <2>2, <2>4
    <3>. QED
      BY <2>1, <2>3, <3>1, FS_AddElement DEF Containers
  <2>. QED
    BY <2>1, <2>6, <2>7, <2>8, <2>9 DEF Containers
<1>3. CASE MidCall
  <2>1. call > 0 /\ call' > 0 /\ call # 0 /\ call' # 0
    BY <1>3 DEF MidCall, Types
  <2>2. UNCHANGED <<save, current, test, containers, made, abandoned>>
    BY <1>3 DEF MidCall
  <2>3. Mine' = Mine /\ Current' = Current
    BY <2>1, <2>2 DEF Mine, Current
  <2>. QED
    BY <2>1, <2>2, <2>3 DEF Containers
<1>4. CASE Finish
  <2>1. RemoveContainer /\ call' = 0 /\ save' = save /\ made' = made
    BY <1>4 DEF Finish
  <2>2. Mine' = {}
    BY <2>1 DEF Mine
  <2>. QED
    BY <2>1, <2>2, Removal DEF Containers
<1>5. CASE CallError
  <2>1. call' = 0 /\ save' = save /\ made' = made
    BY <1>5 DEF CallError
  <2>2. Mine' = {}
    BY <2>1 DEF Mine
  <2>3. CASE op = "setup"
    BY <1>5, <2>1, <2>2, <2>3 DEF CallError, Containers
  <2>4. CASE op # "setup"
    BY <1>5, <2>1, <2>2, <2>4, Removal DEF CallError, Containers
  <2>. QED
    BY <2>3, <2>4
<1>6. CASE DestroyFileDriver
  BY <1>6 DEF DestroyFileDriver, Containers, Mine, Current
<1>7. CASE DestroyPending
  BY <1>7 DEF DestroyPending, Containers, Mine, Current
<1>8. CASE UNCHANGED vars
  BY <1>8 DEF vars, Containers, Mine, Current
<1>. QED
  BY <1>1, <1>2, <1>3, <1>4, <1>5, <1>6, <1>7, <1>8 DEF Next, Finished

-----------------------------------------------------------------------------
(* The images.                                                             *)

\* Only the image under test is what the image under test was built on.
LEMMA UnderOriginal ==
  ASSUME NEW i \in Image, NEW j \in Image, Under(i, j), IsOriginal(j)
  PROVE  IsOriginal(i)
<1>1. i.by \in Seq({"setEnv", "setup"}) /\ Len(i.by) <= Len(j.by) /\ Len(j.by) = 0
  BY DEF Under, IsPrefix, IsOriginal, Image
<1>. QED
  BY <1>1, EmptySeq DEF IsOriginal

\* What Destroy leaves of a test's images is held by containers, and it does
\* not touch the image of any container.
LEMMA AfterDestroy ==
  ASSUME Types, Images, NEW t, Destroy(t)
  PROVE  /\ images' \subseteq images
         /\ \A i \in images' : i.of = t => Held(i)
         /\ \A c \in containers : c.image \in images => c.image \in images'
<1>1. CASE IsOriginal(current[t])
  <2>1. ASSUME NEW i \in images, i.of = t
        PROVE  FALSE
    <3>1. t \in 1..test /\ Under(i, current[t]) /\ ~IsOriginal(i) /\ i \in Image
      BY <2>1 DEF Images, Types
    <3>2. current[t] \in Image
      BY <3>1, TestsAreTests DEF Types
    <3>. QED
      BY <1>1, <3>1, <3>2, UnderOriginal
  <2>. QED
    BY <1>1, <2>1 DEF Destroy
<1>2. CASE ~IsOriginal(current[t])
  <2>1. images' = RemoveImage(current[t])
    BY <1>2 DEF Destroy
  <2>2. \A i \in images : i.of = t => Under(i, current[t])
    BY DEF Images
  <2>3. \A c \in containers : Under(c.image, c.image)
    BY UnderItself DEF Types, Container
  <2>. QED
    BY <2>1, <2>2, <2>3 DEF RemoveImage, Held
<1>. QED
  BY <1>1, <1>2

\* Of an operation's test, either a Destroy is still to come or there is no
\* image yet.
LEMMA Covered ==
  ASSUME Types, Flow, Images, Working, Finish \/ CallError
  PROVE  \/ test \in Range(pending)
         \/ op' \in {"read", "destroy"}
         \/ CallError /\ \A i \in images : i.of # test
<1>1. op \in {"setEnv", "setup", "exec", "read"} /\ op # "next"
  BY TheCalls DEF Working
<1>2. CASE tests[test].kind = "command"
  BY <1>1, <1>2 DEF Flow
<1>3. CASE tests[test].kind = "file"
  <2>1. op \in {"setEnv", "read"}
    BY <1>1, <1>3 DEF Flow
  <2>2. AfterOp \in {"read", "destroy"}
    BY <1>3, <2>1, AfterIt
  <2>3. CASE Finish
    BY <2>2, <2>3 DEF Finish
  <2>4. CASE CallError /\ op = "read"
    BY <2>2, <2>4 DEF CallError, AfterError
  <2>5. CASE CallError /\ op = "setEnv"
    BY <2>5 DEF Images
  <2>. QED
    BY <2>1, <2>3, <2>4, <2>5
<1>. QED
  BY <1>1, <1>2, <1>3, UnderWay DEF DriverTest

LEMMA NextImages ==
  ASSUME Types, Flow, Built, Containers, Images, [Next]_vars
  PROVE  Images'
<1>. USE TheCalls DEF config
<1>1. CASE NewDriver
  <2>. DEFINE o == OriginalFor(test + 1)
  <2>1. /\ current' = Append(current, o) /\ test' = test + 1 /\ o.by = << >> /\ o \in Image
        /\ UNCHANGED <<save, images, containers>> /\ op = "next"
    BY <1>1, AtNewDriver DEF OriginalFor
  <2>2. current \in Seq(Image) /\ Len(current) = test /\ test \in Nat
    BY TestsAreTests DEF Types, TypeOK
  <2>. HIDE DEF o
  <2>3. current'[test + 1] = o /\ \A t \in 1..test : current'[t] = current[t]
    BY <2>1, <2>2, AppendProperties
  <2>4. IsOriginal(Current')
    BY <2>1, <2>3 DEF Current, IsOriginal
  <2>5. \A i \in images' : i.of \in 1..test' /\ ~IsOriginal(i) /\ Under(i, current'[i.of])
                           /\ i.of # test'
    BY <2>1, <2>2, <2>3 DEF Images
  <2>6. \A i \in images' : Held(i) \/ i.of \in Range(pending')
    <3>1. CASE pending' = <<test + 1>> \o pending
      <4>1. ASSUME NEW n \in Range(pending)
            PROVE  n \in Range(pending')
        <5>1. PICK k \in 1..Len(pending) : n = pending[k]
          BY <4>1, LenProperties DEF Types, Range
        <5>2. <<test + 1>> \in Seq(Nat) /\ pending \in Seq(Nat) /\ Len(<<test + 1>>) = 1
          BY <2>2 DEF Types
        <5>3. Len(pending) \in Nat
          BY <5>2
        <5>4. pending'[k + 1] = pending[k] /\ k + 1 \in DOMAIN pending'
          BY <3>1, <5>1, <5>2, <5>3, ConcatProperties, LenProperties
        <5>. QED
          BY <5>1, <5>4 DEF Range
      <4>. QED
        BY <2>1, <4>1 DEF Images
    <3>2. CASE pending' = pending
      BY <2>1, <3>2 DEF Images
    <3>. QED
      BY <1>1, <3>1, <3>2, AtNewDriver
  <2>7. \A i \in images' : Held(i)' <=> Held(i)
    BY <2>1 DEF Held
  <2>. QED
    BY <2>1, <2>4, <2>5, <2>6, <2>7 DEF Images
<1>2. CASE Create
  <2>1. UNCHANGED <<save, test, op, current, pending, images>> /\ Working
    BY <1>2 DEF Create
  <2>2. containers \subseteq containers' /\ \A c \in containers' \ containers : c.image = Current
    BY <1>2 DEF Create
  <2>3. Working' /\ Current' = Current
    BY <2>1 DEF Working, Current
  <2>4. \A i : Held(i) => Held(i)'
    BY <2>2 DEF Held
  <2>. QED
    BY <2>1, <2>2, <2>3, <2>4 DEF Images
<1>3. CASE MidCall
  <2>1. UNCHANGED <<save, test, op, current, pending, images, containers>>
    BY <1>3 DEF MidCall
  <2>2. Working' <=> Working
    BY <2>1 DEF Working
  <2>. QED
    BY <2>1, <2>2 DEF Images, Held, Current
<1>4. CASE Finish \/ CallError
  <2>1. Working /\ UNCHANGED <<save, test, pending>> /\ containers' \subseteq containers
        /\ containers \ Mine \subseteq containers' /\ (save => containers' = containers)
    BY <1>4, Removal DEF Finish, CallError
  <2>2. /\ test \in 1..test /\ test \in DOMAIN current /\ DOMAIN current = 1..test
        /\ Current \in Image /\ Current.of = test /\ Current = current[test]
    BY <2>1, UnderWay, TestsAreTests DEF Working, Built, Current
  <2>3. op' # "setEnv"
    BY <1>4, <2>1, AtEnd
  <2>4. \/ UNCHANGED <<images, current>>
        \/ /\ Finish /\ op \in {"setEnv", "setup"}
           /\ images' = images \union {Committed} /\ current' = [current EXCEPT ![test] = Committed]
    <3>1. CASE Finish /\ NextCall = "commit"
      BY <3>1, FirstAndLast DEF Finish
    <3>. QED
      BY <1>4, <3>1 DEF Finish, CallError
  <2>5. op \in {"setEnv", "setup"} =>
          /\ Committed \in Image /\ Committed.of = test /\ ~IsOriginal(Committed)
          /\ Committed.by = Append(Current.by, op) /\ Under(Committed, Committed)
    <3>1. SUFFICES ASSUME op \in {"setEnv", "setup"}
                   PROVE  /\ Committed \in Image /\ Committed.of = test /\ ~IsOriginal(Committed)
                          /\ Committed.by = Append(Current.by, op) /\ Under(Committed, Committed)
      OBVIOUS
    <3>2. /\ Committed \in Image /\ Committed.of = test
          /\ Committed.by = Append(Current.by, op)
      BY <2>2, <3>1, AtCommit
    <3>3. Current.by \in Seq({"setEnv", "setup"})
      BY <2>2 DEF Image
    <3>4. Append(Current.by, op) # << >>
      BY <3>1, <3>3, AppendProperties
    <3>. QED
      BY <3>2, <3>4, UnderItself DEF IsOriginal
  <2>6. \A i \in images' : i.of \in 1..test /\ ~IsOriginal(i) /\ Under(i, current'[i.of])
    <3>1. CASE UNCHANGED <<images, current>>
      BY <3>1 DEF Images
    <3>2. CASE op \in {"setEnv", "setup"} /\ images' = images \union {Committed}
               /\ current' = [current EXCEPT ![test] = Committed]
      <4>1. current'[test] = Committed /\ \A t \in 1..test : t # test => current'[t] = current[t]
        BY <2>2, <3>2
      <4>2. \A i \in images : i.of = test => Under(i, Committed)
        <5>1. \A i \in images : i \in Image /\ (i.of = test => Under(i, Current))
          BY <2>2 DEF Images, Types
        <5>. QED
          BY <2>2, <2>5, <3>2, <5>1, UnderCommitted
      <4>. QED
        BY <2>2, <2>5, <3>2, <4>1, <4>2 DEF Images
    <3>. QED
      BY <2>4, <3>1, <3>2
  <2>7. \A i \in images' : \/ Held(i)'
                           \/ i.of \in Range(pending)
                           \/ i.of = test /\ op' \in {"read", "destroy"}
    <3>1. ASSUME NEW i \in images', i.of = test
          PROVE  \/ Held(i)'
                 \/ i.of \in Range(pending)
                 \/ i.of = test /\ op' \in {"read", "destroy"}
      <4>1. CASE CallError /\ \A j \in images : j.of # test
        BY <3>1, <4>1 DEF CallError
      <4>. QED
        BY <1>4, <2>1, <3>1, <4>1, Covered
    <3>2. ASSUME NEW i \in images', i.of # test
          PROVE  Held(i)' \/ i.of \in Range(pending)
      <4>1. i \in images
        BY <2>4, <2>5, <3>2
      <4>2. CASE Held(i)
        <5>1. PICK c \in containers : Under(i, c.image)
          BY <4>2 DEF Held
        <5>2. c \notin Mine
          <6>1. SUFFICES ASSUME c \in Mine PROVE FALSE
            OBVIOUS
          <6>2. call > 0 /\ c.id = made
            BY <6>1 DEF Mine, Types
          <6>3. c.image = Current
            BY <6>2 DEF Containers
          <6>. QED
            BY <2>2, <3>2, <5>1, <6>3 DEF Under
        <5>. QED
          BY <2>1, <5>1, <5>2 DEF Held
      <4>. QED
        BY <3>2, <4>1, <4>2 DEF Images
    <3>. QED
      BY <3>1, <3>2
  <2>8. images \subseteq images'
    BY <2>4
  <2>9. Current' = Current \/ Current' \in images'
    BY <2>1, <2>2, <2>4 DEF Current
  <2>. QED
    BY <2>1, <2>3, <2>6, <2>7, <2>8, <2>9 DEF Images
<1>5. CASE DestroyFileDriver
  <2>1. Destroy(test) /\ op' = "next" /\ UNCHANGED <<save, test, current, pending, containers>>
    BY <1>5 DEF DestroyFileDriver
  <2>2. ~Working' /\ \A i : Held(i)' <=> Held(i)
    BY <2>1 DEF Working, Held
  <2>. QED
    BY <2>1, <2>2, AfterDestroy DEF Images
<1>6. CASE DestroyPending
  <2>1. /\ Destroy(Head(pending)) /\ op = "next" /\ pending' = Tail(pending)
        /\ UNCHANGED <<save, test, op, current, containers>> /\ pending # << >>
    BY <1>6 DEF DestroyPending, CommandsDone
  <2>2. ~Working' /\ \A i : Held(i)' <=> Held(i)
    BY <2>1 DEF Working, Held
  <2>3. \A n \in Range(pending) : n = Head(pending) \/ n \in Range(pending')
    <3>1. ASSUME NEW k \in 1..Len(pending), k # 1
          PROVE  pending[k] \in Range(pending')
      <4>1. pending \in Seq(Nat) /\ Len(pending) \in Nat /\ pending' \in Seq(Nat)
        BY <2>1, HeadTailProperties DEF Types
      <4>2. pending'[k - 1] = pending[k] /\ k - 1 \in 1..Len(pending')
        BY <2>1, <3>1, <4>1, HeadTailProperties
      <4>. QED
        BY <4>1, <4>2, LenProperties DEF Range
    <3>2. DOMAIN pending = 1..Len(pending) /\ Head(pending) = pending[1]
      BY <2>1, LenProperties, HeadTailProperties DEF Types
    <3>. QED
      BY <3>1, <3>2 DEF Range
  <2>. QED
    BY <2>1, <2>2, <2>3, AfterDestroy DEF Images
<1>7. CASE UNCHANGED vars
  BY <1>7 DEF vars, Images, Held, Working, Current
<1>. QED
  BY <1>1, <1>2, <1>3, <1>4, <1>5, <1>6, <1>7 DEF Next, Finished

-----------------------------------------------------------------------------
(* The invariant, and what follows from it.                                *)

LEMMA InitIInv == Init => IInv
<1>1. SUFFICES ASSUME Init PROVE IInv
  OBVIOUS
<1>2. tests \in Seq(DriverTest) /\ Len(tests) \in Nat
  BY <1>1, FilesAssumption, LenProperties DEF Init
<1>3. ~Working /\ Mine = {}
  BY <1>1, TheCalls DEF Init, Working, Mine
<1>4. Types
  BY <1>1, <1>2, <1>3 DEF Init, Types, TypeOK
<1>5. Flow /\ Built
  BY <1>1, <1>3 DEF Init, Flow, Built
<1>6. Containers
  BY <1>1, <1>3, FS_EmptySet DEF Init, Containers
<1>7. Images
  BY <1>1, <1>3 DEF Init, Images
<1>. QED
  BY <1>4, <1>5, <1>6, <1>7 DEF IInv

LEMMA NextIInv == IInv /\ [Next]_vars => IInv'
BY NextTypes, NextFlow, NextBuilt, NextContainers, NextImages DEF IInv

\* The inductive invariant holds whatever calls fail, in any file.
THEOREM Inductive == Spec => []IInv
BY InitIInv, NextIInv, PTL DEF Spec

\* The driver keeps track of the operation it is in, and every container has a
\* number of its own.
THEOREM TypeCorrect == Spec => []TypeOK
<1>1. IInv => TypeOK
  BY DEF IInv, Types
<1>. QED
  BY <1>1, Inductive, PTL

\* A command runs on an image that holds the global environment and everything
\* its setup commands did, in their order, and nothing else: a chain of any
\* length, whatever failed in the tests before.
THEOREM CommandsBuildOnSetup == Spec => []CommandBuildsOnSetup
<1>1. IInv => CommandBuildsOnSetup
  <2>1. SUFFICES ASSUME IInv, op = "exec"
                 PROVE  Current = [of |-> test, by |-> Commits(test, 0)]
    <3>1. ASSUME IInv, op = "exec"
          PROVE  tests[test].todo - 0 = tests[test].todo
      BY <3>1, UnderWay DEF IInv, DriverTest
    <3>. QED
      BY <3>1 DEF CommandBuildsOnSetup, Commits
  <2>2. Current \in Image /\ test \in 1..test /\ todo = 0
    BY <2>1, UnderWay DEF IInv, Flow
  <2>3. Current.of = test /\ Current.by = Commits(test, 0)
    BY <2>1, <2>2 DEF IInv, Built, Current
  <2>. QED
    BY <2>2, <2>3 DEF Image
<1>. QED
  BY <1>1, Inductive, PTL

\* Without --save, a container is left behind only when its setup command
\* failed half-way or the daemon would not remove it.
THEOREM ContainersAreRemoved == Spec => []OnlyAbandonedStay
<1>1. IInv => OnlyAbandonedStay
  <2>1. IInv /\ Done => call = 0
    BY TheCalls DEF IInv, Flow, Done, Working
  <2>. QED
    BY <2>1 DEF IInv, Containers, Mine, OnlyAbandonedStay
<1>. QED
  BY <1>1, Inductive, PTL

\* Destroy removes the current image of a test only, and still no image is left
\* at the end of the run except under a container that was.
THEOREM ImagesAreRemoved == Spec => []ImagesGoWithContainers
<1>1. IInv => ImagesGoWithContainers
  BY DEF IInv, Images, Held, Done, Range, ImagesGoWithContainers
<1>. QED
  BY <1>1, Inductive, PTL

\* With --save nothing that a container needs to be looked at is removed.
THEOREM EverythingIsSaved == Spec => []SaveKeeps
<1>1. IInv => SaveKeeps
  BY DEF IInv, Containers, Images, SaveKeeps
<1>. QED
  BY <1>1, Inductive, PTL

=============================================================================
