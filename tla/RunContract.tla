---------------------------- MODULE RunContract ----------------------------
(***************************************************************************)
(* What a run promises its user, with no goroutine, channel or driver in   *)
(* it: the results come in the order of the files, of their sections and   *)
(* of the tests in a section, each test reported at most once; a test that *)
(* is owed a result (a test of a schema v2 file) is never passed over; and *)
(* the run succeeds only with at least one result, all of them passing and *)
(* none owed.                                                              *)
(***************************************************************************)
EXTENDS Sequences, Places

VARIABLES
  places,   \* every place of the run that may report a result
  owed,     \* those that must
  reported, \* the results so far
  outcome   \* "running", "ok", "failed" or "fatal"

vars == <<places, owed, reported, outcome>>

IsReported(t) == \E i \in DOMAIN reported : reported[i].test = t

\* Nothing more is owed for t: its result is there, or its file's only result
\* says that the file could not be parsed.
Settled(t) == IsReported(t) \/ IsReported(Unparsable(t.file))

Init == reported = << >> /\ outcome = "running" /\ owed \subseteq places

Report ==
  /\ outcome = "running"
  /\ \E t \in places, pass \in BOOLEAN :
       /\ \A i \in DOMAIN reported : Before(reported[i].test, t)
       /\ \A u \in owed : Before(u, t) => Settled(u)
       /\ ~IsReported(Unparsable(t.file))
       /\ reported' = Append(reported, [test |-> t, pass |-> pass])
  /\ UNCHANGED <<places, owed, outcome>>

Succeed ==
  /\ outcome = "running"
  /\ reported # << >>
  /\ \A i \in DOMAIN reported : reported[i].pass
  /\ \A u \in owed : Settled(u)
  /\ outcome' = "ok"
  /\ UNCHANGED <<places, owed, reported>>

Fail ==
  /\ outcome = "running"
  /\ \A u \in owed : Settled(u)
  /\ outcome' = "failed"
  /\ UNCHANGED <<places, owed, reported>>

\* A step of the run could not go on.
Abort ==
  /\ outcome = "running"
  /\ outcome' = "fatal"
  /\ UNCHANGED <<places, owed, reported>>

Next == Report \/ Succeed \/ Fail \/ Abort

Spec == Init /\ [][Next]_vars
=============================================================================
