------------------------------ MODULE Places ------------------------------
(* The place of a test in a run: its file, its section in the file and its  *)
(* position in the section, reached in lexicographic order.  Section 0      *)
(* stands for a file that could not be parsed and has no tests to run.      *)
EXTENDS Integers

Place(f, s, n) == [file |-> f, section |-> s, num |-> n]

Unparsable(f) == Place(f, 0, 0)

Before(t, u) ==
  \/ t.file < u.file
  \/ (t.file = u.file /\ t.section < u.section)
  \/ (t.file = u.file /\ t.section = u.section /\ t.num < u.num)
=============================================================================
