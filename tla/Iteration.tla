----------------------------- MODULE Iteration -----------------------------
(* Loops over a sequence or up to a bound.                                 *)
EXTENDS Integers

\* The last of n steps from x, the i-th being Step(_, i).  Each value is worked
\* out before it is used, however often that is: a fold does not promise so.
Iterate(Step(_, _), x, n) ==
  LET after[i \in 0..n] ==
        IF i = 0 THEN x ELSE CHOOSE y \in {Step(z, i) : z \in {after[i - 1]}} : TRUE
  IN after[n]

\* Op(x), x being worked out before.
With(x, Op(_)) == CHOOSE y \in {Op(z) : z \in {x}} : TRUE
=============================================================================
