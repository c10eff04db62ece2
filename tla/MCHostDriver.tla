---------------------------- MODULE MCHostDriver ----------------------------
(* Two names, values that refer to each other, two tests in the first file   *)
(* and one in the second.                                                    *)
EXTENDS HostDriver

CONSTANTS A, B, x, y

MCKeys == {A, B}
MCPieces == {x, y}

Lit(k, p)    == [key |-> k, ref |-> NoRef, lit |-> <<p>>]
Ref(k, r, p) == [key |-> k, ref |-> r, lit |-> <<p>>]
Alias(k, r)  == [key |-> k, ref |-> r, lit |-> << >>]

VarLists == { << >>, <<Lit(A, x)>>, <<Ref(A, A, y)>>, <<Alias(B, A)>>,
              <<Lit(B, x), Ref(A, B, y)>>, <<Ref(A, B, y), Lit(B, x)>>, <<Lit(A, x), Lit(A, y)>> }

Globals == { << >>, <<Lit(A, y)>>, <<Ref(B, B, x)>>, <<Lit(A, x), Lit(BadKey, x), Lit(B, y)>> }

Envs == [MCKeys -> {Unset, << >>, <<y>>}]

ATest(v, n) == [vars |-> v, setup |-> n]

MCRuns ==
  { [env |-> e,
     files |-> << [schema |-> s, globals |-> g, fileTests |-> 1,
                   tests |-> <<ATest(v, 1), ATest(w, 0)>>],
                  [schema |-> "v1", globals |-> << >>, fileTests |-> 0, tests |-> <<ATest(v, 0)>>] >>] :
    e \in Envs, s \in {"v1", "v2"}, g \in Globals, v \in VarLists, w \in VarLists }
=============================================================================
