--------------------------- MODULE MCDockerDriver ---------------------------
(* Up to three tests: command tests with up to two setup commands, file      *)
(* tests that read up to two files, with and without global variables.       *)
EXTENDS DockerDriver

T(k, g, n) == [kind |-> k, globals |-> g, todo |-> n]

MCFiles ==
  { <<T("command", TRUE, 2), T("file", TRUE, 1)>>,
    <<T("command", FALSE, 0), T("command", FALSE, 2)>>,
    <<T("command", FALSE, 1), T("command", FALSE, 0), T("file", FALSE, 2)>>,
    <<T("file", TRUE, 2), T("file", FALSE, 1)>> }
=============================================================================
