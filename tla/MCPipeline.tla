----------------------------- MODULE MCPipeline -----------------------------
(* Command lines small enough for TLC that reach every branch of Pipeline.  *)
EXTENDS Pipeline, TLC

NoTests == [s \in Sections |-> 0]
V1(tests) == [schema |-> "v1", tests |-> tests @@ NoTests]
V2File(tests) == [schema |-> "v2", tests |-> tests @@ NoTests]

Run(f, o, r) == [files |-> f, output |-> o, report |-> r]

\* One command line for each interesting combination: two command tests with
\* deferred calls in one file; every section of a schema; two and three files
\* of either schema, any of which may fail to parse; a file without tests.
MCOptions ==
  { Run(<<V2File(Command :> 3 @@ Content :> 2)>>, "json", TRUE),
    Run(<<V2File(Content :> 1 @@ Existence :> 1 @@ License :> 2 @@ Metadata :> 1)>>, "text", FALSE),
    Run(<<V1(Command :> 2 @@ Content :> 1 @@ License :> 1)>>, "junit", TRUE),
    Run(<<V1(Command :> 1 @@ Existence :> 1), V2File(Command :> 1 @@ Existence :> 1)>>, "text", TRUE),
    Run(<<V2File(Existence :> 1), V1(Content :> 1), V2File(Metadata :> 1)>>, "json", FALSE),
    Run(<<V1(NoTests)>>, "text", FALSE) }
=============================================================================
