----------------------------- MODULE MCCommand -----------------------------
(* Small images, layouts and tests, and the commands that are given them:    *)
(* the arguments by themselves, the places an image may be, the layouts, and *)
(* each kind of test on each image.                                          *)
EXTENDS Command

-----------------------------------------------------------------------------
(* Images.                                                                 *)

Root     == [uid |-> 0, gid |-> 0]
Somebody == [uid |-> 7, gid |-> 7]

DirN(exec)           == [type |-> "dir", exec |-> exec, owner |-> Root]
RegN(contents, exec) == [type |-> "reg", exec |-> exec, owner |-> Somebody, contents |-> contents]
SymN(link)           == [type |-> "sym", exec |-> Classes, owner |-> Root, link |-> link]

Abs(parts) == Written(TRUE, parts)
Rel(parts) == Written(FALSE, parts)

Etc    == <<"etc">>
Conf   == <<"etc", "conf">>
Bin    == <<"usr", "bin">>
Tool   == <<"usr", "bin", "tool">>
Doc(p) == Append(DebianRoot, p)
License(p) == DebianRoot \o <<p, LicenseFile>>

MCNames ==
  {"etc", "conf", "usr", "bin", "tool", "share", "doc", "libx", "liby", "libz", "libq", "libgnutls30", LicenseFile,
   "t", "a"}

Dirs(places) == [q \in places |-> DirN(Classes)]

Base ==
  (Conf :> RegN("on", {}) @@ Tool :> RegN("off", {"owner", "group"}) @@ License("libx") :> RegN("free", {}))
  @@ Etc :> DirN({"group"})
  @@ Dirs({<< >>, <<"usr">>, Bin, <<"usr", "share">>, DebianRoot, Doc("libx"), Doc("libgnutls30")})

\* A conf that is a link, a directory that is one, a license that is one.
Linked ==
  (Conf :> SymN(Abs(Tool)) @@ <<"bin">> :> SymN(Abs(Bin))
   @@ Doc("liby") :> DirN(Classes) @@ License("liby") :> SymN(Abs(License("libx")))) @@ Base

Relative ==
  (<<"usr", "bin", "t">> :> SymN(Rel(<<"tool">>)) @@ Conf :> SymN(Rel(<<"..", "usr", "bin", "tool">>))) @@ Base

Circular == (Conf :> SymN(Abs(<<"a">>)) @@ <<"a">> :> SymN(Abs(Conf))) @@ Base

Unlicensed == (License("libx") :> RegN("blacklisted", {}) @@ Doc("libz") :> DirN({})) @@ Base

DocIsLink ==
  (<<"doc">> :> DirN(Classes) @@ DebianRoot :> SymN(Abs(<<"doc">>)) @@ <<"doc", "libq">> :> DirN(Classes))
  @@ Restrict(Base, {q \in DOMAIN Base : ~IsPrefix(DebianRoot, q)})

Pair(key, value) == [key |-> key, value |-> value]

Config1 ==
  [env |-> <<Pair("D", "usr"), Pair("D", "etc")>>, labels |-> ("l" :> "1"),
   entrypoint |-> <<"sh">>, cmd |-> << >>, volumes |-> {"/v"}, ports |-> {[port |-> "53", proto |-> "udp"]},
   workdir |-> "/w", user |-> "u"]

Config2 ==
  [EmptyConfig EXCEPT !.env = <<Pair("E", "etc")>>, !.cmd = <<"sh">>, !.ports = {[port |-> "53", proto |-> "tcp"]}]

MCImages ==
  [id \in {"base", "linked", "relative", "circular", "unlicensed", "doclink"} |->
     CASE id = "base"       -> [config |-> Config1, tree |-> Base]
       [] id = "linked"     -> [config |-> Config2, tree |-> Linked]
       [] id = "relative"   -> [config |-> Config1, tree |-> Relative]
       [] id = "circular"   -> [config |-> Config2, tree |-> Circular]
       [] id = "unlicensed" -> [config |-> Config2, tree |-> Unlicensed]
       [] id = "doclink"    -> [config |-> Config1, tree |-> DocIsLink]]

MCReferences == ("$D" :> "D" @@ "$E" :> "E")

-----------------------------------------------------------------------------
(* Tests.                                                                  *)

On      == [compiles |-> TRUE, matches |-> {"on"}]
Either  == [compiles |-> TRUE, matches |-> {"on", "off", "1", "etc", "free"}]
Invalid == [compiles |-> FALSE, matches |-> {}]

CommandT(name, commands, expected, excluded) ==
  [kind |-> "command", name |-> name, command |-> "run", commands |-> commands, vars |-> {},
   expectedOutput |-> expected, excludedOutput |-> excluded, expectedError |-> {}, excludedError |-> {},
   exitCode |-> 0]

ContentT(parts, expected, excluded) ==
  [kind |-> "content", name |-> "t", path |-> Abs(parts), expectedContents |-> expected, excludedContents |-> excluded]

ExistenceT(parts, shouldExist) ==
  [kind |-> "existence", name |-> "t", path |-> Abs(parts), shouldExist |-> shouldExist,
   permissions |-> {}, isExecutableBy |-> "", uid |-> -1, gid |-> -1]

LicenseT(debian, files) == [kind |-> "license", debian |-> debian, files |-> files]

MetadataT ==
  [kind |-> "metadata", envVars |-> {}, unboundEnvVars |-> {}, labels |-> {}, exposedPorts |-> {},
   unexposedPorts |-> {}, cmd |-> {}, entrypoint |-> {}, workdir |-> "", user |-> "", volumes |-> {},
   unmountedVolumes |-> {}]

Var(key, value, isRegex) == [key |-> key, value |-> value, isRegex |-> isRegex]
Port(port, proto)        == [port |-> port, proto |-> proto]

CommandTests ==
  { CommandT("t", {}, {On}, {}), CommandT("t", {<<"make">>}, {}, {On}), CommandT("t", {<< >>}, {}, {}),
    CommandT("t", {}, {On}, {On}), CommandT("t", {}, {}, {Invalid}), CommandT("", {}, {}, {}) }

ContentTests ==
  { ContentT(p, {On}, {}) : p \in {Conf, Tool, <<"bin", "tool">>, <<"usr", "bin", "t">>, Etc, <<"none">>} }
  \union { ContentT(Conf, {}, {On}), ContentT(Conf, {On}, {On}), ContentT(Conf, {}, {Invalid}), ContentT(<< >>, {}, {}) }

ExistenceTests ==
  { ExistenceT(p, should) :
      p \in {Conf, <<"bin">>, <<"bin", "tool">>, <<"usr", "..", "etc", "conf">>, <<"$D", "conf">>, <<"none">>},
      should \in BOOLEAN }
  \union { [ExistenceT(p, TRUE) EXCEPT !.isExecutableBy = who] :
             p \in {Conf, Tool, Etc}, who \in {"any", "owner", "group", "nobody"} }
  \union { [ExistenceT(p, TRUE) EXCEPT !.uid = 7, !.gid = gid] : p \in {Conf, Tool}, gid \in {-1, 0} }
  \union { [ExistenceT(Etc, TRUE) EXCEPT !.permissions = {[type |-> "dir", exec |-> exec]}] :
             exec \in {{"group"}, {"owner", "group"}} }

LicenseTests ==
  { LicenseT(debian, files) : debian \in BOOLEAN, files \in {{}, {Abs(Conf)}, {Abs(<<"none">>)}} }

MetadataTests ==
  { MetadataT,
    [MetadataT EXCEPT !.envVars = {Var("D", "etc", FALSE)}],
    [MetadataT EXCEPT !.envVars = {Var("D", Either, TRUE)}, !.cmd = {<< >>}],
    [MetadataT EXCEPT !.envVars = {Var("D", "etc", FALSE)}, !.unboundEnvVars = {"D"}],
    [MetadataT EXCEPT !.envVars = {Var("", "etc", FALSE)}],
    [MetadataT EXCEPT !.unboundEnvVars = {"V"}],
    [MetadataT EXCEPT !.labels = {Var("l", Invalid, TRUE)}],
    [MetadataT EXCEPT !.exposedPorts = {Port("53", "udp")}],
    [MetadataT EXCEPT !.exposedPorts = {Port("53", "udp")}, !.unexposedPorts = {Port("53", "")}],
    [MetadataT EXCEPT !.exposedPorts = {Port("53", "")}, !.unexposedPorts = {Port("53", "tcp")}],
    [MetadataT EXCEPT !.exposedPorts = {Port("", "")}],
    [MetadataT EXCEPT !.volumes = {"/v"}, !.entrypoint = {<<"sh">>}],
    [MetadataT EXCEPT !.volumes = {"/v"}, !.unmountedVolumes = {"/v"}],
    [MetadataT EXCEPT !.workdir = "/w", !.user = "u", !.unexposedPorts = {Port("53", "tcp")}] }

MCOutputs ==
  { [stdout |-> "on", stderr |-> "", exitCode |-> 0], [stdout |-> "off", stderr |-> "", exitCode |-> 0],
    [stdout |-> "on", stderr |-> "", exitCode |-> 1] }

-----------------------------------------------------------------------------
(* Scenarios.                                                              *)

Img == Name("img", "")
Tar == Name("img", ".tar")
Tgz == Name("img", ".tar.gz")

MCArgs ==
  [driver |-> "docker", image |-> Img, layout |-> FALSE, platform |-> "amd", defaultTag |-> "", ignoreRef |-> FALSE,
   metadata |-> FALSE, configs |-> TRUE, report |-> FALSE, format |-> "not given", pull |-> FALSE, force |-> FALSE,
   save |-> FALSE]

For(d) ==
  IF d = "host" THEN [MCArgs EXCEPT !.driver = "host", !.image = NoName, !.metadata = TRUE, !.force = TRUE]
                     ELSE [MCArgs EXCEPT !.driver = d]

NoLayoutAtAll == [readable |-> FALSE, manifests |-> << >>, ref |-> "", indexes |-> << >>, images |-> << >>]

\* A layout of one image for amd and one for arm, under an index.
TwoPlatforms ==
  [readable |-> TRUE, manifests |-> <<Desc("index", "i1", {})>>, ref |-> "ref",
   indexes |-> ("i1" :> <<Desc("image", "m1", {"amd"}), Desc("image", "m2", {"arm"})>>),
   images |-> ("m1" :> "base" @@ "m2" :> "linked")]

MCWorld ==
  [local |-> (Img :> "base"), remote |-> << >>, archives |-> << >>, layout |-> NoLayoutAtAll,
   host |-> "linked", metadata |-> "readable"]

Scenario(a, answered, w, vars_, tests) ==
  [args |-> a, answers |-> answered, world |-> w, vars |-> vars_, tests |-> tests, outputs |-> MCOutputs, schema |-> "v2"]

\* The arguments, right and wrong.
WithArguments ==
  { Scenario([MCArgs EXCEPT !.driver = d, !.image = image_, !.layout = layout, !.metadata = m, !.configs = c], << >>,
             [MCWorld EXCEPT !.layout = TwoPlatforms], << >>, << >>) :
      d \in {"docker", "tar", "host", "other"}, image_ \in {NoName, Img}, layout \in BOOLEAN, m \in BOOLEAN, c \in BOOLEAN }
  \union
  { Scenario([For(d) EXCEPT !.report = r, !.format = f, !.pull = p], << >>,
             [MCWorld EXCEPT !.remote = remote], << >>, <<ExistenceT(Conf, TRUE)>>) :
      d \in {"docker", "tar", "host"}, r \in BOOLEAN, f \in {"not given", "text", "json"}, p \in BOOLEAN,
      remote \in {<< >>, Img :> "linked"} }
  \union
  { Scenario([For("host") EXCEPT !.force = force], answered, MCWorld, << >>, <<ContentT(Conf, {On}, {})>>) :
      force \in BOOLEAN, answered \in BoundedSeq({"yes", "no", "maybe"}, 2) }

\* The places an image may be, with several tests that each look for it.
WithSources ==
  { Scenario([For(d) EXCEPT !.image = image_, !.save = save], << >>,
             [MCWorld EXCEPT !.local = local_, !.remote = remote, !.archives = (Tar :> "base")], set, tests) :
      d \in {"docker", "tar"}, image_ \in {Img, Tar, Tgz}, save \in BOOLEAN,
      local_ \in {<< >>, Img :> "base"}, remote \in {<< >>, Img :> "linked"},
      set \in {<< >>, <<Pair("D", "$E"), Pair("V", "v")>>},
      tests \in { <<CommandT("t", {}, {On}, {}), CommandT("t", {<<"make">>}, {On}, {}), ContentT(Conf, {On}, {})>>,
                  <<ExistenceT(<<"$D", "conf">>, TRUE), LicenseT(TRUE, {})>>,
                  <<ContentT(Tool, {}, {}), [MetadataT EXCEPT !.unboundEnvVars = {"V"}]>> } }

\* Indexes that hold each other, broken and too deep ones among them.
Descs ==
  { Desc("image", "m1", {"amd"}), Desc("image", "m2", {"amd", "arm"}), Desc("image", "gone", {"arm"}),
    Desc("image", "m2", {}), Desc("index", "gone", {}), Desc("other", "m1", {}) }

MCLayouts ==
  { [readable |-> TRUE, manifests |-> top, ref |-> ref, images |-> ("m1" :> "base" @@ "m2" :> "linked"),
     indexes |-> ("i1" :> a @@ "i2" :> b @@ "i3" :> <<Desc("image", "m2", {"amd"})>>)] :
      top \in {<<Desc("index", "i1", {})>>}, ref \in {"ref"},
      a \in BoundedSeq(Descs \union {Desc("index", "i2", {})}, 2),
      b \in BoundedSeq({Desc("image", "m2", {"amd", "arm"}), Desc("index", "gone", {}), Desc("index", "i3", {})}, 2) }
  \union { [TwoPlatforms EXCEPT !.manifests = top, !.ref = ref] :
             top \in {<<Desc("index", "i1", {})>>, <<Desc("image", "m1", {})>>, <<Desc("image", "gone", {})>>,
                      << >>, <<Desc("image", "m1", {}), Desc("image", "m2", {})>>},
             ref \in {"", "ref", "unparsable"} }

WithLayouts ==
  { Scenario([For("tar") EXCEPT !.image = NoName, !.layout = TRUE, !.platform = p], << >>,
             [MCWorld EXCEPT !.layout = layout], << >>, << >>) :
      p \in {"amd", "arm"}, layout \in MCLayouts }
  \union
  { Scenario([For(d) EXCEPT !.image = NoName, !.layout = TRUE, !.platform = p, !.defaultTag = tag, !.ignoreRef = ignore],
             << >>, [MCWorld EXCEPT !.layout = layout, !.local = local_], << >>,
             <<ContentT(Conf, {On}, {}), LicenseT(TRUE, {})>>) :
      d \in {"docker", "tar"}, p \in {"amd", "arm", "unparsable"}, tag \in {"", "def", "unparsable"}, ignore \in BOOLEAN,
      local_ \in {<< >>, Name("ref", "") :> "unlicensed"},
      layout \in {NoLayoutAtAll, TwoPlatforms, [TwoPlatforms EXCEPT !.ref = ""], [TwoPlatforms EXCEPT !.ref = "unparsable"]} }

\* Every test on every image.
WithTests ==
  { Scenario(For(d), << >>,
             [MCWorld EXCEPT !.local = (Img :> id), !.host = id, !.metadata = IF id = "doclink" THEN "broken" ELSE "readable"],
             << >>, <<t>>) :
      d \in {"docker", "tar", "host"}, id \in DOMAIN MCImages,
      t \in CommandTests \union ContentTests \union ExistenceTests \union LicenseTests \union MetadataTests }
  \union
  { Scenario(For("host"), << >>, [MCWorld EXCEPT !.metadata = m], << >>, <<ExistenceT(<<"$D", "conf">>, TRUE), t>>) :
      m \in {"missing", "broken"}, t \in MetadataTests }

\* What can be said in schema v1: no metadata tests, and of a file only its
\* permissions.
InV1(t) ==
  /\ t.kind # "metadata"
  /\ t.kind = "existence" => t.isExecutableBy = "" /\ t.uid = -1 /\ t.gid = -1

\* Tests in schema v1, and where their image may be.
WithV1 ==
  { [s EXCEPT !.schema = "v1"] :
      s \in {s \in WithSources \union WithTests :
              s.vars = << >> /\ s.world.host # "doclink" /\ \A i \in DOMAIN s.tests : InV1(s.tests[i])} }

\* A file that should not be there, in an image that is not there either.
WithoutImage ==
  { Scenario(For("docker"), << >>, [MCWorld EXCEPT !.local = local_], << >>, <<ExistenceT(Conf, FALSE)>>) :
      local_ \in {<< >>, Img :> "base"} }

\* The contents of a file by way of a link that is absolute, or relative.
WithLinks ==
  { Scenario(For("docker"), << >>, [MCWorld EXCEPT !.local = (Img :> id)], << >>, <<ContentT(p, {Either}, {})>>) :
      id \in {"linked", "relative"}, p \in {Conf, <<"usr", "bin", "t">>} }

MCScenarios == WithArguments \union WithSources \union WithLayouts \union WithTests \union WithV1
=============================================================================
