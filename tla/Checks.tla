------------------------------- MODULE Checks -------------------------------
(***************************************************************************)
(* The checks of the tests (pkg/types/v2; those of pkg/types/v1 are the    *)
(* same, but for the fields v1 does not have), each on what a driver       *)
(* answered, and the helpers they share (pkg/utils/utils.go).  A check     *)
(* passes when it finds nothing to complain of.                            *)
(*                                                                         *)
(* A pattern is a regular expression: whether it compiles and what it      *)
(* matches.  "" is a field that is not given.  A value that refers to an   *)
(* environment variable is a name that References maps to the variable.    *)
(***************************************************************************)
EXTENDS FileReads, Functions

CONSTANT References

-----------------------------------------------------------------------------
(* Helpers.                                                                *)

\* MUTANT of CompileAndRunRegex: a pattern that does not compile finds nothing.
RunRegexUnchecked(pattern, base, shouldMatch) ==
  shouldMatch = (pattern.compiles /\ base \in pattern.matches)

CompileAndRunRegex(pattern, base, shouldMatch) ==
  pattern.compiles /\ shouldMatch = (base \in pattern.matches)

\* SubstituteEnvVar: a variable that is not set is empty.
Expand(value, env) ==
  IF value \in DOMAIN References
  THEN IF References[value] \in DOMAIN env THEN env[References[value]] ELSE ""
  ELSE value

SubstituteEnvVar(path, env) ==
  [path EXCEPT !.parts = SelectSeq([i \in DOMAIN @ |-> Expand(@[i], env)], LAMBDA part : part # "")]

Put(map, key, value) == [k \in DOMAIN map \union {key} |-> IF k = key THEN value ELSE map[k]]

\* convertSliceToMap: of two values for a key the later one counts.
ConvertSliceToMap(slice) ==
  Iterate(LAMBDA map, i : Put(map, slice[i].key, slice[i].value), << >>, Len(slice))

\* A port without a protocol stands for the port with any.
PortInList(target, list) ==
  \E value \in list : target.port = value.port /\ target.proto \in {"", value.proto}

-----------------------------------------------------------------------------
(* Validate, before a driver is made.  License tests have none.            *)

ValidCommand(test) ==
  /\ test.name # "" /\ test.command # ""
  /\ << >> \notin test.commands
  /\ \A v \in test.vars : v.key # "" /\ v.value # ""

ValidFile(test) == test.name # "" /\ test.path.parts # << >>

ValidMetadata(test) ==
  /\ \A v \in test.envVars \union test.labels : v.key # ""
  /\ \A p \in test.exposedPorts : p.port # ""
  /\ "" \notin test.volumes

Validate(test) ==
  CASE test.kind = "command" -> ValidCommand(test)
    [] test.kind \in {"content", "existence"} -> ValidFile(test)
    [] test.kind = "metadata" -> ValidMetadata(test)
    [] test.kind = "license" -> TRUE

-----------------------------------------------------------------------------
(* The checks.                                                             *)

AllMatch(patterns, base, shouldMatch) ==
  \A p \in patterns : CompileAndRunRegex(p, base, shouldMatch)

\* CommandTest.CheckOutput.
CheckOutput(test, out) ==
  /\ AllMatch(test.expectedOutput, out.stdout, TRUE) /\ AllMatch(test.excludedOutput, out.stdout, FALSE)
  /\ AllMatch(test.expectedError, out.stderr, TRUE) /\ AllMatch(test.excludedError, out.stderr, FALSE)
  /\ test.exitCode = out.exitCode

\* FileContentTest.Run, once the file was read.
ContentPasses(test, answer) ==
  /\ IsOk(answer)
  /\ AllMatch(test.expectedContents, answer.value, TRUE)
  /\ AllMatch(test.excludedContents, answer.value, FALSE)

Classes == {"owner", "group", "other"}

Mode(info) == [type |-> info.type, exec |-> info.exec]

\* The owner is known only from the header of an archive; -1 is any.
OwnerPasses(test, info) ==
  test.uid # -1 \/ test.gid # -1 =>
    /\ info.hasHeader
    /\ test.uid \in {-1, info.owner.uid} /\ test.gid \in {-1, info.owner.gid}

ExecutableBy(who, info) ==
  CASE who = "" -> TRUE
    [] who = "any" -> info.exec # {}
    [] who \in Classes -> who \in info.exec
    [] OTHER -> FALSE

\* FileExistenceTest.Run: any error counts as the file not being there, and
\* nothing else is asked of one that should not be.
ExistencePasses(test, answer) ==
  IF ~test.shouldExist THEN ~IsOk(answer)
  ELSE /\ IsOk(answer)
       /\ \A mode \in test.permissions : mode = Mode(answer.value)
       /\ ExecutableBy(test.isExecutableBy, answer.value)
       /\ OwnerPasses(test, answer.value)

\* checkFile: no word of the blacklist.
LicensePasses(answer) == IsOk(answer) /\ answer.value # "blacklisted"

DebianRoot  == <<"usr", "share", "doc">>
LicenseFile == "copyright"
Whitelist   == {"libgnutls30"}

PackageFiles(packages) ==
  {Written(TRUE, DebianRoot \o <<p.name, LicenseFile>>) :
     p \in {p \in packages : p.isDir /\ p.name \notin Whitelist}}

\* Nothing more is read when the packages cannot be listed.
LicenseFiles(test, packages) ==
  IF IsOk(packages) THEN PackageFiles(packages.value) \union test.files ELSE {}

\* What ReadDir says of the directory of the packages, when it is asked.
Packages(test, view) ==
  IF test.debian THEN ReadDir(view, Written(TRUE, DebianRoot)) ELSE Answer({})

\* LicenseTest.Run: a package without a license file fails.
LicenseTestPasses(test, view) ==
  With(Packages(test, view), LAMBDA packages :
    /\ IsOk(packages)
    /\ \A file \in PackageFiles(packages.value) : IsOk(StatFile(view, file))
    /\ \A file \in LicenseFiles(test, packages) : LicensePasses(ReadFile(view, file)))

\* Run of a test of files: path is that of the test, in which an existence test
\* may have named variables.
FileTestPasses(test, path, view) ==
  CASE test.kind = "content"   -> ContentPasses(test, ReadFile(view, path))
    [] test.kind = "existence" -> ExistencePasses(test, StatFile(view, path))
    [] test.kind = "license"   -> LicenseTestPasses(test, view)

\* The files that it reads.
FilesRead(test, view) ==
  CASE test.kind = "content"   -> {test.path}
    [] test.kind = "existence" -> {}
    [] test.kind = "license"   -> With(Packages(test, view), LAMBDA packages : LicenseFiles(test, packages))

HasPair(v, map) ==
  /\ v.key \in DOMAIN map
  /\ IF v.isRegex THEN CompileAndRunRegex(v.value, map[v.key], TRUE) ELSE v.value = map[v.key]

Same(wanted, actual) == wanted = "" \/ wanted = actual

\* MetadataTest.Run.  A list that is given, be it an empty one, is compared.
MetadataPasses(test, config) ==
  /\ \A v \in test.envVars : HasPair(v, config.env)
  /\ test.unboundEnvVars \intersect DOMAIN config.env = {}
  /\ \A v \in test.labels : HasPair(v, config.labels)
  /\ \A list \in test.cmd : list = config.cmd
  /\ \A list \in test.entrypoint : list = config.entrypoint
  /\ Same(test.workdir, config.workdir) /\ Same(test.user, config.user)
  /\ \A p \in test.exposedPorts : PortInList(p, config.ports)
  /\ \A p \in test.unexposedPorts : ~PortInList(p, config.ports)
  /\ test.volumes \subseteq config.volumes
  /\ test.unmountedVolumes \intersect config.volumes = {}

\* MetadataTest.IsEmpty: it asks for nothing.
IsEmpty(test) ==
  /\ test.envVars = {} /\ test.unboundEnvVars = {} /\ test.labels = {}
  /\ test.exposedPorts = {} /\ test.unexposedPorts = {}
  /\ test.cmd = {} /\ test.entrypoint = {}
  /\ test.workdir = "" /\ test.user = ""
  /\ test.volumes = {} /\ test.unmountedVolumes = {}
=============================================================================
