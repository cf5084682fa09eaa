------------------------------- MODULE WheelTags -------------------------------
(***************************************************************************)
(* reroll.filename: what one compatibility tag of a wheel filename means.  *)
(*                                                                         *)
(* A tag is the record its regular expressions take apart: a Python 3.12   *)
(* is the minor 12, the platform version 10.9 the number 1009, and an ABI  *)
(* suffix the set of its letters.  An operator named ...Error returns the  *)
(* class of what the code raises, or "ok".                                 *)
(*                                                                         *)
(* A definition introduced by "Bug:" is no part of the specification: it   *)
(* is a plausible mistake in the operator after it, used to confirm that   *)
(* the properties would notice.                                            *)
(***************************************************************************)
EXTENDS Integers

NoMinor == -1          \* py3, cp3
NoArch == "none"
Archs == {"x86_64", "arm64"}

Minor(interpreter) == IF interpreter.minor = NoMinor THEN 0 ELSE interpreter.minor

InterpreterError(i) ==
    IF i.prefix \notin {"py", "cp"} THEN "InvalidInterpreterTagError"
    ELSE IF i.major # 3 THEN "UnsupportedInterpreterError"
    ELSE IF i.prefix = "cp" /\ i.minor = NoMinor THEN "InvalidInterpreterTagError"
    ELSE "ok"

Stable(a) == a.form \in {"abi3", "abi3t"}

FreeThreaded(a) == a.form = "abi3t" \/ (a.form = "cp" /\ "t" \in a.suffix)

AbiError(a) ==
    IF \/ a.form \in {"none", "abi3", "abi3t"}
       \/ a.form = "cp" /\ a.major = 3 /\ "d" \notin a.suffix
    THEN "ok" ELSE "InvalidAbiTagError"

(* Bug: every suffix is dropped, the free-threaded one with them. *)
NormalizeAbiAll(a) == [a EXCEPT !.suffix = {}]

(* m and u are harmless, t is not. *)
NormalizeAbi(a) == [a EXCEPT !.suffix = @ \cap {"t"}]

FreeThreadedFloor == 13

(* A cp interpreter with its own ABI: that minor and no other. *)
VersionedError(i, a) ==
    IF a.minor # Minor(i) THEN "InvalidAbiTagError"
    ELSE IF Minor(i) < 4 THEN "UnsupportedInterpreterVersionError"
    ELSE IF FreeThreaded(a) /\ Minor(i) < FreeThreadedFloor
         THEN "UnsupportedFreeThreadedVersionError"
    ELSE "ok"

(* A cp interpreter with a stable ABI: a floor. *)
StableError(i, a) ==
    IF FreeThreaded(a)
    THEN IF Minor(i) < 15 THEN "UnsupportedFreeThreadedVersionError" ELSE "ok"
    ELSE IF Minor(i) < 2 THEN "UnsupportedAbi3FloorError" ELSE "ok"

(* check_interpreter_abi *)
PairingError(i, a) ==
    IF InterpreterError(i) # "ok" THEN InterpreterError(i)
    ELSE IF AbiError(a) # "ok" THEN AbiError(a)
    ELSE IF a.form = "none"
         THEN IF i.prefix = "cp" /\ Minor(i) < 4
              THEN "UnsupportedInterpreterVersionError" ELSE "ok"
    ELSE IF i.prefix = "py" THEN "InvalidAbiTagError"
    ELSE IF Stable(a) THEN StableError(i, a)
    ELSE VersionedError(i, a)

-----------------------------------------------------------------------------

CPython(minor) == [prefix |-> "cp", major |-> 3, minor |-> minor]
CPythonAbi(minor, suffix) ==
    [form |-> "cp", major |-> 3, minor |-> minor, suffix |-> suffix]

Exploded(tag, minor) ==
    [interpreter |-> CPython(minor), platform |-> tag.platform,
     abi |-> CPythonAbi(minor, IF FreeThreaded(tag.abi) THEN {"t"} ELSE {})]

(* A stable tag becomes one concrete tag per minor; one that is illegal or *)
(* starts past the bound stays as it is, for WheelConfig to reject.        *)
ExplodeOne(tag, upper) ==
    IF PairingError(tag.interpreter, tag.abi) # "ok" \/ Minor(tag.interpreter) > upper
    THEN {tag}
    ELSE {Exploded(tag, m) : m \in Minor(tag.interpreter) .. upper}

NeedsUpperBound(tags) == \E tag \in tags : Stable(tag.abi)

ExplodeAbi3(tags, upper) ==
    UNION {IF Stable(tag.abi) THEN ExplodeOne(tag, upper) ELSE {tag} : tag \in tags}

-----------------------------------------------------------------------------

LegacyManylinux == {1, 2010, 2014}

(* What the regular expressions take a tag apart into.  "pp" and "other"   *)
(* stand for whatever matches none of them, and only the three aliases     *)
(* that manylinux had before PEP 600 have the form "legacy".               *)
Tags ==
    {tag \in [interpreter : [prefix : {"py", "cp", "pp"}, major : Nat, minor : Nat \cup {NoMinor}],
              abi : [form : {"none", "abi3", "abi3t", "cp", "other"}, major : Nat, minor : Nat,
                     suffix : SUBSET {"d", "m", "u", "t"}],
              platform : [form : {"any", "pep600", "legacy", "macosx", "win", "other"},
                          number : Nat, arch : STRING]] :
        tag.platform.form = "legacy" => tag.platform.number \in LegacyManylinux}

LegacyVersion(alias) == CASE alias = 1 -> 205 [] alias = 2010 -> 212 [] alias = 2014 -> 217

ArchByTag(arch) == IF arch \in {"x86_64", "amd64"} THEN "x86_64" ELSE "arm64"

Unsupported == [family |-> "unsupported", version |-> 0, archs |-> {}]

MacosArchs(arch) == IF arch = "universal2" THEN Archs ELSE {ArchByTag(arch)}

(* The four regular expressions of platform.py, and "any". *)
ClassifyPlatform(p) ==
    CASE p.form = "any" -> [family |-> "any", version |-> 0, archs |-> {}]
      [] p.form = "pep600" /\ p.arch \in {"x86_64", "aarch64"} ->
            [family |-> "manylinux", version |-> p.number, archs |-> {ArchByTag(p.arch)}]
      [] p.form = "legacy" /\ p.number \in LegacyManylinux /\ p.arch \in {"x86_64", "aarch64"} ->
            [family |-> "manylinux", version |-> LegacyVersion(p.number),
             archs |-> {ArchByTag(p.arch)}]
      [] p.form = "macosx" /\ p.arch \in {"x86_64", "arm64", "universal2"} ->
            [family |-> "macos", version |-> p.number, archs |-> MacosArchs(p.arch)]
      [] p.form = "win" /\ p.arch \in {"amd64", "arm64"} ->
            [family |-> "windows", version |-> 0, archs |-> {ArchByTag(p.arch)}]
      [] OTHER -> Unsupported

(* supported_archs, with the loop's "or [None]". *)
ArchsToTry(p) ==
    IF ClassifyPlatform(p).archs = {} THEN {NoArch} ELSE ClassifyPlatform(p).archs

Subdirs == {"linux-64", "linux-aarch64", "osx-64", "osx-arm64", "win-64", "win-arm64"}

SubdirOf(family, arch) ==
    CASE family = "manylinux" -> IF arch = "x86_64" THEN "linux-64" ELSE "linux-aarch64"
      [] family = "macos" -> IF arch = "x86_64" THEN "osx-64" ELSE "osx-arm64"
      [] family = "windows" -> IF arch = "x86_64" THEN "win-64" ELSE "win-arm64"

SubdirsForPlatform(p) ==
    {SubdirOf(ClassifyPlatform(p).family, arch) : arch \in ClassifyPlatform(p).archs}

-----------------------------------------------------------------------------

(* WheelConfig's validators, in the order pydantic runs them. *)
ConfigError(tag, arch) ==
    IF InterpreterError(tag.interpreter) # "ok" THEN InterpreterError(tag.interpreter)
    ELSE IF AbiError(tag.abi) # "ok" \/ Stable(tag.abi) THEN "InvalidAbiTagError"
    ELSE IF PairingError(tag.interpreter, NormalizeAbi(tag.abi)) # "ok"
         THEN PairingError(tag.interpreter, NormalizeAbi(tag.abi))
    ELSE IF \/ ClassifyPlatform(tag.platform) = Unsupported
            \/ arch \notin ArchsToTry(tag.platform)
         THEN "UnsupportedPlatformError"
    ELSE "ok"

Config(tag, arch) ==
    [interpreter |-> tag.interpreter, abi |-> NormalizeAbi(tag.abi),
     platform |-> tag.platform, arch |-> arch]

(* WheelConfig.python: only a generic interpreter is a floor. *)
PythonRequirement(config) ==
    [minor |-> Minor(config.interpreter),
     exact |-> config.abi.form = "cp" \/ config.interpreter.prefix = "cp"]

(* WheelConfig.platform_version: Apple silicon starts at macOS 11.0. *)
PlatformVersion(config) ==
    LET info == ClassifyPlatform(config.platform)
    IN  IF info.family = "macos" /\ config.arch = "arm64" /\ info.version < 1100
        THEN 1100 ELSE info.version
=============================================================================
