--------------------------- MODULE WheelDependencies ---------------------------
(***************************************************************************)
(* reroll.dependencies: the conda dependencies of one wheel configuration  *)
(* for one target, from its METADATA.                                      *)
(*                                                                         *)
(* Python versions are minors: a bound inside a minor is abstracted away.  *)
(* A Requires-Dist marker is a conjunction of the clauses this stage tells *)
(* apart, each absent or present:                                          *)
(*   extra    extra == <name>                                              *)
(*   below    python_version < 3.<below>                                   *)
(*   subdirs  a platform clause, as the subdirs it is true on              *)
(*   foreign  a key with no conda counterpart, e.g. platform_release       *)
(* and what converting the entry itself raises is part of the entry.  The  *)
(* order of Requires-Dist decides only which of several errors is raised;  *)
(* here any of them may be.                                                *)
(***************************************************************************)
EXTENDS WheelTags

NoExtra == ""
Unbounded == 1000      \* the None of an upper bound, and of an absent clause
Noarch == "noarch"

Unconditional == [extra |-> NoExtra, below |-> Unbounded, subdirs |-> Subdirs, foreign |-> FALSE]

(* pep508_to_matchspec's own errors, marker_condition's among them, and    *)
(* those of resolving a name or the upper bound on the way.                *)
ConversionErrors ==
    {"UnconvertableRequirementError", "InvalidRequirementError", "UnconvertableMarkerError",
     "UnconvertablePythonVersionEqualityError", "UnresolvedCondaNameError",
     "NetworkFetchError", "ValueError"}

RequiresDist ==
    [name : STRING, errors : SUBSET ConversionErrors, parses : BOOLEAN,
     marker : [extra : STRING, below : Nat, subdirs : SUBSET Subdirs, foreign : BOOLEAN]]

InterpreterNames == {"python", "cpython", "pypy", "graalpy"}

(* strip_interpreter_requirements *)
Stripped(entries) ==
    {e \in entries : ~(e.marker = Unconditional /\ e.name \in InterpreterNames)}

(* find_extras *)
Extras(entries) == {e.marker.extra : e \in entries} \ {NoExtra}

-----------------------------------------------------------------------------

Larger(a, b) == IF a >= b THEN a ELSE b
Smaller(a, b) == IF a <= b THEN a ELSE b

(* Minors lower .. upper-1, less the excluded ones. *)
FilenameRange(requirement) ==
    [lower |-> requirement.minor,
     upper |-> IF requirement.exact THEN requirement.minor + 1 ELSE Unbounded,
     excluded |-> {}]

(* _combine: the intersection, which a simplified range has no holes in. *)
Combine(a, b) ==
    [lower |-> Larger(a.lower, b.lower), upper |-> Smaller(a.upper, b.upper),
     excluded |-> b.excluded]

(* python_version_dependency.  Requires-Python is absent, simplified (one  *)
(* half-open range) or generic (any other specifier set).  The generic     *)
(* form joins the specifiers to ">=3.m", or to "~=3.m" for an exact minor, *)
(* which by PEP 440 says no more than ">=3.m, <4".                         *)
CombinedRange(config, requires) ==
    LET filename == FilenameRange(PythonRequirement(config))
    IN  CASE requires.form = "absent" -> filename
          [] requires.form = "simplified" -> Combine(filename, requires)
          [] OTHER -> Combine([filename EXCEPT !.upper = Unbounded], requires)

RangeError(config, requires) ==
    IF /\ requires.form = "simplified"
       /\ CombinedRange(config, requires).lower >= CombinedRange(config, requires).upper
    THEN "PythonRangeMismatchError"
    ELSE "ok"

(* exact_minor: the one minor the wheel runs on, if there is just one. *)
ExactMinor(config, requires) ==
    LET range == CombinedRange(config, requires)
    IN  IF requires.form # "generic" /\ range.upper = range.lower + 1 THEN range.lower ELSE NoMinor

PythonAbiFloor == 10
NoPythonAbi == [minor |-> NoMinor, free_threaded |-> FALSE]

PythonAbi(config) ==
    IF PythonRequirement(config).exact /\ PythonRequirement(config).minor >= PythonAbiFloor
    THEN [minor |-> PythonRequirement(config).minor, free_threaded |-> FreeThreaded(config.abi)]
    ELSE NoPythonAbi

-----------------------------------------------------------------------------

(* The environment of conditional_dependency: a minor, or NoMinor when it  *)
(* is not known; a subdir, or Noarch; the extra under consideration.       *)
Environment(config, metadata, subdir, extra) ==
    [minor |-> ExactMinor(config, metadata.requires_python), subdir |-> subdir, extra |-> extra]

EvaluatesFalse(marker, env) ==
    \/ marker.extra \notin {NoExtra, env.extra}
    \/ env.minor # NoMinor /\ env.minor >= marker.below
    \/ env.subdir # Noarch /\ env.subdir \notin marker.subdirs

(* Bug: a platform clause is taken to hold everywhere in a noarch record. *)
RemainingKeysNoArch(marker, env) ==
    (IF marker.below # Unbounded /\ env.minor = NoMinor THEN {"python_version"} ELSE {})
    \cup (IF marker.foreign THEN {"platform_release"} ELSE {})

(* The keys left after a partial evaluation that did not come out false. *)
RemainingKeys(marker, env) ==
    (IF marker.below # Unbounded /\ env.minor = NoMinor THEN {"python_version"} ELSE {})
    \cup (IF marker.subdirs # Subdirs /\ env.subdir = Noarch THEN {"sys_platform"} ELSE {})
    \cup (IF marker.foreign THEN {"platform_release"} ELSE {})

(* conditional_dependency, then the conversion of the entry itself. *)
EntryErrors(entry, env) ==
    IF EvaluatesFalse(entry.marker, env) THEN {}
    ELSE IF "sys_platform" \in RemainingKeys(entry.marker, env) THEN {"NeedsArchSplitError"}
    ELSE IF "platform_release" \in RemainingKeys(entry.marker, env)
         THEN {"UnconvertableMarkerError"}
    ELSE entry.errors

(* What is left of python_version becomes the MatchSpec's condition. *)
MatchSpec(entry, env) ==
    [name |-> entry.name,
     below |-> IF "python_version" \in RemainingKeys(entry.marker, env)
               THEN entry.marker.below ELSE Unbounded]

MatchSpecs(entries, env) ==
    {MatchSpec(e, env) : e \in {f \in entries : ~EvaluatesFalse(f.marker, env)}}

-----------------------------------------------------------------------------

(* Everything calculate_dependencies may raise for this target. *)
CalculationErrors(config, metadata, subdir) ==
    LET entries == Stripped(metadata.requires_dist)
        range == RangeError(config, metadata.requires_python)
    IN  IF range # "ok" THEN {range}
        ELSE UNION {EntryErrors(e, Environment(config, metadata, subdir, x)) :
                        e \in entries, x \in {NoExtra} \cup Extras(entries)}

(* _dedupe_extras: what an extra adds to the base dependencies. *)
ExtraDepends(depends, entries, config, metadata, subdir) ==
    [x \in Extras(entries) |->
        MatchSpecs(entries, Environment(config, metadata, subdir, x)) \ depends]

Floor(config, family) ==
    IF ClassifyPlatform(config.platform).family = family THEN PlatformVersion(config) ELSE 0

(* calculate_dependencies when it raises nothing; 0 is an absent floor. *)
Dependencies(config, metadata, subdir) ==
    LET entries == Stripped(metadata.requires_dist)
        depends == MatchSpecs(entries, Environment(config, metadata, subdir, NoExtra))
    IN  [python |-> CombinedRange(config, metadata.requires_python),
         python_abi |-> PythonAbi(config),
         glibc |-> Floor(config, "manylinux"),
         osx |-> Floor(config, "macos"),
         depends |-> depends,
         extra_depends |-> ExtraDepends(depends, entries, config, metadata, subdir)]
=============================================================================
