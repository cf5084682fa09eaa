---------------------------- MODULE WheelConversion ----------------------------
(***************************************************************************)
(* reroll: one wheel at a time, its archive, METADATA and filename are     *)
(* turned into repodata records, or into the first error.                  *)
(*                                                                         *)
(* Which of several rejected tags comes last in string order decides only  *)
(* which error is reported, so the model may report any of them.           *)
(*                                                                         *)
(* A definition introduced by "Bug:" is no part of the specification: it   *)
(* is a plausible mistake in the definition after it, used to confirm that *)
(* the properties would notice.                                            *)
(***************************************************************************)
EXTENDS WheelDependencies, WheelMetadata

CONSTANTS
    Wheels,        \* the wheels offered for conversion
    UpperBounds,   \* minors abi3_upper_bound, or the release feed, may name
    Minors         \* Python 3 minors an environment may have

HeaderSets ==
    [name : HeaderOf(STRING), version : HeaderOf(STRING),
     requires_python : HeaderOf(RequiresPythons), requires_dist : SUBSET RequiresDist]

(* A wheel is its archive, what METADATA says, what its filename says, what *)
(* rejects the filename before its tags are looked at, and whether the     *)
(* mappers know its name.  No minor reaches what stands for "no bound".    *)
ASSUME WheelAssumption ==
    /\ Wheels \subseteq
        [archive : Archives, headers : HeaderSets, tags : SUBSET Tags,
         name : STRING, version : STRING,
         filename_errors : SUBSET {"InvalidFilenameError", "UnsupportedPrereleaseError"},
         name_resolves : BOOLEAN]
    /\ \A w \in Wheels : \A tag \in w.tags : tag.interpreter.minor < Unbounded
ASSUME BoundAssumption == UpperBounds \subseteq 0 .. Unbounded - 1

(* Python 3.4 is the first that a tag of its own can ask for. *)
ASSUME MinorAssumption == Minors \subseteq 4 .. Unbounded - 1

VARIABLES
    pc,            \* where reroll is
    wheel,         \* the wheel file it is given
    metadata,      \* the WheelMetadata parsed from it
    upper,         \* the upper bound explode_abi3 resolved, if it needed one
    configs,       \* configurations still to be converted
    records,       \* the list being built
    skip_logged,   \* whether this call has logged "skipping wheel"
    result         \* what the last call returned or raised

vars == <<pc, wheel, metadata, upper, configs, records, skip_logged, result>>

Pending == [error |-> "pending", records |-> {}]

NoMetadata == [requires_python |-> NoRequiresPython, requires_dist |-> {}]

Init ==
    /\ pc = "idle"
    /\ wheel \in Wheels
    /\ metadata = NoMetadata
    /\ upper = NoMinor
    /\ configs = {}
    /\ records = {}
    /\ skip_logged = FALSE
    /\ result = Pending

(* A call keeps nothing for the next one, so a behaviour calls with one    *)
(* wheel, again and again: only the upper bound may differ.                *)
Call ==
    /\ pc = "idle"
    /\ pc' = "extract"
    /\ metadata' = NoMetadata
    /\ upper' = NoMinor
    /\ skip_logged' = FALSE
    /\ result' = Pending
    /\ UNCHANGED <<wheel, configs, records>>

(* Not of reroll's own making, or about the machine: they log no skip.     *)
RuntimeErrors == {"NetworkFetchError", "ValueError", "zlib.error"}

ScopeErrors ==
    {"UnsupportedAbi3FloorError", "UnsupportedFreeThreadedVersionError",
     "UnsupportedInterpreterError", "UnsupportedInterpreterVersionError",
     "UnsupportedPlatformError", "UnsupportedPrereleaseError"}

(* An invalid-wheel or unconvertable error logs "skipping wheel" when it is *)
(* made, whatever becomes of it.                                           *)
LogsSkip(error) == error \notin {"ok"} \cup RuntimeErrors \cup ScopeErrors

(* Bug: the list is not local to the call. *)
RaiseKeepingRecords(error) ==
    /\ pc' = "idle"
    /\ configs' = {}
    /\ skip_logged' = (skip_logged \/ LogsSkip(error))
    /\ result' = [error |-> error, records |-> {}]
    /\ UNCHANGED records

(* The call raises: every record already built is lost with it. *)
Raise(error) ==
    /\ pc' = "idle"
    /\ configs' = {}
    /\ records' = {}
    /\ skip_logged' = (skip_logged \/ LogsSkip(error))
    /\ result' = [error |-> error, records |-> {}]

-----------------------------------------------------------------------------

ExtractMetadata ==
    /\ pc = "extract"
    /\ IF ArchiveErrors(wheel.archive) = {}
       THEN pc' = "metadata" /\ UNCHANGED <<configs, records, skip_logged, result>>
       ELSE \E e \in ArchiveErrors(wheel.archive) : Raise(e)
    /\ UNCHANGED <<wheel, metadata, upper>>

ParseMetadata ==
    /\ pc = "metadata"
    /\ IF MetadataErrors(wheel.headers) = {}
       THEN /\ pc' = "parse"
            /\ metadata' = MetadataOf(wheel.headers)
            /\ UNCHANGED <<configs, records, skip_logged, result>>
       ELSE /\ \E e \in MetadataErrors(wheel.headers) : Raise(e)
            /\ UNCHANGED metadata
    /\ UNCHANGED <<wheel, upper>>

(* parse_wheel_filename, then the wheel's own version. *)
RejectFilename ==
    /\ pc = "parse"
    /\ \E e \in wheel.filename_errors : Raise(e)
    /\ UNCHANGED <<wheel, metadata, upper>>

(* latest_python_minor fails, or abi3_upper_bound is no minor version. *)
NoUpperBound ==
    /\ pc = "parse"
    /\ wheel.filename_errors = {}
    /\ NeedsUpperBound(wheel.tags)
    /\ \E e \in {"NetworkFetchError", "ValueError"} : Raise(e)
    /\ UNCHANGED <<wheel, metadata, upper>>

(* No mapper commits to a conda name, or the name one commits to is illegal *)
(* and every WheelConfig rejects it.  The bound is resolved before that.   *)
NoCondaName ==
    /\ pc = "parse"
    /\ wheel.filename_errors = {}
    /\ ~wheel.name_resolves
    /\ \E e \in {"UnresolvedCondaNameError", "InvalidCondaNameError"} : Raise(e)
    /\ UNCHANGED <<wheel, metadata, upper>>

(* Every (tag, arch) the filename expands to, with the bound in hand. *)
Combinations(tags, bound) ==
    UNION {{<<tag, arch>> : arch \in ArchsToTry(tag.platform)} : tag \in ExplodeAbi3(tags, bound)}

Accepted(tags, bound) == {c \in Combinations(tags, bound) : ConfigError(c[1], c[2]) = "ok"}

TagErrors(tags, bound) ==
    {ConfigError(c[1], c[2]) : c \in Combinations(tags, bound)} \ {"ok"}

Key(config) == <<config.interpreter, config.abi, config.platform>>

(* parse_filename's result: normalisation can make two tags one, and each  *)
(* architecture of a tag is a configuration of its own.                    *)
Parsed(tags, bound) ==
    {[tag |-> c[1], config |-> Config(c[1], c[2])] : c \in Accepted(tags, bound)}

(* Bug: what differs in the tag it came from is kept apart. *)
DedupeByTag(parsed) ==
    {CHOOSE c \in parsed : c.tag = t : t \in {c.tag : c \in parsed}}

(* _dedupe_configs: the first of each key, "arm64" sorting before "x86_64". *)
DedupeConfigs(parsed) ==
    LET SameKey(k) == {c \in parsed : Key(c.config) = k}
    IN  {CHOOSE c \in SameKey(k) :
            c.config.arch = "arm64" \/ \A d \in SameKey(k) : d.config.arch # "arm64" :
            k \in {Key(c.config) : c \in parsed}}

(* Bug: one unsupported tag rejects the wheel. *)
ParseFilenameStrict ==
    /\ pc = "parse"
    /\ wheel.filename_errors = {} /\ wheel.name_resolves
    /\ \E bound \in IF NeedsUpperBound(wheel.tags) THEN UpperBounds ELSE {NoMinor} :
        /\ upper' = bound
        /\ IF TagErrors(wheel.tags, bound) # {}
           THEN \E e \in TagErrors(wheel.tags, bound) : Raise(e)
           ELSE /\ pc' = "check"
                /\ configs' = DedupeConfigs(Parsed(wheel.tags, bound))
                /\ skip_logged' = (\E e \in TagErrors(wheel.tags, bound) : LogsSkip(e))
                /\ UNCHANGED <<records, result>>
    /\ UNCHANGED <<wheel, metadata>>

(* Explosion, then one WheelConfig per (tag, arch): what is rejected is    *)
(* dropped, unless everything is.                                          *)
ParseFilename ==
    /\ pc = "parse"
    /\ wheel.filename_errors = {} /\ wheel.name_resolves
    /\ \E bound \in IF NeedsUpperBound(wheel.tags) THEN UpperBounds ELSE {NoMinor} :
        /\ upper' = bound
        /\ IF Accepted(wheel.tags, bound) = {}
           THEN \E e \in TagErrors(wheel.tags, bound) : Raise(e)
           ELSE /\ pc' = "check"
                /\ configs' = DedupeConfigs(Parsed(wheel.tags, bound))
                /\ skip_logged' = (\E e \in TagErrors(wheel.tags, bound) : LogsSkip(e))
                /\ UNCHANGED <<records, result>>
    /\ UNCHANGED <<wheel, metadata>>

(* _validate_metadata_matches_filename *)
CheckMetadata ==
    /\ pc = "check"
    /\ IF metadata.name = wheel.name /\ metadata.version = wheel.version
       THEN /\ pc' = "convert"
            /\ UNCHANGED <<configs, records, skip_logged, result>>
       ELSE Raise("MetadataFilenameMismatchError")
    /\ UNCHANGED <<wheel, metadata, upper>>

Record(c, subdir) ==
    [from |-> c, subdir |-> subdir, deps |-> Dependencies(c.config, metadata, subdir)]

Errors(config, targets) ==
    UNION {CalculationErrors(config, metadata, subdir) : subdir \in targets}

(* A noarch attempt raised NeedsArchSplitError. *)
Splits(config) ==
    /\ SubdirsForPlatform(config.platform) = {}
    /\ "NeedsArchSplitError" \in Errors(config, {Noarch})

(* wheel_dependencies: a noarch attempt that needs its architectures split *)
(* is retried on all of them.                                              *)
Targets(config) ==
    IF SubdirsForPlatform(config.platform) # {} THEN SubdirsForPlatform(config.platform)
    ELSE IF Splits(config) THEN Subdirs
    ELSE {Noarch}

(* _sort_key compares strings: py3 < py30 < py310 < py39, cp before py.    *)
(* Platforms are told apart by their first letters only.                   *)
DigitsRank(minor) ==
    IF minor = NoMinor THEN 0 ELSE IF minor < 10 THEN 20 * minor + 1 ELSE 2 * minor + 2

SortRank(config) ==
    LET i == config.interpreter  a == config.abi
        interpreter == (IF i.prefix = "cp" THEN 0 ELSE 300) + DigitsRank(i.minor)
        abi == IF a.form = "none" THEN 900
               ELSE 2 * DigitsRank(a.minor) + (IF FreeThreaded(a) THEN 1 ELSE 0)
        platform == CASE config.platform.form = "any" -> 0
                      [] config.platform.form = "macosx" -> 1
                      [] config.platform.form \in {"legacy", "pep600"} -> 2
                      [] config.platform.form = "win" -> 3
    IN  10000 * interpreter + 10 * abi + platform

IsNext(c) == c \in configs /\ \A d \in configs : SortRank(c.config) <= SortRank(d.config)

(* Bug: a configuration that cannot be converted is passed over. *)
ConvertSkipping(c) ==
    /\ pc = "convert" /\ IsNext(c)
    /\ configs' = configs \ {c}
    /\ records' = IF Errors(c.config, Targets(c.config)) = {}
                  THEN records \cup {Record(c, s) : s \in Targets(c.config)}
                  ELSE records
    /\ UNCHANGED <<pc, wheel, metadata, upper, skip_logged, result>>

(* One turn of get_wheel_records' loop: the records of one configuration. *)
Convert(c) ==
    /\ pc = "convert" /\ IsNext(c)
    /\ IF Errors(c.config, Targets(c.config)) = {}
       THEN /\ configs' = configs \ {c}
            /\ records' = records \cup {Record(c, s) : s \in Targets(c.config)}
            /\ skip_logged' = (skip_logged \/ Splits(c.config))
            /\ UNCHANGED <<pc, result>>
       ELSE \E e \in Errors(c.config, Targets(c.config)) : Raise(e)
    /\ UNCHANGED <<wheel, metadata, upper>>

Return ==
    /\ pc = "convert"
    /\ configs = {}
    /\ pc' = "idle"
    /\ records' = {}
    /\ result' = [error |-> "none", records |-> records]
    /\ UNCHANGED <<wheel, metadata, upper, configs, skip_logged>>

Next ==
    \/ Call \/ ExtractMetadata \/ ParseMetadata
    \/ RejectFilename \/ NoUpperBound \/ NoCondaName \/ ParseFilename \/ CheckMetadata
    \/ \E c \in configs : Convert(c)
    \/ Return

Spec == Init /\ [][Next]_vars

-----------------------------------------------------------------------------

(* The environments a record or a wheel may be installed into, and what    *)
(* the wheel specifications say of them, read off the filename itself.     *)

Python == {p \in [minor : Minors, free_threaded : BOOLEAN] :
                p.free_threaded => p.minor >= FreeThreadedFloor}

(* docs/wheel_filename.md, "Python tag" and "ABI tag". *)
Admits(tag, python) ==
    LET i == tag.interpreter  a == tag.abi IN
    /\ i.major = 3
    /\ \/ i.prefix = "py" /\ a.form = "none" /\ python.minor >= i.minor
       \/ /\ i.prefix = "cp" /\ i.minor # NoMinor
          /\ \/ a.form = "none" /\ python = [minor |-> i.minor, free_threaded |-> FALSE]
             \/ /\ a.form = "cp" /\ a.major = 3 /\ a.minor = i.minor /\ "d" \notin a.suffix
                /\ python = [minor |-> i.minor, free_threaded |-> "t" \in a.suffix]
             \/ /\ a.form = "abi3" /\ i.minor >= 2
                /\ python.minor >= i.minor /\ ~python.free_threaded
             \/ /\ a.form = "abi3t" /\ i.minor >= 15
                /\ python.minor >= i.minor /\ python.free_threaded

(* docs/wheel_filename.md, "Platform tag". *)
RunsOn(p, subdir) ==
    \/ p.form = "any"
    \/ p.form \in {"pep600", "legacy"} /\ p.arch = "x86_64" /\ subdir = "linux-64"
    \/ p.form \in {"pep600", "legacy"} /\ p.arch = "aarch64" /\ subdir = "linux-aarch64"
    \/ p.form = "macosx" /\ p.arch \in {"x86_64", "universal2"} /\ subdir = "osx-64"
    \/ p.form = "macosx" /\ p.arch \in {"arm64", "universal2"} /\ subdir = "osx-arm64"
    \/ p.form = "win" /\ p.arch = "amd64" /\ subdir = "win-64"
    \/ p.form = "win" /\ p.arch = "arm64" /\ subdir = "win-arm64"

Within(range, minor) ==
    range.lower <= minor /\ minor < range.upper /\ minor \notin range.excluded

RequiresPython(minor) ==
    \A range \in Occurrences(wheel.headers.requires_python) : Within(range, minor)

(* pip would install the wheel there through this tag. *)
Installable(tag, python, subdir) ==
    Admits(tag, python) /\ RunsOn(tag.platform, subdir) /\ RequiresPython(python.minor)

(* conda would install the record there. *)
Installs(r, python, subdir) ==
    /\ r.subdir \in {Noarch, subdir}
    /\ Within(r.deps.python, python.minor)
    /\ r.deps.python_abi \in {NoPythonAbi, python}

(* A pinned minor below python_abi's floor, under a generic Requires-Python. *)
LoosePin(r) ==
    /\ metadata.requires_python.form = "generic"
    /\ PythonRequirement(r.from.config).exact
    /\ PythonRequirement(r.from.config).minor < PythonAbiFloor

-----------------------------------------------------------------------------

(* Every variable stays in its set; only the loop has records in hand, and *)
(* only the steps between parsing and returning have configurations.       *)
TypeOK ==
    /\ pc \in {"idle", "extract", "metadata", "parse", "check", "convert"}
    /\ upper \in UpperBounds \cup {NoMinor}
    /\ \A c \in configs : ConfigError(c.tag, c.config.arch) = "ok"
    /\ \A r \in records \cup result.records :
            /\ r.subdir \in Subdirs \cup {Noarch}
            /\ metadata.requires_python.form # "generic" =>
                    r.deps.python.lower < r.deps.python.upper
    /\ pc \notin {"check", "convert"} => configs = {}
    /\ pc # "convert" => records = {}
    /\ skip_logged \in BOOLEAN
    /\ result.error # "none" => result.records = {}

(* The records of one wheel are told apart by build string and subdir, also *)
(* when two of its tags normalise to one and when a tag has two architectures. *)
RecordsUnique ==
    \A r, s \in result.records :
        Key(r.from.config) = Key(s.from.config) /\ r.subdir = s.subdir => r = s

(* Nothing is promised that the wheel does not offer: where conda would     *)
(* install a record, some tag of the filename and Requires-Python let pip   *)
(* install the wheel, so explosion, normalisation, the fan-out to subdirs   *)
(* and the noarch split fix up no illegal tag and widen no legal one.       *)
RecordsSound ==
    \A r \in result.records, python \in Python, subdir \in Subdirs :
        Installs(r, python, subdir) /\ ~LoosePin(r) =>
            \E tag \in wheel.tags : Installable(tag, python, subdir)

(* Nothing offered is lost either: when the conversion succeeds, wherever   *)
(* pip would install the wheel (a stable ABI up to the upper bound), some   *)
(* record installs there, whatever else was dropped or deduplicated.        *)
RecordsComplete ==
    result.error = "none" =>
        \A tag \in wheel.tags, python \in Python, subdir \in Subdirs :
            /\ Installable(tag, python, subdir)
            /\ Stable(tag.abi) => python.minor <= upper
            => \E r \in result.records : Installs(r, python, subdir)

(* A Requires-Dist marker, evaluated in one environment. *)
Holds(marker, python, subdir, extra) ==
    /\ marker.extra \in {NoExtra, extra}
    /\ python.minor < marker.below
    /\ subdir \in marker.subdirs
    /\ ~marker.foreign

(* In every environment a record installs into, its base dependencies and  *)
(* those of a requested extra, less the conditions that fail there, are    *)
(* the requirements whose markers hold there: the record a noarch target,  *)
(* a known minor, a split or the removal of duplicates leads to means the  *)
(* same as the METADATA it came from.                                      *)
DependsMeanTheMarkers ==
    \A r \in result.records, python \in Python, subdir \in Subdirs :
        LET entries == Stripped(wheel.headers.requires_dist)
            Active(specs) == {m.name : m \in {n \in specs : python.minor < n.below}}
            Required(extra) ==
                {e.name : e \in {f \in entries : Holds(f.marker, python, subdir, extra)}}
        IN  Installs(r, python, subdir) =>
                /\ Active(r.deps.depends) = Required(NoExtra)
                /\ \A x \in DOMAIN r.deps.extra_depends :
                        Active(r.deps.depends \cup r.deps.extra_depends[x]) = Required(x)
                /\ \A e \in entries : e.marker.extra # NoExtra =>
                        e.marker.extra \in DOMAIN r.deps.extra_depends

(* No header that should appear once has two values. *)
Unambiguous(headers) ==
    \A f \in {"name", "version", "requires_python"} : Cardinality(Occurrences(headers[f])) <= 1

(* Where the archive or its METADATA could be read in two ways, or is not  *)
(* the filename's, nothing is converted: uv and pip, which resolve such    *)
(* wheels differently, would see another wheel than the records describe.  *)
OneReading ==
    result.error = "none" =>
        /\ wheel.archive = SoundArchive
        /\ Unambiguous(wheel.headers)
        /\ Occurrences(wheel.headers.name) = {wheel.name}
        /\ Occurrences(wheel.headers.version) = {wheel.version}

FilenameErrors ==
    {"InvalidInterpreterTagError", "UnsupportedInterpreterError", "InvalidAbiTagError",
     "UnsupportedInterpreterVersionError", "UnsupportedFreeThreadedVersionError",
     "UnsupportedAbi3FloorError", "UnsupportedPlatformError"}

(* parse_filename's docstring: unsupported combinations are dropped if any *)
(* is supported, so a tag error means that the wheel installs nowhere; a   *)
(* noarch attempt that fails for want of a split never reaches the caller; *)
(* and METADATA that repeats itself, or lacks what is optional, is valid   *)
(* (docs/wheel_metadata.md).                                               *)
FailureIsJustified ==
    /\ result.error \in FilenameErrors =>
            \A tag \in wheel.tags, python \in Python, subdir \in Subdirs :
                ~(/\ Admits(tag, python) /\ RunsOn(tag.platform, subdir)
                  /\ Stable(tag.abi) => python.minor <= upper)
    /\ result.error # "NeedsArchSplitError"
    /\ result.error = "InvalidMetadataError" =>
            \/ ~Unambiguous(wheel.headers)
            \/ \E f \in {"name", "version"} : Occurrences(wheel.headers[f]) \in {{}, {Malformed}}
            \/ \E f \in DOMAIN wheel.headers \ {"requires_dist"} : ~wheel.headers[f].decodable

-----------------------------------------------------------------------------

(* What the repository says and the code does not do: each of these is     *)
(* violated.                                                               *)

(* docs/wheel_filename.md, "macOS": "The x86_64 half is never clamped."    *)
X86NeverClamped ==
    \A r \in result.records :
        r.subdir = "osx-64" => r.deps.osx = r.from.config.platform.number

(* docs/wheel_to_conda_dependencies.md, of cp37-none-any: "the version of  *)
(* python must be that minor version (and not a floor)".                   *)
PinnedMinorOnly ==
    \A r \in result.records, python \in Python, subdir \in Subdirs :
        /\ PythonRequirement(r.from.config).exact
        /\ Installs(r, python, subdir)
        => python.minor = PythonRequirement(r.from.config).minor

(* errors.py: an invalid-wheel or unconvertable error, which logs a skip   *)
(* message, means "a wheel was skipped".                                   *)
SkipMeansNoRecords == skip_logged => result.records = {}
=============================================================================
