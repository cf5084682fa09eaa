------------------------ MODULE WheelConversionProofs -------------------------
(***************************************************************************)
(* What WheelConversion guarantees for every wheel, upper bound and set of *)
(* Pythons that its assumptions allow.                                     *)
(***************************************************************************)
EXTENDS WheelConversion, FiniteLemmas, SequenceTheorems

-----------------------------------------------------------------------------
(* What the operators behind WheelConversion mean, for every tag, range,   *)
(* marker and header: accepted tags against Admits and RunsOn, ranges      *)
(* against Within, markers against Holds, METADATA against its headers.    *)

(* What WheelConfig's validators let pass. *)
Legal(tag) ==
    LET i == tag.interpreter  a == tag.abi IN
    /\ i.prefix \in {"py", "cp"} /\ i.major = 3
    /\ \/ a.form = "none" /\ i.prefix = "py"
       \/ a.form = "none" /\ i.prefix = "cp" /\ i.minor >= 4
       \/ /\ i.prefix = "cp" /\ a.form = "cp" /\ a.major = 3 /\ "d" \notin a.suffix
          /\ a.minor = i.minor /\ i.minor >= 4
          /\ "t" \in a.suffix => i.minor >= FreeThreadedFloor

LEMMA ErrorNames ==
    ASSUME NEW tag, NEW arch
    PROVE  ConfigError(tag, arch) \in {"ok"} \cup FilenameErrors
<1>1. InterpreterError(tag.interpreter) \in {"ok"} \cup FilenameErrors
  BY DEF InterpreterError, FilenameErrors
<1>2. PairingError(tag.interpreter, NormalizeAbi(tag.abi)) \in {"ok"} \cup FilenameErrors
  <2>1. ASSUME NEW i, NEW a
        PROVE  PairingError(i, a) \in {"ok"} \cup FilenameErrors
    BY DEF PairingError, InterpreterError, AbiError, StableError, VersionedError, FilenameErrors
  <2> QED
    BY <2>1
<1> QED
  BY <1>1, <1>2 DEF ConfigError, FilenameErrors

LEMMA NormalizedAbi ==
    ASSUME NEW tag \in Tags
    PROVE  LET a == NormalizeAbi(tag.abi) IN
           /\ a.form = tag.abi.form /\ a.major = tag.abi.major /\ a.minor = tag.abi.minor
           /\ a.suffix = tag.abi.suffix \cap {"t"}
  BY DEF Tags, NormalizeAbi

LEMMA LegalTags ==
    ASSUME NEW tag \in Tags, NEW arch
    PROVE  ConfigError(tag, arch) = "ok" <=>
            /\ Legal(tag)
            /\ ClassifyPlatform(tag.platform) # Unsupported
            /\ arch \in ArchsToTry(tag.platform)
<1> DEFINE i == tag.interpreter
           a == tag.abi
           n == NormalizeAbi(a)
           platform == ClassifyPlatform(tag.platform) # Unsupported
                       /\ arch \in ArchsToTry(tag.platform)
<1>1. /\ i.minor \in Nat \cup {NoMinor} /\ a.minor \in Nat
      /\ n.form = a.form /\ n.major = a.major /\ n.minor = a.minor
      /\ n.suffix = a.suffix \cap {"t"}
  BY NormalizedAbi DEF Tags
<1>2. ConfigError(tag, arch) = "ok" <=>
        /\ InterpreterError(i) = "ok" /\ AbiError(a) = "ok" /\ ~Stable(a)
        /\ PairingError(i, n) = "ok" /\ platform
  BY DEF ConfigError
<1> HIDE DEF i, a, n, platform
<1>3. Legal(tag) <=>
        /\ InterpreterError(i) = "ok" /\ AbiError(a) = "ok" /\ ~Stable(a)
        /\ PairingError(i, n) = "ok"
  BY <1>1 DEF Legal, InterpreterError, AbiError, Stable, PairingError, VersionedError, StableError,
              FreeThreaded, Minor, NoMinor, FreeThreadedFloor, i, a
<1> QED
  BY <1>2, <1>3 DEF platform

(* A platform tag that is accepted, or that an environment can run, is one *)
(* whose subdirs are those it runs on; only "any" has none.                *)
LEMMA PlatformRuns ==
    ASSUME NEW tag \in Tags, NEW subdir \in Subdirs
    PROVE  LET p == tag.platform IN
           /\ p.form # "any" => (RunsOn(p, subdir) <=> subdir \in SubdirsForPlatform(p))
           /\ p.form = "any" => SubdirsForPlatform(p) = {} /\ RunsOn(p, subdir)
           /\ RunsOn(p, subdir) => ClassifyPlatform(p) # Unsupported
           /\ ClassifyPlatform(p) # Unsupported /\ SubdirsForPlatform(p) = {} => p.form = "any"
           /\ SubdirsForPlatform(p) \subseteq Subdirs
<1> DEFINE p == tag.platform
<1>1. p.form = "legacy" => p.number \in LegacyManylinux
  BY DEF Tags
<1> HIDE DEF p
<1>2. CASE p.form = "any"
  BY <1>2 DEF RunsOn, ClassifyPlatform, SubdirsForPlatform, Unsupported, p
<1>3. CASE p.form \in {"pep600", "legacy"}
  <2>1. CASE p.arch = "x86_64"
    BY <1>1, <1>3, <2>1
       DEF RunsOn, ClassifyPlatform, SubdirsForPlatform, SubdirOf, ArchByTag, Unsupported,
           Subdirs, p
  <2>2. CASE p.arch = "aarch64"
    BY <1>1, <1>3, <2>2
       DEF RunsOn, ClassifyPlatform, SubdirsForPlatform, SubdirOf, ArchByTag, Unsupported,
           Subdirs, p
  <2>3. CASE p.arch \notin {"x86_64", "aarch64"}
    BY <1>1, <1>3, <2>3
       DEF RunsOn, ClassifyPlatform, SubdirsForPlatform, SubdirOf, ArchByTag, Unsupported,
           Subdirs, p
  <2> QED
    BY <2>1, <2>2, <2>3
<1>4. CASE p.form = "macosx"
  BY <1>4
     DEF RunsOn, ClassifyPlatform, SubdirsForPlatform, SubdirOf, ArchByTag, MacosArchs, Archs,
         Unsupported, Subdirs, p
<1>5. CASE p.form = "win"
  BY <1>5
     DEF RunsOn, ClassifyPlatform, SubdirsForPlatform, SubdirOf, ArchByTag, Unsupported, Subdirs, p
<1>6. CASE p.form \notin {"any", "pep600", "legacy", "macosx", "win"}
  BY <1>6 DEF RunsOn, ClassifyPlatform, SubdirsForPlatform, Unsupported, p
<1> QED
  BY <1>2, <1>3, <1>4, <1>5, <1>6

LEMMA SomeArch ==
    ASSUME NEW p
    PROVE  \E arch : arch \in ArchsToTry(p)
  BY DEF ArchsToTry

(* explode_abi3 makes of one tag either the same tag, or a tag for every    *)
(* minor from its own to the bound.                                        *)
Explodes(tag, upper_bound) ==
    /\ Stable(tag.abi) /\ PairingError(tag.interpreter, tag.abi) = "ok"
    /\ Minor(tag.interpreter) <= upper_bound

LEMMA ExplodedTag ==
    ASSUME NEW tag \in Tags, NEW m \in Nat
    PROVE  Exploded(tag, m) \in Tags
  BY DEF Tags, Exploded, CPython, CPythonAbi

LEMMA Explosion ==
    ASSUME NEW tags \in SUBSET Tags, NEW upper_bound \in Int
    PROVE  \A t : t \in ExplodeAbi3(tags, upper_bound) <=>
            \E tag \in tags :
                \/ ~Explodes(tag, upper_bound) /\ t = tag
                \/ /\ Explodes(tag, upper_bound)
                   /\ \E m \in Minor(tag.interpreter) .. upper_bound : t = Exploded(tag, m)
<1>1. \A tag \in tags : Minor(tag.interpreter) \in Nat
  BY DEF Tags, Minor, NoMinor
<1> QED
  BY <1>1 DEF ExplodeAbi3, Explodes, ExplodeOne

-----------------------------------------------------------------------------

LEMMA EveryPython ==
    ASSUME NEW python \in Python
    PROVE  /\ python.minor \in Nat /\ python.minor >= 4 /\ python.minor < Unbounded
           /\ python.free_threaded \in BOOLEAN
           /\ python.free_threaded => python.minor >= FreeThreadedFloor
           /\ \A m : \A f \in BOOLEAN : python = [minor |-> m, free_threaded |-> f] <=>
                    python.minor = m /\ (python.free_threaded <=> f)
<1>1. /\ python \in [minor : Minors, free_threaded : BOOLEAN]
      /\ python.free_threaded => python.minor >= FreeThreadedFloor
  BY DEF Python
<1>2. \A m \in Minors : m \in Nat /\ m >= 4 /\ m < Unbounded
  BY MinorAssumption DEF Unbounded
<1>3. \A m : \A f \in BOOLEAN : python = [minor |-> m, free_threaded |-> f] <=>
            python.minor = m /\ (python.free_threaded <=> f)
  BY <1>1
<1> QED
  BY <1>1, <1>2, <1>3

(* An accepted tag admits the Pythons of its range whose ABI, if it asks   *)
(* for one, is its own: python_abi may be left out below its floor because *)
(* no free-threaded Python is that old.                                    *)
LEMMA TagAdmits ==
    ASSUME NEW tag \in Tags, NEW arch, ConfigError(tag, arch) = "ok", NEW python \in Python
    PROVE  LET config == Config(tag, arch) IN
           Admits(tag, python) <=>
                /\ Within(FilenameRange(PythonRequirement(config)), python.minor)
                /\ PythonAbi(config) \in {NoPythonAbi, python}
<1> DEFINE i == tag.interpreter
           a == tag.abi
           n == NormalizeAbi(a)
           config == Config(tag, arch)
           range == FilenameRange(PythonRequirement(config))
<1>1. /\ i.minor \in Nat \cup {NoMinor}
      /\ n.form = a.form /\ n.suffix = a.suffix \cap {"t"}
  BY NormalizedAbi DEF Tags
<1>2. Legal(tag)
  BY LegalTags
<1>3. /\ python.minor \in Nat /\ python.minor < Unbounded
      /\ python.free_threaded \in BOOLEAN
      /\ python.free_threaded => python.minor >= FreeThreadedFloor
      /\ \A m : \A f \in BOOLEAN : python = [minor |-> m, free_threaded |-> f] <=>
                    python.minor = m /\ (python.free_threaded <=> f)
  BY EveryPython
<1>4. /\ config.interpreter = i /\ config.abi = n
      /\ PythonRequirement(config).minor = Minor(i)
      /\ PythonRequirement(config).exact <=> n.form = "cp" \/ i.prefix = "cp"
      /\ FreeThreaded(n) <=> n.form = "abi3t" \/ (n.form = "cp" /\ "t" \in n.suffix)
  BY DEF Config, PythonRequirement, FreeThreaded
<1>5. Within(range, python.minor) <=>
        /\ Minor(i) <= python.minor
        /\ PythonRequirement(config).exact => python.minor < Minor(i) + 1
  BY <1>3, <1>4 DEF FilenameRange, Within
<1>6. PythonAbi(config) \in {NoPythonAbi, python} <=>
        (PythonRequirement(config).exact /\ Minor(i) >= PythonAbiFloor =>
            python.minor = Minor(i) /\ (python.free_threaded <=> FreeThreaded(n)))
  <2> DEFINE pinned == PythonRequirement(config).exact /\ Minor(i) >= PythonAbiFloor
             abi == [minor |-> Minor(i), free_threaded |-> FreeThreaded(n)]
  <2>1. Minor(i) # NoMinor /\ Minor(i) \in Nat
    BY <1>1 DEF Minor, NoMinor
  <2>2. FreeThreaded(n) \in BOOLEAN
    BY DEF FreeThreaded
  <2>3. PythonAbi(config) = IF pinned THEN abi ELSE NoPythonAbi
    BY <1>4 DEF PythonAbi
  <2>4. abi # NoPythonAbi
    BY <2>1 DEF NoPythonAbi
  <2>5. abi = python <=> python.minor = Minor(i) /\ (python.free_threaded <=> FreeThreaded(n))
    BY <1>3, <2>2
  <2> HIDE DEF abi
  <2> QED
    BY <2>3, <2>4, <2>5
<1>7. Admits(tag, python) <=>
        /\ i.major = 3
        /\ \/ i.prefix = "py" /\ a.form = "none" /\ python.minor >= i.minor
           \/ /\ i.prefix = "cp" /\ i.minor # NoMinor
              /\ \/ /\ a.form = "none"
                    /\ python.minor = i.minor /\ ~python.free_threaded
                 \/ /\ a.form = "cp" /\ a.major = 3 /\ a.minor = i.minor /\ "d" \notin a.suffix
                    /\ python.minor = i.minor /\ (python.free_threaded <=> "t" \in a.suffix)
                 \/ /\ a.form = "abi3" /\ i.minor >= 2
                    /\ python.minor >= i.minor /\ ~python.free_threaded
                 \/ /\ a.form = "abi3t" /\ i.minor >= 15
                    /\ python.minor >= i.minor /\ python.free_threaded
  BY <1>3 DEF Admits
<1> DEFINE G == Admits(tag, python) <=>
                    /\ Within(range, python.minor)
                    /\ PythonAbi(config) \in {NoPythonAbi, python}
           L == Legal(tag)
<1>8. L <=>
        /\ i.prefix \in {"py", "cp"} /\ i.major = 3
        /\ \/ a.form = "none" /\ i.prefix = "py"
           \/ a.form = "none" /\ i.prefix = "cp" /\ i.minor >= 4
           \/ /\ i.prefix = "cp" /\ a.form = "cp" /\ a.major = 3 /\ "d" \notin a.suffix
              /\ a.minor = i.minor /\ i.minor >= 4
              /\ "t" \in a.suffix => i.minor >= FreeThreadedFloor
  BY DEF Legal
<1>9. G
  <2> HIDE DEF config, range, n, i, a, L
  <2>1. CASE i.prefix = "py"
    BY <1>1, <1>2, <1>3, <1>4, <1>5, <1>6, <1>7, <1>8, <2>1 DEF Minor, NoMinor, L
  <2>2. CASE i.prefix = "cp" /\ a.form = "none"
    BY <1>1, <1>2, <1>3, <1>4, <1>5, <1>6, <1>7, <1>8, <2>2
       DEF Minor, NoMinor, L, PythonAbiFloor, FreeThreadedFloor
  <2>3. CASE i.prefix = "cp" /\ a.form = "cp"
    BY <1>1, <1>2, <1>3, <1>4, <1>5, <1>6, <1>7, <1>8, <2>3
       DEF Minor, NoMinor, L, PythonAbiFloor, FreeThreadedFloor
  <2> QED
    BY <1>2, <1>8, <2>1, <2>2, <2>3 DEF L
<1> QED
  BY <1>9

(* python_version_dependency is the intersection of the two ranges, except *)
(* that a generic Requires-Python lifts an exact minor's upper bound.      *)
LEMMA CombinedMeans ==
    ASSUME NEW config, PythonRequirement(config).minor \in 0 .. Unbounded - 1,
           NEW requires \in RequiresPythons \cup {NoRequiresPython},
           requires.form # "unparseable",
           NEW minor \in Nat, minor < Unbounded
    PROVE  LET filename == FilenameRange(PythonRequirement(config))
               combined == CombinedRange(config, requires)
               allowed == requires.form = "absent" \/ Within(requires, minor)
           IN  /\ combined.lower \in Nat /\ combined.upper \in Nat
               /\ requires.form = "absent" => combined.lower < combined.upper
               /\ Within(filename, minor) /\ allowed => Within(combined, minor)
               /\ Within(combined, minor) => allowed /\ filename.lower <= minor
               /\ Within(combined, minor) /\ requires.form # "generic" => Within(filename, minor)
<1> DEFINE p == PythonRequirement(config)
           filename == FilenameRange(p)
           combined == CombinedRange(config, requires)
<1>1. /\ p.minor \in Nat /\ p.minor < Unbounded
      /\ filename.lower = p.minor
      /\ filename.upper = IF p.exact THEN p.minor + 1 ELSE Unbounded
      /\ filename.excluded = {}
  BY DEF FilenameRange, Unbounded
<1>2. CASE requires.form = "absent"
  <2>1. combined = filename
    BY <1>2 DEF CombinedRange
  <2> QED
    BY <1>1, <1>2, <2>1 DEF Within, Unbounded
<1>3. CASE requires.form # "absent"
  <2>1. /\ requires.lower \in Nat /\ requires.upper \in Nat
        /\ requires.form \in {"simplified", "generic"}
    BY <1>3 DEF RequiresPythons, NoRequiresPython
  <2> DEFINE upper_bound == IF requires.form = "simplified" THEN filename.upper ELSE Unbounded
  <2>2. /\ combined.lower = Larger(p.minor, requires.lower)
        /\ combined.upper = Smaller(upper_bound, requires.upper)
        /\ combined.excluded = requires.excluded
    BY <1>1, <2>1 DEF CombinedRange, Combine, FilenameRange
  <2> HIDE DEF combined, filename, p
  <2>3. /\ combined.lower \in Nat /\ combined.upper \in Nat
    BY <1>1, <2>1, <2>2 DEF Larger, Smaller, Unbounded
  <2>4. combined.lower <= minor <=> p.minor <= minor /\ requires.lower <= minor
    BY <1>1, <2>1, <2>2 DEF Larger
  <2>5. minor < combined.upper <=> minor < upper_bound /\ minor < requires.upper
    BY <1>1, <2>1, <2>2 DEF Smaller, Unbounded
  <2>6. minor < filename.upper => minor < upper_bound
    OBVIOUS
  <2>7. /\ Within(filename, minor) <=> p.minor <= minor /\ minor < filename.upper
        /\ Within(requires, minor) <=> /\ requires.lower <= minor /\ minor < requires.upper
                                      /\ minor \notin requires.excluded
        /\ Within(combined, minor) <=> /\ combined.lower <= minor /\ minor < combined.upper
                                      /\ minor \notin combined.excluded
    BY <1>1 DEF Within
  <2>8. /\ Within(filename, minor) /\ Within(requires, minor) => Within(combined, minor)
        /\ Within(combined, minor) => Within(requires, minor) /\ filename.lower <= minor
        /\ Within(combined, minor) /\ requires.form # "generic" => Within(filename, minor)
    BY <1>1, <2>1, <2>2, <2>4, <2>5, <2>6, <2>7
  <2> QED
    BY <1>3, <2>3, <2>8 DEF combined, filename, p
<1> QED
  BY <1>2, <1>3

(* A record of an accepted tag goes where the tag and Requires-Python let  *)
(* it, and, unless the pin is loose, nowhere else.                         *)
LEMMA RecordAdmits ==
    ASSUME NEW tag \in Tags, tag.interpreter.minor < Unbounded,
           NEW arch, ConfigError(tag, arch) = "ok", NEW python \in Python,
           NEW requires \in RequiresPythons \cup {NoRequiresPython},
           requires.form # "unparseable"
    PROVE  LET config == Config(tag, arch)
               p == PythonRequirement(config)
               allowed == requires.form = "absent" \/ Within(requires, python.minor)
               there == /\ Within(CombinedRange(config, requires), python.minor)
                        /\ PythonAbi(config) \in {NoPythonAbi, python}
           IN  /\ p.minor \in 0 .. Unbounded - 1
               /\ Admits(tag, python) /\ allowed => there
               /\ there /\ ~(requires.form = "generic" /\ p.exact /\ p.minor < PythonAbiFloor)
                    => Admits(tag, python) /\ allowed
<1> DEFINE config == Config(tag, arch)
           p == PythonRequirement(config)
           filename == FilenameRange(p)
           combined == CombinedRange(config, requires)
           allowed == requires.form = "absent" \/ Within(requires, python.minor)
           owned == PythonAbi(config) \in {NoPythonAbi, python}
<1>1. p.minor \in 0 .. Unbounded - 1
  <2>1. p.minor = Minor(tag.interpreter)
    BY DEF PythonRequirement, Config
  <2>2. tag.interpreter.minor \in Nat \cup {NoMinor}
    BY DEF Tags
  <2>3. Minor(tag.interpreter) \in Nat /\ Minor(tag.interpreter) < Unbounded
    BY <2>2 DEF Minor, NoMinor, Unbounded
  <2> HIDE DEF p
  <2> QED
    BY <2>1, <2>3 DEF Unbounded
<1>2. python.minor \in Nat /\ python.minor < Unbounded
  BY EveryPython
<1>3. Admits(tag, python) <=> Within(filename, python.minor) /\ owned
  BY TagAdmits
<1>4. /\ Within(filename, python.minor) /\ allowed => Within(combined, python.minor)
      /\ Within(combined, python.minor) => allowed /\ filename.lower <= python.minor
      /\ Within(combined, python.minor) /\ requires.form # "generic"
            => Within(filename, python.minor)
  BY <1>1, <1>2, CombinedMeans
<1>5. ~p.exact /\ filename.lower <= python.minor => Within(filename, python.minor)
  BY <1>2 DEF Within, FilenameRange
<1>6. p.exact /\ p.minor >= PythonAbiFloor /\ owned => Within(filename, python.minor)
  <2>1. ASSUME p.exact, p.minor >= PythonAbiFloor, owned
        PROVE  python.minor = p.minor
    BY <1>1, <2>1 DEF PythonAbi, NoPythonAbi, NoMinor
  <2>2. p.exact => /\ filename.lower = p.minor /\ filename.upper = p.minor + 1
                   /\ filename.excluded = {}
    BY DEF FilenameRange
  <2> HIDE DEF filename, p, owned
  <2> QED
    BY <1>1, <1>2, <2>1, <2>2 DEF Within
<1>7. p.minor < PythonAbiFloor \/ p.minor >= PythonAbiFloor
  BY <1>1 DEF PythonAbiFloor
<1> HIDE DEF config, p, filename, combined, owned, allowed
<1>8. /\ Admits(tag, python) /\ allowed => Within(combined, python.minor) /\ owned
      /\ /\ Within(combined, python.minor) /\ owned
         /\ ~(requires.form = "generic" /\ p.exact /\ p.minor < PythonAbiFloor)
         => Admits(tag, python) /\ allowed
  BY <1>3, <1>4, <1>5, <1>6, <1>7
<1> QED
  BY <1>1, <1>8 DEF config, p, combined, owned, allowed

(* The minor that markers are decided for is the one of every Python that  *)
(* the record goes to.                                                     *)
LEMMA KnownMinor ==
    ASSUME NEW config, PythonRequirement(config).minor \in 0 .. Unbounded - 1,
           NEW requires \in RequiresPythons \cup {NoRequiresPython},
           requires.form # "unparseable",
           NEW minor \in Nat, minor < Unbounded,
           Within(CombinedRange(config, requires), minor)
    PROVE  ExactMinor(config, requires) \in {NoMinor, minor}
<1> DEFINE combined == CombinedRange(config, requires)
<1>1. combined.lower \in Nat /\ combined.upper \in Nat
  BY CombinedMeans
<1>2. combined.lower <= minor /\ minor < combined.upper
  BY DEF Within
<1> HIDE DEF combined
<1>3. combined.upper = combined.lower + 1 => minor = combined.lower
  BY <1>1, <1>2
<1> QED
  BY <1>3 DEF ExactMinor, combined

(* An entry that is converted in what is known of a target becomes a       *)
(* dependency that is in force exactly where its marker holds.             *)
LEMMA ConditionMeans ==
    ASSUME NEW entry \in RequiresDist, NEW subdir \in Subdirs, NEW extra,
           NEW python, python.minor \in Nat, python.minor < Unbounded,
           NEW env, env.extra = extra, env.minor \in {NoMinor, python.minor},
           env.subdir \in {Noarch, subdir},
           EntryErrors(entry, env) = {}
    PROVE  ~EvaluatesFalse(entry.marker, env) /\ python.minor < MatchSpec(entry, env).below
            <=> Holds(entry.marker, python, subdir, extra)
<1> DEFINE m == entry.marker
           keys == RemainingKeys(m, env)
<1>1. /\ m.below \in Nat /\ m.subdirs \subseteq Subdirs /\ m.foreign \in BOOLEAN
  BY DEF RequiresDist
<1>2. /\ "python_version" \in keys <=> m.below # Unbounded /\ env.minor = NoMinor
      /\ "sys_platform" \in keys <=> m.subdirs # Subdirs /\ env.subdir = Noarch
      /\ "platform_release" \in keys <=> m.foreign
  BY DEF RemainingKeys
<1>3. MatchSpec(entry, env).below = IF "python_version" \in keys THEN m.below ELSE Unbounded
  BY DEF MatchSpec
<1>4. ~EvaluatesFalse(m, env) => "sys_platform" \notin keys /\ "platform_release" \notin keys
  BY DEF EntryErrors
<1>5. subdir # Noarch /\ python.minor # NoMinor
  BY DEF Subdirs, Noarch, NoMinor
<1> HIDE DEF m, keys
<1>6. ASSUME EvaluatesFalse(m, env)
      PROVE  ~Holds(m, python, subdir, extra)
  BY <1>1, <1>5, <1>6 DEF EvaluatesFalse, Holds
<1>7. ASSUME ~EvaluatesFalse(m, env)
      PROVE  python.minor < MatchSpec(entry, env).below <=> Holds(m, python, subdir, extra)
  BY <1>1, <1>2, <1>3, <1>4, <1>5, <1>7 DEF EvaluatesFalse, Holds
<1> QED
  BY <1>6, <1>7 DEF m

-----------------------------------------------------------------------------

LEMMA SoundArchives ==
    ASSUME NEW archive \in Archives, ArchiveErrors(archive) = {}
    PROVE  archive = SoundArchive
<1>1. archive.zip = TRUE /\ archive.entries = 1 /\ archive.data = "utf-8"
  BY DEF Archives, DataStates, ArchiveErrors
<1> QED
  BY <1>1 DEF Archives, SoundArchive

LEMMA FiniteOccurrences ==
    ASSUME NEW T, NEW header \in HeaderOf(T)
    PROVE  /\ IsFiniteSet(Occurrences(header))
           /\ Cardinality(Occurrences(header)) \in Nat
           /\ Occurrences(header) \subseteq T
           /\ header.values = <<>> <=> Occurrences(header) = {}
<1>1. header.values \in Seq(T)
  BY DEF HeaderOf
<1>2. DOMAIN header.values = 1 .. Len(header.values) /\ Len(header.values) \in Nat
  BY <1>1
<1>3. IsFiniteSet(DOMAIN header.values)
  BY <1>2, FS_Interval
<1>4. IsFiniteSet(Occurrences(header))
  BY <1>3, FiniteRange DEF Occurrences
<1>5. Occurrences(header) \subseteq T
  BY <1>1 DEF Occurrences
<1>6. header.values = <<>> <=> Len(header.values) = 0
  BY <1>1, EmptySeq
<1>7. Len(header.values) = 0 <=> Occurrences(header) = {}
  <2>1. ASSUME Len(header.values) # 0
        PROVE  header.values[1] \in Occurrences(header)
    BY <1>2, <2>1 DEF Occurrences
  <2>2. ASSUME Len(header.values) = 0
        PROVE  DOMAIN header.values = {}
    BY <1>2, <2>2
  <2> QED
    BY <2>1, <2>2 DEF Occurrences
<1> QED
  BY <1>4, <1>5, <1>6, <1>7, FS_CardinalityType

(* A header that is not ambiguous has at most one value, which is read; an *)
(* ambiguous one has several, or cannot be decoded.                        *)
LEMMA OneValue ==
    ASSUME NEW T, NEW header \in HeaderOf(T)
    PROVE  /\ ~IsAmbiguous(header) =>
                /\ FieldValue(header) = Occurrences(header)
                /\ Cardinality(Occurrences(header)) <= 1
           /\ IsAmbiguous(header) =>
                Cardinality(Occurrences(header)) > 1 \/ ~header.decodable
<1> DEFINE values == header.values
           occurrences == Occurrences(header)
<1>1. /\ IsFiniteSet(occurrences) /\ Cardinality(occurrences) \in Nat
      /\ values = <<>> <=> occurrences = {}
  BY FiniteOccurrences
<1>2. values \in Seq(T) /\ Len(values) \in Nat /\ header.decodable \in BOOLEAN
  BY DEF HeaderOf
<1>3. occurrences = {} <=> Cardinality(occurrences) = 0
  BY <1>1, FS_EmptySet
<1>4. Len(values) = 1 => Cardinality(occurrences) = 1
  <2>1. ASSUME Len(values) = 1
        PROVE  occurrences = {values[1]}
    BY <1>2, <2>1 DEF Occurrences
  <2> QED
    BY <2>1, FS_Singleton
<1>5. values = <<>> <=> Len(values) = 0
  BY <1>2, EmptySeq
<1>6. /\ FieldValue(header) =
            IF \/ Len(values) = 1 /\ header.decodable
               \/ Len(values) > 1 /\ Cardinality(occurrences) = 1
            THEN occurrences ELSE {}
      /\ IsAmbiguous(header) <=> values # <<>> /\ FieldValue(header) = {}
  BY DEF FieldValue, IsAmbiguous
<1> HIDE DEF values, occurrences
<1>7. Len(values) = 0 \/ Len(values) = 1 \/ Len(values) > 1
  <2>1. PICK n \in Nat : n = Len(values)
    BY <1>2
  <2> QED
    BY <2>1
<1>8. ASSUME Len(values) = 0
      PROVE  /\ ~IsAmbiguous(header) /\ FieldValue(header) = occurrences
             /\ Cardinality(occurrences) <= 1
  BY <1>1, <1>3, <1>5, <1>6, <1>8
<1>9. ASSUME Len(values) = 1
      PROVE  /\ Cardinality(occurrences) <= 1
             /\ IF header.decodable THEN ~IsAmbiguous(header) /\ FieldValue(header) = occurrences
                ELSE IsAmbiguous(header)
  BY <1>1, <1>3, <1>4, <1>5, <1>6, <1>9
<1>10. ASSUME Len(values) > 1
       PROVE  IF Cardinality(occurrences) = 1
              THEN ~IsAmbiguous(header) /\ FieldValue(header) = occurrences
              ELSE IsAmbiguous(header) /\ Cardinality(occurrences) > 1
  <2>1. PICK n \in Nat : n = Cardinality(occurrences)
    BY <1>1
  <2>2. values # <<>> /\ Len(values) # 1
    <3>1. PICK k \in Nat : k = Len(values)
      BY <1>2
    <3> QED
      BY <1>5, <1>10, <3>1
  <2>3. n # 0
    BY <1>1, <1>3, <2>1, <2>2
  <2>4. n = 1 \/ n > 1
    BY <2>3
  <2> QED
    BY <1>1, <1>6, <1>10, <2>1, <2>2, <2>3, <2>4
<1>11. /\ ~IsAmbiguous(header) => FieldValue(header) = occurrences /\ Cardinality(occurrences) <= 1
       /\ IsAmbiguous(header) => Cardinality(occurrences) > 1 \/ ~header.decodable
  BY <1>1, <1>7, <1>8, <1>9, <1>10
<1> QED
  BY <1>11 DEF occurrences

(* What parse_metadata lets pass has one reading, and that is what the     *)
(* metadata says.                                                          *)
LEMMA MetadataMeans ==
    ASSUME NEW headers \in HeaderSets, MetadataErrors(headers) = {}
    PROVE  LET m == MetadataOf(headers) IN
           /\ Unambiguous(headers)
           /\ Occurrences(headers.name) = {m.name}
           /\ Occurrences(headers.version) = {m.version}
           /\ m.requires_dist = headers.requires_dist
           /\ m.requires_python \in RequiresPythons \cup {NoRequiresPython}
           /\ m.requires_python.form # "unparseable"
           /\ \A minor :
                (\A range \in Occurrences(headers.requires_python) : Within(range, minor))
                    <=> m.requires_python.form = "absent" \/ Within(m.requires_python, minor)
<1> DEFINE m == MetadataOf(headers)
           r == RequiresPythonOf(headers)
           ranges == Occurrences(headers.requires_python)
<1>1. /\ headers.name \in HeaderOf(STRING) /\ headers.version \in HeaderOf(STRING)
      /\ headers.requires_python \in HeaderOf(RequiresPythons)
  BY DEF HeaderSets
<1>2. \A f \in {"name", "version", "requires_python"} : ~IsAmbiguous(headers[f])
  BY DEF MetadataErrors
<1>3. /\ \A f \in {"name", "version"} : FieldValue(headers[f]) \notin {{}, {Malformed}}
      /\ RequiresPythonErrors(r) = {}
  BY <1>2 DEF MetadataErrors
<1>4. /\ FieldValue(headers.name) = Occurrences(headers.name)
      /\ FieldValue(headers.version) = Occurrences(headers.version)
      /\ FieldValue(headers.requires_python) = ranges
      /\ Cardinality(Occurrences(headers.name)) <= 1
      /\ Cardinality(Occurrences(headers.version)) <= 1
      /\ Cardinality(ranges) <= 1
  BY <1>1, <1>2, OneValue
<1>5. Unambiguous(headers)
  BY <1>4 DEF Unambiguous
<1>6. ASSUME NEW T, NEW header \in HeaderOf(T), Cardinality(Occurrences(header)) <= 1,
             NEW x \in Occurrences(header)
      PROVE  Occurrences(header) = {x}
  <2>1. PICK n \in Nat : n = Cardinality(Occurrences(header))
    BY <1>6, FiniteOccurrences
  <2>2. IsFiniteSet(Occurrences(header)) /\ ~(Cardinality(Occurrences(header)) > 1)
    BY <1>6, <2>1, FiniteOccurrences
  <2> QED
    BY <2>2, AtMostOne
<1>7. Occurrences(headers.name) = {m.name} /\ Occurrences(headers.version) = {m.version}
  <2>1. m.name \in Occurrences(headers.name) /\ m.version \in Occurrences(headers.version)
    BY <1>3, <1>4 DEF MetadataOf
  <2> QED
    BY <1>1, <1>4, <1>6, <2>1
<1>8. m.requires_python = r /\ m.requires_dist = headers.requires_dist
  BY DEF MetadataOf
<1>9. CASE ranges = {}
  <2>1. r = NoRequiresPython
    BY <1>4, <1>9 DEF RequiresPythonOf
  <2> QED
    BY <1>5, <1>7, <1>8, <1>9, <2>1 DEF NoRequiresPython
<1>10. CASE ranges # {}
  <2>1. r \in ranges
    BY <1>4, <1>10 DEF RequiresPythonOf
  <2>2. ranges = {r} /\ r \in RequiresPythons
    BY <1>1, <1>4, <1>6, <2>1, FiniteOccurrences
  <2>3. r.form # "unparseable" /\ r.form # "absent"
    BY <1>3, <2>2 DEF RequiresPythonErrors, RequiresPythons
  <2> QED
    BY <1>5, <1>7, <1>8, <2>2, <2>3
<1> QED
  BY <1>9, <1>10

(* METADATA is only called invalid where it repeats itself, lacks or       *)
(* garbles its name or version, or cannot be decoded.                      *)
LEMMA MetadataRejected ==
    ASSUME NEW headers \in HeaderSets, "InvalidMetadataError" \in MetadataErrors(headers)
    PROVE  \/ ~Unambiguous(headers)
           \/ \E f \in {"name", "version"} : Occurrences(headers[f]) \in {{}, {Malformed}}
           \/ \E f \in DOMAIN headers \ {"requires_dist"} : ~headers[f].decodable
<1>1. /\ headers.name \in HeaderOf(STRING) /\ headers.version \in HeaderOf(STRING)
      /\ headers.requires_python \in HeaderOf(RequiresPythons)
      /\ DOMAIN headers = {"name", "version", "requires_python", "requires_dist"}
  BY DEF HeaderSets
<1>2. CASE \E f \in {"name", "version", "requires_python"} : IsAmbiguous(headers[f])
  <2>1. PICK f \in {"name", "version", "requires_python"} : IsAmbiguous(headers[f])
    BY <1>2
  <2>2. /\ Cardinality(Occurrences(headers[f])) \in Nat
        /\ Cardinality(Occurrences(headers[f])) > 1 \/ ~headers[f].decodable
    BY <1>1, <2>1, OneValue, FiniteOccurrences
  <2> QED
    BY <1>1, <2>2 DEF Unambiguous
<1>3. CASE \A f \in {"name", "version", "requires_python"} : ~IsAmbiguous(headers[f])
  <2>1. \A requires : "InvalidMetadataError" \notin RequiresPythonErrors(requires)
    BY DEF RequiresPythonErrors
  <2>2. PICK f \in {"name", "version"} : FieldValue(headers[f]) \in {{}, {Malformed}}
    BY <1>3, <2>1 DEF MetadataErrors
  <2>3. FieldValue(headers[f]) = Occurrences(headers[f])
    BY <1>1, <1>3, OneValue
  <2> QED
    BY <2>2, <2>3
<1> QED
  BY <1>2, <1>3

-----------------------------------------------------------------------------

LEMMA AdmitsExploded ==
    ASSUME NEW tag, NEW m, NEW python \in Python
    PROVE  Admits(Exploded(tag, m), python) <=>
            python.minor = m /\ (python.free_threaded <=> FreeThreaded(tag.abi)) /\ m # NoMinor
<1> DEFINE t == Exploded(tag, m)
<1>1. /\ t.interpreter.prefix = "cp" /\ t.interpreter.major = 3 /\ t.interpreter.minor = m
      /\ t.abi.form = "cp" /\ t.abi.major = 3 /\ t.abi.minor = m
      /\ t.abi.suffix = IF FreeThreaded(tag.abi) THEN {"t"} ELSE {}
  BY DEF Exploded, CPython, CPythonAbi
<1> HIDE DEF t
<1>2. /\ "t" \in t.abi.suffix <=> FreeThreaded(tag.abi)
      /\ "d" \notin t.abi.suffix
  BY <1>1
<1>3. python = [minor |-> m, free_threaded |-> "t" \in t.abi.suffix] <=>
        python.minor = m /\ (python.free_threaded <=> FreeThreaded(tag.abi))
  <2> DEFINE f == "t" \in t.abi.suffix
  <2>1. f \in BOOLEAN /\ (f <=> FreeThreaded(tag.abi))
    BY <1>2
  <2> HIDE DEF f
  <2>2. python = [minor |-> m, free_threaded |-> f] <=>
            python.minor = m /\ (python.free_threaded <=> f)
    BY <2>1, EveryPython
  <2> QED
    BY <2>1, <2>2 DEF f
<1>4. Admits(t, python) <=>
        m # NoMinor /\ python = [minor |-> m, free_threaded |-> "t" \in t.abi.suffix]
  BY <1>1, <1>2 DEF Admits
<1> QED
  BY <1>3, <1>4 DEF t

(* A stable tag that explodes admits what its own minor and those after it *)
(* do, of its own threading.                                               *)
LEMMA AdmitsStable ==
    ASSUME NEW tag \in Tags, Stable(tag.abi), NEW python \in Python
    PROVE  Admits(tag, python) <=>
            /\ PairingError(tag.interpreter, tag.abi) = "ok"
            /\ Minor(tag.interpreter) <= python.minor
            /\ python.free_threaded <=> FreeThreaded(tag.abi)
<1> DEFINE i == tag.interpreter
           a == tag.abi
<1>1. i.minor \in Nat \cup {NoMinor} /\ a.form \in {"abi3", "abi3t"}
  BY DEF Tags, Stable
<1>2. FreeThreaded(a) <=> a.form = "abi3t"
  BY <1>1 DEF FreeThreaded
<1>3. PairingError(i, a) = "ok" <=>
        /\ i.prefix = "cp" /\ i.major = 3 /\ i.minor # NoMinor
        /\ IF a.form = "abi3t" THEN i.minor >= 15 ELSE i.minor >= 2
  BY <1>1, <1>2
     DEF PairingError, InterpreterError, AbiError, StableError, Stable, Minor, NoMinor
<1>4. i.minor # NoMinor => Minor(i) = i.minor
  BY DEF Minor
<1>5. python.minor \in Nat /\ python.free_threaded \in BOOLEAN
  BY EveryPython
<1>6. Admits(tag, python) <=>
        /\ i.major = 3 /\ i.prefix = "cp" /\ i.minor # NoMinor
        /\ \/ /\ a.form = "abi3" /\ i.minor >= 2
              /\ python.minor >= i.minor /\ ~python.free_threaded
           \/ /\ a.form = "abi3t" /\ i.minor >= 15
              /\ python.minor >= i.minor /\ python.free_threaded
  BY <1>1 DEF Admits
<1> HIDE DEF i, a
<1>7. Admits(tag, python) <=>
        /\ PairingError(i, a) = "ok"
        /\ Minor(i) <= python.minor
        /\ python.free_threaded <=> FreeThreaded(a)
  BY <1>1, <1>2, <1>3, <1>4, <1>5, <1>6
<1> QED
  BY <1>7 DEF i, a

(* Explosion widens nothing: what comes of a filename's tags is well-formed, *)
(* and what it admits one of them admits, on the same platform.            *)
LEMMA ExplosionSound ==
    ASSUME NEW tags \in SUBSET Tags, \A tag \in tags : tag.interpreter.minor < Unbounded,
           NEW upper_bound \in Int, upper_bound < Unbounded,
           NEW t \in ExplodeAbi3(tags, upper_bound)
    PROVE  /\ t \in Tags /\ t.interpreter.minor < Unbounded
           /\ \E tag \in tags :
                /\ t.platform = tag.platform
                /\ \A python \in Python : Admits(t, python) => Admits(tag, python)
<1>1. PICK tag \in tags :
        \/ t = tag
        \/ /\ Explodes(tag, upper_bound)
           /\ \E m \in Minor(tag.interpreter) .. upper_bound : t = Exploded(tag, m)
  BY Explosion
<1>2. CASE t = tag
  BY <1>2
<1>3. ASSUME Explodes(tag, upper_bound),
             NEW m \in Minor(tag.interpreter) .. upper_bound, t = Exploded(tag, m)
      PROVE  /\ t \in Tags /\ t.interpreter.minor < Unbounded
             /\ t.platform = tag.platform
             /\ \A python \in Python : Admits(t, python) => Admits(tag, python)
  <2>1. /\ Minor(tag.interpreter) \in Nat /\ m \in Nat /\ Minor(tag.interpreter) <= m
        /\ m <= upper_bound
    BY <1>3 DEF Tags, Minor, NoMinor
  <2>2. m < Unbounded
    BY <2>1 DEF Unbounded
  <2>3. t \in Tags
    BY <1>3, <2>1, ExplodedTag
  <2>4. t.interpreter.minor = m /\ t.platform = tag.platform
    BY <1>3 DEF Exploded, CPython
  <2>5. ASSUME NEW python \in Python, Admits(t, python)
        PROVE  Admits(tag, python)
    <3>1. python.minor = m /\ (python.free_threaded <=> FreeThreaded(tag.abi))
      BY <1>3, <2>5, AdmitsExploded
    <3> QED
      BY <1>3, <2>1, <3>1, AdmitsStable DEF Explodes
  <2> QED
    BY <2>2, <2>3, <2>4, <2>5
<1> QED
  BY <1>1, <1>2, <1>3

(* Explosion loses nothing either: a Python that a tag admits, up to the   *)
(* bound, is admitted by a legal tag that comes of it.                     *)
LEMMA ExplosionComplete ==
    ASSUME NEW tags \in SUBSET Tags, NEW upper_bound \in Int,
           NEW tag \in tags, NEW python \in Python, Admits(tag, python),
           Stable(tag.abi) => python.minor <= upper_bound
    PROVE  \E t \in ExplodeAbi3(tags, upper_bound) :
            Legal(t) /\ t.platform = tag.platform /\ Admits(t, python)
<1>1. /\ python.minor \in Nat /\ python.minor >= 4 /\ python.free_threaded \in BOOLEAN
      /\ python.free_threaded => python.minor >= FreeThreadedFloor
  BY EveryPython
<1>2. CASE Stable(tag.abi)
  <2> DEFINE t == Exploded(tag, python.minor)
  <2>1. /\ Minor(tag.interpreter) <= python.minor /\ Explodes(tag, upper_bound)
        /\ python.free_threaded <=> FreeThreaded(tag.abi)
    <3>1. /\ PairingError(tag.interpreter, tag.abi) = "ok"
          /\ Minor(tag.interpreter) <= python.minor
          /\ python.free_threaded <=> FreeThreaded(tag.abi)
      BY <1>2, AdmitsStable
    <3>2. Minor(tag.interpreter) \in Nat
      BY DEF Tags, Minor, NoMinor
    <3>3. Minor(tag.interpreter) <= upper_bound
      BY <1>1, <1>2, <3>1, <3>2
    <3> QED
      BY <1>2, <3>1, <3>3 DEF Explodes
  <2>2. python.minor \in Minor(tag.interpreter) .. upper_bound
    BY <1>1, <1>2, <2>1
  <2>3. t \in ExplodeAbi3(tags, upper_bound)
    BY <2>1, <2>2, Explosion
  <2>4. /\ t.platform = tag.platform
        /\ t.interpreter = CPython(python.minor)
        /\ t.abi = CPythonAbi(python.minor, IF FreeThreaded(tag.abi) THEN {"t"} ELSE {})
    BY DEF Exploded
  <2>5. Legal(t)
    BY <1>1, <2>1, <2>4 DEF Legal, CPython, CPythonAbi
  <2>6. Admits(t, python)
    BY <1>1, <2>1, AdmitsExploded DEF NoMinor
  <2> QED
    BY <2>3, <2>4, <2>5, <2>6
<1>3. CASE ~Stable(tag.abi)
  <2>1. tag \in ExplodeAbi3(tags, upper_bound)
    BY <1>3, Explosion DEF Explodes
  <2>2. Legal(tag)
    <3> DEFINE i == tag.interpreter
               a == tag.abi
               t == "t" \in a.suffix
    <3>1. t \in BOOLEAN
      OBVIOUS
    <3>2. /\ i.major = 3
          /\ \/ i.prefix = "py" /\ a.form = "none"
             \/ i.prefix = "cp" /\ a.form = "none" /\ python.minor = i.minor
             \/ /\ i.prefix = "cp" /\ a.form = "cp" /\ a.major = 3 /\ a.minor = i.minor
                /\ "d" \notin a.suffix
                /\ python = [minor |-> i.minor, free_threaded |-> t]
      BY <1>3 DEF Admits, Stable
    <3> HIDE DEF t
    <3>3. python = [minor |-> i.minor, free_threaded |-> t] =>
            python.minor = i.minor /\ (python.free_threaded <=> t)
      BY <3>1, EveryPython
    <3> HIDE DEF i, a
    <3>4. /\ i.prefix \in {"py", "cp"} /\ i.major = 3
          /\ \/ a.form = "none" /\ i.prefix = "py"
             \/ a.form = "none" /\ i.prefix = "cp" /\ i.minor >= 4
             \/ /\ i.prefix = "cp" /\ a.form = "cp" /\ a.major = 3 /\ "d" \notin a.suffix
                /\ a.minor = i.minor /\ i.minor >= 4
                /\ t => i.minor >= FreeThreadedFloor
      BY <1>1, <3>2, <3>3
    <3> QED
      BY <3>4 DEF Legal, i, a, t
  <2> QED
    BY <2>1, <2>2
<1> QED
  BY <1>2, <1>3

(* _dedupe_configs keeps exactly one configuration of each key. *)
LEMMA Deduped ==
    ASSUME NEW parsed
    PROVE  /\ DedupeConfigs(parsed) \subseteq parsed
           /\ \A c, d \in DedupeConfigs(parsed) : Key(c.config) = Key(d.config) => c = d
           /\ \A c \in parsed : \E d \in DedupeConfigs(parsed) : Key(d.config) = Key(c.config)
<1> DEFINE SameKey(k) == {c \in parsed : Key(c.config) = k}
           kept(k) == CHOOSE c \in SameKey(k) :
                        c.config.arch = "arm64" \/ \A d \in SameKey(k) : d.config.arch # "arm64"
           keys == {Key(c.config) : c \in parsed}
<1>1. ASSUME NEW k \in keys
      PROVE  kept(k) \in SameKey(k)
  <2>1. PICK c \in SameKey(k) : TRUE
    BY <1>1
  <2>2. \E d \in SameKey(k) :
            d.config.arch = "arm64" \/ \A e \in SameKey(k) : e.config.arch # "arm64"
    BY <2>1
  <2> HIDE DEF SameKey
  <2> QED
    BY <2>2
<1>2. \A k \in keys : kept(k) \in parsed /\ Key(kept(k).config) = k
  BY <1>1
<1>3. DedupeConfigs(parsed) = {kept(k) : k \in keys}
  BY DEF DedupeConfigs
<1> HIDE DEF kept
<1> QED
  BY <1>2, <1>3

(* Which key a configuration has decides where its records go. *)
LEMMA SameKeySameTargets ==
    ASSUME NEW c, NEW d, Key(c) = Key(d)
    PROVE  /\ c.interpreter = d.interpreter /\ c.abi = d.abi /\ c.platform = d.platform
           /\ PythonRequirement(c) = PythonRequirement(d)
           /\ PythonAbi(c) = PythonAbi(d)
           /\ \A requires : CombinedRange(c, requires) = CombinedRange(d, requires)
<1>1. c.interpreter = d.interpreter /\ c.abi = d.abi /\ c.platform = d.platform
  BY DEF Key
<1>2. PythonRequirement(c) = PythonRequirement(d)
  BY <1>1 DEF PythonRequirement
<1> QED
  BY <1>1, <1>2 DEF PythonAbi, CombinedRange

-----------------------------------------------------------------------------
(* The steps of a conversion.                                              *)

RecordsOf(c) == {Record(c, s) : s \in Targets(c.config)}

(* What the filename comes to, once the bound is known. *)
Chosen == DedupeConfigs(Parsed(wheel.tags, upper))

Matches == metadata.name = wheel.name /\ metadata.version = wheel.version

(* What every stage after the first relies on. *)
StageInv ==
    /\ wheel \in Wheels
    /\ pc \in {"idle", "extract", "metadata", "parse", "check", "convert"}
    /\ upper \in UpperBounds \cup {NoMinor}
    /\ skip_logged \in BOOLEAN
    /\ pc # "idle" => result = Pending
    /\ pc \notin {"check", "convert"} => configs = {}
    /\ pc # "convert" => records = {}
    /\ pc \in {"metadata", "parse", "check", "convert"} => ArchiveErrors(wheel.archive) = {}
    /\ pc \in {"parse", "check", "convert"} =>
            MetadataErrors(wheel.headers) = {} /\ metadata = MetadataOf(wheel.headers)

(* The loop: what is left to convert, and the records of what is not. *)
LoopInv ==
    /\ pc \in {"check", "convert"} => configs \subseteq Chosen
    /\ pc \in {"check", "convert"} /\ NeedsUpperBound(wheel.tags) => upper \in UpperBounds
    /\ pc = "check" => configs = Chosen
    /\ pc = "convert" =>
        /\ Matches
        /\ records = UNION {RecordsOf(c) : c \in Chosen \ configs}
        /\ \A c \in Chosen \ configs : Errors(c.config, Targets(c.config)) = {}

(* The outcome of a call: all the records, or a reason for having none. *)
ResultInv ==
    /\ result.error = "none" =>
        /\ ArchiveErrors(wheel.archive) = {}
        /\ MetadataErrors(wheel.headers) = {} /\ metadata = MetadataOf(wheel.headers)
        /\ Matches
        /\ NeedsUpperBound(wheel.tags) => upper \in UpperBounds
        /\ result.records = UNION {RecordsOf(c) : c \in Chosen}
        /\ \A c \in Chosen : Errors(c.config, Targets(c.config)) = {}
    /\ result.error # "none" => result.records = {}
    /\ result.error \in FilenameErrors => Accepted(wheel.tags, upper) = {}
    /\ result.error # "NeedsArchSplitError"
    /\ result.error = "InvalidMetadataError" =>
            "InvalidMetadataError" \in MetadataErrors(wheel.headers)

IInv == StageInv /\ LoopInv /\ ResultInv

-----------------------------------------------------------------------------

(* How a call ends in an error: nothing of it is left. *)
LEMMA Raised ==
    ASSUME NEW e, Raise(e)
    PROVE  /\ pc' = "idle" /\ configs' = {} /\ records' = {}
           /\ skip_logged \in BOOLEAN => skip_logged' \in BOOLEAN
           /\ result' = [error |-> e, records |-> {}]
  BY DEF Raise, LogsSkip

LEMMA StageStep ==
    ASSUME StageInv, [Next]_vars
    PROVE  StageInv'
<1>1. CASE Call
  BY <1>1 DEF StageInv, Call
<1>2. CASE ExtractMetadata
  <2>1. CASE ArchiveErrors(wheel.archive) = {}
    BY <1>2, <2>1 DEF StageInv, ExtractMetadata
  <2>2. CASE ArchiveErrors(wheel.archive) # {}
    BY <1>2, <2>2, Raised DEF StageInv, ExtractMetadata
  <2> QED
    BY <2>1, <2>2
<1>3. CASE ParseMetadata
  <2>1. CASE MetadataErrors(wheel.headers) = {}
    BY <1>3, <2>1 DEF StageInv, ParseMetadata
  <2>2. CASE MetadataErrors(wheel.headers) # {}
    BY <1>3, <2>2, Raised DEF StageInv, ParseMetadata
  <2> QED
    BY <2>1, <2>2
<1>4. CASE RejectFilename \/ NoUpperBound \/ NoCondaName
  BY <1>4, Raised DEF StageInv, RejectFilename, NoUpperBound, NoCondaName
<1>5. CASE ParseFilename
  <2>1. PICK bound \in IF NeedsUpperBound(wheel.tags) THEN UpperBounds ELSE {NoMinor} :
            /\ upper' = bound
            /\ IF Accepted(wheel.tags, bound) = {}
               THEN \E e \in TagErrors(wheel.tags, bound) : Raise(e)
               ELSE /\ pc' = "check"
                    /\ configs' = DedupeConfigs(Parsed(wheel.tags, bound))
                    /\ skip_logged' = (\E e \in TagErrors(wheel.tags, bound) : LogsSkip(e))
                    /\ UNCHANGED <<records, result>>
    BY <1>5 DEF ParseFilename
  <2>2. upper' \in UpperBounds \cup {NoMinor}
    BY <2>1
  <2>3. CASE Accepted(wheel.tags, bound) = {}
    BY <1>5, <2>1, <2>2, <2>3, Raised DEF StageInv, ParseFilename
  <2>4. CASE Accepted(wheel.tags, bound) # {}
    BY <1>5, <2>1, <2>2, <2>4 DEF StageInv, ParseFilename
  <2> QED
    BY <2>3, <2>4
<1>6. CASE CheckMetadata
  <2>1. CASE metadata.name = wheel.name /\ metadata.version = wheel.version
    BY <1>6, <2>1 DEF StageInv, CheckMetadata
  <2>2. CASE ~(metadata.name = wheel.name /\ metadata.version = wheel.version)
    BY <1>6, <2>2, Raised DEF StageInv, CheckMetadata
  <2> QED
    BY <2>1, <2>2
<1>7. ASSUME NEW c \in configs, Convert(c)
      PROVE  StageInv'
  <2>1. CASE Errors(c.config, Targets(c.config)) = {}
    BY <1>7, <2>1 DEF StageInv, Convert
  <2>2. CASE Errors(c.config, Targets(c.config)) # {}
    BY <1>7, <2>2, Raised DEF StageInv, Convert
  <2> QED
    BY <2>1, <2>2
<1>8. CASE Return
  BY <1>8 DEF StageInv, Return
<1>9. CASE UNCHANGED vars
  BY <1>9 DEF StageInv, vars
<1> QED
  BY <1>1, <1>2, <1>3, <1>4, <1>5, <1>6, <1>7, <1>8, <1>9 DEF Next

(* What the loop computes of one configuration is settled by the METADATA. *)
LEMMA SameMetadata ==
    ASSUME metadata' = metadata
    PROVE  /\ \A c : RecordsOf(c)' = RecordsOf(c)
           /\ \A c : Errors(c.config, Targets(c.config))' = Errors(c.config, Targets(c.config))
<1>1. \A config, targets : Errors(config, targets)' = Errors(config, targets)
  BY DEF Errors
<1>2. \A config : Splits(config)' <=> Splits(config)
  BY <1>1 DEF Splits
<1>3. \A config : Targets(config)' = Targets(config)
  BY <1>2 DEF Targets
<1>4. \A c, s : Record(c, s)' = Record(c, s)
  BY DEF Record
<1> QED
  BY <1>1, <1>3, <1>4 DEF RecordsOf

LEMMA LoopStep ==
    ASSUME StageInv, LoopInv, [Next]_vars
    PROVE  LoopInv'
<1>1. CASE Call \/ ExtractMetadata
  BY <1>1, Raised DEF StageInv, LoopInv, Call, ExtractMetadata
<1>2. CASE ParseMetadata
  BY <1>2, Raised DEF StageInv, LoopInv, ParseMetadata
<1>3. CASE RejectFilename \/ NoUpperBound \/ NoCondaName
  BY <1>3, Raised DEF StageInv, LoopInv, RejectFilename, NoUpperBound, NoCondaName
<1>4. CASE ParseFilename
  <2>1. PICK bound \in IF NeedsUpperBound(wheel.tags) THEN UpperBounds ELSE {NoMinor} :
            /\ upper' = bound
            /\ IF Accepted(wheel.tags, bound) = {}
               THEN \E e \in TagErrors(wheel.tags, bound) : Raise(e)
               ELSE /\ pc' = "check"
                    /\ configs' = DedupeConfigs(Parsed(wheel.tags, bound))
                    /\ skip_logged' = (\E e \in TagErrors(wheel.tags, bound) : LogsSkip(e))
                    /\ UNCHANGED <<records, result>>
    BY <1>4 DEF ParseFilename
  <2>2. wheel' = wheel
    BY <1>4 DEF ParseFilename
  <2>3. Chosen' = DedupeConfigs(Parsed(wheel.tags, bound))
    BY <2>1, <2>2 DEF Chosen
  <2>4. CASE Accepted(wheel.tags, bound) = {}
    BY <2>1, <2>4, Raised DEF LoopInv
  <2>5. CASE Accepted(wheel.tags, bound) # {}
    BY <2>1, <2>2, <2>3, <2>5 DEF LoopInv
  <2> QED
    BY <2>4, <2>5
<1>5. CASE CheckMetadata
  <2>1. Chosen' = Chosen
    BY <1>5 DEF CheckMetadata, Chosen
  <2>2. CASE Matches
    <3>1. Matches' /\ configs' = Chosen' /\ records' = {}
      BY <1>5, <2>1, <2>2 DEF CheckMetadata, Matches, StageInv, LoopInv
    <3>2. Chosen' \ configs' = {}
      BY <3>1
    <3> QED
      BY <1>5, <2>2, <3>1, <3>2 DEF CheckMetadata, Matches, StageInv, LoopInv
  <2>3. CASE ~Matches
    BY <1>5, <2>3, Raised DEF CheckMetadata, Matches, LoopInv
  <2> QED
    BY <2>2, <2>3
<1>6. ASSUME NEW c \in configs, Convert(c)
      PROVE  LoopInv'
  <2>1. CASE Errors(c.config, Targets(c.config)) = {}
    <3>1. /\ pc = "convert" /\ pc' = "convert" /\ configs' = configs \ {c}
          /\ records' = records \cup RecordsOf(c)
          /\ wheel' = wheel /\ metadata' = metadata /\ upper' = upper
      BY <1>6, <2>1 DEF Convert, RecordsOf
    <3>2. Chosen' = Chosen /\ (Matches' <=> Matches) /\ c \in Chosen
      BY <1>6, <3>1 DEF Chosen, Matches, LoopInv
    <3>3. Chosen' \ configs' = (Chosen \ configs) \cup {c}
      BY <1>6, <3>1, <3>2
    <3>4. records' = UNION {RecordsOf(d) : d \in Chosen' \ configs'}
      BY <3>1, <3>3 DEF LoopInv
    <3>5. UNION {RecordsOf(d) : d \in Chosen' \ configs'}
            = (UNION {RecordsOf(d) : d \in Chosen \ configs})'
      BY <3>1, SameMetadata
    <3>6. \A d \in Chosen' \ configs' : Errors(d.config, Targets(d.config)) = {}
      BY <2>1, <3>1, <3>3 DEF LoopInv
    <3>7. (\A d \in Chosen \ configs : Errors(d.config, Targets(d.config)) = {})'
      BY <3>1, <3>6, SameMetadata
    <3>8. (pc \in {"check", "convert"} => configs \subseteq Chosen)'
      BY <3>1, <3>2 DEF LoopInv
    <3> QED
      BY <3>1, <3>2, <3>4, <3>5, <3>7, <3>8 DEF LoopInv
  <2>2. CASE Errors(c.config, Targets(c.config)) # {}
    BY <1>6, <2>2, Raised DEF Convert, LoopInv
  <2> QED
    BY <2>1, <2>2
<1>7. CASE Return
  BY <1>7 DEF Return, LoopInv
<1>8. CASE UNCHANGED vars
  <2>1. Chosen' = Chosen /\ (Matches' <=> Matches) /\ metadata' = metadata
    BY <1>8 DEF vars, Chosen, Matches
  <2>2. UNION {RecordsOf(d) : d \in Chosen \ configs}
            = (UNION {RecordsOf(d) : d \in Chosen \ configs})'
    BY <1>8, <2>1, SameMetadata DEF vars
  <2>3. (\A d \in Chosen \ configs : Errors(d.config, Targets(d.config)) = {})
            <=> (\A d \in Chosen \ configs : Errors(d.config, Targets(d.config)) = {})'
    BY <1>8, <2>1, SameMetadata DEF vars
  <2> QED
    BY <1>8, <2>1, <2>2, <2>3 DEF vars, LoopInv
<1> QED
  BY <1>1, <1>2, <1>3, <1>4, <1>5, <1>6, <1>7, <1>8 DEF Next

(* Nothing but the last steps of a call can put the outcome at risk. *)
OtherErrors ==
    {"InvalidWheelArchiveError", "zlib.error", "InvalidVersionSpecifierError",
     "InvalidPythonRequirementRangeError", "InvalidRequirementError", "InvalidFilenameError",
     "UnsupportedPrereleaseError", "NetworkFetchError", "ValueError",
     "UnresolvedCondaNameError", "InvalidCondaNameError", "MetadataFilenameMismatchError",
     "PythonRangeMismatchError"} \cup ConversionErrors

LEMMA OtherErrorsSayNothing ==
    ASSUME NEW e \in OtherErrors
    PROVE  /\ e # "none" /\ e \notin FilenameErrors
           /\ e # "NeedsArchSplitError" /\ e # "InvalidMetadataError"
  BY DEF OtherErrors, ConversionErrors, FilenameErrors

LEMMA OwnSubdirs ==
    ASSUME NEW p
    PROVE  SubdirsForPlatform(p) \subseteq Subdirs
<1> DEFINE info == ClassifyPlatform(p)
<1>1. info.archs = {} \/ info.family \in {"manylinux", "macos", "windows"}
  BY DEF ClassifyPlatform, Unsupported
<1>2. CASE info.family \in {"manylinux", "macos", "windows"}
  BY <1>2 DEF SubdirsForPlatform, SubdirOf, Subdirs
<1> QED
  BY <1>1, <1>2 DEF SubdirsForPlatform

(* An error of the loop is one of the dependencies': what needs its        *)
(* architectures split is split before it is given up.                     *)
LEMMA LoopErrors ==
    ASSUME NEW config, metadata.requires_dist \subseteq RequiresDist,
           NEW e \in Errors(config, Targets(config))
    PROVE  e \in OtherErrors
<1>1. PICK subdir \in Targets(config) : e \in CalculationErrors(config, metadata, subdir)
  BY DEF Errors
<1>2. CASE RangeError(config, metadata.requires_python) # "ok"
  BY <1>1, <1>2 DEF CalculationErrors, RangeError, OtherErrors
<1>3. CASE RangeError(config, metadata.requires_python) = "ok"
  <2> DEFINE entries == Stripped(metadata.requires_dist)
             Env(x) == Environment(config, metadata, subdir, x)
  <2>1. PICK entry \in entries, x \in {NoExtra} \cup Extras(entries) :
            e \in EntryErrors(entry, Env(x))
    BY <1>1, <1>3 DEF CalculationErrors
  <2>2. entry \in RequiresDist /\ entry.errors \subseteq ConversionErrors
    BY <2>1 DEF Stripped, RequiresDist
  <2>3. CASE e \in entry.errors
    BY <2>2, <2>3 DEF OtherErrors
  <2>4. CASE e = "UnconvertableMarkerError"
    BY <2>4 DEF OtherErrors, ConversionErrors
  <2>5. CASE "sys_platform" \in RemainingKeys(entry.marker, Env(x)) /\ e = "NeedsArchSplitError"
    <3>1. subdir = Noarch
      BY <2>5 DEF RemainingKeys, Environment
    <3>2. Noarch \notin Subdirs
      BY DEF Noarch, Subdirs
    <3>3. SubdirsForPlatform(config.platform) = {}
      BY <1>1, <3>1, <3>2, OwnSubdirs DEF Targets
    <3>4. ~Splits(config)
      BY <1>1, <3>1, <3>2, <3>3 DEF Targets
    <3>5. "NeedsArchSplitError" \in Errors(config, {Noarch})
      BY <1>1, <2>5, <3>1 DEF Errors
    <3> QED
      BY <3>3, <3>4, <3>5 DEF Splits
  <2> QED
    BY <2>1, <2>3, <2>4, <2>5 DEF EntryErrors
<1> QED
  BY <1>2, <1>3

LEMMA EarlyErrors ==
    ASSUME wheel \in Wheels
    PROVE  /\ ArchiveErrors(wheel.archive) \subseteq OtherErrors
           /\ MetadataErrors(wheel.headers) \subseteq OtherErrors \cup {"InvalidMetadataError"}
           /\ wheel.filename_errors \subseteq OtherErrors
           /\ wheel.headers \in HeaderSets /\ wheel.tags \subseteq Tags
           /\ wheel.archive \in Archives
           /\ \A tag \in wheel.tags : tag.interpreter.minor < Unbounded
<1>1. \A archive : ArchiveErrors(archive) \subseteq OtherErrors
  BY DEF ArchiveErrors, OtherErrors
<1>2. \A headers : MetadataErrors(headers) \subseteq OtherErrors \cup {"InvalidMetadataError"}
  <2>1. \A requires : RequiresPythonErrors(requires) \subseteq OtherErrors
    BY DEF RequiresPythonErrors, OtherErrors
  <2> QED
    BY <2>1 DEF MetadataErrors, OtherErrors
<1>3. /\ wheel.filename_errors \subseteq {"InvalidFilenameError", "UnsupportedPrereleaseError"}
      /\ wheel.headers \in HeaderSets /\ wheel.tags \subseteq Tags
      /\ wheel.archive \in Archives
      /\ \A tag \in wheel.tags : tag.interpreter.minor < Unbounded
  BY WheelAssumption
<1> QED
  BY <1>1, <1>2, <1>3 DEF OtherErrors

(* A call that raises one of them satisfies the invariant about outcomes. *)
LEMMA RaisedResult ==
    ASSUME NEW e \in OtherErrors, Raise(e)
    PROVE  ResultInv'
<1>1. result' = [error |-> e, records |-> {}]
  BY Raised
<1> QED
  BY <1>1, OtherErrorsSayNothing DEF ResultInv

LEMMA PendingResult ==
    ASSUME result' = Pending
    PROVE  ResultInv'
  BY DEF ResultInv, Pending, FilenameErrors

LEMMA ResultStep ==
    ASSUME StageInv, LoopInv, ResultInv, [Next]_vars
    PROVE  ResultInv'
<1> USE EarlyErrors DEF StageInv
<1>1. CASE Call
  BY <1>1, PendingResult DEF Call
<1>2. CASE ExtractMetadata
  BY <1>2, RaisedResult, PendingResult DEF ExtractMetadata
<1>3. CASE ParseMetadata
  <2>1. CASE MetadataErrors(wheel.headers) = {}
    BY <1>3, <2>1, PendingResult DEF ParseMetadata
  <2>2. CASE MetadataErrors(wheel.headers) # {}
    <3>1. PICK e \in MetadataErrors(wheel.headers) : Raise(e)
      BY <1>3, <2>2 DEF ParseMetadata
    <3>2. CASE e = "InvalidMetadataError"
      <4>1. result' = [error |-> "InvalidMetadataError", records |-> {}] /\ wheel' = wheel
        BY <1>3, <3>1, <3>2, Raised DEF ParseMetadata
      <4> QED
        BY <3>1, <3>2, <4>1 DEF ResultInv, FilenameErrors
    <3> QED
      BY <3>1, <3>2, RaisedResult
  <2> QED
    BY <2>1, <2>2
<1>4. CASE RejectFilename \/ NoUpperBound \/ NoCondaName
  BY <1>4, RaisedResult DEF RejectFilename, NoUpperBound, NoCondaName, OtherErrors
<1>5. CASE ParseFilename
  <2>1. PICK bound \in IF NeedsUpperBound(wheel.tags) THEN UpperBounds ELSE {NoMinor} :
            /\ upper' = bound
            /\ IF Accepted(wheel.tags, bound) = {}
               THEN \E e \in TagErrors(wheel.tags, bound) : Raise(e)
               ELSE /\ pc' = "check"
                    /\ configs' = DedupeConfigs(Parsed(wheel.tags, bound))
                    /\ skip_logged' = (\E e \in TagErrors(wheel.tags, bound) : LogsSkip(e))
                    /\ UNCHANGED <<records, result>>
    BY <1>5 DEF ParseFilename
  <2>2. pc = "parse" /\ wheel' = wheel
    BY <1>5 DEF ParseFilename
  <2>3. CASE Accepted(wheel.tags, bound) = {}
    <3>1. PICK e \in TagErrors(wheel.tags, bound) : Raise(e)
      BY <2>1, <2>3
    <3>2. e \in FilenameErrors
      BY <3>1, ErrorNames DEF TagErrors
    <3>3. result' = [error |-> e, records |-> {}]
      BY <3>1, Raised
    <3>4. Accepted(wheel.tags, upper)' = {}
      BY <2>1, <2>2, <2>3
    <3>5. e # "none" /\ e # "NeedsArchSplitError" /\ e # "InvalidMetadataError"
      BY <3>2 DEF FilenameErrors
    <3> QED
      BY <3>3, <3>4, <3>5 DEF ResultInv
  <2>4. CASE Accepted(wheel.tags, bound) # {}
    BY <2>1, <2>2, <2>4, PendingResult
  <2> QED
    BY <2>3, <2>4
<1>6. CASE CheckMetadata
  BY <1>6, RaisedResult, PendingResult DEF CheckMetadata, OtherErrors
<1>7. ASSUME NEW c \in configs, Convert(c)
      PROVE  ResultInv'
  <2>1. CASE Errors(c.config, Targets(c.config)) = {}
    BY <1>7, <2>1, PendingResult DEF Convert
  <2>2. CASE Errors(c.config, Targets(c.config)) # {}
    <3>1. PICK e \in Errors(c.config, Targets(c.config)) : Raise(e)
      BY <1>7, <2>2 DEF Convert
    <3>2. metadata.requires_dist \subseteq RequiresDist
      BY <1>7, MetadataMeans DEF Convert, HeaderSets
    <3> QED
      BY <3>1, <3>2, LoopErrors, RaisedResult
  <2> QED
    BY <2>1, <2>2
<1>8. CASE Return
  <2>1. /\ pc = "convert" /\ configs = {} /\ wheel' = wheel /\ metadata' = metadata
        /\ upper' = upper /\ result' = [error |-> "none", records |-> records]
    BY <1>8 DEF Return
  <2>2. Chosen' = Chosen /\ (Matches' <=> Matches) /\ Chosen \ configs = Chosen
    BY <2>1 DEF Chosen, Matches
  <2>3. /\ Matches /\ records = UNION {RecordsOf(c) : c \in Chosen}
        /\ \A c \in Chosen : Errors(c.config, Targets(c.config)) = {}
    BY <2>1, <2>2 DEF LoopInv
  <2>4. /\ (UNION {RecordsOf(c) : c \in Chosen})' = UNION {RecordsOf(c) : c \in Chosen}
        /\ (\A c \in Chosen : Errors(c.config, Targets(c.config)) = {})'
    BY <2>1, <2>2, <2>3, SameMetadata
  <2>5. /\ ArchiveErrors(wheel.archive)' = {} /\ MetadataErrors(wheel.headers)' = {}
        /\ metadata' = MetadataOf(wheel.headers)'
        /\ (NeedsUpperBound(wheel.tags) => upper \in UpperBounds)'
    BY <2>1 DEF LoopInv
  <2> QED
    BY <2>1, <2>2, <2>3, <2>4, <2>5 DEF ResultInv, FilenameErrors
<1>9. CASE UNCHANGED vars
  <2>1. Chosen' = Chosen /\ (Matches' <=> Matches) /\ metadata' = metadata
    BY <1>9 DEF vars, Chosen, Matches
  <2>2. /\ (UNION {RecordsOf(c) : c \in Chosen})' = UNION {RecordsOf(c) : c \in Chosen}
        /\ (\A c \in Chosen : Errors(c.config, Targets(c.config)) = {})'
                <=> (\A c \in Chosen : Errors(c.config, Targets(c.config)) = {})
    BY <1>9, <2>1, SameMetadata DEF vars
  <2> QED
    BY <1>9, <2>1, <2>2 DEF vars, ResultInv
<1> QED
  BY <1>1, <1>2, <1>3, <1>4, <1>5, <1>6, <1>7, <1>8, <1>9 DEF Next

(* The invariant that every property below rests on: at each stage of a   *)
(* call what the earlier stages established still holds, the loop has the *)
(* records of exactly the configurations it is done with, and an outcome  *)
(* is every record of the filename or an error with its reason.           *)
THEOREM Inductive == Spec => []IInv
<1>1. Init => IInv
  <2> SUFFICES ASSUME Init PROVE IInv
    OBVIOUS
  <2>1. StageInv
    BY DEF Init, StageInv
  <2>2. LoopInv
    BY DEF Init, LoopInv
  <2>3. ResultInv
    BY DEF Init, ResultInv, Pending, FilenameErrors
  <2> QED
    BY <2>1, <2>2, <2>3 DEF IInv
<1>2. IInv /\ [Next]_vars => IInv'
  BY StageStep, LoopStep, ResultStep DEF IInv
<1> QED
  BY <1>1, <1>2, PTL DEF Spec

-----------------------------------------------------------------------------

LEMMA BoundedUpper ==
    ASSUME upper \in UpperBounds \cup {NoMinor}
    PROVE  upper \in Int /\ upper < Unbounded
<1>1. upper \in 0 .. Unbounded - 1 \/ upper = NoMinor
  BY BoundAssumption
<1> QED
  BY <1>1 DEF NoMinor, Unbounded

(* Where a configuration comes from. *)
LEMMA ChosenConfig ==
    ASSUME StageInv, NEW c \in Chosen
    PROVE  /\ c = [tag |-> c.tag, config |-> Config(c.tag, c.config.arch)]
           /\ c.tag \in ExplodeAbi3(wheel.tags, upper)
           /\ c.tag \in Tags /\ c.tag.interpreter.minor < Unbounded
           /\ ConfigError(c.tag, c.config.arch) = "ok"
           /\ PythonRequirement(c.config).minor \in 0 .. Unbounded - 1
<1>1. c \in Parsed(wheel.tags, upper)
  BY Deduped DEF Chosen
<1>2. PICK pair \in Accepted(wheel.tags, upper) :
            c = [tag |-> pair[1], config |-> Config(pair[1], pair[2])]
  BY <1>1 DEF Parsed
<1>3. PICK tag \in ExplodeAbi3(wheel.tags, upper) :
            \E a \in ArchsToTry(tag.platform) : pair = <<tag, a>>
  BY <1>2 DEF Accepted, Combinations
<1>4. PICK arch \in ArchsToTry(tag.platform) : pair = <<tag, arch>>
  BY <1>3
<1>5. /\ c.tag = tag /\ c.config = Config(tag, arch) /\ c.config.arch = arch
      /\ ConfigError(tag, arch) = "ok"
  BY <1>2, <1>3, <1>4 DEF Accepted, Config
<1>6. tag \in Tags /\ tag.interpreter.minor < Unbounded
  BY BoundedUpper, EarlyErrors, ExplosionSound DEF StageInv
<1>7. PythonRequirement(c.config).minor = Minor(tag.interpreter)
  BY <1>5 DEF PythonRequirement, Config
<1>8. tag.interpreter.minor \in Nat \cup {NoMinor}
  BY <1>6 DEF Tags
<1>9. Minor(tag.interpreter) \in 0 .. Unbounded - 1
  <2>1. Minor(tag.interpreter) \in Nat /\ Minor(tag.interpreter) < 1000
    BY <1>6, <1>8 DEF Minor, NoMinor, Unbounded
  <2> QED
    BY <2>1 DEF Unbounded
<1> QED
  BY <1>2, <1>3, <1>5, <1>6, <1>7, <1>9

(* What a configuration that converts without an error makes. *)
LEMMA OwnRecords ==
    ASSUME NEW c, NEW r \in RecordsOf(c)
    PROVE  /\ r.from = c /\ r.subdir \in Targets(c.config)
           /\ r.deps = Dependencies(c.config, metadata, r.subdir)
           /\ r = Record(c, r.subdir) /\ r.subdir \in Subdirs \cup {Noarch}
<1>1. PICK s \in Targets(c.config) : r = Record(c, s)
  BY DEF RecordsOf
<1>2. Targets(c.config) \subseteq Subdirs \cup {Noarch}
  BY OwnSubdirs DEF Targets
<1> QED
  BY <1>1, <1>2 DEF Record

LEMMA ReadMetadata ==
    ASSUME StageInv, MetadataErrors(wheel.headers) = {}, metadata = MetadataOf(wheel.headers)
    PROVE  /\ Unambiguous(wheel.headers)
           /\ Occurrences(wheel.headers.name) = {metadata.name}
           /\ Occurrences(wheel.headers.version) = {metadata.version}
           /\ metadata.requires_dist = wheel.headers.requires_dist
           /\ metadata.requires_dist \subseteq RequiresDist
           /\ metadata.requires_python \in RequiresPythons \cup {NoRequiresPython}
           /\ metadata.requires_python.form # "unparseable"
           /\ \A minor : RequiresPython(minor) <=>
                    \/ metadata.requires_python.form = "absent"
                    \/ Within(metadata.requires_python, minor)
<1>1. wheel.headers \in HeaderSets
  BY EarlyErrors DEF StageInv
<1>2. wheel.headers.requires_dist \subseteq RequiresDist
  BY <1>1 DEF HeaderSets
<1> QED
  BY <1>1, <1>2, MetadataMeans DEF RequiresPython

LEMMA NonemptyRange ==
    ASSUME StageInv, MetadataErrors(wheel.headers) = {}, metadata = MetadataOf(wheel.headers),
           NEW c \in Chosen, NEW r \in RecordsOf(c),
           Errors(c.config, Targets(c.config)) = {},
           metadata.requires_python.form # "generic"
    PROVE  r.deps.python.lower < r.deps.python.upper
<1> DEFINE requires == metadata.requires_python
           range == CombinedRange(c.config, requires)
<1>1. r.deps.python = range
  <2>1. r.deps = Dependencies(c.config, metadata, r.subdir)
    BY OwnRecords
  <2> QED
    BY <2>1 DEF Dependencies
<1>2. PythonRequirement(c.config).minor \in 0 .. Unbounded - 1
  BY ChosenConfig
<1>3. requires \in RequiresPythons \cup {NoRequiresPython} /\ requires.form # "unparseable"
  BY ReadMetadata
<1>4. /\ range.lower \in Nat /\ range.upper \in Nat
      /\ requires.form = "absent" => range.lower < range.upper
  <2>1. PICK zero \in Nat : zero < Unbounded
    BY DEF Unbounded
  <2> QED
    BY <1>2, <1>3, <2>1, CombinedMeans
<1>5. CASE requires.form = "simplified"
  <2>1. CalculationErrors(c.config, metadata, r.subdir) = {}
    BY OwnRecords DEF Errors
  <2>2. RangeError(c.config, requires) = "ok"
    BY <2>1 DEF CalculationErrors
  <2>3. ~(range.lower >= range.upper)
    BY <1>5, <2>2 DEF RangeError
  <2> QED
    BY <1>1, <1>4, <2>3
<1>6. requires.form \in {"absent", "simplified"}
  BY <1>3 DEF RequiresPythons, NoRequiresPython
<1> QED
  BY <1>1, <1>4, <1>5, <1>6

(* Every variable stays in its set, for every wheel the assumptions allow. *)
THEOREM TypeCorrect == Spec => []TypeOK
<1>1. ASSUME IInv
      PROVE  TypeOK
  <2> USE <1>1 DEF IInv
  <2>1. ASSUME NEW r \in records
        PROVE  /\ r.subdir \in Subdirs \cup {Noarch}
               /\ metadata.requires_python.form # "generic" =>
                    r.deps.python.lower < r.deps.python.upper
    <3>1. pc = "convert"
      BY <2>1 DEF StageInv
    <3>2. PICK c \in Chosen \ configs : r \in RecordsOf(c)
      BY <2>1, <3>1 DEF LoopInv
    <3>3. Errors(c.config, Targets(c.config)) = {}
      BY <3>1, <3>2 DEF LoopInv
    <3>4. MetadataErrors(wheel.headers) = {} /\ metadata = MetadataOf(wheel.headers)
      BY <3>1 DEF StageInv
    <3> QED
      BY <3>2, <3>3, <3>4, OwnRecords, NonemptyRange
  <2>2. ASSUME NEW r \in result.records
        PROVE  /\ r.subdir \in Subdirs \cup {Noarch}
               /\ metadata.requires_python.form # "generic" =>
                    r.deps.python.lower < r.deps.python.upper
    <3>1. result.error = "none"
      BY <2>2 DEF ResultInv
    <3>2. PICK c \in Chosen : r \in RecordsOf(c)
      BY <2>2, <3>1 DEF ResultInv
    <3>3. Errors(c.config, Targets(c.config)) = {}
      BY <3>1, <3>2 DEF ResultInv
    <3>4. MetadataErrors(wheel.headers) = {} /\ metadata = MetadataOf(wheel.headers)
      BY <3>1 DEF ResultInv
    <3> QED
      BY <3>2, <3>3, <3>4, OwnRecords, NonemptyRange
  <2>3. \A c \in configs : ConfigError(c.tag, c.config.arch) = "ok"
    BY ChosenConfig DEF StageInv, LoopInv
  <2> QED
    BY <2>1, <2>2, <2>3 DEF TypeOK, StageInv, ResultInv
<1> QED
  BY <1>1, Inductive, PTL

(* A record is that of a chosen configuration, and was made without error. *)
LEMMA Provenance ==
    ASSUME IInv, NEW r \in result.records
    PROVE  /\ r.from \in Chosen /\ r \in RecordsOf(r.from)
           /\ Errors(r.from.config, Targets(r.from.config)) = {}
           /\ MetadataErrors(wheel.headers) = {} /\ metadata = MetadataOf(wheel.headers)
<1>1. result.error = "none"
  BY DEF IInv, ResultInv
<1>2. PICK c \in Chosen : r \in RecordsOf(c)
  BY <1>1 DEF IInv, ResultInv
<1>3. r.from = c
  BY <1>2, OwnRecords
<1> QED
  BY <1>1, <1>2, <1>3 DEF IInv, ResultInv

(* The records of one wheel are told apart by build string and subdir: the *)
(* configurations were deduplicated by exactly what the build string says. *)
THEOREM UniqueRecords == Spec => []RecordsUnique
<1>1. ASSUME IInv
      PROVE  RecordsUnique
  <2> SUFFICES ASSUME NEW r \in result.records, NEW s \in result.records,
                      Key(r.from.config) = Key(s.from.config), r.subdir = s.subdir
               PROVE  r = s
    BY DEF RecordsUnique
  <2>1. r.from \in Chosen /\ s.from \in Chosen
    BY <1>1, Provenance
  <2>2. r.from = s.from
    BY <2>1, Deduped DEF Chosen
  <2> DEFINE c == r.from
  <2>3. r \in RecordsOf(c) /\ s \in RecordsOf(c)
    BY <1>1, <2>2, Provenance
  <2>4. r = Record(c, r.subdir) /\ s = Record(c, s.subdir)
    BY <2>3, OwnRecords
  <2> QED
    BY <2>4
<1> QED
  BY <1>1, Inductive, PTL

(* What is converted can be read in one way only: extraction, parsing and  *)
(* the comparison with the filename let nothing else through.              *)
THEOREM ReadInOneWay == Spec => []OneReading
<1>1. ASSUME IInv
      PROVE  OneReading
  <2> SUFFICES ASSUME result.error = "none"
               PROVE  /\ wheel.archive = SoundArchive
                      /\ Unambiguous(wheel.headers)
                      /\ Occurrences(wheel.headers.name) = {wheel.name}
                      /\ Occurrences(wheel.headers.version) = {wheel.version}
    BY DEF OneReading
  <2>1. /\ ArchiveErrors(wheel.archive) = {} /\ MetadataErrors(wheel.headers) = {}
        /\ metadata = MetadataOf(wheel.headers) /\ Matches
    BY <1>1 DEF IInv, ResultInv
  <2>2. wheel.archive = SoundArchive
    BY <1>1, <2>1, EarlyErrors, SoundArchives DEF IInv, StageInv
  <2>3. StageInv
    BY <1>1 DEF IInv
  <2> QED
    BY <2>1, <2>2, <2>3, ReadMetadata DEF Matches
<1> QED
  BY <1>1, Inductive, PTL

LEMMA ConfigTargets ==
    ASSUME NEW c
    PROVE  /\ SubdirsForPlatform(c.config.platform) # {} =>
                    Targets(c.config) = SubdirsForPlatform(c.config.platform)
           /\ SubdirsForPlatform(c.config.platform) = {} =>
                    Targets(c.config) \in {Subdirs, {Noarch}}
  BY DEF Targets

(* Nothing is promised that the wheel does not offer: an accepted tag      *)
(* admits the Pythons its record does, explosion took it from a tag that   *)
(* admits at least those, and a record goes only where its tag runs.       *)
THEOREM SoundRecords == Spec => []RecordsSound
<1>1. ASSUME IInv
      PROVE  RecordsSound
  <2> SUFFICES ASSUME NEW r \in result.records, NEW python \in Python, NEW subdir \in Subdirs,
                      Installs(r, python, subdir), ~LoosePin(r)
               PROVE  \E tag \in wheel.tags : Installable(tag, python, subdir)
    BY DEF RecordsSound
  <2> DEFINE c == r.from
             t == c.tag
             arch == c.config.arch
             requires == metadata.requires_python
  <2>1. /\ c \in Chosen /\ r \in RecordsOf(c)
        /\ MetadataErrors(wheel.headers) = {} /\ metadata = MetadataOf(wheel.headers)
    BY <1>1, Provenance
  <2>2. StageInv
    BY <1>1 DEF IInv
  <2>3. /\ c = [tag |-> t, config |-> Config(t, arch)]
        /\ t \in ExplodeAbi3(wheel.tags, upper)
        /\ t \in Tags /\ t.interpreter.minor < Unbounded
        /\ ConfigError(t, arch) = "ok"
    BY <2>1, <2>2, ChosenConfig
  <2>4. /\ requires \in RequiresPythons \cup {NoRequiresPython}
        /\ requires.form # "unparseable"
        /\ RequiresPython(python.minor) <=>
                requires.form = "absent" \/ Within(requires, python.minor)
    BY <2>1, <2>2, ReadMetadata
  <2>5. /\ r.subdir \in Targets(c.config)
        /\ r.deps = Dependencies(c.config, metadata, r.subdir)
    BY <2>1, OwnRecords
  <2>6. /\ r.deps.python = CombinedRange(c.config, requires)
        /\ r.deps.python_abi = PythonAbi(c.config)
    BY <2>5 DEF Dependencies
  <2>7. Admits(t, python) /\ RequiresPython(python.minor)
    <3> DEFINE config == Config(t, arch)
    <3>1. c.config = config
      BY <2>3
    <3>2. /\ Within(CombinedRange(config, requires), python.minor)
          /\ PythonAbi(config) \in {NoPythonAbi, python}
      BY <2>6, <3>1 DEF Installs
    <3>3. ~(/\ requires.form = "generic" /\ PythonRequirement(config).exact
            /\ PythonRequirement(config).minor < PythonAbiFloor)
      BY <3>1 DEF LoosePin
    <3> QED
      BY <2>3, <2>4, <3>2, <3>3, RecordAdmits
  <2>8. RunsOn(t.platform, subdir)
    <3>1. c.config.platform = t.platform
      BY <2>3 DEF Config
    <3>2. r.subdir \in {Noarch, subdir} /\ Noarch \notin Subdirs
      BY DEF Installs, Noarch, Subdirs
    <3>3. /\ t.platform.form # "any" =>
                (RunsOn(t.platform, subdir) <=> subdir \in SubdirsForPlatform(t.platform))
          /\ t.platform.form = "any" => RunsOn(t.platform, subdir)
          /\ ClassifyPlatform(t.platform) # Unsupported /\ SubdirsForPlatform(t.platform) = {}
                => t.platform.form = "any"
          /\ SubdirsForPlatform(t.platform) \subseteq Subdirs
      BY <2>3, PlatformRuns
    <3>4. ClassifyPlatform(t.platform) # Unsupported
      BY <2>3, LegalTags
    <3> QED
      BY <2>5, <3>1, <3>2, <3>3, <3>4, ConfigTargets
  <2>9. PICK tag \in wheel.tags :
            t.platform = tag.platform /\ (Admits(t, python) => Admits(tag, python))
    <3>1. /\ wheel.tags \in SUBSET Tags
          /\ \A tag \in wheel.tags : tag.interpreter.minor < Unbounded
      BY <2>2, EarlyErrors DEF StageInv
    <3>2. upper \in Int /\ upper < Unbounded
      BY <2>2, BoundedUpper DEF StageInv
    <3> QED
      BY <2>3, <3>1, <3>2, ExplosionSound
  <2> QED
    BY <2>7, <2>8, <2>9 DEF Installable
<1> QED
  BY <1>1, Inductive, PTL

(* A tag that the filename explodes to and that is accepted leads to a     *)
(* configuration, with what the conversion looks at, that is converted.    *)
LEMMA Represented ==
    ASSUME StageInv, NEW t \in ExplodeAbi3(wheel.tags, upper), Legal(t),
           ClassifyPlatform(t.platform) # Unsupported
    PROVE  \E d \in Chosen : \E arch :
                /\ ConfigError(t, arch) = "ok"
                /\ Key(d.config) = Key(Config(t, arch))
<1>1. t \in Tags
  BY BoundedUpper, EarlyErrors, ExplosionSound DEF StageInv
<1>2. PICK arch : arch \in ArchsToTry(t.platform)
  BY SomeArch
<1>3. ConfigError(t, arch) = "ok"
  BY <1>1, <1>2, LegalTags
<1> DEFINE c == [tag |-> t, config |-> Config(t, arch)]
<1>4. c \in Parsed(wheel.tags, upper)
  <2>1. <<t, arch>> \in Combinations(wheel.tags, upper)
    BY <1>2 DEF Combinations
  <2>2. <<t, arch>> \in Accepted(wheel.tags, upper)
    BY <1>3, <2>1 DEF Accepted
  <2> QED
    BY <2>2 DEF Parsed
<1>5. PICK d \in Chosen : Key(d.config) = Key(c.config)
  BY <1>4, Deduped DEF Chosen
<1> QED
  BY <1>3, <1>5

(* Nothing offered is lost: explosion keeps a tag for every Python that    *)
(* pip would accept, that tag's configuration or one of the same key is    *)
(* converted, and its records reach every subdir the tag runs on.          *)
THEOREM CompleteRecords == Spec => []RecordsComplete
<1>1. ASSUME IInv
      PROVE  RecordsComplete
  <2> SUFFICES ASSUME result.error = "none",
                      NEW tag \in wheel.tags, NEW python \in Python, NEW subdir \in Subdirs,
                      Installable(tag, python, subdir),
                      Stable(tag.abi) => python.minor <= upper
               PROVE  \E r \in result.records : Installs(r, python, subdir)
    BY DEF RecordsComplete
  <2> DEFINE requires == metadata.requires_python
  <2>1. /\ StageInv
        /\ MetadataErrors(wheel.headers) = {} /\ metadata = MetadataOf(wheel.headers)
        /\ result.records = UNION {RecordsOf(c) : c \in Chosen}
    BY <1>1 DEF IInv, ResultInv
  <2>2. /\ requires \in RequiresPythons \cup {NoRequiresPython}
        /\ requires.form # "unparseable"
        /\ RequiresPython(python.minor) <=>
                requires.form = "absent" \/ Within(requires, python.minor)
    BY <2>1, ReadMetadata
  <2>3. /\ wheel.tags \in SUBSET Tags
        /\ \A w \in wheel.tags : w.interpreter.minor < Unbounded
        /\ upper \in Int /\ upper < Unbounded
    BY <2>1, EarlyErrors, BoundedUpper DEF StageInv
  <2>4. Admits(tag, python) /\ RunsOn(tag.platform, subdir) /\ RequiresPython(python.minor)
    BY DEF Installable
  <2>5. PICK t \in ExplodeAbi3(wheel.tags, upper) :
            Legal(t) /\ t.platform = tag.platform /\ Admits(t, python)
    BY <2>3, <2>4, ExplosionComplete
  <2>6. t \in Tags /\ t.interpreter.minor < Unbounded
    BY <2>3, ExplosionSound
  <2>7. ClassifyPlatform(t.platform) # Unsupported
    BY <2>4, <2>5, <2>6, PlatformRuns
  <2>8. PICK d \in Chosen :
            \E arch : ConfigError(t, arch) = "ok" /\ Key(d.config) = Key(Config(t, arch))
    BY <2>1, <2>5, <2>7, Represented
  <2>9. PICK arch : ConfigError(t, arch) = "ok" /\ Key(d.config) = Key(Config(t, arch))
    BY <2>8
  <2> DEFINE config == Config(t, arch)
  <2>10. /\ d.config.platform = config.platform
         /\ PythonAbi(d.config) = PythonAbi(config)
         /\ CombinedRange(d.config, requires) = CombinedRange(config, requires)
    BY <2>9, SameKeySameTargets
  <2>11. /\ Within(CombinedRange(config, requires), python.minor)
         /\ PythonAbi(config) \in {NoPythonAbi, python}
    BY <2>2, <2>4, <2>5, <2>6, <2>9, RecordAdmits
  <2>12. PICK s \in Targets(d.config) : s \in {Noarch, subdir}
    <3>1. d.config.platform = t.platform
      BY <2>10 DEF Config
    <3>2. /\ t.platform.form # "any" =>
                (RunsOn(t.platform, subdir) <=> subdir \in SubdirsForPlatform(t.platform))
          /\ t.platform.form = "any" => SubdirsForPlatform(t.platform) = {}
      BY <2>6, PlatformRuns
    <3> QED
      BY <2>4, <2>5, <3>1, <3>2, ConfigTargets
  <2>13. Record(d, s) \in result.records
    BY <2>1, <2>12 DEF RecordsOf
  <2>14. Installs(Record(d, s), python, subdir)
    <3>1. /\ Record(d, s).subdir = s
          /\ Record(d, s).deps.python = CombinedRange(d.config, requires)
          /\ Record(d, s).deps.python_abi = PythonAbi(d.config)
      BY DEF Record, Dependencies
    <3> QED
      BY <2>10, <2>11, <2>12, <3>1 DEF Installs
  <2> QED
    BY <2>13, <2>14
<1> QED
  BY <1>1, Inductive, PTL

(* A call fails for a reason: no tag of the filename admits any Python     *)
(* anywhere, or METADATA is ambiguous, incomplete or undecodable; and what *)
(* needs its architectures split is split.                                 *)
THEOREM JustifiedFailure == Spec => []FailureIsJustified
<1>1. ASSUME IInv
      PROVE  FailureIsJustified
  <2>1. StageInv
    BY <1>1 DEF IInv
  <2>2. ASSUME result.error \in FilenameErrors,
               NEW tag \in wheel.tags, NEW python \in Python, NEW subdir \in Subdirs,
               Admits(tag, python), RunsOn(tag.platform, subdir),
               Stable(tag.abi) => python.minor <= upper
        PROVE  FALSE
    <3>1. Accepted(wheel.tags, upper) = {}
      BY <1>1, <2>2 DEF IInv, ResultInv
    <3>2. /\ wheel.tags \in SUBSET Tags
          /\ \A w \in wheel.tags : w.interpreter.minor < Unbounded
          /\ upper \in Int /\ upper < Unbounded
      BY <2>1, EarlyErrors, BoundedUpper DEF StageInv
    <3>3. PICK t \in ExplodeAbi3(wheel.tags, upper) :
              Legal(t) /\ t.platform = tag.platform
      BY <2>2, <3>2, ExplosionComplete
    <3>4. t \in Tags
      BY <3>2, ExplosionSound
    <3>5. ClassifyPlatform(t.platform) # Unsupported
      BY <2>2, <3>3, <3>4, PlatformRuns
    <3>6. \E d : d \in Chosen
      BY <2>1, <3>3, <3>5, Represented
    <3> QED
      BY <3>1, <3>6, Deduped DEF Chosen, Parsed
  <2>3. ASSUME result.error = "InvalidMetadataError"
        PROVE  \/ ~Unambiguous(wheel.headers)
               \/ \E f \in {"name", "version"} :
                    Occurrences(wheel.headers[f]) \in {{}, {Malformed}}
               \/ \E f \in DOMAIN wheel.headers \ {"requires_dist"} : ~wheel.headers[f].decodable
    <3>1. "InvalidMetadataError" \in MetadataErrors(wheel.headers)
      BY <1>1, <2>3 DEF IInv, ResultInv
    <3>2. wheel.headers \in HeaderSets
      BY <2>1, EarlyErrors DEF StageInv
    <3> QED
      BY <3>1, <3>2, MetadataRejected
  <2>4. result.error # "NeedsArchSplitError"
    BY <1>1 DEF IInv, ResultInv
  <2> QED
    BY <2>2, <2>3, <2>4 DEF FailureIsJustified
<1> QED
  BY <1>1, Inductive, PTL

ActiveNames(specs, python) == {m.name : m \in {n \in specs : python.minor < n.below}}
RequiredNames(entries, python, subdir, extra) ==
    {e.name : e \in {f \in entries : Holds(f.marker, python, subdir, extra)}}

(* What is converted for one extra, less the conditions that fail in an    *)
(* environment, is what the markers ask for there.                         *)
LEMMA ActiveMeans ==
    ASSUME NEW entries \in SUBSET RequiresDist, NEW subdir \in Subdirs, NEW extra,
           NEW python, python.minor \in Nat, python.minor < Unbounded,
           NEW env, env.extra = extra, env.minor \in {NoMinor, python.minor},
           env.subdir \in {Noarch, subdir},
           \A e \in entries : EntryErrors(e, env) = {}
    PROVE  ActiveNames(MatchSpecs(entries, env), python)
                = RequiredNames(entries, python, subdir, extra)
<1> DEFINE converted == {m.name : m \in {n \in MatchSpecs(entries, env) :
                                            python.minor < n.below}}
           required == {e.name : e \in {f \in entries :
                                            Holds(f.marker, python, subdir, extra)}}
           wanted == {f \in entries : ~EvaluatesFalse(f.marker, env)}
<1>1. \A e \in entries :
        ~EvaluatesFalse(e.marker, env) /\ python.minor < MatchSpec(e, env).below
            <=> Holds(e.marker, python, subdir, extra)
  BY ConditionMeans
<1>2. \A e : MatchSpec(e, env).name = e.name
  BY DEF MatchSpec
<1>3. ASSUME NEW name \in converted
      PROVE  name \in required
  <2>1. PICK m \in MatchSpecs(entries, env) : python.minor < m.below /\ name = m.name
    BY <1>3
  <2>2. PICK e \in wanted : m = MatchSpec(e, env)
    BY <2>1 DEF MatchSpecs
  <2>3. e \in entries /\ Holds(e.marker, python, subdir, extra) /\ name = e.name
    BY <1>1, <1>2, <2>1, <2>2
  <2> QED
    BY <2>3
<1>4. ASSUME NEW name \in required
      PROVE  name \in converted
  <2>1. PICK e \in entries : Holds(e.marker, python, subdir, extra) /\ name = e.name
    BY <1>4
  <2>2. ~EvaluatesFalse(e.marker, env) /\ python.minor < MatchSpec(e, env).below
    BY <1>1, <2>1
  <2>3. MatchSpec(e, env) \in MatchSpecs(entries, env)
    BY <2>2 DEF MatchSpecs
  <2> QED
    BY <1>2, <2>1, <2>2, <2>3
<1>5. converted = required
  BY <1>3, <1>4
<1> QED
  BY <1>5 DEF ActiveNames, RequiredNames

(* The dependencies of a record mean the markers they came from: what is   *)
(* evaluated away was known there, what is left stays as a condition, and  *)
(* what an extra shares with the base dependencies is taken out once.      *)
THEOREM MeaningfulDepends == Spec => []DependsMeanTheMarkers
<1>1. ASSUME IInv
      PROVE  DependsMeanTheMarkers
  <2> DEFINE entries == Stripped(wheel.headers.requires_dist)
             Active(specs, python) == {m.name : m \in {n \in specs : python.minor < n.below}}
             Required(extra, python, subdir) ==
                {e.name : e \in {f \in entries : Holds(f.marker, python, subdir, extra)}}
  <2>1. ASSUME NEW r \in result.records, NEW python \in Python, NEW subdir \in Subdirs,
               Installs(r, python, subdir)
        PROVE  /\ Active(r.deps.depends, python) = Required(NoExtra, python, subdir)
               /\ \A x \in DOMAIN r.deps.extra_depends :
                    Active(r.deps.depends \cup r.deps.extra_depends[x], python)
                        = Required(x, python, subdir)
               /\ \A e \in entries : e.marker.extra # NoExtra =>
                    e.marker.extra \in DOMAIN r.deps.extra_depends
    <3> DEFINE config == r.from.config
               requires == metadata.requires_python
               Env(x) == Environment(config, metadata, r.subdir, x)
               extras == {NoExtra} \cup Extras(entries)
               Specs(x) == MatchSpecs(entries, Env(x))
    <3>1. /\ StageInv /\ r.from \in Chosen /\ r \in RecordsOf(r.from)
          /\ Errors(config, Targets(config)) = {}
          /\ MetadataErrors(wheel.headers) = {} /\ metadata = MetadataOf(wheel.headers)
      BY <1>1, Provenance DEF IInv
    <3>2. /\ metadata.requires_dist = wheel.headers.requires_dist
          /\ metadata.requires_dist \subseteq RequiresDist
          /\ requires \in RequiresPythons \cup {NoRequiresPython}
          /\ requires.form # "unparseable"
      BY <3>1, ReadMetadata
    <3>3. entries = Stripped(metadata.requires_dist) /\ entries \in SUBSET RequiresDist
      BY <3>2 DEF Stripped
    <3>4. /\ r.subdir \in Targets(config) /\ r.deps = Dependencies(config, metadata, r.subdir)
      BY <3>1, OwnRecords
    <3>5. /\ r.deps.python = CombinedRange(config, requires)
          /\ r.deps.depends = Specs(NoExtra)
          /\ r.deps.extra_depends = [x \in Extras(entries) |-> Specs(x) \ Specs(NoExtra)]
      BY <3>3, <3>4 DEF Dependencies, ExtraDepends
    <3>6. CalculationErrors(config, metadata, r.subdir) = {}
      BY <3>1, <3>4 DEF Errors
    <3>7. \A e \in entries, x \in extras : EntryErrors(e, Env(x)) = {}
      <4>1. RangeError(config, requires) = "ok"
        BY <3>6 DEF CalculationErrors
      <4> QED
        BY <3>3, <3>6, <4>1 DEF CalculationErrors
    <3>8. python.minor \in Nat /\ python.minor < Unbounded
      BY EveryPython
    <3>9. ExactMinor(config, requires) \in {NoMinor, python.minor}
      <4>1. PythonRequirement(config).minor \in 0 .. Unbounded - 1
        BY <3>1, ChosenConfig
      <4>2. Within(CombinedRange(config, requires), python.minor)
        BY <2>1, <3>5 DEF Installs
      <4> QED
        BY <3>2, <3>8, <4>1, <4>2, KnownMinor
    <3>10. \A x \in extras : Active(Specs(x), python) = Required(x, python, subdir)
      <4> SUFFICES ASSUME NEW x \in extras
                   PROVE  Active(Specs(x), python) = Required(x, python, subdir)
        OBVIOUS
      <4>1. PICK env : env = Env(x)
        OBVIOUS
      <4>2. /\ env.extra = x /\ env.minor \in {NoMinor, python.minor}
            /\ env.subdir \in {Noarch, subdir}
        BY <2>1, <3>9, <4>1 DEF Environment, Installs
      <4>3. \A e \in entries : EntryErrors(e, env) = {}
        BY <3>7, <4>1
      <4>4. PICK all : all = entries
        OBVIOUS
      <4> HIDE DEF Env, entries
      <4>5. all \in SUBSET RequiresDist /\ \A e \in all : EntryErrors(e, env) = {}
        BY <3>3, <4>3, <4>4
      <4>6. ActiveNames(MatchSpecs(all, env), python) = RequiredNames(all, python, subdir, x)
        BY <3>8, <4>2, <4>5, ActiveMeans
      <4> QED
        BY <4>1, <4>4, <4>6 DEF ActiveNames, RequiredNames
    <3>11. \A x : Required(NoExtra, python, subdir) \subseteq Required(x, python, subdir)
      BY DEF Holds
    <3>12. ASSUME NEW x \in Extras(entries)
           PROVE  Active(r.deps.depends \cup r.deps.extra_depends[x], python)
                    = Required(x, python, subdir)
      <4>1. r.deps.depends \cup r.deps.extra_depends[x] = Specs(NoExtra) \cup Specs(x)
        BY <3>5
      <4>2. Active(Specs(NoExtra) \cup Specs(x), python)
                = Active(Specs(NoExtra), python) \cup Active(Specs(x), python)
        <5> HIDE DEF Specs
        <5> QED
          OBVIOUS
      <4> HIDE DEF Active, Specs, Required
      <4> QED
        BY <3>10, <3>11, <4>1, <4>2
    <3>13. DOMAIN r.deps.extra_depends = Extras(entries)
      BY <3>5
    <3>14. Active(r.deps.depends, python) = Required(NoExtra, python, subdir)
      <4> HIDE DEF Active, Specs, Required
      <4> QED
        BY <3>5, <3>10
    <3>15. \A e \in entries : e.marker.extra # NoExtra => e.marker.extra \in Extras(entries)
      BY DEF Extras
    <3> HIDE DEF Active, Required, entries
    <3> QED
      BY <3>12, <3>13, <3>14, <3>15
  <2> QED
    BY <2>1 DEF DependsMeanTheMarkers
<1> QED
  BY <1>1, Inductive, PTL
===============================================================================
