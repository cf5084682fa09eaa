--------------------------- MODULE MCWheelConversion ---------------------------
(* WheelConversion on filenames that reach every rule about tags, with plain *)
(* METADATA, and on a few filenames with METADATA that reaches every rule    *)
(* about dependencies.                                                       *)
EXTENDS WheelConversion

UpTo2(S) == {T \in SUBSET S : Cardinality(T) \in 1 .. 2}

Interp(prefix, major, minor) == [prefix |-> prefix, major |-> major, minor |-> minor]
Abi(form, minor, suffix) == [form |-> form, major |-> 3, minor |-> minor, suffix |-> suffix]
Platform(form, number, arch) == [form |-> form, number |-> number, arch |-> arch]

None == Abi("none", 0, {})
Any == Platform("any", 0, "")
Universal2 == Platform("macosx", 1009, "universal2")

Compressed(interpreters, abis, platforms) ==
    [interpreter : interpreters, abi : abis, platform : platforms]

Header(values) == [values |-> values, decodable |-> TRUE]
Absent == Header(<<>>)

Plain == [name |-> Header(<<"p">>), version |-> Header(<<"1">>), requires_python |-> Absent,
          requires_dist |-> {}]

Offer(tags, headers) ==
    [archive |-> SoundArchive, headers |-> headers, tags |-> tags, name |-> "p", version |-> "1",
     filename_errors |-> {}, name_resolves |-> TRUE]

Interpreters ==
    {Interp("py", 2, NoMinor), Interp("py", 3, NoMinor), Interp("cp", 3, NoMinor),
     Interp("cp", 3, 1), Interp("cp", 3, 3), Interp("cp", 3, 13), Interp("cp", 3, 15),
     Interp("pp", 3, 13)}
Abis ==
    {None, Abi("abi3", 0, {}), Abi("abi3t", 0, {}), Abi("cp", 3, {}), Abi("cp", 13, {}),
     Abi("cp", 13, {"m"}), Abi("cp", 13, {"t"}), Abi("cp", 13, {"d"}), Abi("other", 0, {})}
Platforms ==
    {Any, Universal2, Platform("pep600", 217, "x86_64"), Platform("other", 0, "musl")}

Singles(S) == {{x} : x \in S}

Filenames ==
    {Compressed(i, a, p) : i \in Singles(Interpreters), a \in UpTo2(Abis), p \in Singles(Platforms)}
    \cup
    {Compressed(i, a, p) : i \in UpTo2(Interpreters), a \in UpTo2(Abis),
                           p \in {{Any}, {Any, Universal2}}}

TagWheels == {Offer(f, Plain) : f \in Filenames}

Marker(extra, below, subdirs, foreign) ==
    [extra |-> extra, below |-> below, subdirs |-> subdirs, foreign |-> foreign]
Entry(name, marker, errors) ==
    [name |-> name, marker |-> marker, errors |-> errors, parses |-> TRUE]

Win == {"win-64", "win-arm64"}
Entries ==
    {Entry("python", Unconditional, {}),
     Entry("numpy", Unconditional, {}),
     Entry("numpy", Marker("x", Unbounded, Subdirs, FALSE), {}),
     Entry("toml", Marker(NoExtra, 14, Subdirs, FALSE), {}),
     Entry("toml", Marker("x", Unbounded, Subdirs, FALSE), {}),
     Entry("colorama", Marker(NoExtra, 14, Win, FALSE), {}),
     Entry("direct", Marker("x", Unbounded, Win, FALSE), {"UnconvertableRequirementError"}),
     Entry("kernel", Marker(NoExtra, 13, Subdirs, TRUE), {})}

Requires(form, from, below, holes) ==
    [form |-> form, lower |-> from, upper |-> below, excluded |-> holes]
SomeRequiresPythons ==
    {Requires("simplified", 14, Unbounded, {}), Requires("simplified", 0, 14, {}),
     Requires("generic", 9, Unbounded, {9})}

Metadata ==
    {[Plain EXCEPT !.requires_dist = d, !.requires_python = r] :
        d \in UpTo2(Entries) \cup {{}}, r \in {Absent} \cup {Header(<<r>>) : r \in SomeRequiresPythons}}

DependencyTags ==
    {Compressed({Interp("py", 3, NoMinor)}, {None}, {Any}),
     Compressed({Interp("py", 3, NoMinor), Interp("cp", 3, 13)}, {None}, {Any}),
     Compressed({Interp("cp", 3, 9)}, {Abi("cp", 9, {})}, {Platform("win", 0, "amd64")}),
     Compressed({Interp("cp", 3, 13)}, {Abi("abi3", 0, {})}, {Universal2}),
     Compressed({Interp("cp", 3, 14)}, {Abi("cp", 14, {"t"})}, {Platform("legacy", 2014, "aarch64")})}

DependencyWheels == {Offer(t, m) : t \in DependencyTags, m \in Metadata}

(* METADATA that repeats, contradicts or garbles itself. *)
Repetitions(values) == {<<>>} \cup {<<v>> : v \in values} \cup (values \X values)

HeaderWheels ==
    {Offer(CHOOSE t \in DependencyTags : TRUE, [Plain EXCEPT !.name = n, !.version = v,
                                                           !.requires_python = r]) :
        n \in {Header(s) : s \in Repetitions({"p", "q", Malformed})},
        v \in {[Header(s) EXCEPT !.decodable = d] : s \in Repetitions({"1", "2"}), d \in BOOLEAN},
        r \in {Header(s) : s \in Repetitions({Requires("simplified", 14, Unbounded, {}),
                                            Requires("generic", 9, Unbounded, {14}),
                                            Requires("simplified", 14, 14, {}),
                                            Requires("unparseable", 0, 0, {})})}}

SmallArchives == [zip : BOOLEAN, entries : 0 .. 2, data : DataStates]

BadWheels ==
    LET one == Offer(CHOOSE t \in DependencyTags : TRUE, Plain)
        unparseable == [Entry("toml", Unconditional, {}) EXCEPT !.parses = FALSE]
    IN  {[one EXCEPT !.filename_errors = {"InvalidFilenameError"}],
         [one EXCEPT !.filename_errors = {"UnsupportedPrereleaseError"}],
         [one EXCEPT !.name_resolves = FALSE],
         [one EXCEPT !.headers.requires_dist = {unparseable}]}
        \cup {[one EXCEPT !.archive = a] : a \in SmallArchives}

MCWheels == TagWheels \cup DependencyWheels \cup HeaderWheels \cup BadWheels
MCFewWheels == DependencyWheels \cup BadWheels
=============================================================================
