------------------------- MODULE ConditionalDependency -------------------------
(***************************************************************************)
(* calculate_dependencies for one Requires-Dist entry and the python       *)
(* dependency, at the precision of Python releases, and to_matchspec for   *)
(* the entry alone: the two paths a marker takes to a MatchSpec condition. *)
(*                                                                         *)
(* A wheel is what calculate_dependencies is given: the requirement its    *)
(* filename implies, its Requires-Python, the subdir of the record, the    *)
(* marker of the entry, the extra under consideration, allow_pre and       *)
(* abi3_upper_bound.                                                       *)
(***************************************************************************)
EXTENDS MarkerConversion

CONSTANTS
    Wheels,      \* the wheels offered for conversion
    FeedMinors,  \* minors the release feed may name as the newest
    Pythons,     \* Python releases and pre-releases of the environments
    MaxMicro     \* the last patch release of any minor

-----------------------------------------------------------------------------
(* What the constants may be.  Rank compares segments up to this bound.    *)
SegmentBound == 198

(* At most four segments, the last of them a single digit. *)
Versions ==
    {v \in [release : Seq(0 .. SegmentBound), stage : Alpha .. Local] :
        Len(v.release) \in 1 .. 4 /\ Segment(v, 4) < 10}

(* A glob follows == or !=, and ~= at least two segments. *)
ClausesOf(operators) ==
    {c \in [op : operators, version : Versions, glob : BOOLEAN] :
        /\ c.glob => c.op \in EqualityComparators
        /\ c.op = "~=" => Len(c.version.release) > 1}

SpecifierOperators == EqualityComparators \cup OrderedComparators \cup {"~=", "==="}

(* Absent and unparseable values have no clauses. *)
RequiresPythons ==
    {r \in [kind : {"absent", "unparseable", "specifiers"}, clauses : SUBSET ClausesOf(SpecifierOperators)] :
        IsFiniteSet(r.clauses) /\ (r.kind # "specifiers" => r.clauses = {})}

VersionKeys == FullVersionKeys \cup {"python_version"}

CompareLeaves ==
    {l \in [kind : {"compare"}, key : VersionKeys, op : SpecifierOperators \ {"==="},
            literal : Versions, glob : BOOLEAN] :
        LeafClause(l) \in ClausesOf(SpecifierOperators)}

ContainsLeaves ==
    [kind : {"contains"}, key : VersionKeys, negate : BOOLEAN, key_on_left : BOOLEAN,
     listed : SUBSET Nat]

StringLeaves ==
    {l \in [kind : {"string"}, key : STRING, op : EqualityComparators, value : STRING] :
        l.key \notin VersionKeys}

ExtraLeaves == [kind : {"extra"}, name : STRING]

(* Every leaf is in a term, and no term includes another. *)
Markers ==
    {m \in [leaves : Seq(CompareLeaves \cup ContainsLeaves \cup StringLeaves \cup ExtraLeaves),
            terms : SUBSET SUBSET Nat] :
        /\ UNION m.terms = DOMAIN m.leaves
        /\ SmallestOf(m.terms) = m.terms
        /\ ~IsConstant(m)}

ASSUME WheelsAssumption ==
    Wheels \subseteq
        [requirement : [minor : 0 .. SegmentBound - 1, exact : BOOLEAN],
         requires_python : RequiresPythons, subdir : Subdirs \cup {Noarch}, marker : Markers,
         extra : STRING, allow_pre : BOOLEAN, upper_bound : (0 .. SegmentBound) \cup {NoMinor}]

ASSUME FeedAssumption == FeedMinors \subseteq 0 .. SegmentBound

(* A Python has three segments, and no more patch releases than the probe  *)
(* of a full version allows for, nor than the releases a specifier names.  *)
ASSUME PythonsAssumption ==
    /\ MaxMicro \in 0 .. 100
    /\ \A v \in Pythons :
        /\ v \in [release : Seq(0 .. SegmentBound), stage : {Alpha, Candidate, Final}]
        /\ Len(v.release) = 3 /\ v.release[3] <= MaxMicro
    /\ \A w \in Wheels : \A c \in w.requires_python.clauses : Segment(c.version, 3) < MaxMicro

-----------------------------------------------------------------------------

VARIABLES
    pc,          \* where the call is
    api,         \* whether it is one for a "wheel" or "to_matchspec"
    wheel,       \* its arguments
    node,        \* the marker, as far as it has been converted
    bounds,      \* the upper bounds resolved for membership tests so far
    result       \* what the last call returned or raised

vars == <<pc, api, wheel, node, bounds, result>>

Outcome(error, condition, python) ==
    [error |-> error, condition |-> condition, python |-> python]

Pending == Outcome("pending", Never, {})

Init ==
    /\ pc = "idle"
    /\ api = "wheel"
    /\ wheel \in Wheels
    /\ node = wheel.marker
    /\ bounds = {}
    /\ result = Pending

Begin(called) ==
    /\ pc = "idle"
    /\ api' = called
    /\ node' = wheel.marker
    /\ bounds' = {}
    /\ result' = Pending
    /\ UNCHANGED wheel

Call == Begin("wheel") /\ pc' = "metadata"

(* to_matchspec is pep508_to_matchspec, with nothing evaluated before it. *)
CallToMatchspec == Begin("to_matchspec") /\ pc' = "entry"

Raise(error) ==
    /\ pc' = "idle"
    /\ result' = Outcome(error, Never, {})
    /\ UNCHANGED <<api, wheel, node>>

(* The MatchSpec of the entry is complete. *)
Finish(condition) ==
    /\ node' = condition
    /\ IF api = "wheel" THEN pc' = "python" /\ UNCHANGED result
       ELSE pc' = "idle" /\ result' = Outcome("ok", condition, {})
    /\ UNCHANGED <<api, wheel>>

(* METADATA is validated before anything is calculated from it. *)
ValidateMetadata ==
    /\ pc = "metadata"
    /\ LET error == RequiresPythonError(wheel.requires_python)
       IN  IF error # "ok" THEN Raise(error)
           ELSE pc' = "range" /\ UNCHANGED <<api, wheel, node, result>>
    /\ UNCHANGED bounds

(* exact_minor is asked first, and raises what the range raises. *)
CombineRanges ==
    /\ pc = "range"
    /\ LET error == RangeError(wheel.requirement, wheel.requires_python)
       IN  IF error # "ok" THEN Raise(error)
           ELSE pc' = "evaluate" /\ UNCHANGED <<api, wheel, node, result>>
    /\ UNCHANGED bounds

(* conditional_dependency: an entry whose marker comes out false is        *)
(* dropped.                                                                *)
EvaluateMarker ==
    /\ pc = "evaluate"
    /\ \E membership \in BOOLEAN :
        LET residual == Evaluate(wheel.marker,
                                 ExactMinor(wheel.requirement, wheel.requires_python),
                                 wheel.subdir, wheel.extra, membership)
            error == ResidualError(residual, wheel.subdir)
        IN  IF error # "ok" THEN Raise(error)
            ELSE /\ node' = residual
                 /\ pc' = IF AlwaysFalse(residual) THEN "python" ELSE "entry"
                 /\ UNCHANGED <<api, wheel, result>>
    /\ UNCHANGED bounds

(* pep508_to_matchspec, as far as the marker goes: none is left of one     *)
(* that came out true.                                                     *)
ConvertEntry ==
    /\ pc = "entry"
    /\ IF \E l \in Leaves(node) : l.kind = "extra" THEN Raise("UnconvertableRequirementError")
       ELSE IF AlwaysTrue(node) THEN Finish(node)
       ELSE pc' = "rewrite_in" /\ UNCHANGED <<api, wheel, node, result>>
    /\ UNCHANGED bounds

(* resolve_upper_bound: the caller's bound, or what the feed says now. *)
UpperBounds == IF wheel.upper_bound = NoMinor THEN FeedMinors ELSE {wheel.upper_bound}

(* marker_condition's two passes.  Each resolves the bound for itself, and *)
(* only if its tree has a test it rewrites.                                *)
RewriteIn ==
    /\ pc = "rewrite_in"
    /\ IF \E l \in Leaves(node) : IsPythonVersionIn(l)
       THEN \E b \in UpperBounds :
                /\ node' = RewritePythonVersionIn(node, b)
                /\ bounds' = bounds \cup {b}
       ELSE UNCHANGED <<node, bounds>>
    /\ pc' = "rewrite_not_in"
    /\ UNCHANGED <<api, wheel, result>>

RewriteNotIn ==
    /\ pc = "rewrite_not_in"
    /\ IF \E l \in Leaves(node) : IsPythonVersionNotIn(l)
       THEN \E b \in UpperBounds :
                /\ node' = RewritePythonVersionNotIn(node, b)
                /\ bounds' = bounds \cup {b}
       ELSE UNCHANGED <<node, bounds>>
    /\ pc' = "convert"
    /\ UNCHANGED <<api, wheel, result>>

(* The feed cannot be fetched. *)
FeedFails ==
    /\ wheel.upper_bound = NoMinor
    /\ \/ pc = "rewrite_in" /\ \E l \in Leaves(node) : IsPythonVersionIn(l)
       \/ pc = "rewrite_not_in" /\ \E l \in Leaves(node) : IsPythonVersionNotIn(l)
    /\ Raise("NetworkFetchError")
    /\ UNCHANGED bounds

Convert ==
    /\ pc = "convert"
    /\ LET conversion == MarkerCondition(node)
       IN  IF conversion.error # "ok" THEN Raise(conversion.error)
           ELSE Finish(conversion.condition)
    /\ UNCHANGED bounds

(* python_dependencies come last. *)
AppendPython ==
    /\ pc = "python"
    /\ LET error == PythonMatchSpecError(wheel.requirement, wheel.requires_python, wheel.allow_pre)
       IN  IF error # "ok" THEN Raise(error)
           ELSE /\ pc' = "idle"
                /\ result' = Outcome("ok", node,
                        PythonMatchSpec(wheel.requirement, wheel.requires_python))
                /\ UNCHANGED <<api, wheel, node>>
    /\ UNCHANGED bounds

Next ==
    \/ Call \/ CallToMatchspec \/ ValidateMetadata \/ CombineRanges \/ EvaluateMarker
    \/ ConvertEntry \/ RewriteIn \/ RewriteNotIn \/ FeedFails \/ Convert \/ AppendPython

Spec == Init /\ [][Next]_vars

-----------------------------------------------------------------------------

Steps ==
    {"idle", "metadata", "range", "evaluate", "entry", "rewrite_in", "rewrite_not_in", "convert",
     "python"}

Errors ==
    {"pending", "ok", "InvalidVersionSpecifierError", "InvalidPythonRequirementRangeError",
     "PythonRangeMismatchError", "UnconvertableMarkerError", "UnconvertablePythonVersionEqualityError",
     "UnconvertableRequirementError", "NeedsArchSplitError", "NetworkFetchError"}

(* Every variable stays in its set; no extra is left in a marker that is   *)
(* rewritten, nor, for a wheel, any key but Python versions, and what is   *)
(* stored as a condition is made of clauses and virtual packages only.     *)
TypeOK ==
    /\ pc \in Steps
    /\ api \in {"wheel", "to_matchspec"}
    /\ bounds \subseteq UpperBounds
    /\ result.error \in Errors
    /\ pc \in {"rewrite_in", "rewrite_not_in", "convert"} =>
        /\ \A l \in Leaves(node) : l.kind \in {"compare", "contains", "chain", "string"}
        /\ api = "wheel" => MarkerKeys(node) \subseteq PermittedKeys
    /\ \A l \in Leaves(result.condition) : l.kind \in {"clauses", "virtual"}

-----------------------------------------------------------------------------
(* What pip does, from the documents. *)

VersionOf(leaf, v) ==
    IF leaf.key = "python_version" THEN Release(<<v.release[1], v.release[2]>>) ELSE v

(* A key that says nothing of Python or the platform may have any value;   *)
(* here it differs from one release of Python to the next.                 *)
LeafHolds(leaf, v, subdir, extra) ==
    CASE leaf.kind = "extra" -> leaf.name = extra
      [] leaf.kind = "string" ->
            (IF leaf.key \in DOMAIN StringsOf(subdir) THEN StringsOf(subdir)[leaf.key] = leaf.value
             ELSE v.release[3] = 0)
            = (leaf.op = "==")
      [] leaf.kind = "compare" -> Satisfies(VersionOf(leaf, v), LeafClause(leaf))
      [] leaf.kind = "contains" ->
            (IF leaf.key_on_left THEN v.release[1] = 3 /\ Spells(leaf.listed, v.release[2])
             ELSE \E n \in leaf.listed : v.release[1] = 3 /\ Spells({v.release[2]}, n))
            # leaf.negate

Holds(marker, v, subdir) ==
    \E t \in marker.terms : \A i \in t : LeafHolds(marker.leaves[i], v, subdir, wheel.extra)

(* The virtual packages conda has on a platform. *)
Provides(subdir) ==
    CASE subdir \in {"linux-64", "linux-aarch64"} -> {"__linux", "__unix"}
      [] subdir \in {"osx-64", "osx-arm64"} -> {"__osx", "__unix"}
      [] OTHER -> {"__win"}

LeafApplies(leaf, v, subdir) ==
    CASE leaf.kind = "clauses" -> \E clauses \in leaf.any : MatchesAll(v, clauses)
      [] leaf.kind = "virtual" -> leaf.package \in Provides(subdir)

(* Whether conda applies a dependency with this condition. *)
Applies(condition, v, subdir) ==
    \E t \in condition.terms : \A i \in t : LeafApplies(condition.leaves[i], v, subdir)

(* docs/wheel_to_conda_dependencies.md: a lone "== 3.11" means its minor,  *)
(* a lone "== 3.*" its floor; docs/matchspec.md: "===" means "==".         *)
Reading(clauses) ==
    UNION {CASE Cardinality(clauses) = 1 /\ c.op = "==" /\ c.version.stage = Final
                /\ Len(c.version.release) = 2 -> {GlobClause("==", c.version)}
             [] Cardinality(clauses) = 1 /\ c.op = "==" /\ c.version.stage = Final
                /\ c.glob /\ Len(c.version.release) = 1 -> {Clause(">=", c.version)}
             [] c.op = "===" -> {Clause("==", c.version)}
             [] OTHER -> {c} : c \in clauses}

IsGeneric(w) == CombinedRange(w.requirement, w.requires_python) = {}

(* The filename's own minors; an exact one that meets a generic specifier  *)
(* is only a floor, which is a finding about WheelConversion.              *)
FilenameAdmits(w, v) ==
    LET minor == w.requirement.minor
    IN  /\ w.requirement.exact => v.release[1] = 3
        /\ IF w.requirement.exact /\ ~IsGeneric(w) THEN v.release[2] = minor
           ELSE Rank(v) >= Rank(Minor(minor))

Installs(w, v) == FilenameAdmits(w, v) /\ SatisfiesAll(v, Reading(w.requires_python.clauses))

AsksFullVersion(marker) ==
    \E l \in Leaves(marker) :
        l.kind \in {"compare", "contains"} /\ l.key \in FullVersionKeys

Returned == result.error = "ok"
ReturnedForWheel == Returned /\ api = "wheel"

(* The platforms the MatchSpec is for. *)
Platforms == IF api = "wheel" /\ wheel.subdir # Noarch THEN {wheel.subdir} ELSE Subdirs

(* Membership tests are enumerated up to the bounds in use: these are the  *)
(* Pythons they are meant for.                                             *)
WithinBounds(v) == \A b \in bounds : v.release[1] = 3 /\ v.release[2] <= b

Admitted == {v \in Pythons : MatchesAll(v, result.python)}

(* Some version is finer than the releases of Python, where code that      *)
(* looks at releases only may be wrong about it: < 3.14.0.1 leaves 3.14.0, *)
(* and ~= 3.13.2.0 holds for 3.13.2 and neither probe.                     *)
FinerThanReleases(w) ==
    \/ \E c \in w.requires_python.clauses : c.op = "<" /\ Len(c.version.release) > 3
    \/ \E l \in Leaves(w.marker) :
        /\ l.kind = "compare" /\ l.key \in FullVersionKeys
        /\ l.op = "~=" /\ Len(l.literal.release) > 3

(* The whole way from a marker to its condition loses nothing: on every    *)
(* Python the record's own python dependency admits, and every platform it *)
(* is for, the condition holds exactly where the marker does, whether the  *)
(* marker was evaluated for a known minor or subdir, probed, rewritten or  *)
(* converted.  Pythons beyond the bounds in use are left out, as are       *)
(* pre-releases where a full version is asked for, and wheels about which  *)
(* exact_minor or the two probes of a full version may be wrong.           *)
ConditionMeansTheMarker ==
    Returned /\ (api = "wheel" => ~FinerThanReleases(wheel)) => \A v \in Admitted, subdir \in Platforms :
        /\ WithinBounds(v)
        /\ IsPrerelease(v) => ~AsksFullVersion(wheel.marker)
        => (Applies(result.condition, v, subdir) <=> Holds(wheel.marker, v, subdir))

(* The python dependency admits a release exactly if the filename and      *)
(* Requires-Python do; and where both come down to one range, no           *)
(* pre-release of the version that ends it.                                *)
PythonSpecMeansTheWheel ==
    ReturnedForWheel => \A v \in Pythons :
        IF v.stage = Final THEN v \in Admitted <=> Installs(wheel, v)
        ELSE v \in Admitted /\ ~IsGeneric(wheel) /\ ~wheel.allow_pre =>
                MatchesAll([v EXCEPT !.stage = Final], result.python)

Micros == 0 .. MaxMicro

AdmittedMinors(clauses) ==
    {m \in 0 .. MinorScanCeiling - 1 :
        \E p \in Micros : SatisfiesAll(Release(<<3, m, p>>), clauses)}

(* 3.0.1 satisfies the clause and 3.0.0 does not, which _probe_micros does *)
(* not notice where no segment says that the clause is about 3.0.          *)
UnprobedClause(clause) ==
    /\ Len(clause.version.release) = 1
    /\ Satisfies(Release(<<3, 0, 1>>), clause) /\ ~Satisfies(Release(<<3, 0, 0>>), clause)

(* Requires-Python is refused exactly if the minors with a release that    *)
(* satisfies it are none, or not consecutive, although few releases are    *)
(* probed.  One that is simplified is found to contradict the filename     *)
(* only if no Python could ever install the wheel; and a record nothing    *)
(* can install is not returned, for the release its range begins with can, *)
(* unless Requires-Python names a pre-release or something finer.          *)
RangeErrorsAreExact ==
    LET clauses == wheel.requires_python.clauses
        contiguous == Contiguous(AdmittedMinors(clauses))
        first(r) == Release(<<Segment(r.lower, 1), Segment(r.lower, 2), Segment(r.lower, 3)>>)
    IN  /\ (\A c \in clauses : ~UnprobedClause(c)) =>
            /\ result.error = "InvalidPythonRequirementRangeError" => ~contiguous
            /\ ReturnedForWheel \/ result.error = "PythonRangeMismatchError" => contiguous
        /\ result.error = "PythonRangeMismatchError" =>
            ~\E v \in Pythons : v.stage = Final /\ Installs(wheel, v)
        /\ ReturnedForWheel /\ (\A c \in clauses : c.version.stage = Final /\ Len(c.version.release) <= 3)
            => \A r \in CombinedRange(wheel.requirement, wheel.requires_python) :
                    MatchesAll(first(r), result.python)

(* A leaf of the marker that says the same on every Python in question. *)
ConstantLeaf(leaf) ==
    \A v, w \in {u \in Pythons : WithinBounds(u)}, s, t \in Subdirs :
        LeafHolds(leaf, v, s, wheel.extra) <=> LeafHolds(leaf, w, t, wheel.extra)

(* docs/matchspec.md's table and its workaround for membership. *)
InTable(leaf) ==
    \/ /\ leaf.kind = "compare"
       /\ leaf.op \in EqualityComparators \cup OrderedComparators
       /\ \/ leaf.key \in FullVersionKeys \/ IsPlain(leaf)
          \/ leaf.glob /\ leaf.literal.stage = Final /\ Len(leaf.literal.release) = 1
    \/ IsPythonVersionIn(leaf) \/ IsPythonVersionNotIn(leaf)
    \/ leaf.kind = "string" /\ leaf.op = "==" /\ leaf.key \in ArchKeys \ {"platform_machine"}
       /\ \E s \in Subdirs : SubdirPlatform[s][leaf.key] = leaf.value

(* A wheel is refused only for what the documents say cannot be converted: *)
(* a clause that is always true or always false, one outside the table, a  *)
(* pre-release or a local label in Requires-Python, an extra where there   *)
(* is no wheel; a split is asked for only by a noarch record and the feed  *)
(* only by a membership test.                                              *)
FailureIsJustified ==
    LET leaves == Leaves(wheel.marker)
        clauses == wheel.requires_python.clauses
    IN  CASE result.error = "UnconvertablePythonVersionEqualityError" ->
                \E l \in leaves : ConstantLeaf(l)
          [] result.error = "UnconvertableMarkerError" ->
                \E l \in leaves : l.kind # "extra" /\ ~InTable(l)
          [] result.error = "UnconvertableRequirementError" ->
                \/ \E c \in clauses : Unsupported(c, wheel.allow_pre)
                \/ api = "to_matchspec" /\ \E l \in leaves : l.kind = "extra"
          [] result.error = "NeedsArchSplitError" ->
                /\ api = "wheel" /\ wheel.subdir = Noarch
                /\ MarkerKeys(wheel.marker) \cap ArchKeys # {}
          [] result.error = "NetworkFetchError" ->
                \E l \in leaves : IsPythonVersionIn(l) \/ IsPythonVersionNotIn(l)
          [] OTHER -> TRUE

-----------------------------------------------------------------------------

(* What the repository says and the code does not do, so it is violated.   *)

(* exact_minor's docstring: the minor the combined range "is guaranteed to *)
(* fall within".                                                           *)
ExactMinorIsGuaranteed ==
    LET minor == ExactMinor(wheel.requirement, wheel.requires_python)
    IN  ReturnedForWheel /\ minor # NoMinor => \A v \in Admitted : v.release[2] = minor
=============================================================================
