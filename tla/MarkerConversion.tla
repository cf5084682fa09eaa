--------------------------- MODULE MarkerConversion ---------------------------
(***************************************************************************)
(* What becomes of a Requires-Dist marker that asks for a Python version:  *)
(* its partial evaluation for a target (conditional_dependency), the       *)
(* rewriting of python_version membership, and the MatchSpec condition     *)
(* (marker_condition).                                                     *)
(*                                                                         *)
(* A marker is its leaves, in the order they are written, and its terms:   *)
(* the sets of leaves of which it takes one to be true for the marker to   *)
(* be.  Each leaf of a tree is written once, so the terms that are not     *)
(* larger than others say all of its "and"s and "or"s but their nesting.   *)
(*                                                                         *)
(* A leaf is                                                               *)
(*   compare   a version key, an operator and a version literal            *)
(*   contains  a key in, or not in, a literal, or a literal in the key:    *)
(*             the literal is the set of minors it spells as "3.m"         *)
(*   chain     python_version compared with one of some minors (==), or    *)
(*             with each of them (!=)                                      *)
(*   string    any other key, == or !=, a value                            *)
(*   extra     extra == <name>                                             *)
(*   true, false                                                           *)
(***************************************************************************)
EXTENDS PythonRange

Truth(b) == [kind |-> IF b THEN "true" ELSE "false"]

Leaves(marker) == Range(marker.leaves)

AlwaysTrue(marker) == {} \in marker.terms
AlwaysFalse(marker) == marker.terms = {}
IsConstant(marker) == AlwaysTrue(marker) \/ AlwaysFalse(marker)

(* What is left of a marker once leaves are known to be true or false: a   *)
(* term with a false leaf is gone, and one that includes another says      *)
(* nothing.                                                                *)
OpenTerms(marker, image) ==
    {{i \in t : image[i].kind # "true"} :
        t \in {s \in marker.terms : \A i \in s : image[i].kind # "false"}}

SmallestOf(terms) == {t \in terms : \A s \in terms : s \subseteq t => s = t}

(* Node.modify: each leaf becomes its image, and the tree is simplified.   *)
Modify(marker, image) ==
    LET terms == SmallestOf(OpenTerms(marker, image))
    IN  [leaves |-> [i \in UNION terms |-> image[i]], terms |-> terms]

FullVersionKeys == {"python_full_version", "implementation_version"}
OrderedComparators == {">=", ">", "<=", "<"}
EqualityComparators == {"==", "!="}

(* "3.m" is a substring of a literal that spells "3.n" if n begins with m. *)
Spells(listed, minor) == \E n \in listed : n = minor \/ (n >= 10 /\ n \div 10 = minor)

-----------------------------------------------------------------------------
(* conditional_dependency.py, environment.py *)

Noarch == "noarch"

ArchKeys == {"platform_system", "platform_machine", "sys_platform", "os_name"}
PermittedKeys == FullVersionKeys \cup {"python_version"}

Platform(system, machine, sys, os) ==
    [platform_system |-> system, platform_machine |-> machine, sys_platform |-> sys, os_name |-> os]

Subdirs == {"linux-64", "linux-aarch64", "osx-64", "osx-arm64", "win-64", "win-arm64"}

SubdirPlatform ==
    [subdir \in Subdirs |->
        CASE subdir = "linux-64" -> Platform("Linux", "x86_64", "linux", "posix")
          [] subdir = "linux-aarch64" -> Platform("Linux", "aarch64", "linux", "posix")
          [] subdir = "osx-64" -> Platform("Darwin", "x86_64", "darwin", "posix")
          [] subdir = "osx-arm64" -> Platform("Darwin", "arm64", "darwin", "posix")
          [] subdir = "win-64" -> Platform("Windows", "AMD64", "win32", "nt")
          [] subdir = "win-arm64" -> Platform("Windows", "ARM64", "win32", "nt")]

(* The keys of noarch_environment and arch_specific_environment that are   *)
(* not versions.                                                           *)
StringsOf(subdir) ==
    LET python == [platform_python_implementation |-> "CPython", implementation_name |-> "cpython"]
    IN  IF subdir = Noarch THEN python
        ELSE [key \in DOMAIN python \cup ArchKeys |->
                IF key \in ArchKeys THEN SubdirPlatform[subdir][key] ELSE python[key]]

(* Bug: only an exact comparison makes a key unreducible. *)
UnreducibleEqualOnly(marker) ==
    {l.key : l \in {k \in Leaves(marker) :
        /\ k.kind = "compare" /\ k.key \in FullVersionKeys /\ k.op = "=="}}

(* _unreducible_full_version_keys *)
UnreducibleFullVersionKeys(marker) ==
    {l.key : l \in {k \in Leaves(marker) :
        \/ k.kind = "contains" /\ k.key \in FullVersionKeys
        \/ k.kind = "compare" /\ k.key \in FullVersionKeys /\ k.op \in EqualityComparators}}

(* Bug: one probe, at the minor's first release. *)
ProbeFirst(minor, clause) == {Truth(Satisfies(Release(<<3, minor, 0>>), clause))}

(* The RangeConstraint 3.m.0 .. 3.m.100: its ends have to agree. *)
Probe(minor, clause) ==
    LET first == Satisfies(Release(<<3, minor, 0>>), clause)
        last == Satisfies(Release(<<3, minor, 100>>), clause)
    IN  IF first = last THEN {Truth(first)} ELSE {}

LeafClause(leaf) == [op |-> leaf.op, version |-> leaf.literal, glob |-> leaf.glob]

(* Whether a membership test is evaluated against a known python_version   *)
(* is markerpry's business.                                                *)
EvaluateContains(leaf, env) ==
    IF leaf.key = "python_version" /\ env.minor # NoMinor /\ leaf.key_on_left /\ env.membership
    THEN Truth(Spells(leaf.listed, env.minor) # leaf.negate) ELSE leaf

EvaluateCompare(leaf, env) ==
    IF env.minor = NoMinor \/ leaf.key \in env.unreducible THEN leaf
    ELSE IF leaf.key = "python_version"
         THEN Truth(Satisfies(Minor(env.minor), LeafClause(leaf)))
    ELSE IF Probe(env.minor, LeafClause(leaf)) = {} THEN leaf
    ELSE CHOOSE t \in Probe(env.minor, LeafClause(leaf)) : TRUE

EvaluateString(leaf, env) ==
    IF leaf.key \in DOMAIN env.strings
    THEN Truth((env.strings[leaf.key] = leaf.value) = (leaf.op = "==")) ELSE leaf

(* What a leaf evaluates to, itself if that is not known. *)
EvaluateLeaf(leaf, env) ==
    CASE leaf.kind = "extra" -> Truth(leaf.name = env.extra)
      [] leaf.kind = "contains" -> EvaluateContains(leaf, env)
      [] leaf.kind = "compare" -> EvaluateCompare(leaf, env)
      [] leaf.kind = "string" -> EvaluateString(leaf, env)
      [] OTHER -> leaf

(* The partial evaluation; tighten_ranges only respells what is left. *)
Evaluate(marker, minor, subdir, extra, membership) ==
    LET env == [minor |-> minor, extra |-> extra, membership |-> membership,
                strings |-> StringsOf(subdir),
                unreducible |-> UnreducibleFullVersionKeys(marker)]
    IN  Modify(marker, [i \in DOMAIN marker.leaves |-> EvaluateLeaf(marker.leaves[i], env)])

(* _marker_keys *)
MarkerKeys(marker) ==
    {l.key : l \in {k \in Leaves(marker) : k.kind \in {"compare", "contains", "chain", "string"}}}

(* Bug: only the platform's keys are looked for. *)
ResidualErrorOfPlatform(residual, subdir) ==
    IF subdir = Noarch /\ MarkerKeys(residual) \cap ArchKeys # {} THEN "NeedsArchSplitError" ELSE "ok"

(* What conditional_dependency refuses to hand on. *)
ResidualError(residual, subdir) ==
    IF IsConstant(residual) THEN "ok"
    ELSE IF subdir = Noarch /\ MarkerKeys(residual) \cap ArchKeys # {} THEN "NeedsArchSplitError"
    ELSE IF ~(MarkerKeys(residual) \subseteq PermittedKeys) THEN "UnconvertableMarkerError"
    ELSE "ok"

-----------------------------------------------------------------------------
(* python_version_membership.py *)

IsPythonVersionIn(leaf) ==
    leaf.kind = "contains" /\ leaf.key = "python_version" /\ leaf.key_on_left /\ ~leaf.negate

IsPythonVersionNotIn(leaf) ==
    leaf.kind = "contains" /\ leaf.key = "python_version" /\ leaf.key_on_left /\ leaf.negate

Compare(key, op, literal) ==
    [kind |-> "compare", key |-> key, op |-> op, literal |-> literal, glob |-> FALSE]

Chain(op, minors) == [kind |-> "chain", key |-> "python_version", op |-> op, minors |-> minors]

(* The candidate minors spelt by the literal.                              *)
Candidates(listed, max_minor) == {m \in 0 .. max_minor : Spells(listed, m)}

(* Bug: the bound itself is left out of the candidates. *)
ExplodedChainShort(listed, max_minor) ==
    LET minors == Candidates(listed, max_minor - 1)
    IN  IF minors = {} THEN Truth(FALSE) ELSE Chain("==", minors)

(* _exploded_chain *)
ExplodedChain(listed, max_minor) ==
    LET minors == Candidates(listed, max_minor)
    IN  IF minors = {} THEN Truth(FALSE) ELSE Chain("==", minors)

(* _excluded_chain *)
ExcludedChain(listed, max_minor) ==
    LET minors == Candidates(listed, max_minor)
    IN  IF minors = {} THEN Truth(TRUE) ELSE Chain("!=", minors)

RewritePythonVersionIn(marker, max_minor) ==
    Modify(marker, [i \in DOMAIN marker.leaves |->
        IF IsPythonVersionIn(marker.leaves[i])
        THEN ExplodedChain(marker.leaves[i].listed, max_minor) ELSE marker.leaves[i]])

RewritePythonVersionNotIn(marker, max_minor) ==
    Modify(marker, [i \in DOMAIN marker.leaves |->
        IF IsPythonVersionNotIn(marker.leaves[i])
        THEN ExcludedChain(marker.leaves[i].listed, max_minor) ELSE marker.leaves[i]])

-----------------------------------------------------------------------------
(* marker_conversion.py.  A leaf is converted to an error, to sets of      *)
(* clauses on python of which one has to be met, or to a virtual package.  *)
(* A condition is a marker of such leaves.                                 *)

Never == [leaves |-> <<>>, terms |-> {}]

ConvertedToAny(sets) == [error |-> "ok", condition |-> [kind |-> "clauses", any |-> sets]]
Converted(clauses) == ConvertedToAny({clauses})
Unconvertable == [error |-> "UnconvertableMarkerError", condition |-> Never]
NeverEqual == [error |-> "UnconvertablePythonVersionEqualityError", condition |-> Never]

ThisMinor(version) == [release |-> <<Segment(version, 1), Segment(version, 2), 0>>, stage |-> Anchor]
NextMinor(version) ==
    [release |-> <<Segment(version, 1), Segment(version, 2) + 1, 0>>, stage |-> Anchor]

(* Bug: a trailing zero counts as precision. *)
IsExactAsWritten(version) == Len(version.release) <= 2

(* _parse_python_version_literal: plain, and no more precise than a minor. *)
IsPlain(leaf) == ~leaf.glob /\ leaf.literal.stage = Final
IsExact(version) == \A i \in 3 .. Len(version.release) : version.release[i] = 0

(* _python_version_condition *)
PythonVersionCondition(leaf) ==
    LET version == leaf.literal
        this == ThisMinor(version)
        next == NextMinor(version)
        edge == IF IsExact(version) THEN this ELSE next
        major_glob == leaf.glob /\ version.stage = Final /\ Len(version.release) = 1
    IN  IF leaf.op \in EqualityComparators /\ major_glob
        THEN Converted({IF leaf.op = "==" THEN Clause("=", version)
                        ELSE GlobClause("!=", version)})
        ELSE IF ~IsPlain(leaf) THEN Unconvertable
        ELSE IF leaf.op \in EqualityComparators /\ ~IsExact(version) THEN NeverEqual
        ELSE CASE leaf.op = "==" -> Converted({Clause(">=", this), Clause("<", next)})
               [] leaf.op = "!=" ->
                    Converted({GlobClause("!=",
                                 Release(<<Segment(version, 1), Segment(version, 2)>>))})
               [] leaf.op = ">=" -> Converted({Clause(">=", edge)})
               [] leaf.op = ">" -> Converted({Clause(">=", next)})
               [] leaf.op = "<=" -> Converted({Clause("<", next)})
               [] leaf.op = "<" -> Converted({Clause("<", edge)})
               [] OTHER -> Unconvertable

(* A chain's comparisons are joined as they were built. *)
ChainCondition(leaf) ==
    LET clauses(m) ==
            UNION PythonVersionCondition(Compare(leaf.key, leaf.op, Minor(m))).condition.any
    IN  IF leaf.op = "==" THEN ConvertedToAny({clauses(m) : m \in leaf.minors})
        ELSE Converted(UNION {clauses(m) : m \in leaf.minors})

(* _full_version_condition: comparisons pass through, a glob is respelt. *)
FullVersionCondition(leaf) ==
    CASE leaf.op \notin EqualityComparators \cup OrderedComparators -> Unconvertable
      [] leaf.op = "==" /\ leaf.glob -> Converted({Clause("=", leaf.literal)})
      [] OTHER -> Converted({LeafClause(leaf)})

VirtualPackages ==
    {<<"sys_platform", "linux", "__linux">>, <<"sys_platform", "darwin", "__osx">>,
     <<"sys_platform", "win32", "__win">>, <<"platform_system", "Linux", "__linux">>,
     <<"platform_system", "Darwin", "__osx">>, <<"platform_system", "Windows", "__win">>,
     <<"os_name", "posix", "__unix">>, <<"os_name", "nt", "__win">>}

(* Bug: any comparison becomes the virtual package. *)
VirtualPackageConditionOfAny(leaf) ==
    LET packages == {p \in VirtualPackages : p[1] = leaf.key /\ p[2] = leaf.value}
    IN  IF packages = {} THEN Unconvertable
        ELSE [error |-> "ok",
              condition |-> [kind |-> "virtual", package |-> (CHOOSE p \in packages : TRUE)[3]]]

(* _virtual_package_condition; a key the table lacks has no equivalent. *)
VirtualPackageCondition(leaf) ==
    LET packages == {p \in VirtualPackages : p[1] = leaf.key /\ p[2] = leaf.value}
    IN  IF leaf.op # "==" \/ packages = {} THEN Unconvertable
        ELSE [error |-> "ok",
              condition |-> [kind |-> "virtual", package |-> (CHOOSE p \in packages : TRUE)[3]]]

(* _compare_condition *)
LeafCondition(leaf) ==
    CASE leaf.kind = "contains" -> Unconvertable
      [] leaf.kind = "string" -> VirtualPackageCondition(leaf)
      [] leaf.kind = "chain" -> ChainCondition(leaf)
      [] leaf.kind = "compare" ->
            IF leaf.key = "python_version" THEN PythonVersionCondition(leaf)
            ELSE FullVersionCondition(leaf)

(* _condition: what is written first is converted first.                   *)
Condition(marker) ==
    LET conversion == [i \in DOMAIN marker.leaves |-> LeafCondition(marker.leaves[i])]
        failed == {i \in DOMAIN marker.leaves : conversion[i].error # "ok"}
    IN  IF failed # {} THEN conversion[Min(failed)]
        ELSE [error |-> "ok",
              condition |-> [leaves |-> [i \in DOMAIN marker.leaves |-> conversion[i].condition],
                             terms |-> marker.terms]]

(* marker_condition once its rewriting is done. *)
MarkerCondition(rewritten) == IF IsConstant(rewritten) THEN NeverEqual ELSE Condition(rewritten)
=============================================================================
