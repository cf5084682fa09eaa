------------------------------ MODULE PythonRange ------------------------------
(***************************************************************************)
(* The python dependency of a wheel: whether its Requires-Python is one    *)
(* range of minors (minor_range), the range its filename implies combined  *)
(* with it (python_version_dependency), the minor that range fixes         *)
(* (exact_minor), and its conversion to a MatchSpec                        *)
(* (specifier_to_matchspec).                                               *)
(*                                                                         *)
(* A requirement is what the filename implies: a minor, exact or a floor.  *)
(* Requires-Python is absent, unparseable, or a set of clauses.            *)
(***************************************************************************)
EXTENDS PythonVersions, MinorRange, FiniteSets, SequencesExt

NoMinor == -1

Minor(m) == Release(<<3, m>>)

(* The None of a HalfOpenRange. *)
Unbounded == [release |-> <<>>, stage |-> Final]

HalfOpen(lower, upper) == [lower |-> lower, upper |-> upper]

-----------------------------------------------------------------------------
(* python_requirement.py *)

(* _probe_micros: both sides of every bound inside the minor. *)
ProbeMicros(clauses, minor) ==
    LET anchors == {c.version : c \in {k \in clauses : /\ Len(k.version.release) > 1
                                                      /\ StartsWith(k.version, Minor(minor))}}
    IN  {0} \cup UNION {{Segment(v, 3) + d : d \in {-1, 0, 1}} \cap Nat : v \in anchors}

(* Bug: only the minor's first release is probed. *)
MinorIsSatisfiedAtZero(clauses, minor) == SatisfiesAll(Release(<<3, minor, 0>>), clauses)

MinorIsSatisfied(clauses, minor) ==
    \E p \in ProbeMicros(clauses, minor) : SatisfiesAll(Release(<<3, minor, p>>), clauses)

(* WheelMetadata's validator; minor_range raises the second error. *)
RequiresPythonError(requires) ==
    CASE requires.kind = "unparseable" -> "InvalidVersionSpecifierError"
      [] requires.kind = "specifiers" /\
            ~Contiguous({m \in 0 .. MinorScanCeiling - 1 : MinorIsSatisfied(requires.clauses, m)})
            -> "InvalidPythonRequirementRangeError"
      [] OTHER -> "ok"

-----------------------------------------------------------------------------
(* python_version_dependency.py.  A range that may be None is a set of at  *)
(* most one range.                                                         *)

FilenameRange(requirement) ==
    HalfOpen(Minor(requirement.minor),
             IF requirement.exact THEN Minor(requirement.minor + 1) ELSE Unbounded)

FilenameGenericSpecifier(requirement) ==
    Clause(IF requirement.exact THEN "~=" ELSE ">=", Minor(requirement.minor))

BumpLast(segments) == [segments EXCEPT ![Len(segments)] = @ + 1]

(* Bug: the last segment itself is incremented, none is dropped. *)
CompatibleReleaseRangeAll(version) == HalfOpen(version, Release(BumpLast(version.release)))

CompatibleReleaseRange(version) == HalfOpen(version, Release(BumpLast(Front(version.release))))

(* 3.* is [3, None); 3.11 and 3.11.* are [3.11, 3.12); others are generic. *)
EqualityRange(clause) ==
    LET version == clause.version
    IN  IF version.stage # Final THEN {}
        ELSE IF clause.glob /\ Len(version.release) = 1 THEN {HalfOpen(version, Unbounded)}
        ELSE IF Len(version.release) = 2
             THEN {HalfOpen(version, Release(BumpLast(version.release)))}
        ELSE {}

SingleClauseRange(clause) ==
    CASE clause.op = ">=" -> {HalfOpen(clause.version, Unbounded)}
      [] clause.op = "<" -> {HalfOpen(Unbounded, clause.version)}
      [] clause.op = "~=" -> {CompatibleReleaseRange(clause.version)}
      [] clause.op = "==" -> EqualityRange(clause)
      [] OTHER -> {}

SimplifiedRange(clauses) ==
    CASE Cardinality(clauses) = 1 -> UNION {SingleClauseRange(c) : c \in clauses}
      [] Cardinality(clauses) = 2 /\ {c.op : c \in clauses} = {"<", ">="} ->
            {HalfOpen(a.version, b.version) :
                a \in {c \in clauses : c.op = ">="}, b \in {c \in clauses : c.op = "<"}}
      [] OTHER -> {}

TighterLower(a, b) == IF a = Unbounded \/ (b # Unbounded /\ Rank(b) > Rank(a)) THEN b ELSE a
TighterUpper(a, b) == IF a = Unbounded \/ (b # Unbounded /\ Rank(b) < Rank(a)) THEN b ELSE a

Combine(a, b) == HalfOpen(TighterLower(a.lower, b.lower), TighterUpper(a.upper, b.upper))

(* Bug: an empty range whose bounds are equal passes. *)
DisjointStrictly(range) == range.upper # Unbounded /\ Rank(range.lower) > Rank(range.upper)

Disjoint(range) == range.upper # Unbounded /\ Rank(range.lower) >= Rank(range.upper)

(* The HalfOpenRange python_version_dependency returns, or {} where it     *)
(* returns a specifier.                                                    *)
CombinedRange(requirement, requires) ==
    IF requires.kind = "absent" THEN {FilenameRange(requirement)}
    ELSE {Combine(FilenameRange(requirement), r) : r \in SimplifiedRange(requires.clauses)}

(* The same as a specifier: _range_specifier, or _generic_combine.         *)
CombinedSpecifier(requirement, requires) ==
    IF CombinedRange(requirement, requires) = {}
    THEN {FilenameGenericSpecifier(requirement)} \cup requires.clauses
    ELSE UNION {{Clause(">=", r.lower)} \cup
                (IF r.upper = Unbounded THEN {} ELSE {Clause("<", r.upper)}) :
                    r \in CombinedRange(requirement, requires)}

RangeError(requirement, requires) ==
    IF \E r \in CombinedRange(requirement, requires) : Disjoint(r)
    THEN "PythonRangeMismatchError"
    ELSE "ok"

-----------------------------------------------------------------------------
(* python.py *)

(* _range_exact_minor: both bounds in one minor, or the upper one on the   *)
(* next minor's .0.  Segments after the third are not looked at.           *)
FixesMinor(range) ==
    LET lower == range.lower
        upper == range.upper
    IN  /\ upper # Unbounded
        /\ Segment(lower, 1) = 3 /\ Segment(upper, 1) = 3
        /\ \/ Segment(upper, 2) = Segment(lower, 2)
           \/ /\ Segment(upper, 2) = Segment(lower, 2) + 1
              /\ Segment(upper, 3) = 0
              /\ ~IsPrerelease(upper) /\ upper.stage # Post

(* exact_minor *)
ExactMinor(requirement, requires) ==
    LET fixed == {Segment(r.lower, 2) :
                    r \in {s \in CombinedRange(requirement, requires) : FixesMinor(s)}}
    IN  IF fixed = {} THEN NoMinor ELSE CHOOSE m \in fixed : TRUE

-----------------------------------------------------------------------------
(* matchspec_specifier.py.  The order of the clauses is a matter of        *)
(* spelling.                                                               *)

(* _reject_unsupported_version; a glob's prefix is not looked at. *)
Unsupported(clause, allow_pre) ==
    /\ ~clause.glob
    /\ clause.version.stage = Local \/ (IsPrerelease(clause.version) /\ ~allow_pre)

(* The "a0" glued to a bound; glued to a post-release it stays above the   *)
(* release itself.                                                         *)
Anchored(version) == IF version.stage = Post THEN version ELSE [version EXCEPT !.stage = Anchor]

(* _convert_specifier.  ">V" also excludes V's post-releases; no Python is *)
(* one.                                                                    *)
ConvertSpecifier(clause) ==
    LET version == clause.version
    IN  CASE clause.op = "~=" ->
                {Clause(">=", version),
                 Clause("<", Anchored(Release(BumpLast(Front(version.release)))))}
          [] clause.op = "==" /\ clause.glob -> {Clause("=", version)}
          [] clause.op = "<" /\ ~IsPrerelease(version) -> {Clause("<", Anchored(version))}
          [] clause.op = "===" -> {Clause("==", version)}
          [] OTHER -> {clause}

SpecifierToMatchspec(clauses) == UNION {ConvertSpecifier(c) : c \in clauses}

(* _range_matchspec *)
PythonMatchSpec(requirement, requires) ==
    SpecifierToMatchspec(CombinedSpecifier(requirement, requires))

PythonMatchSpecError(requirement, requires, allow_pre) ==
    IF \E c \in CombinedSpecifier(requirement, requires) : Unsupported(c, allow_pre)
    THEN "UnconvertableRequirementError" ELSE "ok"
=============================================================================
