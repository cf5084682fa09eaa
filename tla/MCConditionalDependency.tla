------------------------ MODULE MCConditionalDependency ------------------------
(***************************************************************************)
(* Markers and Requires-Python values that reach every rule.               *)
(***************************************************************************)
EXTENDS ConditionalDependency

V(segments) == Release(segments)
Staged(segments, stage) == [release |-> segments, stage |-> stage]

MCPythons ==
    {V(<<3, m, p>>) : m \in {0, 1, 8, 9, 10, 13, 14, 15}, p \in 0 .. 2}
    \cup {Staged(<<3, m, 0>>, s) : m \in {9, 10, 13, 14}, s \in {Alpha, Candidate}}
    \cup {V(<<4, 0, 0>>)}

MCFeedMinors == {14, 15}

MCMaxMicro == 4

-----------------------------------------------------------------------------
(* Markers: of one leaf, or of two markers, the second one's leaves being  *)
(* numbered after the first's.                                             *)

Single(leaf) == [leaves |-> <<leaf>>, terms |-> {{1}}]

Tree(kind, a, b) ==
    LET right == {{Len(a.leaves) + i : i \in t} : t \in b.terms}
    IN  [leaves |-> a.leaves \o b.leaves,
         terms |-> IF kind = "or" THEN a.terms \cup right
                   ELSE {s \cup t : s \in a.terms, t \in right}]

Leaf(key, op, literal, glob) ==
    [kind |-> "compare", key |-> key, op |-> op, literal |-> literal, glob |-> glob]

Membership(key, negate, key_on_left, listed) ==
    [kind |-> "contains", key |-> key, negate |-> negate, key_on_left |-> key_on_left,
     listed |-> listed]

StringLeaf(key, op, value) ==
    [kind |-> "string", key |-> key, op |-> op, value |-> value]

Extra(name) == [kind |-> "extra", name |-> name]

Comparators == EqualityComparators \cup OrderedComparators

PlainLiterals ==
    {V(<<3>>), V(<<3, 9>>), V(<<3, 10>>), V(<<3, 9, 0>>), V(<<3, 9, 2>>), V(<<4>>), V(<<2, 7>>)}

VersionLeaves ==
    {Leaf("python_version", op, l, FALSE) : op \in Comparators, l \in PlainLiterals}
    \cup {Leaf("python_version", op, l, TRUE) : op \in EqualityComparators,
                                               l \in {V(<<3>>), V(<<3, 9>>)}}
    \cup {Leaf("python_version", ">=", Staged(<<3, 9>>, Candidate), FALSE),
          Leaf("python_version", "~=", V(<<3, 9>>), FALSE)}

FullVersionLeaves ==
    {Leaf("python_full_version", op, l, FALSE) :
        op \in Comparators,
        l \in {V(<<3, 9>>), V(<<3, 9, 1>>), V(<<3, 10, 0>>), Staged(<<3, 9, 0>>, Candidate)}}
    \cup {Leaf("python_full_version", op, l, TRUE) : op \in EqualityComparators,
                                                    l \in {V(<<3, 9>>), V(<<3, 9, 1>>)}}
    \cup {Leaf("python_full_version", op, V(<<3, 9, 1, 2>>), FALSE) : op \in OrderedComparators}
    \cup {Leaf("implementation_version", "~=", V(<<3, 9>>), FALSE)}

MembershipLeaves ==
    {Membership("python_version", negate, TRUE, listed) :
        negate \in BOOLEAN, listed \in {{}, {9}, {10}, {8, 9}, {14}, {15}}}
    \cup {Membership("python_version", FALSE, FALSE, {1}),
          Membership("python_full_version", TRUE, TRUE, {9})}

ForeignLeaf == StringLeaf("platform_release", "==", "5")

PlatformLeaves ==
    {StringLeaf("sys_platform", op, s) : op \in EqualityComparators,
                                         s \in {"linux", "darwin", "win32", "cygwin"}}
    \cup {StringLeaf("platform_system", "==", s) : s \in {"Linux", "Darwin", "Windows"}}
    \cup {StringLeaf("os_name", op, s) : op \in EqualityComparators, s \in {"posix", "nt"}}
    \cup {StringLeaf("platform_machine", "==", s) : s \in {"x86_64", "arm64"}}
    \cup {StringLeaf("implementation_name", "==", s) : s \in {"cpython", "pypy"}}
    \cup {ForeignLeaf}

SingleMarkers ==
    {Single(l) : l \in VersionLeaves \cup FullVersionLeaves \cup MembershipLeaves \cup PlatformLeaves}

(* Leaves of every kind to combine. *)
Operands ==
    {Leaf("python_version", "<", V(<<3, 10>>), FALSE),
     Leaf("python_version", ">", V(<<3, 8>>), FALSE),
     Leaf("python_version", "==", V(<<3, 9, 2>>), FALSE),
     Leaf("python_full_version", ">=", V(<<3, 9, 1>>), FALSE),
     Leaf("python_full_version", "!=", V(<<3, 9, 1>>), FALSE),
     Leaf("implementation_version", "<", V(<<3, 9, 2>>), FALSE),
     Membership("python_version", FALSE, TRUE, {9, 10}),
     Membership("python_version", TRUE, TRUE, {9, 15}),
     Membership("python_version", FALSE, TRUE, {}),
     StringLeaf("sys_platform", "==", "win32"),
     Extra("x")}

PairedMarkers ==
    {Tree(kind, Single(a), Single(b)) :
        kind \in {"and", "or"}, a \in Operands \cup {ForeignLeaf}, b \in Operands}

NestedMarkers ==
    {Tree(k1, Tree(k2, Single(a), Single(b)), Single(c)) :
        k1 \in {"and", "or"}, k2 \in {"and", "or"},
        a \in {Extra("x"), Leaf("python_full_version", ">", V(<<3, 9, 1>>), FALSE)},
        b \in {Leaf("python_version", "<=", V(<<3, 9>>), FALSE),
               Membership("python_version", FALSE, TRUE, {10})},
        c \in {Leaf("python_full_version", "==", V(<<3, 9, 0>>), FALSE),
               Membership("python_version", TRUE, TRUE, {15})}}

-----------------------------------------------------------------------------
(* Requires-Python values. *)

Specifiers(clauses) == [kind |-> "specifiers", clauses |-> clauses]
NoRequiresPython == [kind |-> "absent", clauses |-> {}]
Unparseable == [kind |-> "unparseable", clauses |-> {}]

Between(lower, upper) == Specifiers({Clause(">=", lower), Clause("<", upper)})

RangeLiterals == {V(<<3>>), V(<<3, 9>>), V(<<3, 9, 1>>), V(<<3, 10>>), V(<<3, 10, 0>>),
                  V(<<3, 13, 2>>), V(<<3, 9, 1, 2>>), V(<<4>>), Staged(<<3, 10, 0>>, Candidate),
                  Staged(<<3, 9, 0>>, Alpha), Staged(<<3, 10>>, Post)}

SimpleSpecifiers ==
    {Specifiers({Clause(op, l)}) : op \in {">=", "<", "<=", ">", "==", "!=", "==="},
                                   l \in RangeLiterals}
    \cup {Specifiers({Clause("~=", l)}) : l \in {k \in RangeLiterals : Len(k.release) > 1}}
    \cup {Specifiers({GlobClause(op, l)}) :
            op \in {"==", "!="}, l \in {V(<<3>>), V(<<2>>), V(<<3, 9>>), V(<<3, 9, 1>>)}}
    \cup {Between(a, b) : a \in RangeLiterals, b \in RangeLiterals}

CompoundSpecifiers ==
    {Specifiers({}),
     Specifiers({Clause(">=", V(<<3, 8>>)), Clause("!=", V(<<3, 9, 1>>))}),
     Specifiers({Clause(">=", V(<<3, 8>>)), GlobClause("!=", V(<<3, 9>>)), Clause("<", V(<<4>>))}),
     Specifiers({Clause("==", V(<<3, 9>>)), Clause("!=", V(<<3, 9, 1>>))}),
     Specifiers({Clause("==", Staged(<<3, 9>>, Local))})}

-----------------------------------------------------------------------------

Requirement(minor, exact) == [minor |-> minor, exact |-> exact]

Wheel(requirement, requires, marker, extra, allow_pre, upper) ==
    [requirement |-> requirement, requires_python |-> requires, subdir |-> Noarch, marker |-> marker,
     extra |-> extra, allow_pre |-> allow_pre, upper_bound |-> upper]

(* Every marker, for a wheel of no particular minor and for two that are   *)
(* pinned, one of them above the bound; some with extras and a feed.       *)
MarkerWheels ==
    {Wheel(r, NoRequiresPython, m, "", FALSE, 14) :
        r \in {Requirement(0, FALSE), Requirement(9, TRUE), Requirement(15, TRUE)},
        m \in SingleMarkers \cup PairedMarkers \cup NestedMarkers}
    \cup {Wheel(Requirement(0, FALSE), Between(V(<<3, 9, 1>>), V(<<3, 9, 2>>)), m, "x", FALSE,
                NoMinor) :
            m \in {Single(l) : l \in MembershipLeaves} \cup NestedMarkers}
    \cup {Wheel(Requirement(8, FALSE), NoRequiresPython, m, "x", FALSE, NoMinor) :
            m \in PairedMarkers \cup NestedMarkers}

(* Markers with a platform, for records of one. *)
PlatformWheels ==
    {[Wheel(r, NoRequiresPython, m, "x", FALSE, 14) EXCEPT !.subdir = s] :
        r \in {Requirement(8, FALSE), Requirement(9, TRUE)}, s \in {"linux-64", "osx-arm64", "win-64"},
        m \in {Single(l) : l \in PlatformLeaves}
              \cup {Tree(kind, Single(StringLeaf("sys_platform", "==", "win32")), Single(b)) :
                        kind \in {"and", "or"}, b \in Operands}}

(* Every Requires-Python, with a marker that a known minor decides. *)
RangeWheels ==
    {Wheel(r, requires, Single(Leaf("python_version", "<", V(<<3, 10>>), FALSE)), "", allow_pre, 14) :
        r \in {Requirement(0, FALSE), Requirement(9, FALSE), Requirement(9, TRUE),
               Requirement(13, TRUE)},
        requires \in {NoRequiresPython, Unparseable} \cup SimpleSpecifiers \cup CompoundSpecifiers,
        allow_pre \in BOOLEAN}

MCWheels == MarkerWheels \cup PlatformWheels \cup RangeWheels

(* A bound with a fourth segment. *)
FineBoundWheels ==
    {Wheel(Requirement(13, FALSE), Between(V(<<3, 13>>), u), Single(Extra("")), "", FALSE, 14) :
        u \in {V(<<3, 14>>), V(<<3, 14, 0, 1>>)}}
    \cup {Wheel(Requirement(m, FALSE), NoRequiresPython, Single(Extra("")), "", FALSE, 14) : m \in 0 .. 15}
=============================================================================
