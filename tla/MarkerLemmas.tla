------------------------------ MODULE MarkerLemmas ------------------------------
(***************************************************************************)
(* Facts about markers: what simplification keeps, and that each leaf is   *)
(* evaluated, rewritten and converted to what it says.                     *)
(***************************************************************************)
EXTENDS PythonRangeLemmas

(* A tree whose leaves are the positions of its terms. *)
Formed(m) ==
    /\ DOMAIN m.leaves \in SUBSET Nat /\ IsFiniteSet(DOMAIN m.leaves)
    /\ UNION m.terms = DOMAIN m.leaves
    /\ SmallestOf(m.terms) = m.terms

(* Every finite term includes one of the smallest. *)
LEMMA MinimalTerm ==
    ASSUME NEW S, \A t \in S : IsFiniteSet(t), NEW s \in S
    PROVE  \E t \in SmallestOf(S) : t \subseteq s
<1> DEFINE N == {Cardinality(t) : t \in {u \in S : u \subseteq s}}
<1>1. N \in SUBSET Nat /\ N # {}
  <2>1. Cardinality(s) \in N
    OBVIOUS
  <2> QED
    BY <2>1, FS_CardinalityType
<1>2. PICK n \in N : \A k \in N : n <= k
  BY <1>1, LeastNatural
<1>3. PICK t \in S : t \subseteq s /\ Cardinality(t) = n
  BY <1>2
<1>4. ASSUME NEW r \in S, r \subseteq t PROVE r = t
  <2>1. Cardinality(r) \in N
    BY <1>3, <1>4
  <2>2. n <= Cardinality(r) /\ Cardinality(r) \in Nat /\ Cardinality(t) \in Nat
    BY <1>2, <2>1, FS_CardinalityType
  <2>3. Cardinality(r) <= Cardinality(t)
    BY <1>4, FS_Subset
  <2>4. Cardinality(r) = Cardinality(t)
    BY <1>3, <2>2, <2>3
  <2> QED
    BY <1>4, <2>4, FS_Subset
<1> QED
  BY <1>3, <1>4 DEF SmallestOf

LEMMA SmallestAgain ==
    ASSUME NEW S
    PROVE  /\ SmallestOf(S) \subseteq S
           /\ SmallestOf(SmallestOf(S)) = SmallestOf(S)
  BY DEF SmallestOf

Says(terms, holding) == \E t \in terms : t \subseteq holding

(* The leaves of is hold once each has become its image, and those of was  *)
(* held before.                                                            *)
Keeps(m, image, was, is) ==
    \A i \in DOMAIN m.leaves :
        /\ image[i].kind = "true" => i \in was
        /\ image[i].kind = "false" => i \notin was
        /\ image[i].kind \notin {"true", "false"} => (i \in is <=> i \in was)

(* A simplified tree says what the tree said, where the leaves that became *)
(* true were, those that became false were not, and the others say what    *)
(* they said.                                                              *)
LEMMA ModifyMeaning ==
    ASSUME NEW m, Formed(m), NEW image, NEW was, NEW is, Keeps(m, image, was, is)
    PROVE  Says(m.terms, was) <=> Says(Modify(m, image).terms, is)
<1> USE DEF Says, Keeps
<1> DEFINE open == OpenTerms(m, image)
<1>1. Modify(m, image).terms = SmallestOf(open)
  BY DEF Modify
<1>2. \A t \in m.terms : t \subseteq DOMAIN m.leaves /\ IsFiniteSet(t)
  BY FS_Subset DEF Formed
<1>3. \A t \in open : \E s \in m.terms :
        t = {i \in s : image[i].kind # "true"} /\ \A i \in s : image[i].kind # "false"
  BY DEF OpenTerms
<1>4. \A t \in open : IsFiniteSet(t)
  BY <1>2, <1>3, FS_Subset
<1>5. ASSUME NEW s \in m.terms, s \subseteq was
      PROVE  \E t \in SmallestOf(open) : t \subseteq is
  <2> DEFINE u == {i \in s : image[i].kind # "true"}
  <2>1. \A i \in s : image[i].kind # "false"
    BY <1>2, <1>5
  <2>2. u \in open
    BY <2>1 DEF OpenTerms
  <2>3. PICK t \in SmallestOf(open) : t \subseteq u
    BY <1>4, <2>2, MinimalTerm
  <2>4. u \subseteq is
    BY <1>2, <1>5, <2>1
  <2> QED
    BY <2>3, <2>4
<1>6. ASSUME NEW t \in SmallestOf(open), t \subseteq is
      PROVE  \E s \in m.terms : s \subseteq was
  <2>1. PICK s \in m.terms :
            t = {i \in s : image[i].kind # "true"} /\ \A i \in s : image[i].kind # "false"
    BY <1>3, SmallestAgain
  <2>2. s \subseteq was
    BY <1>2, <1>6, <2>1
  <2> QED
    BY <2>2
<1> QED
  BY <1>1, <1>5, <1>6

(* A simplified tree is one, its leaves are the images at their positions, *)
(* and none of them is true or false.                                      *)
LEMMA ModifyFormed ==
    ASSUME NEW m, Formed(m), NEW image
    PROVE  LET n == Modify(m, image)
           IN  /\ Formed(n) /\ DOMAIN n.leaves \subseteq DOMAIN m.leaves
               /\ \A i \in DOMAIN n.leaves :
                    n.leaves[i] = image[i] /\ image[i].kind \notin {"true", "false"}
<1> DEFINE open == OpenTerms(m, image)
           n == Modify(m, image)
<1>1. /\ n.terms = SmallestOf(open)
      /\ DOMAIN n.leaves = UNION SmallestOf(open)
      /\ \A i \in DOMAIN n.leaves : n.leaves[i] = image[i]
  BY DEF Modify
<1>2. \A t \in open : \E s \in m.terms :
        t = {i \in s : image[i].kind # "true"} /\ \A i \in s : image[i].kind # "false"
  BY DEF OpenTerms
<1>3. \A i \in DOMAIN n.leaves : i \in DOMAIN m.leaves /\ image[i].kind \notin {"true", "false"}
  <2> SUFFICES ASSUME NEW i \in UNION SmallestOf(open)
               PROVE  i \in DOMAIN m.leaves /\ image[i].kind \notin {"true", "false"}
    BY <1>1
  <2>1. PICK t \in open : i \in t
    BY SmallestAgain
  <2>2. PICK s \in m.terms :
            t = {j \in s : image[j].kind # "true"} /\ \A j \in s : image[j].kind # "false"
    BY <1>2
  <2> QED
    BY <2>1, <2>2 DEF Formed
<1>4. IsFiniteSet(DOMAIN n.leaves) /\ DOMAIN n.leaves \in SUBSET Nat
  BY <1>3, FS_Subset DEF Formed
<1> HIDE DEF n
<1>5. Formed(n)
  BY <1>1, <1>4, SmallestAgain DEF Formed
<1> QED
  BY <1>1, <1>3, <1>5 DEF n

(* A tree becomes a constant only if a leaf of it does. *)
LEMMA ModifyConstant ==
    ASSUME NEW m, Formed(m), NEW image, ~IsConstant(m), IsConstant(Modify(m, image))
    PROVE  \E i \in DOMAIN m.leaves : image[i].kind \in {"true", "false"}
<1> SUFFICES ASSUME \A i \in DOMAIN m.leaves : image[i].kind \notin {"true", "false"}
             PROVE  FALSE
  OBVIOUS
<1>1. \A t \in m.terms : t \subseteq DOMAIN m.leaves
  BY DEF Formed
<1>2. \A t \in m.terms : {i \in t : image[i].kind # "true"} = t
  BY <1>1
<1>3. {s \in m.terms : \A i \in s : image[i].kind # "false"} = m.terms
  BY <1>1
<1>4. OpenTerms(m, image) = m.terms
  <2>1. OpenTerms(m, image) = {{i \in t : image[i].kind # "true"} : t \in m.terms}
    BY <1>3 DEF OpenTerms
  <2>2. {{i \in t : image[i].kind # "true"} : t \in m.terms} = {t : t \in m.terms}
    BY <1>2, Zenon
  <2> QED
    BY <2>1, <2>2
<1>5. Modify(m, image).terms = m.terms
  BY <1>4 DEF Modify, Formed
<1> QED
  BY <1>5 DEF IsConstant, AlwaysTrue, AlwaysFalse

(* A constant tree has no leaves; one that is true has the empty term. *)
LEMMA ConstantsAreBare ==
    ASSUME NEW m, Formed(m), IsConstant(m)
    PROVE  /\ DOMAIN m.leaves = {}
           /\ AlwaysTrue(m) => m.terms = {{}}
<1>1. CASE AlwaysFalse(m)
  BY <1>1 DEF Formed, AlwaysFalse, AlwaysTrue
<1>2. CASE AlwaysTrue(m)
  <2>1. {} \in m.terms /\ \A t \in m.terms : {} \subseteq t => {} = t
    BY <1>2 DEF Formed, SmallestOf, AlwaysTrue
  <2>2. m.terms = {{}}
    BY <2>1
  <2> QED
    BY <2>2 DEF Formed
<1> QED
  BY <1>1, <1>2 DEF IsConstant

LEMMA MarkersFormed ==
    ASSUME NEW m \in Markers
    PROVE  /\ Formed(m) /\ ~IsConstant(m)
           /\ \A i \in DOMAIN m.leaves :
                m.leaves[i] \in CompareLeaves \cup ContainsLeaves \cup StringLeaves \cup ExtraLeaves
<1> DEFINE L == CompareLeaves \cup ContainsLeaves \cup StringLeaves \cup ExtraLeaves
<1> HIDE DEF L
<1>1. /\ m.leaves \in Seq(L) /\ UNION m.terms = DOMAIN m.leaves
      /\ SmallestOf(m.terms) = m.terms /\ ~IsConstant(m)
  BY DEF Markers, L
<1>2. Len(m.leaves) \in Nat /\ DOMAIN m.leaves = 1 .. Len(m.leaves)
      /\ \A i \in 1 .. Len(m.leaves) : m.leaves[i] \in L
  BY <1>1, ElementOfSeq, LenProperties
<1>3. IsFiniteSet(DOMAIN m.leaves) /\ DOMAIN m.leaves \in SUBSET Nat
  BY <1>2, FS_Interval
<1> QED
  BY <1>1, <1>2, <1>3 DEF Formed, L

-----------------------------------------------------------------------------

(* What a leaf says of a Python and a platform, once membership tests may  *)
(* have become chains.                                                     *)
LeafMeans(leaf, v, subdir, extra) ==
    IF leaf.kind = "chain"
    THEN (v.release[1] = 3 /\ v.release[2] \in leaf.minors) <=> leaf.op = "=="
    ELSE LeafHolds(leaf, v, subdir, extra)

MarkerLeaves == CompareLeaves \cup ContainsLeaves \cup StringLeaves \cup ExtraLeaves

LEMMA LeafShape ==
    ASSUME NEW l \in MarkerLeaves
    PROVE  /\ l.kind \in {"compare", "contains", "string", "extra"}
           /\ l.kind = "compare" =>
                /\ l.key \in VersionKeys /\ l.op \in SpecifierOperators \ {"==="}
                /\ l.literal \in Versions /\ l.glob \in BOOLEAN
                /\ LeafClause(l) \in ClausesOf(SpecifierOperators)
           /\ l.kind = "contains" =>
                /\ l.key \in VersionKeys /\ l.negate \in BOOLEAN
                /\ l.key_on_left \in BOOLEAN /\ l.listed \in SUBSET Nat
           /\ l.kind = "string" => l.key \in STRING \ VersionKeys /\ l.op \in EqualityComparators
<1>1. CASE l \in CompareLeaves
  BY <1>1 DEF CompareLeaves
<1>2. CASE l \in ContainsLeaves
  BY <1>2 DEF ContainsLeaves
<1>3. CASE l \in StringLeaves
  BY <1>3 DEF StringLeaves
<1>4. CASE l \in ExtraLeaves
  BY <1>4 DEF ExtraLeaves
<1> QED
  BY <1>1, <1>2, <1>3, <1>4 DEF MarkerLeaves

(* What the documents say of each kind of leaf. *)
LEMMA HoldsOf ==
    ASSUME NEW l, NEW v, NEW s, NEW extra
    PROVE  /\ l.kind = "extra" => (LeafHolds(l, v, s, extra) <=> l.name = extra)
           /\ l.kind = "compare" =>
                (LeafHolds(l, v, s, extra) <=> Satisfies(VersionOf(l, v), LeafClause(l)))
           /\ l.kind = "contains" /\ l.key_on_left =>
                (LeafHolds(l, v, s, extra)
                    <=> (v.release[1] = 3 /\ Spells(l.listed, v.release[2])) # l.negate)
           /\ l.kind = "string" /\ l.key \in DOMAIN StringsOf(s) =>
                (LeafHolds(l, v, s, extra)
                    <=> (StringsOf(s)[l.key] = l.value) = (l.op = "=="))
  BY DEF LeafHolds

LEMMA TruthKinds ==
    ASSUME NEW b
    PROVE  /\ Truth(b).kind \in {"true", "false"}
           /\ Truth(b).kind = "true" <=> b
           /\ Truth(b).kind = "false" <=> ~b
  BY DEF Truth

(* The strings known for a target are those of each platform it is for. *)
LEMMA StringsKnown ==
    ASSUME NEW t \in Subdirs \cup {Noarch}, NEW s \in Subdirs, t = Noarch \/ t = s,
           NEW key \in DOMAIN StringsOf(t)
    PROVE  key \in DOMAIN StringsOf(s) /\ StringsOf(s)[key] = StringsOf(t)[key]
<1>1. CASE t = s
  BY <1>1
<1>2. CASE t = Noarch
  <2>1. key \in {"platform_python_implementation", "implementation_name"}
    BY <1>2 DEF StringsOf, Noarch
  <2> DEFINE python == [platform_python_implementation |-> "CPython",
                        implementation_name |-> "cpython"]
  <2>2. s # Noarch /\ key \notin ArchKeys
    BY <2>1 DEF Noarch, ArchKeys, Subdirs
  <2>3. key \in DOMAIN python
    BY <2>1
  <2> HIDE DEF python
  <2>4. StringsOf(t) = python
    BY <1>2 DEF StringsOf, python
  <2>5. StringsOf(s) = [k \in DOMAIN python \cup ArchKeys |->
                            IF k \in ArchKeys THEN SubdirPlatform[s][k] ELSE python[k]]
    BY <2>2 DEF StringsOf, python
  <2> QED
    BY <2>2, <2>3, <2>4, <2>5
<1> QED
  BY <1>1, <1>2

-----------------------------------------------------------------------------

(* Between the first and the last release of a minor nothing is refused    *)
(* that both satisfy, and nothing satisfied that both refuse.              *)
LEMMA ProbeAgrees ==
    ASSUME NEW c \in ClausesOf(SpecifierOperators), c.op \in OrderedComparators \cup {"~="},
           c.op = "~=" => Len(c.version.release) <= 3,
           NEW m \in Nat, m <= 198, NEW p \in Nat, p <= 100
    PROVE  LET sat(q) == Satisfies(Release(<<3, m, q>>), c)
           IN  (sat(0) <=> sat(100)) => (sat(p) <=> sat(0))
<1> DEFINE b == c.version
           a == Release(<<3, m, 0>>)
           v == Release(<<3, m, p>>)
           z == Release(<<3, m, 100>>)
<1>1. /\ Comparable(a) /\ a.stage = Final /\ Segment(a, 1) = 3 /\ Segment(a, 2) = m
      /\ Segment(a, 3) = 0 /\ Segment(a, 4) = 0
  BY ReleaseShape
<1>2. /\ Comparable(v) /\ v.stage = Final /\ Segment(v, 1) = 3 /\ Segment(v, 2) = m
      /\ Segment(v, 3) = p /\ Segment(v, 4) = 0
  BY ReleaseShape
<1>3. /\ Comparable(z) /\ z.stage = Final /\ Segment(z, 1) = 3 /\ Segment(z, 2) = m
      /\ Segment(z, 3) = 100 /\ Segment(z, 4) = 0
  BY ReleaseShape
<1>4. b \in Versions /\ Comparable(b) /\ Len(b.release) \in 1 .. 4
  BY VersionShape DEF ClausesOf
<1> SUFFICES (Satisfies(a, c) <=> Satisfies(z, c)) => (Satisfies(v, c) <=> Satisfies(a, c))
  OBVIOUS
<1> HIDE DEF a, v, z, b
<1>5. /\ Rank(a) \in Int /\ Rank(v) \in Int /\ Rank(z) \in Int /\ Rank(b) \in Int
      /\ Rank(a) <= Rank(v) /\ Rank(v) <= Rank(z)
  <2>1. SegmentsBelow(a, v) \/ SameSegments(a, v)
    BY <1>1, <1>2 DEF SegmentsBelow, SameSegments
  <2>2. SegmentsBelow(v, z) \/ SameSegments(v, z)
    BY <1>2, <1>3 DEF SegmentsBelow, SameSegments
  <2>3. /\ Rank(a) \in Int /\ Rank(v) \in Int
        /\ Rank(a) < Rank(v) \/ Rank(a) = Rank(v)
    BY <1>1, <1>2, <2>1, StageLast
  <2>4. /\ Rank(z) \in Int
        /\ Rank(v) < Rank(z) \/ Rank(v) = Rank(z)
    BY <1>2, <1>3, <2>2, StageLast
  <2>5. Rank(b) \in Int
    BY <1>1, <1>4, StageLast
  <2> QED
    BY <2>3, <2>4, <2>5
<1>6. CASE c.op \in OrderedComparators
  <2>1. \A x \in {a, v, z} :
            /\ c.op = ">=" => (Satisfies(x, c) <=> Rank(x) >= Rank(b))
            /\ c.op = ">" => (Satisfies(x, c) <=> Rank(x) > Rank(b))
            /\ c.op = "<=" => (Satisfies(x, c) <=> Rank(x) <= Rank(b))
            /\ c.op = "<" => (Satisfies(x, c) <=> Rank(x) < Rank(b))
    BY <1>1, <1>2, <1>3, SatisfiesOf DEF b
  <2>2. c.op \in {">=", ">", "<=", "<"}
    BY <1>6 DEF OrderedComparators
  <2>3. CASE c.op = ">="
    BY <1>5, <2>1, <2>3
  <2>4. CASE c.op = ">"
    BY <1>5, <2>1, <2>4
  <2>5. CASE c.op = "<="
    BY <1>5, <2>1, <2>5
  <2>6. CASE c.op = "<"
    BY <1>5, <2>1, <2>6
  <2> QED
    BY <2>2, <2>3, <2>4, <2>5, <2>6
<1>7. CASE c.op = "~="
  <2> DEFINE prefix(x) == \A i \in 1 .. Len(b.release) - 1 : Segment(x, i) = b.release[i]
  <2>1. \A x \in {a, v, z} : Satisfies(x, c) <=> Rank(x) >= Rank(b) /\ prefix(x)
    BY <1>7, SatisfiesOf DEF b
  <2>2. \A i \in 1 .. Len(b.release) - 1 : i \in {1, 2}
    <3>1. Len(b.release) <= 3
      BY <1>7 DEF b
    <3>2. \A n \in 1 .. 4 : n <= 3 => \A i \in 1 .. n - 1 : i \in {1, 2}
      OBVIOUS
    <3> QED
      BY <1>4, <3>1, <3>2, Zenon
  <2>3. (prefix(a) <=> prefix(v)) /\ (prefix(z) <=> prefix(v))
    BY <1>1, <1>2, <1>3, <2>2
  <2> HIDE DEF prefix
  <2> QED
    BY <1>5, <2>1, <2>3
<1> QED
  BY <1>6, <1>7

(* A key that is not unreducible is compared by order. *)
LEMMA ReducibleIsOrdered ==
    ASSUME NEW m, NEW l \in Leaves(m), l \in MarkerLeaves, l.kind = "compare",
           l.key \in FullVersionKeys, l.key \notin UnreducibleFullVersionKeys(m)
    PROVE  l.op \in OrderedComparators \cup {"~="}
<1>1. l.op \notin EqualityComparators
  BY DEF UnreducibleFullVersionKeys
<1> QED
  BY <1>1, LeafShape DEF SpecifierOperators

LEMMA ProbeCases ==
    ASSUME NEW m, NEW c
    PROVE  \/ Probe(m, c) = {}
           \/ /\ Satisfies(Release(<<3, m, 0>>), c) <=> Satisfies(Release(<<3, m, 100>>), c)
              /\ Probe(m, c) = {Truth(Satisfies(Release(<<3, m, 0>>), c))}
  BY DEF Probe

(* A leaf evaluated for a target is true or false only where it holds, or  *)
(* does not, on every Python and platform of the target.                   *)
LEMMA EvaluatedLeaf ==
    ASSUME NEW w \in Wheels, NEW i \in DOMAIN w.marker.leaves, NEW v \in Pythons,
           NEW s \in Subdirs, w.subdir = Noarch \/ w.subdir = s,
           IsPrerelease(v) => ~AsksFullVersion(w.marker), ~FinerThanReleases(w),
           NEW minor, minor = NoMinor \/ (v.release[1] = 3 /\ v.release[2] = minor),
           NEW membership \in BOOLEAN, NEW env,
           env = [minor |-> minor, extra |-> w.extra, membership |-> membership,
                  strings |-> StringsOf(w.subdir),
                  unreducible |-> UnreducibleFullVersionKeys(w.marker)]
    PROVE  LET l == w.marker.leaves[i]
               image == EvaluateLeaf(l, env)
           IN  /\ image.kind = "true" => LeafHolds(l, v, s, w.extra)
               /\ image.kind = "false" => ~LeafHolds(l, v, s, w.extra)
               /\ image.kind \notin {"true", "false"} => image = l
<1> DEFINE l == w.marker.leaves[i]
           image == EvaluateLeaf(l, env)
           holds == LeafHolds(l, v, s, w.extra)
<1>1. l \in MarkerLeaves /\ l \in Leaves(w.marker)
  BY WheelShape, MarkersFormed DEF MarkerLeaves, Leaves, Range
<1>2. l.kind \in {"compare", "contains", "string", "extra"}
  BY <1>1, LeafShape
<1>3. SUFFICES image = l \/ \E b : image = Truth(b) /\ (b <=> holds)
  BY <1>2, TruthKinds
<1> HIDE DEF l
<1>4. CASE l.kind = "extra"
  <2>1. image = Truth(l.name = w.extra)
    BY <1>4 DEF EvaluateLeaf
  <2>2. holds <=> l.name = w.extra
    BY <1>4, HoldsOf
  <2> QED
    BY <2>1, <2>2
<1>5. CASE l.kind = "contains"
  <2>1. image = EvaluateContains(l, env)
    BY <1>5 DEF EvaluateLeaf
  <2>2. image = l \/ (/\ l.key_on_left /\ minor # NoMinor
                      /\ image = Truth(Spells(l.listed, minor) # l.negate))
    BY <2>1 DEF EvaluateContains
  <2>3. l.key_on_left /\ minor # NoMinor =>
            (holds <=> Spells(l.listed, minor) # l.negate)
    <3>1. l.negate \in BOOLEAN
      BY <1>1, <1>5, LeafShape
    <3>2. Spells(l.listed, minor) \in BOOLEAN
      BY DEF Spells
    <3> QED
      BY <1>5, <3>1, <3>2, HoldsOf
  <2> QED
    BY <2>2, <2>3
<1>6. CASE l.kind = "compare"
  <2> DEFINE c == LeafClause(l)
  <2>1. holds <=> Satisfies(VersionOf(l, v), c)
    BY <1>6, HoldsOf
  <2>2. image = EvaluateCompare(l, env)
    BY <1>6 DEF EvaluateLeaf
  <2>3. SUFFICES ASSUME minor # NoMinor, l.key \notin env.unreducible
                 PROVE  image = l \/ \E b : image = Truth(b) /\ (b <=> holds)
    BY <2>2 DEF EvaluateCompare
  <2>4. CASE l.key = "python_version"
    <3>1. image = Truth(Satisfies(Minor(minor), c))
      BY <2>2, <2>3, <2>4 DEF EvaluateCompare
    <3>2. VersionOf(l, v) = Minor(minor)
      BY <2>3, <2>4 DEF VersionOf, Minor
    <3> QED
      BY <2>1, <3>1, <3>2
  <2>5. CASE l.key # "python_version"
    <3>1. l.key \in FullVersionKeys /\ c \in ClausesOf(SpecifierOperators)
      BY <1>1, <1>6, <2>5, LeafShape DEF VersionKeys
    <3>2. c.op = l.op /\ c.version = l.literal
      BY DEF LeafClause
    <3>3. c.op \in OrderedComparators \cup {"~="}
      BY <1>1, <1>6, <2>3, <3>1, <3>2, ReducibleIsOrdered
    <3>4. c.op = "~=" => Len(c.version.release) <= 3
      <4>1. l.op = "~=" => ~(Len(l.literal.release) > 3)
        BY <1>1, <1>6, <3>1 DEF FinerThanReleases
      <4>2. Len(l.literal.release) \in 1 .. 4
        BY <1>1, <1>6, LeafShape, VersionShape
      <4> QED
        BY <3>2, <4>1, <4>2
    <3>5. v.stage = Final /\ VersionOf(l, v) = v
      <4>1. AsksFullVersion(w.marker)
        BY <1>1, <1>6, <3>1 DEF AsksFullVersion
      <4>2. v.stage \in {Alpha, Candidate, Final}
        BY PythonShape
      <4> QED
        BY <2>5, <4>1, <4>2 DEF IsPrerelease, VersionOf
    <3>6. /\ minor \in Nat /\ minor <= 198 /\ v.release[3] \in Nat /\ v.release[3] <= 100
          /\ v = Release(<<3, minor, v.release[3]>>)
      <4>1. /\ v.release = <<v.release[1], v.release[2], v.release[3]>>
            /\ v.release[2] \in 0 .. 198 /\ v.release[3] \in 0 .. 100
            /\ Comparable(v)
        BY PythonShape
      <4>2. v = [release |-> v.release, stage |-> v.stage]
        BY <4>1 DEF Comparable
      <4>3. v.release[1] = 3 /\ v.release[2] = minor
        BY <2>3
      <4> QED
        BY <3>5, <4>1, <4>2, <4>3 DEF Release
    <3>7. image = l \/ (/\ Probe(minor, c) # {}
                        /\ image = CHOOSE t \in Probe(minor, c) : TRUE)
      BY <2>2, <2>5 DEF EvaluateCompare
    <3> HIDE DEF c, image, holds
    <3>8. CASE image = l
      BY <3>8
    <3>9. CASE image # l
      <4>1. /\ Satisfies(Release(<<3, minor, 0>>), c) <=> Satisfies(Release(<<3, minor, 100>>), c)
            /\ image = Truth(Satisfies(Release(<<3, minor, 0>>), c))
        BY <3>7, <3>9, ProbeCases
      <4>2. Satisfies(v, c) <=> Satisfies(Release(<<3, minor, 0>>), c)
        BY <3>1, <3>3, <3>4, <3>6, <4>1, ProbeAgrees
      <4> QED
        BY <2>1, <3>5, <4>1, <4>2
    <3> QED
      BY <3>8, <3>9
  <2> QED
    BY <2>4, <2>5
<1>7. CASE l.kind = "string"
  <2>1. image = EvaluateString(l, env)
    BY <1>7 DEF EvaluateLeaf
  <2>2. image = l \/ (/\ l.key \in DOMAIN StringsOf(w.subdir)
                      /\ image = Truth((StringsOf(w.subdir)[l.key] = l.value) = (l.op = "==")))
    BY <2>1 DEF EvaluateString
  <2>3. ASSUME l.key \in DOMAIN StringsOf(w.subdir)
        PROVE  holds <=> (StringsOf(w.subdir)[l.key] = l.value) = (l.op = "==")
    <3>1. w.subdir \in Subdirs \cup {Noarch}
      BY WheelShape
    <3>2. l.key \in DOMAIN StringsOf(s) /\ StringsOf(s)[l.key] = StringsOf(w.subdir)[l.key]
      BY <2>3, <3>1, StringsKnown
    <3> QED
      BY <1>7, <3>2, HoldsOf
  <2> QED
    BY <2>2, <2>3
<1> QED
  BY <1>2, <1>4, <1>5, <1>6, <1>7

-----------------------------------------------------------------------------

IsChain(l) ==
    \E op \in EqualityComparators, minors \in SUBSET Nat :
        l = Chain(op, minors) /\ \A m \in minors : m <= 198

(* A membership test is rewritten to the minors it names, up to the bound. *)
LEMMA RewrittenLeaf ==
    ASSUME NEW l \in MarkerLeaves, NEW b \in Nat, b <= 198, NEW image,
           \/ IsPythonVersionIn(l) /\ image = ExplodedChain(l.listed, b)
           \/ IsPythonVersionNotIn(l) /\ image = ExcludedChain(l.listed, b)
    PROVE  /\ image.kind \in {"true", "false"} \/ IsChain(image)
           /\ \A v \in Pythons : \A s, extra : v.release[1] = 3 /\ v.release[2] <= b =>
                /\ image.kind = "true" => LeafHolds(l, v, s, extra)
                /\ image.kind = "false" => ~LeafHolds(l, v, s, extra)
                /\ image.kind \notin {"true", "false"} =>
                    (LeafMeans(image, v, s, extra) <=> LeafHolds(l, v, s, extra))
<1> DEFINE minors == Candidates(l.listed, b)
<1>1. /\ l.kind = "contains" /\ l.key_on_left
      /\ IsPythonVersionIn(l) => l.negate = FALSE
      /\ IsPythonVersionNotIn(l) => l.negate = TRUE
  BY LeafShape DEF IsPythonVersionIn, IsPythonVersionNotIn
<1>2. /\ IsPythonVersionIn(l) /\ IsPythonVersionNotIn(l) => FALSE
      /\ minors \in SUBSET Nat /\ \A m \in minors : m <= 198
      /\ \A m \in Nat : m <= b => (m \in minors <=> Spells(l.listed, m))
  BY <1>1 DEF Candidates
<1>3. ASSUME NEW v \in Pythons, NEW s, NEW extra, v.release[1] = 3, v.release[2] <= b
      PROVE  LeafHolds(l, v, s, extra) <=> (v.release[2] \in minors) # l.negate
  <2>1. v.release[2] \in Nat
    BY PythonShape
  <2>2. v.release[2] \in minors <=> Spells(l.listed, v.release[2])
    BY <1>2, <1>3, <2>1
  <2>3. LeafHolds(l, v, s, extra)
            <=> (v.release[1] = 3 /\ Spells(l.listed, v.release[2])) # l.negate
    BY <1>1, HoldsOf
  <2>4. l.negate \in BOOLEAN
    BY <1>1, LeafShape
  <2> QED
    BY <1>3, <2>2, <2>3, <2>4
<1> HIDE DEF minors
<1>4. ASSUME NEW v, v.release[1] = 3, NEW s, NEW extra, NEW op
      PROVE  LeafMeans(Chain(op, minors), v, s, extra) <=> (v.release[2] \in minors <=> op = "==")
  BY <1>4 DEF LeafMeans, Chain
<1>7. ASSUME NEW v \in Pythons, NEW s, NEW extra, v.release[1] = 3, v.release[2] <= b,
             IsPythonVersionIn(l)
      PROVE  LeafHolds(l, v, s, extra) <=> v.release[2] \in minors
  <2>1. LeafHolds(l, v, s, extra) <=> (v.release[2] \in minors) # l.negate
    BY <1>3, <1>7
  <2>2. l.negate = FALSE /\ (v.release[2] \in minors) \in BOOLEAN
    BY <1>1, <1>7
  <2> QED
    BY <2>1, <2>2
<1>5. CASE IsPythonVersionIn(l) /\ image = ExplodedChain(l.listed, b)
  <2>1. CASE minors = {}
    <3>1. image = Truth(FALSE)
      BY <1>5, <2>1 DEF ExplodedChain, minors
    <3> QED
      BY <1>5, <1>7, <2>1, <3>1, TruthKinds
  <2>2. CASE minors # {}
    <3>1. image = Chain("==", minors)
      BY <1>5, <2>2 DEF ExplodedChain, minors
    <3>2. image.kind = "chain" /\ IsChain(image)
      BY <1>2, <3>1 DEF Chain, IsChain, EqualityComparators
    <3> QED
      BY <1>4, <1>5, <1>7, <3>1, <3>2
  <2> QED
    BY <2>1, <2>2
<1>6. CASE IsPythonVersionNotIn(l) /\ image = ExcludedChain(l.listed, b)
  <2>1. CASE minors = {}
    <3>1. image = Truth(TRUE)
      BY <1>6, <2>1 DEF ExcludedChain, minors
    <3> QED
      BY <1>1, <1>3, <1>6, <2>1, <3>1, TruthKinds
  <2>2. CASE minors # {}
    <3>1. image = Chain("!=", minors)
      BY <1>6, <2>2 DEF ExcludedChain, minors
    <3>2. image.kind = "chain" /\ IsChain(image)
      BY <1>2, <3>1 DEF Chain, IsChain, EqualityComparators
    <3> QED
      BY <1>1, <1>3, <1>4, <1>6, <3>1, <3>2
  <2> QED
    BY <2>1, <2>2
<1> QED
  BY <1>5, <1>6

-----------------------------------------------------------------------------

BelowMinor(v, b) ==
    \/ v.release[1] < Segment(b, 1)
    \/ v.release[1] = Segment(b, 1) /\ v.release[2] < Segment(b, 2)

InMinor(v, b) == v.release[1] = Segment(b, 1) /\ v.release[2] = Segment(b, 2)

(* A Python against the bounds of the minor of a literal. *)
LEMMA MinorBounds ==
    ASSUME NEW v \in Pythons, NEW b, Segment(b, 1) \in 0 .. 198, Segment(b, 2) \in 0 .. 198
    PROVE  /\ Matches(v, Clause(">=", ThisMinor(b))) <=> ~BelowMinor(v, b)
           /\ Matches(v, Clause("<", ThisMinor(b))) <=> BelowMinor(v, b)
           /\ Matches(v, Clause(">=", NextMinor(b))) <=> ~BelowMinor(v, b) /\ ~InMinor(v, b)
           /\ Matches(v, Clause("<", NextMinor(b))) <=> BelowMinor(v, b) \/ InMinor(v, b)
           /\ Matches(v, GlobClause("!=", Release(<<Segment(b, 1), Segment(b, 2)>>)))
                <=> ~InMinor(v, b)
<1> DEFINE x == Segment(b, 1)
           y == Segment(b, 2)
           this == ThisMinor(b)
           next == NextMinor(b)
           v1 == v.release[1]
           v2 == v.release[2]
<1>1. /\ Comparable(v) /\ v.stage \in {Alpha, Candidate, Final}
      /\ Segment(v, 1) = v1 /\ Segment(v, 2) = v2
      /\ v1 \in Nat /\ v2 \in Nat /\ Segment(v, 3) \in Nat /\ Segment(v, 4) \in Nat
  BY PythonShape
<1>2. /\ Comparable(this) /\ this.stage = Anchor
      /\ Segment(this, 1) = x /\ Segment(this, 2) = y
      /\ Segment(this, 3) = 0 /\ Segment(this, 4) = 0
  BY SegmentsOf DEF ThisMinor, Comparable, Anchor, Local
<1>3. /\ Comparable(next) /\ next.stage = Anchor
      /\ Segment(next, 1) = x /\ Segment(next, 2) = y + 1
      /\ Segment(next, 3) = 0 /\ Segment(next, 4) = 0
  BY SegmentsOf DEF NextMinor, Comparable, Anchor, Local
<1>4. Matches(v, GlobClause("!=", Release(<<x, y>>))) <=> ~InMinor(v, b)
  <2>1. StartsWith(v, Release(<<x, y>>)) <=> Segment(v, 1) = x /\ Segment(v, 2) = y
    BY DEF StartsWith, Release
  <2> QED
    BY <1>1, <2>1, MatchesOf DEF InMinor
<1>5. x \in Nat /\ y \in Nat
  OBVIOUS
<1>6. BelowMinor(v, b) <=> v1 < x \/ (v1 = x /\ v2 < y)
  BY DEF BelowMinor
<1>7. InMinor(v, b) <=> v1 = x /\ v2 = y
  BY DEF InMinor
<1> HIDE DEF this, next, x, y, v1, v2
<1>8. ASSUME NEW u, u \in {this, next}
      PROVE  /\ Rank(v) \in Int /\ Rank(u) \in Int
             /\ Rank(v) < Rank(u) <=> SegmentsBelow(v, u)
  <2>1. ~(v.stage < u.stage) /\ Comparable(u)
    BY <1>1, <1>2, <1>3, <1>8 DEF Anchor, Alpha, Candidate, Final
  <2> QED
    BY <1>1, <2>1, StageLast
<1>9. SegmentsBelow(v, this) <=> v1 < x \/ (v1 = x /\ v2 < y)
  BY <1>1, <1>2, <1>5 DEF SegmentsBelow
<1>10. SegmentsBelow(v, next) <=> v1 < x \/ (v1 = x /\ v2 < y) \/ (v1 = x /\ v2 = y)
  BY <1>1, <1>3, <1>5 DEF SegmentsBelow
<1>11. ASSUME NEW u, u \in {this, next}
       PROVE  /\ Matches(v, Clause(">=", u)) <=> ~SegmentsBelow(v, u)
              /\ Matches(v, Clause("<", u)) <=> SegmentsBelow(v, u)
  <2>1. Matches(v, Clause(">=", u)) <=> Rank(v) >= Rank(u)
    BY MatchesOf
  <2>2. Matches(v, Clause("<", u)) <=> Rank(v) < Rank(u)
    BY MatchesOf
  <2> QED
    BY <1>8, <1>11, <2>1, <2>2
<1>12. /\ Matches(v, Clause(">=", this)) <=> ~BelowMinor(v, b)
       /\ Matches(v, Clause("<", this)) <=> BelowMinor(v, b)
  BY <1>6, <1>9, <1>11
<1>13. /\ Matches(v, Clause(">=", next)) <=> ~BelowMinor(v, b) /\ ~InMinor(v, b)
       /\ Matches(v, Clause("<", next)) <=> BelowMinor(v, b) \/ InMinor(v, b)
  <2>1. SegmentsBelow(v, next) <=> BelowMinor(v, b) \/ InMinor(v, b)
    BY <1>6, <1>7, <1>10
  <2> QED
    BY <1>11, <2>1
<1> QED
  BY <1>4, <1>12, <1>13 DEF this, next, x, y

(* The same minor against the literal itself. *)
LEMMA MinorAgainst ==
    ASSUME NEW v \in Pythons, NEW b \in Versions, b.stage = Final
    PROVE  LET u == Release(<<v.release[1], v.release[2]>>)
           IN  /\ Rank(u) \in Int /\ Rank(b) \in Int
               /\ Rank(u) < Rank(b) <=> BelowMinor(v, b) \/ (InMinor(v, b) /\ ~IsExact(b))
               /\ Rank(u) = Rank(b) <=> InMinor(v, b) /\ IsExact(b)
               /\ ~(BelowMinor(v, b) /\ InMinor(v, b))
<1> DEFINE u == Release(<<v.release[1], v.release[2]>>)
           x == Segment(b, 1)
           y == Segment(b, 2)
           z == Segment(b, 3)
           t == Segment(b, 4)
           v1 == v.release[1]
           v2 == v.release[2]
<1>1. v1 \in 0 .. 198 /\ v2 \in 0 .. 198
  BY PythonShape
<1>2. /\ Comparable(u) /\ u.stage = Final /\ Segment(u, 1) = v1 /\ Segment(u, 2) = v2
      /\ Segment(u, 3) = 0 /\ Segment(u, 4) = 0
  BY <1>1, SegmentsOf DEF Release, Comparable, Anchor, Local, Final
<1>3. /\ Comparable(b) /\ Len(b.release) \in 1 .. 4
      /\ \A i \in 1 .. 4 : /\ Segment(b, i) \in 0 .. 198
                           /\ i <= Len(b.release) => Segment(b, i) = b.release[i]
                           /\ i > Len(b.release) => Segment(b, i) = 0
  BY VersionShape
<1>4. IsExact(b) <=> z = 0 /\ t = 0
  <2>1. IsExact(b) <=> \A i \in {3, 4} : i <= Len(b.release) => b.release[i] = 0
    <3>1. \A n \in 1 .. 4 : \A i : i \in 3 .. n <=> i \in {3, 4} /\ i <= n
      OBVIOUS
    <3>2. \A i : i \in 3 .. Len(b.release) <=> i \in {3, 4} /\ i <= Len(b.release)
      BY <1>3, <3>1, Zenon
    <3> QED
      BY <3>2, Zenon DEF IsExact
  <2>2. \A i \in {3, 4} : (i <= Len(b.release) => b.release[i] = 0) <=> Segment(b, i) = 0
    <3>1. \A n \in 1 .. 4 : \A i \in {3, 4} : i <= n \/ i > n
      OBVIOUS
    <3>2. \A i \in {3, 4} : i <= Len(b.release) \/ i > Len(b.release)
      BY <1>3, <3>1, Zenon
    <3>3. \A n \in 1 .. 4 : \A i \in {3, 4} : ~(i <= n /\ i > n)
      OBVIOUS
    <3>4. \A i \in {3, 4} : ~(i <= Len(b.release) /\ i > Len(b.release))
      BY <1>3, <3>3, Zenon
    <3>5. \A i \in {3, 4} : i \in 1 .. 4
      OBVIOUS
    <3> QED
      BY <1>3, <3>2, <3>4, <3>5, Zenon
  <2> QED
    BY <2>1, <2>2
<1>5. /\ x \in Nat /\ y \in Nat /\ z \in Nat /\ t \in Nat
  <2>1. \A i \in 1 .. 4 : Segment(b, i) \in 0 .. 198
    BY <1>3
  <2>2. \A i \in 1 .. 4 : Segment(b, i) \in Nat
    BY ONLY <2>1
  <2> QED
    BY ONLY <2>2
<1>6. /\ BelowMinor(v, b) <=> v1 < x \/ (v1 = x /\ v2 < y)
      /\ InMinor(v, b) <=> v1 = x /\ v2 = y
  BY DEF BelowMinor, InMinor
<1>7. /\ Segment(b, 1) = x /\ Segment(b, 2) = y /\ Segment(b, 3) = z /\ Segment(b, 4) = t
      /\ v1 \in Nat /\ v2 \in Nat
  BY <1>1
<1> SUFFICES /\ Rank(u) \in Int /\ Rank(b) \in Int
             /\ Rank(u) < Rank(b) <=> BelowMinor(v, b) \/ (InMinor(v, b) /\ ~IsExact(b))
             /\ Rank(u) = Rank(b) <=> InMinor(v, b) /\ IsExact(b)
             /\ ~(BelowMinor(v, b) /\ InMinor(v, b))
  OBVIOUS
<1> HIDE DEF u, x, y, z, t, v1, v2
<1>8. SegmentsBelow(u, b) <=> \/ v1 < x \/ (v1 = x /\ v2 < y)
                              \/ v1 = x /\ v2 = y /\ ~(z = 0 /\ t = 0)
  BY <1>2, <1>5, <1>7 DEF SegmentsBelow
<1>9. SameSegments(u, b) <=> v1 = x /\ v2 = y /\ z = 0 /\ t = 0
  BY <1>2, <1>5, <1>7 DEF SameSegments
<1>10. /\ Rank(u) \in Int /\ Rank(b) \in Int
       /\ Rank(u) < Rank(b) <=> SegmentsBelow(u, b)
       /\ Rank(u) = Rank(b) <=> SameSegments(u, b)
  <2>1. u.stage = b.stage /\ ~(u.stage < b.stage)
    BY <1>2 DEF Final
  <2> QED
    BY <1>2, <1>3, <2>1, StageLast
<1> QED
  BY <1>4, <1>5, <1>6, <1>7, <1>8, <1>9, <1>10

(* What one set of clauses, or two clauses, come to. *)
LEMMA ConvertedOf ==
    ASSUME NEW v, NEW s
    PROVE  /\ \A clauses : /\ Converted(clauses).error = "ok"
                           /\ Converted(clauses).condition.kind = "clauses"
                           /\ Converted(clauses).condition.any = {clauses}
                           /\ LeafApplies(Converted(clauses).condition, v, s)
                                <=> MatchesAll(v, clauses)
           /\ \A a : MatchesAll(v, {a}) <=> Matches(v, a)
           /\ \A a, b : MatchesAll(v, {a, b}) <=> Matches(v, a) /\ Matches(v, b)
  BY DEF Converted, ConvertedToAny, LeafApplies, MatchesAll

LEMMA AppliesToAny ==
    ASSUME NEW v, NEW s, NEW sets
    PROVE  LET conversion == ConvertedToAny(sets)
           IN  /\ conversion.error = "ok" /\ conversion.condition.kind = "clauses"
               /\ LeafApplies(conversion.condition, v, s)
                    <=> \E clauses \in sets : MatchesAll(v, clauses)
  BY DEF ConvertedToAny, LeafApplies

(* A comparison of python_version is converted to clauses that every       *)
(* Python meets, pre-releases among them, exactly if it satisfies it.      *)
LEMMA PythonVersionConverted ==
    ASSUME NEW l, l.literal \in Versions, l.op \in SpecifierOperators \ {"==="},
           l.glob \in BOOLEAN, l.glob => l.op \in EqualityComparators,
           PythonVersionCondition(l).error = "ok",
           NEW v \in Pythons, NEW s
    PROVE  LET condition == PythonVersionCondition(l).condition
           IN  /\ condition.kind = "clauses"
               /\ LeafApplies(condition, v, s)
                    <=> Satisfies(Release(<<v.release[1], v.release[2]>>), LeafClause(l))
<1> DEFINE b == l.literal
           u == Release(<<v.release[1], v.release[2]>>)
           c == LeafClause(l)
           this == ThisMinor(b)
           next == NextMinor(b)
           edge == IF IsExact(b) THEN this ELSE next
           major_glob == l.glob /\ b.stage = Final /\ Len(b.release) = 1
           minor == Release(<<Segment(b, 1), Segment(b, 2)>>)
           conversion == PythonVersionCondition(l)
<1>1. c.op = l.op /\ c.version = b /\ c.glob = l.glob /\ u.stage = Final
  BY DEF LeafClause, Release
<1>2. conversion =
        IF l.op \in EqualityComparators /\ major_glob
        THEN Converted({IF l.op = "==" THEN Clause("=", b) ELSE GlobClause("!=", b)})
        ELSE IF ~IsPlain(l) THEN Unconvertable
        ELSE IF l.op \in EqualityComparators /\ ~IsExact(b) THEN NeverEqual
        ELSE CASE l.op = "==" -> Converted({Clause(">=", this), Clause("<", next)})
               [] l.op = "!=" -> Converted({GlobClause("!=", minor)})
               [] l.op = ">=" -> Converted({Clause(">=", edge)})
               [] l.op = ">" -> Converted({Clause(">=", next)})
               [] l.op = "<=" -> Converted({Clause("<", next)})
               [] l.op = "<" -> Converted({Clause("<", edge)})
               [] OTHER -> Unconvertable
  BY Zenon DEF PythonVersionCondition
<1>3. Segment(b, 1) \in 0 .. 198 /\ Segment(b, 2) \in 0 .. 198
  BY VersionShape
<1>4. /\ Matches(v, Clause(">=", this)) <=> ~BelowMinor(v, b)
      /\ Matches(v, Clause("<", this)) <=> BelowMinor(v, b)
      /\ Matches(v, Clause(">=", next)) <=> ~BelowMinor(v, b) /\ ~InMinor(v, b)
      /\ Matches(v, Clause("<", next)) <=> BelowMinor(v, b) \/ InMinor(v, b)
      /\ Matches(v, GlobClause("!=", minor)) <=> ~InMinor(v, b)
  BY <1>3, MinorBounds
<1>5. ASSUME NEW clauses, conversion = Converted(clauses),
             MatchesAll(v, clauses) <=> Satisfies(u, c)
      PROVE  /\ conversion.condition.kind = "clauses"
             /\ LeafApplies(conversion.condition, v, s) <=> Satisfies(u, c)
  BY <1>5, ConvertedOf
<1>6. /\ \A a : MatchesAll(v, {a}) <=> Matches(v, a)
      /\ \A a, d : MatchesAll(v, {a, d}) <=> Matches(v, a) /\ Matches(v, d)
  BY ConvertedOf
<1>7. Unconvertable.error # "ok" /\ NeverEqual.error # "ok" /\ conversion.error = "ok"
  BY DEF Unconvertable, NeverEqual
<1> SUFFICES /\ conversion.condition.kind = "clauses"
             /\ LeafApplies(conversion.condition, v, s) <=> Satisfies(u, c)
  OBVIOUS
<1>8. CASE l.op \in EqualityComparators /\ major_glob
  <2>1. Segment(v, 1) = v.release[1] /\ Segment(u, 1) = v.release[1]
    BY PythonShape, SegmentsOf DEF Release
  <2>2. /\ StartsWith(v, b) <=> v.release[1] = b.release[1]
        /\ StartsWith(u, b) <=> v.release[1] = b.release[1]
    <3>1. Len(b.release) = 1
      BY <1>8
    <3>2. \A i : i \in 1 .. 1 <=> i = 1
      OBVIOUS
    <3> QED
      BY <2>1, <3>1, <3>2, Zenon DEF StartsWith
  <2>3. CASE l.op = "=="
    <3>1. conversion = Converted({Clause("=", b)})
      BY <1>2, <1>8, <2>3
    <3>2. MatchesAll(v, {Clause("=", b)}) <=> Satisfies(u, c)
      <4>1. Satisfies(u, c) <=> StartsWith(u, b)
        <5>1. c.op = "==" /\ c.glob /\ c.version = b
          BY <1>1, <1>8, <2>3
        <5> HIDE DEF c, u, b
        <5> QED
          BY <5>1, SatisfiesOf
      <4>2. Matches(v, Clause("=", b)) <=> StartsWith(v, b)
        BY MatchesOf
      <4> QED
        BY <1>6, <2>2, <4>1, <4>2
    <3> QED
      BY <1>5, <3>1, <3>2
  <2>4. CASE l.op = "!="
    <3>1. conversion = Converted({GlobClause("!=", b)})
      BY <1>2, <1>8, <2>4
    <3>2. MatchesAll(v, {GlobClause("!=", b)}) <=> Satisfies(u, c)
      <4>1. Satisfies(u, c) <=> ~StartsWith(u, b)
        BY <1>1, <1>8, <2>4, SatisfiesOf
      <4>2. Matches(v, GlobClause("!=", b)) <=> ~StartsWith(v, b)
        BY MatchesOf
      <4> QED
        BY <1>6, <2>2, <4>1, <4>2
    <3> QED
      BY <1>5, <3>1, <3>2
  <2> QED
    BY <1>8, <2>3, <2>4 DEF EqualityComparators
<1>9. CASE ~(l.op \in EqualityComparators /\ major_glob)
  <2>1. IsPlain(l)
    BY <1>2, <1>7, <1>9
  <2>2. b.stage = Final /\ ~l.glob
    BY <2>1 DEF IsPlain
  <2>3. /\ Rank(u) \in Int /\ Rank(b) \in Int
        /\ Rank(u) < Rank(b) <=> BelowMinor(v, b) \/ (InMinor(v, b) /\ ~IsExact(b))
        /\ Rank(u) = Rank(b) <=> InMinor(v, b) /\ IsExact(b)
        /\ ~(BelowMinor(v, b) /\ InMinor(v, b))
    BY <2>2, MinorAgainst
  <2>4. /\ l.op = ">=" => (Satisfies(u, c) <=> Rank(u) >= Rank(b))
        /\ l.op = ">" => (Satisfies(u, c) <=> Rank(u) > Rank(b))
        /\ l.op = "<=" => (Satisfies(u, c) <=> Rank(u) <= Rank(b))
        /\ l.op = "<" => (Satisfies(u, c) <=> Rank(u) < Rank(b))
        /\ l.op = "==" => (Satisfies(u, c) <=> Rank(u) = Rank(b))
        /\ l.op = "!=" => (Satisfies(u, c) <=> Rank(u) # Rank(b))
    BY <1>1, <2>2, SatisfiesOf
  <2>5. l.op \in EqualityComparators => IsExact(b)
    BY <1>2, <1>7, <1>9, <2>1
  <2> HIDE DEF u, c, this, next, minor, conversion, b
  <2>6. CASE l.op = "=="
    <3>1. conversion = Converted({Clause(">=", this), Clause("<", next)})
      BY <1>2, <1>9, <2>1, <2>5, <2>6
    <3>2. MatchesAll(v, {Clause(">=", this), Clause("<", next)}) <=> Satisfies(u, c)
      BY <1>4, <1>6, <2>3, <2>4, <2>5, <2>6 DEF EqualityComparators
    <3> QED
      BY <1>5, <3>1, <3>2
  <2>7. CASE l.op = "!="
    <3>1. conversion = Converted({GlobClause("!=", minor)})
      BY <1>2, <1>9, <2>1, <2>5, <2>7
    <3>2. MatchesAll(v, {GlobClause("!=", minor)}) <=> Satisfies(u, c)
      BY <1>4, <1>6, <2>3, <2>4, <2>5, <2>7 DEF EqualityComparators
    <3> QED
      BY <1>5, <3>1, <3>2
  <2>8. CASE l.op = ">="
    <3>1. conversion = Converted({Clause(">=", edge)})
      BY <1>2, <1>9, <2>1, <2>8 DEF EqualityComparators
    <3>2. MatchesAll(v, {Clause(">=", edge)}) <=> Satisfies(u, c)
      BY <1>4, <1>6, <2>3, <2>4, <2>8
    <3> QED
      BY <1>5, <3>1, <3>2
  <2>9. CASE l.op = ">"
    <3>1. conversion = Converted({Clause(">=", next)})
      BY <1>2, <1>9, <2>1, <2>9 DEF EqualityComparators
    <3>2. MatchesAll(v, {Clause(">=", next)}) <=> Satisfies(u, c)
      BY <1>4, <1>6, <2>3, <2>4, <2>9
    <3> QED
      BY <1>5, <3>1, <3>2
  <2>10. CASE l.op = "<="
    <3>1. conversion = Converted({Clause("<", next)})
      BY <1>2, <1>9, <2>1, <2>10 DEF EqualityComparators
    <3>2. MatchesAll(v, {Clause("<", next)}) <=> Satisfies(u, c)
      BY <1>4, <1>6, <2>3, <2>4, <2>10
    <3> QED
      BY <1>5, <3>1, <3>2
  <2>11. CASE l.op = "<"
    <3>1. conversion = Converted({Clause("<", edge)})
      BY <1>2, <1>9, <2>1, <2>11 DEF EqualityComparators
    <3>2. MatchesAll(v, {Clause("<", edge)}) <=> Satisfies(u, c)
      BY <1>4, <1>6, <2>3, <2>4, <2>11
    <3> QED
      BY <1>5, <3>1, <3>2
  <2>12. CASE l.op = "~="
    <3>1. conversion = Unconvertable
      BY <1>2, <1>9, <2>1, <2>12 DEF EqualityComparators
    <3> QED
      BY <1>7, <3>1
  <2> QED
    BY <2>6, <2>7, <2>8, <2>9, <2>10, <2>11, <2>12
       DEF SpecifierOperators, EqualityComparators, OrderedComparators
<1> QED
  BY <1>8, <1>9

(* A comparison of a full version is passed through.                       *)
LEMMA FullVersionConverted ==
    ASSUME NEW l, l.op \in SpecifierOperators \ {"==="},
           l.glob \in BOOLEAN, l.glob => l.op \in EqualityComparators,
           FullVersionCondition(l).error = "ok",
           NEW v, v.stage = Final, NEW s
    PROVE  LET condition == FullVersionCondition(l).condition
           IN  /\ condition.kind = "clauses"
               /\ LeafApplies(condition, v, s) <=> Satisfies(v, LeafClause(l))
<1> DEFINE c == LeafClause(l)
           conversion == FullVersionCondition(l)
           b == l.literal
<1>1. c.op = l.op /\ c.version = b /\ c.glob = l.glob
      /\ c = [op |-> l.op, version |-> b, glob |-> l.glob]
  BY DEF LeafClause
<1>2. l.op \in EqualityComparators \cup OrderedComparators
  BY DEF FullVersionCondition, Unconvertable
<1>3. ASSUME NEW d, conversion = Converted({d}), Matches(v, d) <=> Satisfies(v, c)
      PROVE  /\ conversion.condition.kind = "clauses"
             /\ LeafApplies(conversion.condition, v, s) <=> Satisfies(v, c)
  BY <1>3, ConvertedOf
<1> SUFFICES \E d : conversion = Converted({d}) /\ (Matches(v, d) <=> Satisfies(v, c))
  BY <1>3
<1>4. CASE l.op = "==" /\ l.glob
  <2>1. conversion = Converted({Clause("=", b)})
    BY <1>4 DEF FullVersionCondition, EqualityComparators, OrderedComparators
  <2>2. Matches(v, Clause("=", b)) <=> StartsWith(v, b)
    BY MatchesOf
  <2>3. Satisfies(v, c) <=> StartsWith(v, b)
    <3>1. c.op = "==" /\ c.glob
      BY <1>1, <1>4
    <3> HIDE DEF c
    <3> QED
      BY <1>1, <3>1, SatisfiesOf
  <2> QED
    BY <2>1, <2>2, <2>3
<1>5. CASE l.op = "!=" /\ l.glob
  <2>1. conversion = Converted({c}) /\ c = GlobClause("!=", b)
    BY <1>1, <1>5 DEF FullVersionCondition, EqualityComparators, OrderedComparators, GlobClause
  <2>2. Matches(v, GlobClause("!=", b)) <=> ~StartsWith(v, b)
    BY MatchesOf
  <2>3. Satisfies(v, c) <=> ~StartsWith(v, b)
    <3>1. c.op = "!=" /\ c.glob
      BY <1>1, <1>5
    <3> HIDE DEF c
    <3> QED
      BY <1>1, <3>1, SatisfiesOf
  <2> QED
    BY <2>1, <2>2, <2>3
<1>6. CASE ~l.glob
  <2>1. conversion = Converted({c})
    BY <1>2, <1>6 DEF FullVersionCondition
  <2>2. c = Clause(l.op, b) /\ ~c.glob
    BY <1>1, <1>6 DEF Clause
  <2> HIDE DEF c, b, conversion
  <2>3. /\ l.op = ">=" => (Satisfies(v, c) <=> Rank(v) >= Rank(b))
        /\ l.op = ">" => (Satisfies(v, c) <=> Rank(v) > Rank(b))
        /\ l.op = "<=" => (Satisfies(v, c) <=> Rank(v) <= Rank(b))
        /\ l.op = "<" => (Satisfies(v, c) <=> Rank(v) < Rank(b))
        /\ l.op = "==" => (Satisfies(v, c) <=> Rank(v) = Rank(b))
        /\ l.op = "!=" => (Satisfies(v, c) <=> Rank(v) # Rank(b))
    BY <1>1, <2>2, SatisfiesOf
  <2>4. Matches(v, c) <=> Satisfies(v, c)
    BY <1>2, <2>2, <2>3, MatchesOf DEF EqualityComparators, OrderedComparators
  <2> QED
    BY <2>1, <2>4
<1> QED
  BY <1>4, <1>5, <1>6 DEF EqualityComparators

(* A chain's minors are those of the Pythons that meet its clauses.        *)
LEMMA ChainConverted ==
    ASSUME NEW l, IsChain(l), NEW v \in Pythons, NEW s, NEW extra
    PROVE  LET conversion == ChainCondition(l)
           IN  /\ conversion.error = "ok" /\ conversion.condition.kind = "clauses"
               /\ LeafApplies(conversion.condition, v, s) <=> LeafMeans(l, v, s, extra)
<1>1. /\ l.kind = "chain" /\ l.key = "python_version" /\ l.op \in EqualityComparators
      /\ l.minors \in SUBSET Nat /\ \A m \in l.minors : m <= 198
  BY DEF IsChain, Chain
<1> DEFINE clauses(m) ==
             UNION PythonVersionCondition(Compare(l.key, l.op, Minor(m))).condition.any
           in(m) == v.release[1] = 3 /\ v.release[2] = m
<1>2. ASSUME NEW m \in l.minors
      PROVE  MatchesAll(v, clauses(m)) <=> (in(m) <=> l.op = "==")
  <2> DEFINE b == Minor(m)
             leaf == Compare(l.key, l.op, b)
  <2>1. m \in Nat /\ m <= 199 /\ m <= 198
    BY <1>1
  <2>2. /\ b.stage = Final /\ b.release = <<3, m>>
        /\ Segment(b, 1) = 3 /\ Segment(b, 2) = m
    BY <2>1, MinorShape
  <2>3. IsExact(b)
    BY <2>2 DEF IsExact
  <2>4. IsPlain(leaf) /\ leaf.glob = FALSE /\ leaf.op = l.op /\ leaf.literal = b
    BY <2>2 DEF IsPlain, Compare
  <2>5. Segment(b, 1) \in 0 .. 198 /\ Segment(b, 2) \in 0 .. 198
    BY <2>1, <2>2
  <2>6. InMinor(v, b) <=> in(m)
    BY <2>2 DEF InMinor
  <2>7. ~(BelowMinor(v, b) /\ InMinor(v, b))
    BY <2>1, <2>2, PythonShape DEF BelowMinor, InMinor
  <2> HIDE DEF b
  <2>8. /\ l.op = "==" => PythonVersionCondition(leaf)
                            = Converted({Clause(">=", ThisMinor(b)), Clause("<", NextMinor(b))})
        /\ l.op = "!=" => PythonVersionCondition(leaf)
                            = Converted({GlobClause("!=", Release(<<Segment(b, 1), Segment(b, 2)>>))})
    BY <2>3, <2>4 DEF PythonVersionCondition
  <2>9. \A set : PythonVersionCondition(leaf) = Converted(set) => clauses(m) = set
    BY ConvertedOf DEF b
  <2>10. CASE l.op = "=="
    <3>1. clauses(m) = {Clause(">=", ThisMinor(b)), Clause("<", NextMinor(b))}
      BY <2>8, <2>9, <2>10
    <3>2. MatchesAll(v, clauses(m)) <=> InMinor(v, b)
      <4>1. /\ Matches(v, Clause(">=", ThisMinor(b))) <=> ~BelowMinor(v, b)
            /\ Matches(v, Clause("<", NextMinor(b))) <=> BelowMinor(v, b) \/ InMinor(v, b)
        BY <2>5, MinorBounds
      <4>2. \A a, d : MatchesAll(v, {a, d}) <=> Matches(v, a) /\ Matches(v, d)
        BY ConvertedOf
      <4> QED
        BY <2>7, <3>1, <4>1, <4>2
    <3> QED
      BY <2>6, <2>10, <3>2
  <2>11. CASE l.op = "!="
    <3>1. clauses(m) = {GlobClause("!=", Release(<<Segment(b, 1), Segment(b, 2)>>))}
      BY <2>8, <2>9, <2>11
    <3>2. MatchesAll(v, clauses(m)) <=> ~InMinor(v, b)
      <4>1. Matches(v, GlobClause("!=", Release(<<Segment(b, 1), Segment(b, 2)>>)))
                <=> ~InMinor(v, b)
        BY <2>5, MinorBounds
      <4>2. \A a : MatchesAll(v, {a}) <=> Matches(v, a)
        BY ConvertedOf
      <4> QED
        BY <3>1, <4>1, <4>2
    <3> QED
      BY <2>6, <2>11, <3>2
  <2> QED
    BY <1>1, <2>10, <2>11 DEF EqualityComparators
<1> HIDE DEF clauses
<1>3. LeafMeans(l, v, s, extra) <=> ((\E m \in l.minors : in(m)) <=> l.op = "==")
  BY <1>1 DEF LeafMeans
<1>4. CASE l.op = "=="
  <2> DEFINE sets == {clauses(m) : m \in l.minors}
  <2>1. ChainCondition(l) = ConvertedToAny(sets)
    BY <1>4 DEF ChainCondition, clauses
  <2>4. (\E set \in sets : MatchesAll(v, set)) <=> \E m \in l.minors : MatchesAll(v, clauses(m))
    OBVIOUS
  <2> HIDE DEF sets
  <2>2. LeafApplies(ChainCondition(l).condition, v, s)
            <=> \E m \in l.minors : MatchesAll(v, clauses(m))
    BY <2>1, <2>4, AppliesToAny
  <2>3. ChainCondition(l).error = "ok" /\ ChainCondition(l).condition.kind = "clauses"
    BY <2>1, AppliesToAny
  <2> QED
    BY <1>2, <1>3, <1>4, <2>2, <2>3
<1>5. CASE l.op = "!="
  <2> DEFINE set == UNION {clauses(m) : m \in l.minors}
  <2>1. ChainCondition(l) = Converted(set)
    BY <1>5 DEF ChainCondition, clauses
  <2>3. MatchesAll(v, set) <=> \A m \in l.minors : MatchesAll(v, clauses(m))
    BY DEF MatchesAll
  <2> HIDE DEF set
  <2>2. LeafApplies(ChainCondition(l).condition, v, s) <=> MatchesAll(v, set)
    BY <2>1, ConvertedOf
  <2>4. ChainCondition(l).error = "ok" /\ ChainCondition(l).condition.kind = "clauses"
    BY <2>1, ConvertedOf
  <2> QED
    BY <1>2, <1>3, <1>5, <2>2, <2>3, <2>4
<1> QED
  BY <1>1, <1>4, <1>5 DEF EqualityComparators

(* The environments of the six subdirs. *)
LEMMA PlatformOf ==
    /\ SubdirPlatform["linux-64"] = Platform("Linux", "x86_64", "linux", "posix")
    /\ SubdirPlatform["linux-aarch64"] = Platform("Linux", "aarch64", "linux", "posix")
    /\ SubdirPlatform["osx-64"] = Platform("Darwin", "x86_64", "darwin", "posix")
    /\ SubdirPlatform["osx-arm64"] = Platform("Darwin", "arm64", "darwin", "posix")
    /\ SubdirPlatform["win-64"] = Platform("Windows", "AMD64", "win32", "nt")
    /\ SubdirPlatform["win-arm64"] = Platform("Windows", "ARM64", "win32", "nt")
  BY DEF SubdirPlatform, Subdirs

LEMMA PlatformStrings ==
    ASSUME NEW s \in Subdirs, NEW key \in ArchKeys
    PROVE  key \in DOMAIN StringsOf(s) /\ StringsOf(s)[key] = SubdirPlatform[s][key]
<1> DEFINE python == [platform_python_implementation |-> "CPython",
                      implementation_name |-> "cpython"]
<1>1. s # Noarch
  BY DEF Noarch, Subdirs
<1> HIDE DEF python
<1>2. StringsOf(s) = [k \in DOMAIN python \cup ArchKeys |->
                        IF k \in ArchKeys THEN SubdirPlatform[s][k] ELSE python[k]]
  BY <1>1 DEF StringsOf, python
<1> QED
  BY <1>2

LEMMA PackagesDiffer ==
    ASSUME NEW p \in VirtualPackages, NEW q \in VirtualPackages, p[1] = q[1], p[2] = q[2]
    PROVE  p[3] = q[3]
  BY DEF VirtualPackages

(* A package is provided exactly where its key has its value. *)
LEMMA PackageProvided ==
    ASSUME NEW p \in VirtualPackages, NEW s \in Subdirs
    PROVE  /\ p[1] \in ArchKeys
           /\ SubdirPlatform[s][p[1]] = p[2] <=> p[3] \in Provides(s)
<1>1. p[1] \in {"sys_platform", "platform_system", "os_name"}
  BY DEF VirtualPackages
<1>2. ASSUME NEW system, NEW machine, NEW sys, NEW os
      PROVE  LET e == Platform(system, machine, sys, os)
             IN  e["platform_system"] = system /\ e["sys_platform"] = sys /\ e["os_name"] = os
  BY DEF Platform
<1>3. /\ s = "linux-64" => Provides(s) = {"__linux", "__unix"}
      /\ s = "linux-aarch64" => Provides(s) = {"__linux", "__unix"}
      /\ s = "osx-64" => Provides(s) = {"__osx", "__unix"}
      /\ s = "osx-arm64" => Provides(s) = {"__osx", "__unix"}
      /\ s = "win-64" => Provides(s) = {"__win"}
      /\ s = "win-arm64" => Provides(s) = {"__win"}
  BY DEF Provides
<1> DEFINE e == SubdirPlatform[s]
<1>4. \/ /\ s \in {"linux-64", "linux-aarch64"} /\ e["platform_system"] = "Linux"
         /\ e["sys_platform"] = "linux" /\ e["os_name"] = "posix"
      \/ /\ s \in {"osx-64", "osx-arm64"} /\ e["platform_system"] = "Darwin"
         /\ e["sys_platform"] = "darwin" /\ e["os_name"] = "posix"
      \/ /\ s \in {"win-64", "win-arm64"} /\ e["platform_system"] = "Windows"
         /\ e["sys_platform"] = "win32" /\ e["os_name"] = "nt"
  BY <1>2, PlatformOf DEF Subdirs
<1> HIDE DEF e
<1>5. e[p[1]] = p[2] <=> p[3] \in Provides(s)
  BY <1>3, <1>4 DEF VirtualPackages
<1> QED
  BY <1>1, <1>5 DEF ArchKeys, e

LEMMA PackageExists ==
    ASSUME NEW s \in Subdirs, NEW key \in ArchKeys \ {"platform_machine"}
    PROVE  \E p \in VirtualPackages : p[1] = key /\ p[2] = SubdirPlatform[s][key]
<1>2. ASSUME NEW system, NEW machine, NEW sys, NEW os
      PROVE  LET e == Platform(system, machine, sys, os)
             IN  e["platform_system"] = system /\ e["sys_platform"] = sys /\ e["os_name"] = os
  BY DEF Platform
<1> DEFINE e == SubdirPlatform[s]
<1>4. \/ /\ e["platform_system"] = "Linux"
         /\ e["sys_platform"] = "linux" /\ e["os_name"] = "posix"
      \/ /\ e["platform_system"] = "Darwin"
         /\ e["sys_platform"] = "darwin" /\ e["os_name"] = "posix"
      \/ /\ e["platform_system"] = "Windows"
         /\ e["sys_platform"] = "win32" /\ e["os_name"] = "nt"
  BY <1>2, PlatformOf DEF Subdirs
<1> HIDE DEF e
<1>5. key \in {"sys_platform", "platform_system", "os_name"}
  BY DEF ArchKeys
<1>6. \E p \in VirtualPackages : p[1] = key /\ p[2] = e[key]
  BY <1>4, <1>5 DEF VirtualPackages
<1> QED
  BY <1>6 DEF e

(* A comparison of a platform's key becomes the package those platforms    *)
(* have.                                                                   *)
LEMMA VirtualConverted ==
    ASSUME NEW l, l.kind = "string", VirtualPackageCondition(l).error = "ok",
           NEW v, NEW s \in Subdirs, NEW extra
    PROVE  LET condition == VirtualPackageCondition(l).condition
           IN  /\ condition.kind = "virtual"
               /\ LeafApplies(condition, v, s) <=> LeafHolds(l, v, s, extra)
<1> DEFINE packages == {p \in VirtualPackages : p[1] = l.key /\ p[2] = l.value}
           chosen == CHOOSE p \in packages : TRUE
<1>1. l.op = "==" /\ packages # {}
  BY DEF VirtualPackageCondition, Unconvertable
<1>2. chosen \in packages
  BY <1>1
<1>3. VirtualPackageCondition(l).condition = [kind |-> "virtual", package |-> chosen[3]]
  BY <1>1 DEF VirtualPackageCondition
<1> HIDE DEF chosen
<1>4. LeafApplies([kind |-> "virtual", package |-> chosen[3]], v, s) <=> chosen[3] \in Provides(s)
  BY DEF LeafApplies
<1>5. /\ chosen[1] = l.key /\ chosen[2] = l.value /\ chosen \in VirtualPackages
  BY <1>2
<1>6. l.key \in ArchKeys /\ (SubdirPlatform[s][l.key] = l.value <=> chosen[3] \in Provides(s))
  BY <1>5, PackageProvided
<1>7. LeafHolds(l, v, s, extra) <=> SubdirPlatform[s][l.key] = l.value
  BY <1>1, <1>6, HoldsOf, PlatformStrings
<1> QED
  BY <1>3, <1>4, <1>6, <1>7

LEMMA LeafConditionOf ==
    ASSUME NEW l
    PROVE  /\ l.kind = "contains" => LeafCondition(l) = Unconvertable
           /\ l.kind = "string" => LeafCondition(l) = VirtualPackageCondition(l)
           /\ l.kind = "chain" => LeafCondition(l) = ChainCondition(l)
           /\ l.kind = "compare" /\ l.key = "python_version" =>
                LeafCondition(l) = PythonVersionCondition(l)
           /\ l.kind = "compare" /\ l.key # "python_version" =>
                LeafCondition(l) = FullVersionCondition(l)
  BY DEF LeafCondition

LEMMA CompareShape ==
    ASSUME NEW l \in MarkerLeaves, l.kind = "compare"
    PROVE  /\ l.literal \in Versions /\ l.op \in SpecifierOperators \ {"==="}
           /\ l.glob \in BOOLEAN /\ (l.glob => l.op \in EqualityComparators)
           /\ l.key \in FullVersionKeys \/ l.key = "python_version"
           /\ "python_version" \notin FullVersionKeys
<1>1. /\ l.literal \in Versions /\ l.op \in SpecifierOperators \ {"==="}
      /\ l.glob \in BOOLEAN /\ l.key \in VersionKeys
      /\ LeafClause(l) \in ClausesOf(SpecifierOperators)
  BY LeafShape
<1>2. LeafClause(l).glob = l.glob /\ LeafClause(l).op = l.op
  BY DEF LeafClause
<1>3. l.glob => l.op \in EqualityComparators
  BY <1>1, <1>2 DEF ClausesOf
<1> QED
  BY <1>1, <1>3 DEF VersionKeys, FullVersionKeys

(* A leaf that is converted means the same to conda. *)
LEMMA ConvertedLeaf ==
    ASSUME NEW l, l \in MarkerLeaves \/ IsChain(l), l.kind # "extra",
           LeafCondition(l).error = "ok",
           NEW v \in Pythons, NEW s \in Subdirs, NEW extra,
           IsPrerelease(v) => ~(l.kind = "compare" /\ l.key \in FullVersionKeys)
    PROVE  LET condition == LeafCondition(l).condition
           IN  /\ condition.kind \in {"clauses", "virtual"}
               /\ LeafApplies(condition, v, s) <=> LeafMeans(l, v, s, extra)
<1>1. CASE IsChain(l)
  <2>1. l.kind = "chain"
    BY <1>1 DEF IsChain, Chain
  <2> QED
    BY <1>1, <2>1, LeafConditionOf, ChainConverted
<1>2. ASSUME l \in MarkerLeaves
      PROVE  l.kind \in {"compare", "contains", "string"} /\ LeafMeans(l, v, s, extra) = LeafHolds(l, v, s, extra)
  BY <1>2, LeafShape DEF LeafMeans
<1>3. CASE l \in MarkerLeaves /\ l.kind = "contains"
  BY <1>3, LeafConditionOf DEF Unconvertable
<1>4. CASE l \in MarkerLeaves /\ l.kind = "string"
  <2>1. LeafCondition(l) = VirtualPackageCondition(l)
    BY <1>4, LeafConditionOf
  <2> QED
    BY <1>2, <1>4, <2>1, VirtualConverted
<1>5. CASE l \in MarkerLeaves /\ l.kind = "compare"
  <2>1. /\ l.literal \in Versions /\ l.op \in SpecifierOperators \ {"==="}
        /\ l.glob \in BOOLEAN /\ (l.glob => l.op \in EqualityComparators)
        /\ l.key \in FullVersionKeys \/ l.key = "python_version"
    BY <1>5, CompareShape
  <2>2. LeafHolds(l, v, s, extra) <=> Satisfies(VersionOf(l, v), LeafClause(l))
    BY <1>5, HoldsOf
  <2>3. CASE l.key = "python_version"
    <3>1. LeafCondition(l) = PythonVersionCondition(l)
      BY <1>5, <2>3, LeafConditionOf
    <3>2. VersionOf(l, v) = Release(<<v.release[1], v.release[2]>>)
      BY <2>3 DEF VersionOf
    <3> QED
      BY <1>2, <1>5, <2>1, <2>2, <3>1, <3>2, PythonVersionConverted
  <2>4. CASE l.key # "python_version"
    <3>1. LeafCondition(l) = FullVersionCondition(l)
      BY <1>5, <2>4, LeafConditionOf
    <3>2. VersionOf(l, v) = v
      BY <2>4 DEF VersionOf
    <3>3. v.stage = Final
      BY <1>5, <2>1, <2>4, PythonShape DEF IsPrerelease
    <3> QED
      BY <1>2, <1>5, <2>1, <2>2, <3>1, <3>2, <3>3, FullVersionConverted
  <2> QED
    BY <2>3, <2>4
<1> QED
  BY <1>1, <1>2, <1>3, <1>4, <1>5

(* A leaf is refused if it is not in the table, or if it compares Python's *)
(* minor with something more precise, which no Python can change.          *)
LEMMA RefusedLeaf ==
    ASSUME NEW l, l \in MarkerLeaves \/ IsChain(l), l.kind # "extra",
           LeafCondition(l).error # "ok"
    PROVE  /\ l \in MarkerLeaves
           /\ \/ /\ LeafCondition(l).error = "UnconvertableMarkerError"
                 /\ InTable(l) => IsPythonVersionIn(l) \/ IsPythonVersionNotIn(l)
              \/ /\ LeafCondition(l).error = "UnconvertablePythonVersionEqualityError"
                 /\ \A v \in Pythons : \A s, extra : LeafHolds(l, v, s, extra) <=> l.op = "!="
<1>0. Unconvertable.error = "UnconvertableMarkerError"
      /\ NeverEqual.error = "UnconvertablePythonVersionEqualityError"
  BY DEF Unconvertable, NeverEqual
<1>1. l \in MarkerLeaves
  <2>1. CASE IsChain(l)
    <3>1. l.kind = "chain" /\ l.op \in EqualityComparators
      BY <2>1 DEF IsChain, Chain
    <3>2. LeafCondition(l) = ChainCondition(l)
      BY <3>1, LeafConditionOf
    <3>3. ChainCondition(l).error = "ok"
      BY DEF ChainCondition, Converted, ConvertedToAny
    <3> QED
      BY <3>2, <3>3
  <2> QED
    BY <2>1
<1>2. l.kind \in {"compare", "contains", "string"}
  BY <1>1, LeafShape
<1>3. CASE l.kind = "contains"
  <2>1. LeafCondition(l) = Unconvertable
    BY <1>3, LeafConditionOf
  <2>2. InTable(l) => IsPythonVersionIn(l) \/ IsPythonVersionNotIn(l)
    BY <1>3 DEF InTable
  <2> QED
    BY <1>0, <1>1, <2>1, <2>2
<1>4. CASE l.kind = "string"
  <2>1. LeafCondition(l) = VirtualPackageCondition(l)
    BY <1>4, LeafConditionOf
  <2>2. LeafCondition(l) = Unconvertable /\ (l.op # "==" \/
            \A p \in VirtualPackages : ~(p[1] = l.key /\ p[2] = l.value))
    BY <2>1 DEF VirtualPackageCondition
  <2>3. ~InTable(l)
    <3>1. ~IsPythonVersionIn(l) /\ ~IsPythonVersionNotIn(l)
      BY <1>4 DEF IsPythonVersionIn, IsPythonVersionNotIn
    <3>2. SUFFICES ASSUME l.op = "==", l.key \in ArchKeys \ {"platform_machine"},
                          NEW s \in Subdirs, SubdirPlatform[s][l.key] = l.value
                   PROVE  FALSE
      BY <1>4, <3>1 DEF InTable
    <3> QED
      BY <2>2, <3>2, PackageExists
  <2> QED
    BY <1>0, <1>1, <2>2, <2>3
<1>5. CASE l.kind = "compare" /\ l.key = "python_version"
  <2>1. /\ l.literal \in Versions /\ l.op \in SpecifierOperators \ {"==="}
        /\ l.glob \in BOOLEAN /\ (l.glob => l.op \in EqualityComparators)
        /\ "python_version" \notin FullVersionKeys
    BY <1>1, <1>5, CompareShape
  <2>2. LeafCondition(l) = PythonVersionCondition(l)
    BY <1>5, LeafConditionOf
  <2>3. ~IsPythonVersionIn(l) /\ ~IsPythonVersionNotIn(l)
    BY <1>5 DEF IsPythonVersionIn, IsPythonVersionNotIn
  <2>4. Converted({}).error = "ok" /\ \A set : Converted(set).error = "ok"
    BY DEF Converted, ConvertedToAny
  <2>5. \/ PythonVersionCondition(l) = Unconvertable /\ ~IsPlain(l)
            /\ ~(l.op \in EqualityComparators /\ l.glob /\ l.literal.stage = Final
                    /\ Len(l.literal.release) = 1)
        \/ PythonVersionCondition(l) = NeverEqual /\ IsPlain(l)
            /\ l.op \in EqualityComparators /\ ~IsExact(l.literal)
        \/ PythonVersionCondition(l) = Unconvertable /\ l.op = "~="
    BY <2>1, <2>2, <2>4 DEF PythonVersionCondition, SpecifierOperators, EqualityComparators,
                            OrderedComparators
  <2>6. CASE PythonVersionCondition(l) = Unconvertable /\ ~IsPlain(l)
            /\ ~(l.op \in EqualityComparators /\ l.glob /\ l.literal.stage = Final
                    /\ Len(l.literal.release) = 1)
    <3>1. ~InTable(l)
      BY <1>5, <2>1, <2>3, <2>6 DEF InTable
    <3> QED
      BY <1>0, <1>1, <2>2, <2>6, <3>1
  <2>7. CASE PythonVersionCondition(l) = Unconvertable /\ l.op = "~="
    <3>1. ~InTable(l)
      BY <1>5, <2>3, <2>7 DEF InTable, EqualityComparators, OrderedComparators
    <3> QED
      BY <1>0, <1>1, <2>2, <2>7, <3>1
  <2>8. CASE PythonVersionCondition(l) = NeverEqual /\ IsPlain(l)
            /\ l.op \in EqualityComparators /\ ~IsExact(l.literal)
    <3>1. ASSUME NEW v \in Pythons, NEW s, NEW extra
          PROVE  LeafHolds(l, v, s, extra) <=> l.op = "!="
      <4> DEFINE u == Release(<<v.release[1], v.release[2]>>)
                 c == LeafClause(l)
      <4>1. LeafHolds(l, v, s, extra) <=> Satisfies(u, c)
        BY <1>5, HoldsOf DEF VersionOf
      <4>2. Rank(u) # Rank(l.literal)
        BY <2>1, <2>8, MinorAgainst DEF IsPlain
      <4>3. c.op = l.op /\ c.version = l.literal /\ ~c.glob
        BY <2>8 DEF LeafClause, IsPlain
      <4> HIDE DEF c, u
      <4>4. /\ l.op = "==" => (Satisfies(u, c) <=> Rank(u) = Rank(l.literal))
            /\ l.op = "!=" => (Satisfies(u, c) <=> Rank(u) # Rank(l.literal))
        BY <4>3, SatisfiesOf
      <4> QED
        BY <2>8, <4>1, <4>2, <4>4 DEF EqualityComparators
    <3> QED
      BY <1>0, <1>1, <2>2, <2>8, <3>1
  <2> QED
    BY <2>5, <2>6, <2>7, <2>8
<1>6. CASE l.kind = "compare" /\ l.key # "python_version"
  <2>1. LeafCondition(l) = FullVersionCondition(l)
    BY <1>6, LeafConditionOf
  <2>2. \A set : Converted(set).error = "ok"
    BY DEF Converted, ConvertedToAny
  <2>3. FullVersionCondition(l) = Unconvertable
        /\ l.op \notin EqualityComparators \cup OrderedComparators
    <3>1. l.op \in SpecifierOperators \ {"==="}
      BY <1>1, <1>6, CompareShape
    <3> QED
      BY <2>1, <2>2, <3>1 DEF FullVersionCondition
  <2>4. ~InTable(l)
    BY <1>6, <2>3 DEF InTable, IsPythonVersionIn, IsPythonVersionNotIn
  <2> QED
    BY <1>0, <1>1, <2>1, <2>3, <2>4
<1> QED
  BY <1>2, <1>3, <1>4, <1>5, <1>6

(* A tree is converted leaf by leaf, or to the error of one of them.       *)
LEMMA ConditionCases ==
    ASSUME NEW m, Formed(m), ~IsConstant(m)
    PROVE  LET conversion == MarkerCondition(m)
           IN  \/ /\ conversion.error = "ok" /\ conversion.condition.terms = m.terms
                  /\ DOMAIN conversion.condition.leaves = DOMAIN m.leaves
                  /\ \A i \in DOMAIN m.leaves :
                        /\ LeafCondition(m.leaves[i]).error = "ok"
                        /\ conversion.condition.leaves[i] = LeafCondition(m.leaves[i]).condition
               \/ /\ conversion.error # "ok"
                  /\ \E i \in DOMAIN m.leaves : conversion = LeafCondition(m.leaves[i])
<1> DEFINE f == [i \in DOMAIN m.leaves |-> LeafCondition(m.leaves[i])]
           failed == {i \in DOMAIN m.leaves : f[i].error # "ok"}
<1>1. MarkerCondition(m) =
        IF failed # {} THEN f[Min(failed)]
        ELSE [error |-> "ok",
              condition |-> [leaves |-> [i \in DOMAIN m.leaves |-> f[i].condition],
                             terms |-> m.terms]]
  BY Zenon DEF MarkerCondition, Condition
<1>2. CASE failed # {}
  <2>1. failed \in SUBSET Nat
    BY DEF Formed
  <2>2. PICK n \in failed : \A k \in failed : n <= k
    BY <1>2, <2>1, LeastNatural
  <2>3. Min(failed) \in failed
    BY <2>2 DEF Min
  <2>4. MarkerCondition(m) = f[Min(failed)]
    BY <1>1, <1>2
  <2> QED
    BY <2>3, <2>4
<1>3. CASE failed = {}
  <2>1. \A i \in DOMAIN m.leaves : LeafCondition(m.leaves[i]).error = "ok"
    BY <1>3
  <2> DEFINE g == [i \in DOMAIN m.leaves |-> f[i].condition]
  <2>2. MarkerCondition(m) = [error |-> "ok",
                              condition |-> [leaves |-> g, terms |-> m.terms]]
    BY <1>1, <1>3
  <2>3. /\ DOMAIN g = DOMAIN m.leaves
        /\ \A i \in DOMAIN m.leaves : g[i] = LeafCondition(m.leaves[i]).condition
    OBVIOUS
  <2> HIDE DEF g
  <2> QED
    BY <2>1, <2>2, <2>3
<1> QED
  BY <1>2, <1>3

-----------------------------------------------------------------------------

(* What a tree says of a Python and a platform. *)
Means(m, v, subdir, extra) ==
    \E t \in m.terms : \A i \in t : LeafMeans(m.leaves[i], v, subdir, extra)

(* A tree means the same once its leaves have become others that do, or    *)
(* have come out true or false.                                            *)
LEMMA MeansModify ==
    ASSUME NEW m, Formed(m), NEW image, NEW v, NEW s, NEW extra,
           \A i \in DOMAIN m.leaves :
                /\ image[i].kind = "true" => LeafMeans(m.leaves[i], v, s, extra)
                /\ image[i].kind = "false" => ~LeafMeans(m.leaves[i], v, s, extra)
                /\ image[i].kind \notin {"true", "false"} =>
                    (LeafMeans(image[i], v, s, extra) <=> LeafMeans(m.leaves[i], v, s, extra))
    PROVE  Means(Modify(m, image), v, s, extra) <=> Means(m, v, s, extra)
<1> DEFINE D == DOMAIN m.leaves
           n == Modify(m, image)
           old == {i \in D : LeafMeans(m.leaves[i], v, s, extra)}
           new == {i \in D : LeafMeans(image[i], v, s, extra)}
<1>0. Keeps(m, image, old, new)
  BY DEF Keeps
<1> HIDE DEF old, new
<1>1. Says(m.terms, old) <=> Says(Modify(m, image).terms, new)
  BY <1>0, ModifyMeaning
<1> USE DEF old, new
<1>2. \A t \in m.terms : t \subseteq old <=> \A i \in t : LeafMeans(m.leaves[i], v, s, extra)
  BY DEF Formed
<1>3. /\ Formed(n) /\ DOMAIN n.leaves \subseteq D
      /\ \A i \in DOMAIN n.leaves : n.leaves[i] = image[i]
  BY ModifyFormed
<1> HIDE DEF n
<1>4. \A t \in n.terms : t \subseteq new <=> \A i \in t : LeafMeans(n.leaves[i], v, s, extra)
  <2> TAKE t \in n.terms
  <2>1. t \subseteq DOMAIN n.leaves
    BY <1>3 DEF Formed
  <2> QED
    BY <1>3, <2>1
<1>5. Means(m, v, s, extra) <=> Says(m.terms, old)
  BY <1>2 DEF Means, Says
<1>6. Means(n, v, s, extra) <=> Says(n.terms, new)
  BY <1>4 DEF Means, Says
<1> QED
  BY <1>1, <1>5, <1>6 DEF n

(* A tree of the marker's own leaves, some of them rewritten to chains.    *)
FromMarker(m, marker) ==
    /\ Formed(m) /\ DOMAIN m.leaves \subseteq DOMAIN marker.leaves
    /\ \A i \in DOMAIN m.leaves : m.leaves[i] = marker.leaves[i] \/ IsChain(m.leaves[i])

(* The leaf holds on all of the Pythons the bounds are meant for, or on    *)
(* none.                                                                   *)
SameUpTo(l, b) ==
    \E holds \in BOOLEAN : \A v \in Pythons : \A s, extra :
        v.release[1] = 3 /\ v.release[2] <= b => (LeafHolds(l, v, s, extra) <=> holds)

LEMMA ChainKind ==
    ASSUME NEW l, IsChain(l)
    PROVE  /\ l.kind = "chain" /\ l.key = "python_version"
           /\ ~IsPythonVersionIn(l) /\ ~IsPythonVersionNotIn(l)
  BY DEF IsChain, Chain, IsPythonVersionIn, IsPythonVersionNotIn

(* A pass over the membership tests, of either kind.                       *)
LEMMA RewriteKeeps ==
    ASSUME NEW marker \in Markers, NEW m, FromMarker(m, marker),
           NEW b \in Nat, b <= 198, NEW negate \in BOOLEAN, NEW n,
           n = IF negate THEN RewritePythonVersionNotIn(m, b) ELSE RewritePythonVersionIn(m, b)
    PROVE  /\ FromMarker(n, marker) /\ DOMAIN n.leaves \subseteq DOMAIN m.leaves
           /\ \A i \in DOMAIN n.leaves :
                /\ n.leaves[i] = m.leaves[i] \/ IsChain(n.leaves[i])
                /\ IF negate THEN ~IsPythonVersionNotIn(n.leaves[i])
                   ELSE ~IsPythonVersionIn(n.leaves[i])
           /\ \A v \in Pythons : \A s, extra : v.release[1] = 3 /\ v.release[2] <= b =>
                (Means(n, v, s, extra) <=> Means(m, v, s, extra))
           /\ ~IsConstant(m) /\ IsConstant(n) =>
                \E i \in DOMAIN marker.leaves : SameUpTo(marker.leaves[i], b)
<1> DEFINE tests(l) == IF negate THEN IsPythonVersionNotIn(l) ELSE IsPythonVersionIn(l)
           rewritten(l) == IF negate THEN ExcludedChain(l.listed, b) ELSE ExplodedChain(l.listed, b)
           image == [i \in DOMAIN m.leaves |->
                        IF tests(m.leaves[i]) THEN rewritten(m.leaves[i]) ELSE m.leaves[i]]
<1>1. n = Modify(m, image)
  BY DEF RewritePythonVersionIn, RewritePythonVersionNotIn
<1>2. \A i \in DOMAIN m.leaves :
        image[i] = IF tests(m.leaves[i]) THEN rewritten(m.leaves[i]) ELSE m.leaves[i]
  OBVIOUS
<1>3. ASSUME NEW i \in DOMAIN m.leaves
      PROVE  /\ IsChain(m.leaves[i]) \/ (m.leaves[i] \in MarkerLeaves /\ m.leaves[i] = marker.leaves[i])
             /\ m.leaves[i].kind \notin {"true", "false"}
             /\ i \in DOMAIN marker.leaves
  <2>1. i \in DOMAIN marker.leaves /\ (m.leaves[i] = marker.leaves[i] \/ IsChain(m.leaves[i]))
    BY DEF FromMarker
  <2>2. marker.leaves[i] \in MarkerLeaves
    BY <2>1, MarkersFormed DEF MarkerLeaves
  <2> QED
    BY <2>1, <2>2, ChainKind, LeafShape
<1>4. ASSUME NEW i \in DOMAIN m.leaves, tests(m.leaves[i])
      PROVE  /\ m.leaves[i] \in MarkerLeaves /\ m.leaves[i] = marker.leaves[i]
             /\ m.leaves[i].kind = "contains"
             /\ \/ IsPythonVersionIn(m.leaves[i])
                    /\ rewritten(m.leaves[i]) = ExplodedChain(m.leaves[i].listed, b)
                \/ IsPythonVersionNotIn(m.leaves[i])
                    /\ rewritten(m.leaves[i]) = ExcludedChain(m.leaves[i].listed, b)
  <2>1. ~IsChain(m.leaves[i])
    BY <1>4, ChainKind
  <2> QED
    BY <1>3, <1>4, <2>1 DEF IsPythonVersionIn, IsPythonVersionNotIn
<1>5. ASSUME NEW i \in DOMAIN m.leaves, tests(m.leaves[i])
      PROVE  /\ image[i].kind \in {"true", "false"} \/ IsChain(image[i])
             /\ \A v \in Pythons : \A s, extra : v.release[1] = 3 /\ v.release[2] <= b =>
                  /\ image[i].kind = "true" => LeafHolds(m.leaves[i], v, s, extra)
                  /\ image[i].kind = "false" => ~LeafHolds(m.leaves[i], v, s, extra)
                  /\ image[i].kind \notin {"true", "false"} =>
                        (LeafMeans(image[i], v, s, extra) <=> LeafHolds(m.leaves[i], v, s, extra))
  <2>1. image[i] = rewritten(m.leaves[i])
    BY <1>2, <1>5
  <2> QED
    BY <1>4, <1>5, <2>1, RewrittenLeaf
<1> HIDE DEF image, rewritten
<1>6. \A i \in DOMAIN m.leaves : ~tests(m.leaves[i]) => image[i] = m.leaves[i]
  BY <1>2
<1> HIDE DEF tests
<1>7. /\ Formed(n) /\ DOMAIN n.leaves \subseteq DOMAIN m.leaves
      /\ \A i \in DOMAIN n.leaves : n.leaves[i] = image[i] /\ image[i].kind \notin {"true", "false"}
  BY <1>1, ModifyFormed DEF FromMarker
<1>8. ASSUME NEW i \in DOMAIN n.leaves
      PROVE  /\ n.leaves[i] = m.leaves[i] \/ IsChain(n.leaves[i])
             /\ ~tests(n.leaves[i])
  <2>1. CASE tests(m.leaves[i])
    <3>1. IsChain(n.leaves[i])
      BY <1>5, <1>7, <2>1
    <3> QED
      BY <3>1, ChainKind DEF tests
  <2>2. CASE ~tests(m.leaves[i])
    BY <1>6, <1>7, <2>2
  <2> QED
    BY <2>1, <2>2
<1>9. FromMarker(n, marker)
  BY <1>7, <1>8 DEF FromMarker
<1>10. ASSUME NEW v \in Pythons, NEW s, NEW extra, v.release[1] = 3, v.release[2] <= b
       PROVE  Means(n, v, s, extra) <=> Means(m, v, s, extra)
  <2>1. ASSUME NEW i \in DOMAIN m.leaves
        PROVE  /\ image[i].kind = "true" => LeafMeans(m.leaves[i], v, s, extra)
               /\ image[i].kind = "false" => ~LeafMeans(m.leaves[i], v, s, extra)
               /\ image[i].kind \notin {"true", "false"} =>
                    (LeafMeans(image[i], v, s, extra) <=> LeafMeans(m.leaves[i], v, s, extra))
    <3>1. CASE tests(m.leaves[i])
      <4>1. LeafMeans(m.leaves[i], v, s, extra) <=> LeafHolds(m.leaves[i], v, s, extra)
        BY <1>4, <3>1 DEF LeafMeans
      <4> QED
        BY <1>5, <1>10, <3>1, <4>1
    <3>2. CASE ~tests(m.leaves[i])
      BY <1>3, <1>6, <3>2
    <3> QED
      BY <3>1, <3>2
  <2> QED
    BY <1>1, <2>1, MeansModify DEF FromMarker
<1>11. ASSUME ~IsConstant(m), IsConstant(n)
       PROVE  \E i \in DOMAIN marker.leaves : SameUpTo(marker.leaves[i], b)
  <2>1. PICK i \in DOMAIN m.leaves : image[i].kind \in {"true", "false"}
    BY <1>1, <1>11, ModifyConstant DEF FromMarker
  <2>2. tests(m.leaves[i])
    BY <1>3, <1>6, <2>1
  <2>3. m.leaves[i] = marker.leaves[i] /\ i \in DOMAIN marker.leaves
    BY <1>3, <1>4, <2>2
  <2>4. CASE image[i].kind = "true"
    <3>1. \A v \in Pythons : \A s, extra : v.release[1] = 3 /\ v.release[2] <= b =>
            (LeafHolds(marker.leaves[i], v, s, extra) <=> TRUE)
      BY <1>5, <2>2, <2>3, <2>4
    <3> QED
      BY <2>3, <3>1 DEF SameUpTo
  <2>5. CASE image[i].kind = "false"
    <3>1. \A v \in Pythons : \A s, extra : v.release[1] = 3 /\ v.release[2] <= b =>
            (LeafHolds(marker.leaves[i], v, s, extra) <=> FALSE)
      BY <1>5, <2>2, <2>3, <2>5
    <3> QED
      BY <2>3, <3>1 DEF SameUpTo
  <2> QED
    BY <2>1, <2>4, <2>5
<1> QED
  BY <1>7, <1>8, <1>9, <1>10, <1>11 DEF tests

LEMMA EvaluateShape ==
    ASSUME NEW l \in MarkerLeaves, NEW env
    PROVE  LET image == EvaluateLeaf(l, env)
           IN  /\ image = l \/ image.kind \in {"true", "false"}
               /\ l.kind = "extra" => image.kind \in {"true", "false"}
               /\ l.kind = "string" /\ l.key \in DOMAIN env.strings => image.kind \in {"true", "false"}
<1>1. \A b : Truth(b).kind \in {"true", "false"}
  BY TruthKinds
<1>2. CASE l.kind = "extra"
  BY <1>1, <1>2 DEF EvaluateLeaf
<1>3. CASE l.kind = "contains"
  BY <1>1, <1>3 DEF EvaluateLeaf, EvaluateContains
<1>4. CASE l.kind = "string"
  BY <1>1, <1>4 DEF EvaluateLeaf, EvaluateString
<1>5. CASE l.kind = "compare"
  <2> DEFINE probe == Probe(env.minor, LeafClause(l))
  <2>1. probe # {} => (CHOOSE t \in probe : TRUE) \in probe
    OBVIOUS
  <2>2. \A t \in probe : t.kind \in {"true", "false"}
    BY <1>1 DEF Probe
  <2>3. EvaluateLeaf(l, env) = EvaluateCompare(l, env)
    BY <1>5 DEF EvaluateLeaf
  <2> QED
    BY <1>1, <1>5, <2>1, <2>2, <2>3 DEF EvaluateCompare
<1> QED
  BY <1>2, <1>3, <1>4, <1>5, LeafShape

(* Nothing is left of a wheel's marker but its own leaves, and of those    *)
(* none that could be evaluated for want of no more than the subdir.       *)
Residual(n, w) ==
    /\ FromMarker(n, w.marker)
    /\ \A i \in DOMAIN n.leaves :
        /\ n.leaves[i] = w.marker.leaves[i] /\ n.leaves[i].kind # "extra"
        /\ n.leaves[i].kind = "string" => n.leaves[i].key \notin DOMAIN StringsOf(w.subdir)


(* The evaluation of a wheel's marker for its target.                      *)
LEMMA EvaluateKeeps ==
    ASSUME NEW w \in Wheels, NEW minor, NEW membership \in BOOLEAN, NEW n,
           n = Evaluate(w.marker, minor, w.subdir, w.extra, membership)
    PROVE  Residual(n, w)
<1> DEFINE m == w.marker
           env == [minor |-> minor, extra |-> w.extra, membership |-> membership,
                   strings |-> StringsOf(w.subdir),
                   unreducible |-> UnreducibleFullVersionKeys(w.marker)]
           image == [i \in DOMAIN m.leaves |-> EvaluateLeaf(m.leaves[i], env)]
<1>1. n = Modify(m, image)
  BY DEF Evaluate
<1>2. \A i \in DOMAIN m.leaves : image[i] = EvaluateLeaf(m.leaves[i], env)
  OBVIOUS
<1>3. env.strings = StringsOf(w.subdir)
  OBVIOUS
<1> HIDE DEF image
<1>4. m \in Markers /\ Formed(m) /\ \A i \in DOMAIN m.leaves : m.leaves[i] \in MarkerLeaves
  BY WheelShape, MarkersFormed DEF MarkerLeaves
<1>5. /\ Formed(n) /\ DOMAIN n.leaves \subseteq DOMAIN m.leaves
      /\ \A i \in DOMAIN n.leaves : n.leaves[i] = image[i] /\ image[i].kind \notin {"true", "false"}
  BY <1>1, <1>4, ModifyFormed
<1>6. ASSUME NEW i \in DOMAIN n.leaves
      PROVE  /\ n.leaves[i] = m.leaves[i] /\ n.leaves[i].kind # "extra"
             /\ n.leaves[i].kind = "string" => n.leaves[i].key \notin DOMAIN StringsOf(w.subdir)
  <2>1. m.leaves[i] \in MarkerLeaves /\ image[i] = EvaluateLeaf(m.leaves[i], env)
    BY <1>2, <1>4, <1>5
  <2> HIDE DEF env, m
  <2> QED
    BY <1>3, <1>5, <2>1, EvaluateShape
<1>7. FromMarker(n, m)
  BY <1>5, <1>6 DEF FromMarker
<1> QED
  BY <1>6, <1>7 DEF Residual

(* A marker means the same once it has been evaluated for what is known.   *)
LEMMA EvaluateMeans ==
    ASSUME NEW w \in Wheels, NEW minor, NEW membership \in BOOLEAN, NEW n,
           n = Evaluate(w.marker, minor, w.subdir, w.extra, membership),
           NEW v \in Pythons, NEW s \in Subdirs, w.subdir = Noarch \/ w.subdir = s,
           IsPrerelease(v) => ~AsksFullVersion(w.marker), ~FinerThanReleases(w),
           minor = NoMinor \/ (v.release[1] = 3 /\ v.release[2] = minor)
    PROVE  Means(n, v, s, w.extra) <=> Means(w.marker, v, s, w.extra)
<1> DEFINE m == w.marker
           env == [minor |-> minor, extra |-> w.extra, membership |-> membership,
                   strings |-> StringsOf(w.subdir),
                   unreducible |-> UnreducibleFullVersionKeys(w.marker)]
           image == [i \in DOMAIN m.leaves |-> EvaluateLeaf(m.leaves[i], env)]
<1>1. n = Modify(m, image)
  BY DEF Evaluate
<1>2. \A i \in DOMAIN m.leaves : image[i] = EvaluateLeaf(m.leaves[i], env)
  OBVIOUS
<1> HIDE DEF image
<1>3. m \in Markers /\ Formed(m) /\ \A i \in DOMAIN m.leaves : m.leaves[i] \in MarkerLeaves
  BY WheelShape, MarkersFormed DEF MarkerLeaves
<1>4. ASSUME NEW i \in DOMAIN m.leaves
      PROVE  /\ image[i].kind = "true" => LeafMeans(m.leaves[i], v, s, w.extra)
             /\ image[i].kind = "false" => ~LeafMeans(m.leaves[i], v, s, w.extra)
             /\ image[i].kind \notin {"true", "false"} =>
                  (LeafMeans(image[i], v, s, w.extra) <=> LeafMeans(m.leaves[i], v, s, w.extra))
  <2>1. LeafMeans(m.leaves[i], v, s, w.extra) <=> LeafHolds(m.leaves[i], v, s, w.extra)
    BY <1>3, LeafShape DEF LeafMeans
  <2>2. /\ image[i].kind = "true" => LeafHolds(m.leaves[i], v, s, w.extra)
        /\ image[i].kind = "false" => ~LeafHolds(m.leaves[i], v, s, w.extra)
        /\ image[i].kind \notin {"true", "false"} => image[i] = m.leaves[i]
    BY <1>2, EvaluatedLeaf
  <2> QED
    BY <2>1, <2>2
<1> QED
  BY <1>1, <1>3, <1>4, MeansModify

LEMMA ConvertedKind ==
    ASSUME NEW l, l.kind \in {"compare", "contains", "string", "chain"},
           l.kind = "chain" => l.op \in EqualityComparators,
           LeafCondition(l).error = "ok"
    PROVE  LeafCondition(l).condition.kind \in {"clauses", "virtual"}
<1>1. \A set : Converted(set).condition.kind = "clauses"
  BY DEF Converted, ConvertedToAny
<1>2. \A sets : ConvertedToAny(sets).condition.kind = "clauses"
  BY DEF ConvertedToAny
<1>3. Unconvertable.error # "ok" /\ NeverEqual.error # "ok"
  BY DEF Unconvertable, NeverEqual
<1>4. CASE l.kind = "contains"
  BY <1>3, <1>4, LeafConditionOf
<1>5. CASE l.kind = "string"
  <2>1. LeafCondition(l) = VirtualPackageCondition(l)
    BY <1>5, LeafConditionOf
  <2> QED
    BY <1>3, <2>1 DEF VirtualPackageCondition
<1>6. CASE l.kind = "chain"
  <2>1. LeafCondition(l) = ChainCondition(l)
    BY <1>6, LeafConditionOf
  <2> QED
    BY <1>1, <1>2, <2>1 DEF ChainCondition
<1>7. CASE l.kind = "compare" /\ l.key = "python_version"
  <2>1. LeafCondition(l) = PythonVersionCondition(l)
    BY <1>7, LeafConditionOf
  <2>2. \/ PythonVersionCondition(l) = Unconvertable
        \/ PythonVersionCondition(l) = NeverEqual
        \/ \E set : PythonVersionCondition(l) = Converted(set)
    BY DEF PythonVersionCondition
  <2> QED
    BY <1>1, <1>3, <2>1, <2>2
<1>8. CASE l.kind = "compare" /\ l.key # "python_version"
  <2>1. LeafCondition(l) = FullVersionCondition(l)
    BY <1>8, LeafConditionOf
  <2>2. \/ FullVersionCondition(l) = Unconvertable
        \/ \E set : FullVersionCondition(l) = Converted(set)
    BY DEF FullVersionCondition
  <2> QED
    BY <1>1, <1>3, <2>1, <2>2
<1> QED
  BY <1>4, <1>5, <1>6, <1>7, <1>8

LEMMA FromMarkerLeaf ==
    ASSUME NEW marker \in Markers, NEW m, FromMarker(m, marker), NEW i \in DOMAIN m.leaves
    PROVE  /\ i \in DOMAIN marker.leaves /\ marker.leaves[i] \in MarkerLeaves
           /\ \/ IsChain(m.leaves[i])
              \/ m.leaves[i] \in MarkerLeaves /\ m.leaves[i] = marker.leaves[i]
           /\ m.leaves[i].kind \in {"compare", "contains", "string", "chain", "extra"}
           /\ m.leaves[i].kind = "chain" => m.leaves[i].op \in EqualityComparators
<1>1. i \in DOMAIN marker.leaves /\ (m.leaves[i] = marker.leaves[i] \/ IsChain(m.leaves[i]))
  BY DEF FromMarker
<1>2. marker.leaves[i] \in MarkerLeaves
  BY <1>1, MarkersFormed DEF MarkerLeaves
<1>3. CASE IsChain(m.leaves[i])
  BY <1>1, <1>2, <1>3 DEF IsChain, Chain
<1>4. CASE m.leaves[i] = marker.leaves[i]
  BY <1>1, <1>2, <1>4, LeafShape
<1> QED
  BY <1>1, <1>3, <1>4

(* A tree that is converted means the same to conda.                       *)
LEMMA ConvertedTree ==
    ASSUME NEW marker \in Markers, NEW m, FromMarker(m, marker), ~IsConstant(m),
           \A i \in DOMAIN m.leaves : m.leaves[i].kind # "extra",
           MarkerCondition(m).error = "ok"
    PROVE  LET condition == MarkerCondition(m).condition
           IN  /\ \A l \in Leaves(condition) : l.kind \in {"clauses", "virtual"}
               /\ \A v \in Pythons, s \in Subdirs : \A extra :
                    (IsPrerelease(v) => ~AsksFullVersion(marker)) =>
                        (Applies(condition, v, s) <=> Means(m, v, s, extra))
<1> DEFINE c == MarkerCondition(m).condition
<1>1. /\ c.terms = m.terms /\ DOMAIN c.leaves = DOMAIN m.leaves
      /\ \A i \in DOMAIN m.leaves : /\ LeafCondition(m.leaves[i]).error = "ok"
                                    /\ c.leaves[i] = LeafCondition(m.leaves[i]).condition
  BY ConditionCases DEF FromMarker
<1> HIDE DEF c
<1>2. \A l \in Leaves(c) : l.kind \in {"clauses", "virtual"}
  <2> SUFFICES ASSUME NEW i \in DOMAIN m.leaves
               PROVE  c.leaves[i].kind \in {"clauses", "virtual"}
    BY <1>1 DEF Leaves, Range
  <2>1. /\ m.leaves[i].kind \in {"compare", "contains", "string", "chain"}
        /\ m.leaves[i].kind = "chain" => m.leaves[i].op \in EqualityComparators
    BY FromMarkerLeaf
  <2> QED
    BY <1>1, <2>1, ConvertedKind
<1>3. ASSUME NEW v \in Pythons, NEW s \in Subdirs, NEW extra,
             IsPrerelease(v) => ~AsksFullVersion(marker)
      PROVE  Applies(c, v, s) <=> Means(m, v, s, extra)
  <2>1. ASSUME NEW i \in DOMAIN m.leaves
        PROVE  LeafApplies(c.leaves[i], v, s) <=> LeafMeans(m.leaves[i], v, s, extra)
    <3> DEFINE l == m.leaves[i]
    <3>1. /\ i \in DOMAIN marker.leaves
          /\ IsChain(l) \/ (l \in MarkerLeaves /\ l = marker.leaves[i])
          /\ l.kind # "extra" /\ LeafCondition(l).error = "ok"
          /\ c.leaves[i] = LeafCondition(l).condition
      BY <1>1, FromMarkerLeaf
    <3>2. IsPrerelease(v) => ~(l.kind = "compare" /\ l.key \in FullVersionKeys)
      <4>1. CASE IsChain(l)
        BY <4>1, ChainKind
      <4>2. CASE l = marker.leaves[i]
        <5>1. l \in Leaves(marker)
          BY <3>1, <4>2 DEF Leaves, Range
        <5> QED
          BY <1>3, <5>1 DEF AsksFullVersion
      <4> QED
        BY <3>1, <4>1, <4>2
    <3> HIDE DEF l
    <3>3. LeafApplies(LeafCondition(l).condition, v, s) <=> LeafMeans(l, v, s, extra)
      BY <3>1, <3>2, ConvertedLeaf
    <3> QED
      BY <3>1, <3>3 DEF l
  <2>2. \A t \in m.terms : t \subseteq DOMAIN m.leaves
    BY DEF FromMarker, Formed
  <2> QED
    BY <1>1, <2>1, <2>2 DEF Applies, Means
<1> QED
  BY <1>2, <1>3 DEF c

(* A tree is refused for a leaf of the marker itself.                      *)
LEMMA RefusedTree ==
    ASSUME NEW marker \in Markers, NEW m, FromMarker(m, marker), ~IsConstant(m),
           \A i \in DOMAIN m.leaves : m.leaves[i].kind # "extra",
           MarkerCondition(m).error # "ok"
    PROVE  \E i \in DOMAIN m.leaves : LET l == m.leaves[i]
           IN  /\ l \in Leaves(marker) /\ l.kind # "extra"
               /\ \/ /\ MarkerCondition(m).error = "UnconvertableMarkerError"
                     /\ InTable(l) => IsPythonVersionIn(l) \/ IsPythonVersionNotIn(l)
                  \/ /\ MarkerCondition(m).error = "UnconvertablePythonVersionEqualityError"
                     /\ \A v \in Pythons : \A s, extra :
                            LeafHolds(l, v, s, extra) <=> l.op = "!="
<1>1. PICK i \in DOMAIN m.leaves : MarkerCondition(m) = LeafCondition(m.leaves[i])
  BY ConditionCases DEF FromMarker
<1> DEFINE l == m.leaves[i]
<1>2. /\ i \in DOMAIN marker.leaves
      /\ IsChain(l) \/ (l \in MarkerLeaves /\ l = marker.leaves[i])
      /\ l.kind # "extra"
  BY FromMarkerLeaf
<1>3. l \in MarkerLeaves
  BY <1>1, <1>2, RefusedLeaf
<1>4. ~IsChain(l)
  BY <1>3, LeafShape, ChainKind
<1>5. l \in Leaves(marker)
  BY <1>2, <1>4 DEF Leaves, Range
<1> HIDE DEF l
<1>6. \/ /\ LeafCondition(l).error = "UnconvertableMarkerError"
         /\ InTable(l) => IsPythonVersionIn(l) \/ IsPythonVersionNotIn(l)
      \/ /\ LeafCondition(l).error = "UnconvertablePythonVersionEqualityError"
         /\ \A v \in Pythons : \A s, extra : LeafHolds(l, v, s, extra) <=> l.op = "!="
  <2>1. LeafCondition(l).error # "ok"
    BY <1>1 DEF l
  <2> QED
    BY <1>2, <1>3, <2>1, RefusedLeaf
<1> QED
  BY <1>1, <1>2, <1>5, <1>6 DEF l
=============================================================================
