-------------------------- MODULE PythonRangeLemmas ---------------------------
(***************************************************************************)
(* How versions are ordered, what clauses and ranges say of a Python, and  *)
(* that the few releases of a minor that are probed stand for all of them. *)
(***************************************************************************)
EXTENDS ConditionalDependency, FiniteLemmas, SequenceTheorems

(* Rank compares these as PEP 440 does. *)
Comparable(v) ==
    /\ v = [release |-> v.release, stage |-> v.stage]
    /\ Segment(v, 1) \in 0 .. 199 /\ Segment(v, 2) \in 0 .. 199 /\ Segment(v, 3) \in 0 .. 199
    /\ Segment(v, 4) \in 0 .. 9 /\ v.stage \in Anchor .. Local

SameSegments(v, w) ==
    /\ Segment(v, 1) = Segment(w, 1) /\ Segment(v, 2) = Segment(w, 2)
    /\ Segment(v, 3) = Segment(w, 3) /\ Segment(v, 4) = Segment(w, 4)

(* The order segment by segment, the stage last. *)
Precedes(v, w) ==
    \/ Segment(v, 1) < Segment(w, 1)
    \/ /\ Segment(v, 1) = Segment(w, 1)
       /\ \/ Segment(v, 2) < Segment(w, 2)
          \/ /\ Segment(v, 2) = Segment(w, 2)
             /\ \/ Segment(v, 3) < Segment(w, 3)
                \/ /\ Segment(v, 3) = Segment(w, 3)
                   /\ \/ Segment(v, 4) < Segment(w, 4)
                      \/ Segment(v, 4) = Segment(w, 4) /\ v.stage < w.stage

(* Rank is the order segment by segment.                                   *)
LEMMA RankOrder ==
    ASSUME NEW v, NEW w, Comparable(v), Comparable(w)
    PROVE  /\ Rank(v) \in Int /\ Rank(w) \in Int
           /\ Rank(v) < Rank(w) <=> Precedes(v, w)
           /\ Rank(v) = Rank(w) <=> SameSegments(v, w) /\ v.stage = w.stage
<1> DEFINE a1 == Segment(v, 1)
           a2 == Segment(v, 2)
           a3 == Segment(v, 3)
           a4 == Segment(v, 4)
           b1 == Segment(w, 1)
           b2 == Segment(w, 2)
           b3 == Segment(w, 3)
           b4 == Segment(w, 4)
           x2 == a1 * 200 + a2
           y2 == b1 * 200 + b2
           x3 == x2 * 200 + a3
           y3 == y2 * 200 + b3
           x4 == x3 * 10 + a4
           y4 == y3 * 10 + b4
<1>1. /\ a1 \in 0 .. 199 /\ a2 \in 0 .. 199 /\ a3 \in 0 .. 199 /\ a4 \in 0 .. 9
      /\ b1 \in 0 .. 199 /\ b2 \in 0 .. 199 /\ b3 \in 0 .. 199 /\ b4 \in 0 .. 9
      /\ v.stage \in 0 .. 5 /\ w.stage \in 0 .. 5
  BY DEF Comparable, Anchor, Local
<1>2. Rank(v) = x4 * 6 + v.stage /\ Rank(w) = y4 * 6 + w.stage
  BY DEF Rank
<1>3. /\ SameSegments(v, w) <=> a1 = b1 /\ a2 = b2 /\ a3 = b3 /\ a4 = b4
      /\ Precedes(v, w) <=>
            a1 < b1 \/ (a1 = b1 /\ (a2 < b2 \/ (a2 = b2 /\ (a3 < b3 \/ (a3 = b3 /\
                (a4 < b4 \/ (a4 = b4 /\ v.stage < w.stage)))))))
  BY DEF SameSegments, Precedes
<1> HIDE DEF a1, a2, a3, a4, b1, b2, b3, b4
<1>4. /\ x2 \in Int /\ y2 \in Int
      /\ x2 < y2 <=> a1 < b1 \/ (a1 = b1 /\ a2 < b2)
      /\ x2 = y2 <=> a1 = b1 /\ a2 = b2
  BY <1>1
<1> HIDE DEF x2, y2
<1>5. /\ x3 \in Int /\ y3 \in Int
      /\ x3 < y3 <=> x2 < y2 \/ (x2 = y2 /\ a3 < b3)
      /\ x3 = y3 <=> x2 = y2 /\ a3 = b3
  BY <1>1, <1>4
<1> HIDE DEF x3, y3
<1>6. /\ x4 \in Int /\ y4 \in Int
      /\ x4 < y4 <=> x3 < y3 \/ (x3 = y3 /\ a4 < b4)
      /\ x4 = y4 <=> x3 = y3 /\ a4 = b4
  BY <1>1, <1>5
<1> HIDE DEF x4, y4
<1>7. /\ Rank(v) \in Int /\ Rank(w) \in Int
      /\ Rank(v) < Rank(w) <=> x4 < y4 \/ (x4 = y4 /\ v.stage < w.stage)
      /\ Rank(v) = Rank(w) <=> x4 = y4 /\ v.stage = w.stage
  BY <1>1, <1>2, <1>6
<1> QED
  BY <1>3, <1>4, <1>5, <1>6, <1>7

-----------------------------------------------------------------------------
(* Segments of the versions that the code builds.                          *)

LEMMA SegmentsOf ==
    /\ \A a, s : LET v == [release |-> <<a>>, stage |-> s]
                 IN  /\ Segment(v, 1) = a /\ Segment(v, 2) = 0 /\ Segment(v, 3) = 0
                     /\ Segment(v, 4) = 0
    /\ \A a, b, s : LET v == [release |-> <<a, b>>, stage |-> s]
                    IN  /\ Segment(v, 1) = a /\ Segment(v, 2) = b /\ Segment(v, 3) = 0
                        /\ Segment(v, 4) = 0
    /\ \A a, b, c, s : LET v == [release |-> <<a, b, c>>, stage |-> s]
                       IN  /\ Segment(v, 1) = a /\ Segment(v, 2) = b /\ Segment(v, 3) = c
                           /\ Segment(v, 4) = 0
  BY DEF Segment

(* The stage is no segment. *)
LEMMA StageIsNoSegment ==
    ASSUME NEW v, NEW r, NEW s, NEW t, v = [release |-> r, stage |-> s], NEW w,
           w = [release |-> r, stage |-> t]
    PROVE  \A i : Segment(w, i) = Segment(v, i)
  BY DEF Segment

LEMMA SegmentShape ==
    ASSUME NEW S, 0 \in S, NEW v, v.release \in Seq(S), NEW i \in 1 .. 4
    PROVE  /\ Segment(v, i) \in S
           /\ i <= Len(v.release) => Segment(v, i) = v.release[i]
           /\ i > Len(v.release) => Segment(v, i) = 0
<1>1. Len(v.release) \in Nat
  OBVIOUS
<1>2. i <= Len(v.release) => v.release[i] \in S
  BY <1>1, ElementOfSeq
<1> QED
  BY <1>1, <1>2 DEF Segment

LEMMA ThreeSegments ==
    ASSUME NEW S, NEW r \in Seq(S), Len(r) = 3
    PROVE  \E a, b, c \in S : r = <<a, b, c>>
<1>1. r[1] \in S /\ r[2] \in S /\ r[3] \in S
  BY ElementOfSeq
<1>2. r = <<r[1], r[2], r[3]>>
  OBVIOUS
<1> QED
  BY <1>1, <1>2

LEMMA VersionShape ==
    ASSUME NEW v \in Versions
    PROVE  /\ Comparable(v)
           /\ v.release \in Seq(0 .. 198) /\ Len(v.release) \in 1 .. 4
           /\ v.stage \in {Alpha, Candidate, Final, Post, Local}
           /\ Segment(v, 1) = v.release[1]
           /\ \A i \in 1 .. 4 : /\ Segment(v, i) \in 0 .. 198
                                /\ i <= Len(v.release) => Segment(v, i) = v.release[i]
                                /\ i > Len(v.release) => Segment(v, i) = 0
<1>1. /\ v \in [release : Seq(0 .. 198), stage : 1 .. 5]
      /\ Len(v.release) \in 1 .. 4 /\ Segment(v, 4) < 10
  BY DEF Versions, SegmentBound, Alpha, Local
<1>2. v = [release |-> v.release, stage |-> v.stage] /\ v.release \in Seq(0 .. 198)
  BY <1>1
<1>3. v.stage \in {Alpha, Candidate, Final, Post, Local}
  <2>1. v.stage \in 1 .. 5
    BY <1>1
  <2> QED
    BY <2>1 DEF Alpha, Candidate, Final, Post, Local
<1>4. \A i \in 1 .. 4 : /\ Segment(v, i) \in 0 .. 198
                        /\ i <= Len(v.release) => Segment(v, i) = v.release[i]
                        /\ i > Len(v.release) => Segment(v, i) = 0
  <2> DEFINE S == 0 .. 198
  <2>1. v.release \in Seq(S) /\ 0 \in S
    BY <1>2
  <2>2. ASSUME NEW i \in 1 .. 4
        PROVE  /\ Segment(v, i) \in S
               /\ i <= Len(v.release) => Segment(v, i) = v.release[i]
               /\ i > Len(v.release) => Segment(v, i) = 0
    <3> HIDE DEF S
    <3> QED
      BY <2>1, SegmentShape
  <2> QED
    BY <2>2
<1>5. Comparable(v)
  <2>1. Segment(v, 1) \in 0 .. 198 /\ Segment(v, 2) \in 0 .. 198 /\ Segment(v, 3) \in 0 .. 198
        /\ Segment(v, 4) \in 0 .. 198
    BY <1>4
  <2>2. v.stage \in Anchor .. Local
    BY <1>3 DEF Anchor, Alpha, Candidate, Final, Post, Local
  <2>3. Segment(v, 4) < 10
    BY <1>1
  <2> QED
    <3>1. /\ Segment(v, 1) \in 0 .. 199 /\ Segment(v, 2) \in 0 .. 199 /\ Segment(v, 3) \in 0 .. 199
          /\ Segment(v, 4) \in 0 .. 9
      BY <2>1, <2>3
    <3> QED
      BY ONLY <1>2, <3>1, <2>2 DEF Comparable
<1> QED
  BY <1>1, <1>2, <1>3, <1>4, <1>5

(* What the lemmas say of a Python, and what a release of one is. *)
LEMMA PythonShape ==
    ASSUME NEW v \in Pythons
    PROVE  /\ Comparable(v)
           /\ v.release = <<v.release[1], v.release[2], v.release[3]>>
           /\ v.release[1] \in 0 .. 198 /\ v.release[2] \in 0 .. 198 /\ v.release[3] \in 0 .. 100
           /\ v.release[3] <= MaxMicro
           /\ Segment(v, 1) = v.release[1] /\ Segment(v, 2) = v.release[2]
           /\ Segment(v, 3) = v.release[3] /\ Segment(v, 4) = 0
           /\ v.stage \in {Alpha, Candidate, Final}
<1>1. /\ v \in [release : Seq(0 .. 198), stage : {Alpha, Candidate, Final}]
      /\ Len(v.release) = 3 /\ v.release[3] <= MaxMicro /\ MaxMicro \in 0 .. 100
  BY PythonsAssumption DEF SegmentBound
<1>2. /\ v = [release |-> v.release, stage |-> v.stage] /\ v.release \in Seq(0 .. 198)
      /\ v.stage \in {Alpha, Candidate, Final}
  BY <1>1
<1>3. PICK a, b, c \in 0 .. 198 : v.release = <<a, b, c>>
  <2> DEFINE S == 0 .. 198
  <2>1. v.release \in Seq(S) /\ Len(v.release) = 3
    BY <1>1, <1>2
  <2>2. \E a, b, c \in S : v.release = <<a, b, c>>
    <3> HIDE DEF S
    <3> QED
      BY <2>1, ThreeSegments
  <2> QED
    BY <2>2
<1>4. /\ v.release[1] = a /\ v.release[2] = b /\ v.release[3] = c
      /\ Segment(v, 1) = a /\ Segment(v, 2) = b /\ Segment(v, 3) = c /\ Segment(v, 4) = 0
  BY <1>3 DEF Segment
<1>5. v.stage \in Anchor .. Local
  BY <1>2 DEF Anchor, Local, Alpha, Candidate, Final
<1>6. c \in 0 .. 100
  BY <1>1, <1>3, <1>4
<1> QED
  BY <1>1, <1>2, <1>3, <1>4, <1>5, <1>6 DEF Comparable

(* A release of Python with any minor and patch number. *)
LEMMA ReleaseShape ==
    ASSUME NEW a \in Nat, NEW m \in Nat, NEW p \in Nat, a <= 199, m <= 199, p <= 199
    PROVE  LET v == Release(<<a, m, p>>)
           IN  /\ Comparable(v) /\ v.stage = Final /\ v.release = <<a, m, p>>
               /\ Segment(v, 1) = a /\ Segment(v, 2) = m /\ Segment(v, 3) = p
               /\ Segment(v, 4) = 0
  BY SegmentsOf DEF Release, Comparable, Anchor, Local, Final

LEMMA MinorShape ==
    ASSUME NEW m \in Nat, m <= 199
    PROVE  LET v == Minor(m)
           IN  /\ Comparable(v) /\ v.stage = Final /\ v.release = <<3, m>>
               /\ Segment(v, 1) = 3 /\ Segment(v, 2) = m /\ Segment(v, 3) = 0
               /\ Segment(v, 4) = 0 /\ v # Unbounded
<1> DEFINE v == Minor(m)
<1>1. v.release = <<3, m>> /\ v.stage = Final /\ v = [release |-> v.release, stage |-> v.stage]
  BY DEF Minor, Release
<1>2. v # Unbounded
  <2>1. Unbounded.release = <<>> /\ Len(<<>>) = 0 /\ Len(<<3, m>>) = 2
    BY DEF Unbounded
  <2>2. v.release = <<3, m>>
    BY <1>1
  <2> HIDE DEF v
  <2>3. Len(v.release) = 2 /\ Len(Unbounded.release) = 0
    BY <2>1, <2>2
  <2> QED
    BY <2>3
<1>3. v.stage \in Anchor .. Local
  BY <1>1 DEF Anchor, Local, Final
<1> HIDE DEF v
<1>4. Segment(v, 1) = 3 /\ Segment(v, 2) = m /\ Segment(v, 3) = 0 /\ Segment(v, 4) = 0
  BY <1>1 DEF Segment
<1> QED
  BY <1>1, <1>2, <1>3, <1>4 DEF Comparable, v

(* The order of releases, whatever the stage. *)
SegmentsBelow(v, w) ==
    \/ Segment(v, 1) < Segment(w, 1)
    \/ /\ Segment(v, 1) = Segment(w, 1)
       /\ \/ Segment(v, 2) < Segment(w, 2)
          \/ /\ Segment(v, 2) = Segment(w, 2)
             /\ \/ Segment(v, 3) < Segment(w, 3)
                \/ Segment(v, 3) = Segment(w, 3) /\ Segment(v, 4) < Segment(w, 4)

LEMMA StageLast ==
    ASSUME NEW v, NEW w, Comparable(v), Comparable(w)
    PROVE  /\ Rank(v) \in Int /\ Rank(w) \in Int
           /\ Rank(v) < Rank(w)
                <=> SegmentsBelow(v, w) \/ (SameSegments(v, w) /\ v.stage < w.stage)
           /\ Rank(v) = Rank(w) <=> SameSegments(v, w) /\ v.stage = w.stage
<1>1. Precedes(v, w) <=> SegmentsBelow(v, w) \/ (SameSegments(v, w) /\ v.stage < w.stage)
  BY Zenon DEF Precedes, SegmentsBelow, SameSegments
<1> QED
  BY <1>1, RankOrder

(* Of two releases one is below the other, unless they are the same. *)
LEMMA SegmentsTotal ==
    ASSUME NEW v, NEW w, Comparable(v), Comparable(w)
    PROVE  /\ SegmentsBelow(v, w) \/ SegmentsBelow(w, v) \/ SameSegments(v, w)
           /\ ~(SegmentsBelow(v, w) /\ SegmentsBelow(w, v))
           /\ ~(SegmentsBelow(v, w) /\ SameSegments(v, w))
           /\ ~(SegmentsBelow(w, v) /\ SameSegments(v, w))
           /\ SameSegments(v, w) <=> SameSegments(w, v)
<1> DEFINE a1 == Segment(v, 1)
           a2 == Segment(v, 2)
           a3 == Segment(v, 3)
           a4 == Segment(v, 4)
           b1 == Segment(w, 1)
           b2 == Segment(w, 2)
           b3 == Segment(w, 3)
           b4 == Segment(w, 4)
<1>1. /\ a1 \in Int /\ a2 \in Int /\ a3 \in Int /\ a4 \in Int
      /\ b1 \in Int /\ b2 \in Int /\ b3 \in Int /\ b4 \in Int
  BY DEF Comparable
<1>2. /\ SegmentsBelow(v, w) <=>
            a1 < b1 \/ (a1 = b1 /\ (a2 < b2 \/ (a2 = b2 /\ (a3 < b3 \/ (a3 = b3 /\ a4 < b4)))))
      /\ SegmentsBelow(w, v) <=>
            b1 < a1 \/ (b1 = a1 /\ (b2 < a2 \/ (b2 = a2 /\ (b3 < a3 \/ (b3 = a3 /\ b4 < a4)))))
      /\ SameSegments(v, w) <=> a1 = b1 /\ a2 = b2 /\ a3 = b3 /\ a4 = b4
      /\ SameSegments(w, v) <=> a1 = b1 /\ a2 = b2 /\ a3 = b3 /\ a4 = b4
  BY Zenon DEF SegmentsBelow, SameSegments
<1> HIDE DEF a1, a2, a3, a4, b1, b2, b3, b4
<1> QED
  BY <1>1, <1>2

(* Another stage of the same version. *)
LEMMA Restaged ==
    ASSUME NEW v, Comparable(v), NEW s \in Anchor .. Local
    PROVE  LET w == [v EXCEPT !.stage = s]
           IN  /\ Comparable(w) /\ SameSegments(v, w) /\ w.stage = s /\ w.release = v.release
               /\ \A i : Segment(w, i) = Segment(v, i)
<1> DEFINE w == [v EXCEPT !.stage = s]
<1>1. v = [release |-> v.release, stage |-> v.stage]
  BY DEF Comparable
<1>2. w = [release |-> v.release, stage |-> s]
  BY <1>1
<1>3. w.release = v.release /\ w.stage = s
  BY <1>2
<1> HIDE DEF w
<1>4. \A i : Segment(w, i) = Segment(v, i)
  BY <1>3 DEF Segment
<1>5. Comparable(w) /\ SameSegments(v, w)
  BY <1>2, <1>3, <1>4 DEF Comparable, SameSegments
<1> QED
  BY <1>3, <1>4, <1>5 DEF w

LEMMA SegmentTypes ==
    ASSUME NEW v, Comparable(v)
    PROVE  /\ Segment(v, 1) \in 0 .. 199 /\ Segment(v, 2) \in 0 .. 199 /\ Segment(v, 3) \in 0 .. 199
           /\ Segment(v, 4) \in 0 .. 9 /\ v.stage \in 0 .. 5
<1>1. /\ Segment(v, 1) \in 0 .. 199 /\ Segment(v, 2) \in 0 .. 199 /\ Segment(v, 3) \in 0 .. 199
      /\ Segment(v, 4) \in 0 .. 9 /\ v.stage \in Anchor .. Local
  BY Zenon DEF Comparable
<1> QED
  BY <1>1 DEF Anchor, Local

-----------------------------------------------------------------------------
(* What clauses and ranges say of a Python.                                *)

LEMMA MatchesOf ==
    ASSUME NEW v, NEW x
    PROVE  /\ Matches(v, Clause(">=", x)) <=> Rank(v) >= Rank(x)
           /\ Matches(v, Clause(">", x)) <=> Rank(v) > Rank(x)
           /\ Matches(v, Clause("<=", x)) <=> Rank(v) <= Rank(x)
           /\ Matches(v, Clause("<", x)) <=> Rank(v) < Rank(x)
           /\ Matches(v, Clause("==", x)) <=> Rank(v) = Rank(x)
           /\ Matches(v, Clause("!=", x)) <=> Rank(v) # Rank(x)
           /\ Matches(v, Clause("=", x)) <=> StartsWith(v, x)
           /\ Matches(v, GlobClause("!=", x)) <=> ~StartsWith(v, x)
  BY DEF Matches, Clause, GlobClause

LEMMA SatisfiesOf ==
    ASSUME NEW v, NEW c
    PROVE  /\ c.op = ">=" => (Satisfies(v, c) <=> Rank(v) >= Rank(c.version))
           /\ c.op = ">" => (Satisfies(v, c) <=> Rank(v) > Rank(c.version))
           /\ c.op = "<=" => (Satisfies(v, c) <=> Rank(v) <= Rank(c.version))
           /\ c.op = "<" /\ v.stage = Final =>
                (Satisfies(v, c) <=> Rank(v) < Rank(c.version))
           /\ c.op = "==" /\ c.glob => (Satisfies(v, c) <=> StartsWith(v, c.version))
           /\ c.op = "!=" /\ c.glob => (Satisfies(v, c) <=> ~StartsWith(v, c.version))
           /\ c.op = "==" /\ ~c.glob => (Satisfies(v, c) <=> Rank(v) = Rank(c.version))
           /\ c.op = "!=" /\ ~c.glob => (Satisfies(v, c) <=> Rank(v) # Rank(c.version))
           /\ c.op = "~=" =>
                (Satisfies(v, c) <=>
                    /\ Rank(v) >= Rank(c.version)
                    /\ \A i \in 1 .. Len(c.version.release) - 1 :
                            Segment(v, i) = c.version.release[i])
           /\ c.op = "===" => (Satisfies(v, c) <=> v = c.version)
<1>1. ~(v.stage = Final /\ IsPrerelease(v))
  BY DEF IsPrerelease, Final, Alpha, Candidate
<1> QED
  BY <1>1 DEF Satisfies

(* A bound with the "a0" excludes all of its own release. *)
LEMMA BelowAnchored ==
    ASSUME NEW v, NEW u, Comparable(v), Comparable(u), u.stage # Post
    PROVE  Matches(v, Clause("<", Anchored(u))) <=> SegmentsBelow(v, u)
<1> DEFINE w == [u EXCEPT !.stage = Anchor]
<1>1. Anchored(u) = w
  BY DEF Anchored
<1>2. /\ Comparable(w) /\ SameSegments(u, w) /\ w.stage = Anchor
      /\ \A i : Segment(w, i) = Segment(u, i)
  <2>1. Anchor \in Anchor .. Local
    BY DEF Anchor, Local
  <2> QED
    BY <2>1, Restaged
<1> HIDE DEF w
<1>3. Rank(v) < Rank(w) <=> SegmentsBelow(v, w) \/ (SameSegments(v, w) /\ v.stage < w.stage)
  BY <1>2, StageLast
<1>4. ~(v.stage < w.stage)
  BY <1>2 DEF Comparable, Anchor, Local
<1>5. SegmentsBelow(v, w) <=> SegmentsBelow(v, u)
  BY <1>2 DEF SegmentsBelow
<1> QED
  BY <1>1, <1>3, <1>4, <1>5, MatchesOf

(* A clause "<" means the same to pip and, converted, to conda. *)
LEMMA BelowConverted ==
    ASSUME NEW v, NEW u, Comparable(v), Comparable(u), v.stage = Final, u.stage # Local
    PROVE  MatchesAll(v, ConvertSpecifier(Clause("<", u))) <=> Rank(v) < Rank(u)
<1> DEFINE c == Clause("<", u)
<1>1. c.op = "<" /\ c.version = u /\ ~c.glob
  BY DEF Clause
<1>2. ConvertSpecifier(c) = IF IsPrerelease(u) THEN {c} ELSE {Clause("<", Anchored(u))}
  BY <1>1 DEF ConvertSpecifier
<1>3. /\ Rank(v) \in Int /\ Rank(u) \in Int
      /\ Rank(v) < Rank(u) <=> SegmentsBelow(v, u) \/ (SameSegments(v, u) /\ v.stage < u.stage)
  BY StageLast
<1>4. u.stage \in 0 .. 5
  BY DEF Comparable, Anchor, Local
<1>5. CASE IsPrerelease(u) \/ u.stage = Post
  <2>1. ConvertSpecifier(c) = {c}
    BY <1>1, <1>2, <1>5 DEF Anchored, Clause
  <2> QED
    BY <2>1, MatchesOf DEF MatchesAll
<1>6. CASE ~IsPrerelease(u) /\ u.stage # Post
  <2>1. ~(v.stage < u.stage)
    BY <1>4, <1>6 DEF IsPrerelease, Post, Local, Final, Alpha, Candidate
  <2>2. ConvertSpecifier(c) = {Clause("<", Anchored(u))}
    BY <1>2, <1>6
  <2>3. MatchesAll(v, ConvertSpecifier(c)) <=> SegmentsBelow(v, u)
    BY <2>2, <1>6, BelowAnchored DEF MatchesAll
  <2> QED
    BY <2>1, <2>3, <1>3
<1> QED
  BY <1>5, <1>6

-----------------------------------------------------------------------------
(* The release after all that begin with the same segments.                *)

LEMMA BumpedOne ==
    ASSUME NEW a \in Nat, a <= 198
    PROVE  LET u == Release(BumpLast(<<a>>))
           IN  /\ Comparable(u) /\ u.stage = Final /\ u # Unbounded
               /\ Segment(u, 1) = a + 1 /\ Segment(u, 2) = 0
               /\ Segment(u, 3) = 0 /\ Segment(u, 4) = 0
<1> DEFINE u == Release(BumpLast(<<a>>))
<1>1. /\ u.release = <<a + 1>> /\ u.stage = Final
      /\ u = [release |-> u.release, stage |-> u.stage]
  BY DEF Release, BumpLast
<1>2. u.stage \in Anchor .. Local
  BY <1>1 DEF Anchor, Local, Final
<1>4. u # Unbounded
  BY <1>1 DEF Unbounded
<1> HIDE DEF u
<1>3. /\ Segment(u, 1) = a + 1 /\ Segment(u, 2) = 0
      /\ Segment(u, 3) = 0 /\ Segment(u, 4) = 0
  BY <1>1 DEF Segment
<1> QED
  BY <1>1, <1>2, <1>3, <1>4 DEF Comparable, u

LEMMA BumpedTwo ==
    ASSUME NEW a \in Nat, NEW b \in Nat, a <= 198, b <= 198
    PROVE  LET u == Release(BumpLast(<<a, b>>))
           IN  /\ Comparable(u) /\ u.stage = Final /\ u # Unbounded
               /\ Segment(u, 1) = a /\ Segment(u, 2) = b + 1
               /\ Segment(u, 3) = 0 /\ Segment(u, 4) = 0
<1> DEFINE u == Release(BumpLast(<<a, b>>))
<1>1. /\ u.release = <<a, b + 1>> /\ u.stage = Final
      /\ u = [release |-> u.release, stage |-> u.stage]
  BY DEF Release, BumpLast
<1>2. u.stage \in Anchor .. Local
  BY <1>1 DEF Anchor, Local, Final
<1>4. u # Unbounded
  BY <1>1 DEF Unbounded
<1> HIDE DEF u
<1>3. /\ Segment(u, 1) = a /\ Segment(u, 2) = b + 1
      /\ Segment(u, 3) = 0 /\ Segment(u, 4) = 0
  BY <1>1 DEF Segment
<1> QED
  BY <1>1, <1>2, <1>3, <1>4 DEF Comparable, u

LEMMA BumpedThree ==
    ASSUME NEW a \in Nat, NEW b \in Nat, NEW c \in Nat, a <= 198, b <= 198, c <= 198
    PROVE  LET u == Release(BumpLast(<<a, b, c>>))
           IN  /\ Comparable(u) /\ u.stage = Final /\ u # Unbounded
               /\ Segment(u, 1) = a /\ Segment(u, 2) = b
               /\ Segment(u, 3) = c + 1 /\ Segment(u, 4) = 0
<1> DEFINE u == Release(BumpLast(<<a, b, c>>))
<1>1. /\ u.release = <<a, b, c + 1>> /\ u.stage = Final
      /\ u = [release |-> u.release, stage |-> u.stage]
  BY DEF Release, BumpLast
<1>2. u.stage \in Anchor .. Local
  BY <1>1 DEF Anchor, Local, Final
<1>4. u # Unbounded
  BY <1>1 DEF Unbounded
<1> HIDE DEF u
<1>3. /\ Segment(u, 1) = a /\ Segment(u, 2) = b
      /\ Segment(u, 3) = c + 1 /\ Segment(u, 4) = 0
  BY <1>1 DEF Segment
<1> QED
  BY <1>1, <1>2, <1>3, <1>4 DEF Comparable, u

(* From c on, what begins as c does is what is below the release after. *)
LEMMA BumpedBounds ==
    ASSUME NEW r, NEW v, NEW c, Comparable(v), Comparable(c), ~SegmentsBelow(v, c),
           NEW x \in Nat, NEW y \in Nat, NEW z \in Nat, x <= 198, y <= 198, z <= 198,
           r \in {<<x>>, <<x, y>>, <<x, y, z>>},
           \A i \in 1 .. Len(r) : Segment(c, i) = r[i]
    PROVE  LET u == Release(BumpLast(r))
           IN  (\A i \in 1 .. Len(r) : Segment(v, i) = r[i]) <=> SegmentsBelow(v, u)
<1> DEFINE u == Release(BumpLast(r))
           a1 == Segment(v, 1)
           a2 == Segment(v, 2)
           a3 == Segment(v, 3)
           a4 == Segment(v, 4)
           b1 == Segment(c, 1)
           b2 == Segment(c, 2)
           b3 == Segment(c, 3)
           b4 == Segment(c, 4)
<1>1. /\ a1 \in Int /\ a2 \in Int /\ a3 \in Int /\ a4 \in Nat
      /\ b1 \in Int /\ b2 \in Int /\ b3 \in Int /\ b4 \in Int
      /\ a2 >= 0 /\ a3 >= 0
  BY ONLY Comparable(v), Comparable(c), SegmentTypes
<1>2. ~(a1 < b1 \/ (a1 = b1 /\ (a2 < b2 \/ (a2 = b2 /\ (a3 < b3 \/ (a3 = b3 /\ a4 < b4))))))
  BY Zenon DEF SegmentsBelow
<1>3. CASE r = <<x>>
  <2>1. b1 = x /\ ((\A i \in 1 .. Len(r) : Segment(v, i) = r[i]) <=> a1 = x)
    BY <1>3
  <2>2. SegmentsBelow(v, u) <=> a1 < x + 1 \/ (a1 = x + 1 /\ (a2 < 0 \/ (a2 = 0 /\
                                    (a3 < 0 \/ (a3 = 0 /\ a4 < 0)))))
    <3>1. Segment(u, 1) = x + 1 /\ Segment(u, 2) = 0 /\ Segment(u, 3) = 0 /\ Segment(u, 4) = 0
      BY <1>3, BumpedOne
    <3> HIDE DEF u
    <3> QED
      BY <3>1 DEF SegmentsBelow
  <2> HIDE DEF u, a1, a2, a3, a4, b1, b2, b3, b4
  <2> QED
    BY <1>1, <1>2, <2>1, <2>2 DEF u
<1>4. CASE r = <<x, y>>
  <2>1. b1 = x /\ b2 = y /\ ((\A i \in 1 .. Len(r) : Segment(v, i) = r[i]) <=> a1 = x /\ a2 = y)
    BY <1>4
  <2>2. SegmentsBelow(v, u) <=> a1 < x \/ (a1 = x /\ (a2 < y + 1 \/ (a2 = y + 1 /\
                                    (a3 < 0 \/ (a3 = 0 /\ a4 < 0)))))
    <3>1. Segment(u, 1) = x /\ Segment(u, 2) = y + 1 /\ Segment(u, 3) = 0 /\ Segment(u, 4) = 0
      BY <1>4, BumpedTwo
    <3> HIDE DEF u
    <3> QED
      BY <3>1 DEF SegmentsBelow
  <2> HIDE DEF u, a1, a2, a3, a4, b1, b2, b3, b4
  <2> QED
    BY <1>1, <1>2, <2>1, <2>2 DEF u
<1>5. CASE r = <<x, y, z>>
  <2>1. /\ b1 = x /\ b2 = y /\ b3 = z
        /\ (\A i \in 1 .. Len(r) : Segment(v, i) = r[i]) <=> a1 = x /\ a2 = y /\ a3 = z
    BY <1>5
  <2>2. SegmentsBelow(v, u) <=> a1 < x \/ (a1 = x /\ (a2 < y \/ (a2 = y /\
                                    (a3 < z + 1 \/ (a3 = z + 1 /\ a4 < 0)))))
    <3>1. Segment(u, 1) = x /\ Segment(u, 2) = y /\ Segment(u, 3) = z + 1 /\ Segment(u, 4) = 0
      <4> DEFINE w == Release(BumpLast(<<x, y, z>>))
      <4>1. Segment(w, 1) = x /\ Segment(w, 2) = y /\ Segment(w, 3) = z + 1 /\ Segment(w, 4) = 0
        BY BumpedThree
      <4> QED
        BY <1>5, <4>1
    <3> HIDE DEF u
    <3> QED
      BY <3>1 DEF SegmentsBelow
  <2> HIDE DEF u, a1, a2, a3, a4, b1, b2, b3, b4
  <2> QED
    BY <1>1, <1>2, <2>1, <2>2 DEF u
<1> QED
  BY <1>3, <1>4, <1>5

LEMMA FrontOf ==
    ASSUME NEW x, NEW y, NEW z, NEW t
    PROVE  /\ Front(<<x, y>>) = <<x>> /\ Front(<<x, y, z>>) = <<x, y>>
           /\ Front(<<x, y, z, t>>) = <<x, y, z>>
<1>1. Front(<<x, y>>) = <<x>>
  <2>1. Front(<<x, y>>) = SubSeq(<<x, y>>, 1, 1)
    BY DEF Front
  <2> QED
    BY <2>1
<1>2. Front(<<x, y, z>>) = <<x, y>>
  <2>1. Front(<<x, y, z>>) = SubSeq(<<x, y, z>>, 1, 2)
    BY DEF Front
  <2> QED
    BY <2>1
<1>3. Front(<<x, y, z, t>>) = <<x, y, z>>
  <2>1. Front(<<x, y, z, t>>) = SubSeq(<<x, y, z, t>>, 1, 3)
    BY DEF Front
  <2> QED
    BY <2>1
<1> QED
  BY <1>1, <1>2, <1>3

(* A version of two segments or more, without its last. *)
LEMMA VersionFront ==
    ASSUME NEW c \in Versions, Len(c.release) > 1
    PROVE  \E x, y, z \in Nat :
              /\ x <= 198 /\ y <= 198 /\ z <= 198
              /\ Front(c.release) \in {<<x>>, <<x, y>>, <<x, y, z>>}
              /\ Len(Front(c.release)) = Len(c.release) - 1
              /\ \A i \in 1 .. Len(c.release) - 1 :
                    Front(c.release)[i] = c.release[i] /\ Segment(c, i) = c.release[i]
<1> DEFINE S == 0 .. 198
           r == c.release
<1>1. r \in Seq(S) /\ Len(r) \in 2 .. 4
  BY VersionShape
<1>2. \A i \in 1 .. Len(r) : r[i] \in S
  <2> HIDE DEF S, r
  <2> QED
    BY <1>1, ElementOfSeq
<1>8. \A i \in 1 .. Len(r) : r[i] \in Nat /\ r[i] <= 198
  <2>1. \A n \in S : n \in Nat /\ n <= 198
    OBVIOUS
  <2> HIDE DEF S, r
  <2> QED
    BY <1>2, <2>1
<1>3. \A i \in 1 .. Len(r) : Segment(c, i) = r[i]
  BY <1>1 DEF Segment
<1>4. r = <<r[1], r[2]>> \/ r = <<r[1], r[2], r[3]>> \/ r = <<r[1], r[2], r[3], r[4]>>
  <2> HIDE DEF S, r
  <2> QED
    BY <1>1
<1> HIDE DEF r
<1>5. CASE r = <<r[1], r[2]>>
  <2>1. Front(r) = <<r[1]>> /\ Len(r) = 2
    BY <1>5, FrontOf
  <2>2. r[1] \in Nat /\ r[1] <= 198
    BY <1>8, <2>1
  <2> QED
    BY <1>3, <2>1, <2>2 DEF r
<1>6. CASE r = <<r[1], r[2], r[3]>>
  <2>1. Front(r) = <<r[1], r[2]>> /\ Len(r) = 3
    BY <1>6, FrontOf
  <2>2. r[1] \in Nat /\ r[1] <= 198 /\ r[2] \in Nat /\ r[2] <= 198
    BY <1>8, <2>1
  <2> QED
    BY <1>3, <2>1, <2>2 DEF r
<1>7. CASE r = <<r[1], r[2], r[3], r[4]>>
  <2>1. Front(r) = <<r[1], r[2], r[3]>> /\ Len(r) = 4
    BY <1>7, FrontOf
  <2>2. r[1] \in Nat /\ r[1] <= 198 /\ r[2] \in Nat /\ r[2] <= 198 /\ r[3] \in Nat /\ r[3] <= 198
    BY <1>8, <2>1
  <2> QED
    BY <1>3, <2>1, <2>2 DEF r
<1> QED
  BY <1>4, <1>5, <1>6, <1>7

(* What "~=" asks for is a half-open range. *)
LEMMA CompatibleBounds ==
    ASSUME NEW c \in Versions, Len(c.release) > 1, NEW v, Comparable(v)
    PROVE  LET u == Release(BumpLast(Front(c.release)))
           IN  /\ Comparable(u) /\ u.stage = Final /\ Segment(u, 4) = 0 /\ u # Unbounded
               /\ Rank(v) >= Rank(c) =>
                    ((\A i \in 1 .. Len(c.release) - 1 : Segment(v, i) = c.release[i])
                        <=> SegmentsBelow(v, u))
<1> DEFINE r == Front(c.release)
           u == Release(BumpLast(r))
<1>1. PICK x, y, z \in Nat :
              /\ x <= 198 /\ y <= 198 /\ z <= 198
              /\ r \in {<<x>>, <<x, y>>, <<x, y, z>>}
              /\ Len(r) = Len(c.release) - 1
              /\ \A i \in 1 .. Len(c.release) - 1 :
                    r[i] = c.release[i] /\ Segment(c, i) = c.release[i]
  BY VersionFront
<1>2. Comparable(c)
  BY VersionShape
<1>3. Comparable(u) /\ u.stage = Final /\ Segment(u, 4) = 0 /\ u # Unbounded
  <2>1. CASE r = <<x>>
    BY <1>1, <2>1, BumpedOne
  <2>2. CASE r = <<x, y>>
    BY <1>1, <2>2, BumpedTwo
  <2>3. CASE r = <<x, y, z>>
    BY <1>1, <2>3, BumpedThree
  <2> QED
    BY <1>1, <2>1, <2>2, <2>3
<1>4. ASSUME Rank(v) >= Rank(c)
      PROVE  (\A i \in 1 .. Len(c.release) - 1 : Segment(v, i) = c.release[i])
                 <=> SegmentsBelow(v, u)
  <2>1. ~SegmentsBelow(v, c)
    BY <1>2, <1>4, StageLast
  <2>2. (\A i \in 1 .. Len(r) : Segment(v, i) = r[i]) <=> SegmentsBelow(v, u)
    <3> HIDE DEF r
    <3>1. \A i \in 1 .. Len(r) : Segment(c, i) = r[i]
      BY <1>1
    <3> QED
      BY <1>1, <1>2, <2>1, <3>1, BumpedBounds
  <2> HIDE DEF r, u
  <2> QED
    BY <1>1, <2>2
<1> QED
  BY <1>3, <1>4

(* The clauses of a generic specifier mean the same once converted. *)
LEMMA ClauseConverted ==
    ASSUME NEW c \in ClausesOf(SpecifierOperators), c.op # "===", c.glob \/ c.version.stage # Local,
           NEW v, Comparable(v), v.stage = Final
    PROVE  Satisfies(v, c) <=> MatchesAll(v, ConvertSpecifier(c))
<1> DEFINE b == c.version
<1>1. /\ c = [op |-> c.op, version |-> b, glob |-> c.glob] /\ c.glob \in BOOLEAN
      /\ c.op \in SpecifierOperators /\ b \in Versions
      /\ c.glob => c.op \in {"==", "!="}
      /\ c.op = "~=" => Len(b.release) > 1
  BY DEF ClausesOf, EqualityComparators
<1>2. Comparable(b)
  BY <1>1, VersionShape
<1>3. c.op \in {"==", "!=", ">=", ">", "<=", "<", "~="}
  BY <1>1 DEF SpecifierOperators, EqualityComparators, OrderedComparators
<1>4. CASE c.op = "~="
  <2> DEFINE u == Release(BumpLast(Front(b.release)))
  <2>1. /\ Comparable(u) /\ u.stage = Final
        /\ Rank(v) >= Rank(b) =>
             ((\A i \in 1 .. Len(b.release) - 1 : Segment(v, i) = b.release[i])
                <=> SegmentsBelow(v, u))
    BY <1>1, <1>4, CompatibleBounds
  <2>2. ConvertSpecifier(c) = {Clause(">=", b), Clause("<", Anchored(u))}
    BY <1>4 DEF ConvertSpecifier
  <2> HIDE DEF u, b
  <2>3. Matches(v, Clause("<", Anchored(u))) <=> SegmentsBelow(v, u)
    BY <2>1, BelowAnchored DEF Final, Post
  <2>4. Matches(v, Clause(">=", b)) <=> Rank(v) >= Rank(b)
    BY MatchesOf
  <2>5. Satisfies(v, c) <=> /\ Rank(v) >= Rank(b)
                            /\ \A i \in 1 .. Len(b.release) - 1 : Segment(v, i) = b.release[i]
    BY <1>4, SatisfiesOf DEF b
  <2> QED
    BY <2>1, <2>2, <2>3, <2>4, <2>5 DEF MatchesAll
<1>5. CASE c.op = "<"
  <2>1. ~c.glob /\ c = Clause("<", b) /\ b.stage # Local
    BY <1>1, <1>5 DEF Clause
  <2>2. Satisfies(v, c) <=> Rank(v) < Rank(b)
    BY <1>5, SatisfiesOf
  <2> QED
    BY <1>2, <2>1, <2>2, BelowConverted
<1>6. CASE c.op = "==" /\ c.glob
  <2>1. ConvertSpecifier(c) = {Clause("=", b)}
    BY <1>6 DEF ConvertSpecifier
  <2> QED
    BY <1>6, <2>1, MatchesOf, SatisfiesOf DEF MatchesAll
<1>7. CASE c.op \notin {"~=", "<"} /\ ~(c.op = "==" /\ c.glob)
  <2>1. ConvertSpecifier(c) = {c}
    BY <1>7 DEF ConvertSpecifier
  <2>2. Satisfies(v, c) <=> Matches(v, c)
    <3> HIDE DEF b
    <3>1. CASE c.glob
      <4>1. c = GlobClause("!=", b) /\ c.op = "!=" /\ c.version = b
        BY <1>1, <1>7, <3>1 DEF GlobClause, b
      <4>2. Matches(v, c) <=> ~StartsWith(v, b)
        BY <4>1, MatchesOf
      <4> QED
        BY <3>1, <4>1, <4>2, SatisfiesOf
    <3>2. CASE ~c.glob
      <4>1. c = Clause(c.op, b) /\ c.version = b
        BY <1>1, <3>2 DEF Clause, b
      <4>2. c.op \in {"==", "!=", ">=", ">", "<="}
        BY <1>3, <1>7
      <4>3. CASE c.op = "=="
        BY <3>2, <4>1, <4>3, SatisfiesOf, MatchesOf
      <4>4. CASE c.op = "!="
        BY <3>2, <4>1, <4>4, SatisfiesOf, MatchesOf
      <4>5. CASE c.op = ">="
        BY <4>1, <4>5, SatisfiesOf, MatchesOf
      <4>6. CASE c.op = ">"
        BY <4>1, <4>6, SatisfiesOf, MatchesOf
      <4>7. CASE c.op = "<="
        BY <4>1, <4>7, SatisfiesOf, MatchesOf
      <4> QED
        BY <4>2, <4>3, <4>4, <4>5, <4>6, <4>7
    <3> QED
      BY <3>1, <3>2
  <2> QED
    BY <2>1, <2>2 DEF MatchesAll
<1> QED
  BY <1>3, <1>4, <1>5, <1>6, <1>7

-----------------------------------------------------------------------------
(* Requires-Python as one range.                                           *)

LEMMA TwoOfTwo ==
    ASSUME NEW S, IsFiniteSet(S), Cardinality(S) = 2, NEW a \in S, NEW b \in S, a # b
    PROVE  S = {a, b}
<1>1. IsFiniteSet(S \ {a}) /\ Cardinality(S \ {a}) = 1
  BY FS_RemoveElement
<1>2. S \ {a} = {b}
  BY <1>1, AtMostOne
<1> QED
  BY <1>2

(* The clauses that come down to a range, and the range they come down to. *)
OneClause(clauses, r) ==
    \E c \in clauses : clauses = {c} /\ SingleClauseRange(c) = {r}

TwoClauses(clauses, r) ==
    \E a, b \in clauses :
        /\ clauses = {a, b} /\ a.op = ">=" /\ b.op = "<"
        /\ Cardinality(clauses) = 2 /\ r = HalfOpen(a.version, b.version)

LEMMA SimplifiedRangeCases ==
    ASSUME NEW clauses, IsFiniteSet(clauses)
    PROVE  \/ SimplifiedRange(clauses) = {}
           \/ \E r : /\ SimplifiedRange(clauses) = {r}
                     /\ OneClause(clauses, r) \/ TwoClauses(clauses, r)
<1>1. CASE Cardinality(clauses) = 1
  <2>1. clauses # {}
    BY <1>1, FS_EmptySet
  <2>2. PICK c \in clauses : clauses = {c}
    BY <1>1, <2>1, AtMostOne
  <2>3. SimplifiedRange(clauses) = SingleClauseRange(c)
    BY <1>1, <2>2 DEF SimplifiedRange
  <2>4. SingleClauseRange(c) = {} \/ \E r : SingleClauseRange(c) = {r}
    BY DEF SingleClauseRange, EqualityRange
  <2> QED
    BY <2>2, <2>3, <2>4 DEF OneClause
<1>2. CASE Cardinality(clauses) = 2 /\ {c.op : c \in clauses} = {"<", ">="}
  <2>1. PICK a \in clauses : a.op = ">="
    BY <1>2
  <2>2. PICK b \in clauses : b.op = "<"
    BY <1>2
  <2>3. clauses = {a, b}
    BY <1>2, <2>1, <2>2, TwoOfTwo
  <2>4. {c \in clauses : c.op = ">="} = {a} /\ {c \in clauses : c.op = "<"} = {b}
    BY <2>1, <2>2, <2>3
  <2>5. SimplifiedRange(clauses) = {HalfOpen(a.version, b.version)}
    BY <1>2, <2>4 DEF SimplifiedRange
  <2> QED
    BY <1>2, <2>1, <2>2, <2>3, <2>5 DEF TwoClauses
<1>3. CASE Cardinality(clauses) # 1
           /\ ~(Cardinality(clauses) = 2 /\ {c.op : c \in clauses} = {"<", ">="})
  BY <1>3 DEF SimplifiedRange
<1> QED
  BY <1>1, <1>2, <1>3

(* A bound that a range takes from some clauses. *)
BoundFrom(x, clauses) ==
    /\ Comparable(x) /\ x # Unbounded
    /\ x.stage = Final \/ \E c \in clauses : ~c.glob /\ c.version = x
    /\ (\A c \in clauses : Len(c.version.release) <= 3) => Segment(x, 4) = 0

(* An upper bound is as fine as the clauses that begin with "<". *)
UpperFrom(x, clauses) ==
    (\A c \in clauses : c.op = "<" => Len(c.version.release) <= 3) => Segment(x, 4) = 0

RangeFrom(r, clauses) ==
    /\ r = HalfOpen(r.lower, r.upper)
    /\ r.lower = Unbounded \/ BoundFrom(r.lower, clauses)
    /\ r.upper = Unbounded \/ (BoundFrom(r.upper, clauses) /\ UpperFrom(r.upper, clauses))

(* A release is in a range. *)
InRange(v, r) ==
    /\ r.lower = Unbounded \/ Rank(v) >= Rank(r.lower)
    /\ r.upper = Unbounded \/ Rank(v) < Rank(r.upper)

LEMMA VersionBound ==
    ASSUME NEW clauses \in SUBSET ClausesOf(SpecifierOperators), NEW c \in clauses,
           ~c.glob \/ c.version.stage = Final
    PROVE  BoundFrom(c.version, clauses)
<1> DEFINE x == c.version
<1>1. x \in Versions
  BY DEF ClausesOf
<1>2. /\ Comparable(x) /\ Len(x.release) \in 1 .. 4
      /\ 4 > Len(x.release) => Segment(x, 4) = 0
  BY <1>1, VersionShape
<1>3. x # Unbounded
  BY <1>2 DEF Unbounded
<1>4. (\A d \in clauses : Len(d.version.release) <= 3) => Segment(x, 4) = 0
  BY <1>2
<1> HIDE DEF x
<1>5. x.stage = Final \/ \E d \in clauses : ~d.glob /\ d.version = x
  BY DEF x
<1> QED
  BY <1>2, <1>3, <1>4, <1>5 DEF BoundFrom, x

LEMMA UpperBound ==
    ASSUME NEW clauses \in SUBSET ClausesOf(SpecifierOperators), NEW c \in clauses, c.op = "<"
    PROVE  UpperFrom(c.version, clauses)
<1>1. c.version \in Versions
  BY DEF ClausesOf
<1>2. 4 > Len(c.version.release) => Segment(c.version, 4) = 0
  BY <1>1, VersionShape
<1>3. Len(c.version.release) \in 1 .. 4
  BY <1>1, VersionShape
<1> QED
  BY <1>2, <1>3 DEF UpperFrom

(* A pair of segments, and what begins with it. *)
LEMMA PairBounds ==
    ASSUME NEW c \in Versions, Len(c.release) = 2, c.stage = Final, NEW v, Comparable(v),
           v.stage = Final
    PROVE  LET u == Release(BumpLast(c.release))
           IN  /\ Comparable(u) /\ u.stage = Final /\ Segment(u, 4) = 0 /\ u # Unbounded
               /\ StartsWith(v, c) <=> Rank(v) >= Rank(c) /\ Rank(v) < Rank(u)
<1> DEFINE u == Release(BumpLast(c.release))
<1>1. /\ Comparable(c)
      /\ Segment(c, 1) \in 0 .. 198 /\ Segment(c, 2) \in 0 .. 198
      /\ Segment(c, 1) = c.release[1] /\ Segment(c, 2) = c.release[2]
      /\ Segment(c, 3) = 0 /\ Segment(c, 4) = 0
  BY VersionShape
<1>2. PICK x, y \in Nat : c.release = <<x, y>> /\ x <= 198 /\ y <= 198
  <2>1. c.release = <<c.release[1], c.release[2]>>
    <3> DEFINE S == 0 .. 198
    <3>1. c.release \in Seq(S)
      BY VersionShape
    <3> HIDE DEF S
    <3> QED
      BY <3>1
  <2>2. Segment(c, 1) \in Nat /\ Segment(c, 2) \in Nat /\ Segment(c, 1) <= 198 /\ Segment(c, 2) <= 198
    BY <1>1
  <2> QED
    BY <1>1, <2>1, <2>2
<1>3. /\ Comparable(u) /\ u.stage = Final /\ u # Unbounded /\ Segment(u, 4) = 0
  BY <1>2, BumpedTwo
<1>4. StartsWith(v, c) <=> Segment(v, 1) = x /\ Segment(v, 2) = y
  BY <1>2 DEF StartsWith
<1>5. ~SegmentsBelow(v, c) =>
        ((\A i \in 1 .. Len(c.release) : Segment(v, i) = c.release[i]) <=> SegmentsBelow(v, u))
  <2>1. \A i \in 1 .. Len(c.release) : Segment(c, i) = c.release[i]
    BY <1>1
  <2>2. c.release \in {<<x>>, <<x, y>>, <<x, y, 0>>}
    BY <1>2
  <2> QED
    BY <1>1, <1>2, <2>1, <2>2, BumpedBounds
<1>6. (\A i \in 1 .. Len(c.release) : Segment(v, i) = c.release[i]) <=> StartsWith(v, c)
  BY <1>2, <1>4
<1>7. Rank(v) >= Rank(c) <=> ~SegmentsBelow(v, c)
  <2>1. Rank(v) < Rank(c) <=> SegmentsBelow(v, c)
    BY <1>1, StageLast
  <2> QED
    BY <1>1, <2>1, StageLast
<1>8. Rank(v) < Rank(u) <=> SegmentsBelow(v, u)
  BY <1>3, StageLast
<1>9. StartsWith(v, c) => ~SegmentsBelow(v, c)
  <2>1. Segment(v, 3) >= 0 /\ Segment(v, 4) >= 0 /\ Segment(v, 3) \in Int /\ Segment(v, 4) \in Int
    BY SegmentTypes
  <2>2. Segment(c, 1) = x /\ Segment(c, 2) = y
    BY <1>1, <1>2
  <2> QED
    BY <1>1, <1>2, <1>4, <2>1, <2>2 DEF SegmentsBelow
<1> HIDE DEF u
<1> QED
  BY <1>3, <1>5, <1>6, <1>7, <1>8, <1>9 DEF u

(* One clause that comes down to a range says what the range says. *)
LEMMA OneClauseRange ==
    ASSUME NEW clauses \in SUBSET ClausesOf(SpecifierOperators), NEW r, OneClause(clauses, r)
    PROVE  /\ RangeFrom(r, clauses)
           /\ \A v : Comparable(v) /\ v.stage = Final =>
                (InRange(v, r) <=> SatisfiesAll(v, Reading(clauses)))
<1>1. PICK c \in clauses : clauses = {c} /\ SingleClauseRange(c) = {r}
  BY DEF OneClause
<1> DEFINE b == c.version
<1>2. /\ b \in Versions /\ c.glob \in BOOLEAN /\ c.op \in SpecifierOperators
      /\ c = [op |-> c.op, version |-> b, glob |-> c.glob]
      /\ c.glob => c.op \in {"==", "!="}
      /\ c.op = "~=" => Len(b.release) > 1
  BY DEF ClausesOf, EqualityComparators
<1>3. Cardinality(clauses) = 1
  BY <1>1, FS_Singleton
<1>4. Comparable(b) /\ Len(b.release) \in 1 .. 4 /\ b # Unbounded
  <2>1. Comparable(b) /\ Len(b.release) \in 1 .. 4
    BY <1>2, VersionShape
  <2>2. b # Unbounded
    <3>1. Unbounded.release = <<>> /\ Len(<<>>) = 0
      BY DEF Unbounded
    <3> HIDE DEF b
    <3>2. Len(b.release) # 0
      BY <2>1
    <3> QED
      BY <3>1, <3>2
  <2> QED
    BY <2>1, <2>2
<1>5. c.op \notin {"==", "==="} => Reading(clauses) = {c}
  <2>1. ASSUME c.op \notin {"==", "==="} PROVE Reading({c}) = {c}
    BY <2>1 DEF Reading
  <2> QED
    BY <1>1, <2>1
<1> HIDE DEF b
<1>6. CASE c.op = ">="
  <2>1. r = HalfOpen(b, Unbounded)
    BY <1>1, <1>6 DEF SingleClauseRange, b
  <2>2. BoundFrom(b, clauses)
    BY <1>2, <1>6, VersionBound DEF b
  <2>3. ASSUME NEW v PROVE Satisfies(v, c) <=> Rank(v) >= Rank(b)
    BY <1>6, SatisfiesOf DEF b
  <2> QED
    BY <1>4, <1>5, <1>6, <2>1, <2>2, <2>3 DEF RangeFrom, InRange, HalfOpen, SatisfiesAll
<1>7. CASE c.op = "<"
  <2>1. r = HalfOpen(Unbounded, b)
    BY <1>1, <1>7 DEF SingleClauseRange, b
  <2>2. BoundFrom(b, clauses) /\ UpperFrom(b, clauses)
    BY <1>2, <1>7, VersionBound, UpperBound DEF b
  <2>3. ASSUME NEW v, v.stage = Final PROVE Satisfies(v, c) <=> Rank(v) < Rank(b)
    BY <1>7, <2>3, SatisfiesOf DEF b
  <2> QED
    BY <1>4, <1>5, <1>7, <2>1, <2>2, <2>3 DEF RangeFrom, InRange, HalfOpen, SatisfiesAll
<1>8. CASE c.op = "~="
  <2> DEFINE u == Release(BumpLast(Front(b.release)))
  <2>1. r = HalfOpen(b, u)
    BY <1>1, <1>8 DEF SingleClauseRange, CompatibleReleaseRange, b
  <2>2. BoundFrom(b, clauses)
    BY <1>2, <1>8, VersionBound DEF b
  <2>3. /\ Comparable(u) /\ u.stage = Final /\ Segment(u, 4) = 0 /\ u # Unbounded
    BY <1>2, <1>4, <1>8, CompatibleBounds
  <2>4. ASSUME NEW v, Comparable(v), v.stage = Final
        PROVE  Satisfies(v, c) <=> Rank(v) >= Rank(b) /\ Rank(v) < Rank(u)
    <3>1. Rank(v) >= Rank(b) =>
             ((\A i \in 1 .. Len(b.release) - 1 : Segment(v, i) = b.release[i])
                <=> SegmentsBelow(v, u))
      BY <1>2, <1>8, <2>4, CompatibleBounds
    <3>2. Rank(v) < Rank(u) <=> SegmentsBelow(v, u)
      BY <2>3, <2>4, StageLast
    <3>3. Satisfies(v, c) <=> /\ Rank(v) >= Rank(b)
                              /\ \A i \in 1 .. Len(b.release) - 1 : Segment(v, i) = b.release[i]
      BY <1>8, SatisfiesOf DEF b
    <3> QED
      BY <3>1, <3>2, <3>3
  <2>5. BoundFrom(u, clauses) /\ UpperFrom(u, clauses)
    BY <2>3 DEF BoundFrom, UpperFrom
  <2> HIDE DEF u
  <2> QED
    BY <1>4, <1>5, <1>8, <2>1, <2>2, <2>3, <2>4, <2>5
    DEF RangeFrom, InRange, HalfOpen, SatisfiesAll
<1>9. CASE c.op = "==" /\ c.glob /\ Len(b.release) = 1
  <2>1. b.stage = Final /\ r = HalfOpen(b, Unbounded)
    BY <1>1, <1>9 DEF SingleClauseRange, EqualityRange, b
  <2>2. BoundFrom(b, clauses)
    BY <2>1, VersionBound DEF b
  <2>3. Reading({c}) = {Clause(">=", b)}
    BY <1>1, <1>3, <1>9, <2>1 DEF Reading, b
  <2>4. ASSUME NEW v PROVE Satisfies(v, Clause(">=", b)) <=> Rank(v) >= Rank(b)
    BY SatisfiesOf DEF Clause
  <2> QED
    BY <1>1, <1>4, <2>1, <2>2, <2>3, <2>4 DEF RangeFrom, InRange, HalfOpen, SatisfiesAll
<1>10. CASE c.op = "==" /\ ~(c.glob /\ Len(b.release) = 1)
  <2> DEFINE u == Release(BumpLast(b.release))
  <2>1. b.stage = Final /\ Len(b.release) = 2 /\ r = HalfOpen(b, u)
    BY <1>1, <1>10 DEF SingleClauseRange, EqualityRange, b
  <2>2. BoundFrom(b, clauses)
    BY <2>1, VersionBound DEF b
  <2>3. Reading({c}) = {GlobClause("==", b)}
    BY <1>1, <1>3, <1>10, <2>1 DEF Reading, b
  <2>4. ASSUME NEW v, Comparable(v), v.stage = Final
        PROVE  Satisfies(v, GlobClause("==", b)) <=> Rank(v) >= Rank(b) /\ Rank(v) < Rank(u)
    <3>1. Satisfies(v, GlobClause("==", b)) <=> StartsWith(v, b)
      BY SatisfiesOf DEF GlobClause
    <3> QED
      BY <1>2, <2>1, <2>4, <3>1, PairBounds
  <2>5. BoundFrom(u, clauses) /\ UpperFrom(u, clauses)
    <3>1. Comparable(b) /\ b.stage = Final
      BY <1>4, <2>1
    <3> QED
      BY <1>2, <2>1, <3>1, PairBounds DEF BoundFrom, UpperFrom
  <2>6. u # Unbounded
    BY <2>5 DEF BoundFrom
  <2> HIDE DEF u
  <2> QED
    BY <1>1, <1>4, <2>1, <2>2, <2>3, <2>4, <2>5, <2>6 DEF RangeFrom, InRange, HalfOpen, SatisfiesAll
<1>11. c.op \in {">=", "<", "~=", "=="}
  BY <1>1 DEF SingleClauseRange
<1> QED
  BY <1>6, <1>7, <1>8, <1>9, <1>10, <1>11

LEMMA TwoClausesRange ==
    ASSUME NEW clauses \in SUBSET ClausesOf(SpecifierOperators), NEW r, TwoClauses(clauses, r)
    PROVE  /\ RangeFrom(r, clauses)
           /\ \A v : Comparable(v) /\ v.stage = Final =>
                (InRange(v, r) <=> SatisfiesAll(v, Reading(clauses)))
<1>1. PICK a, b \in clauses :
        /\ clauses = {a, b} /\ a.op = ">=" /\ b.op = "<"
        /\ Cardinality(clauses) = 2 /\ r = HalfOpen(a.version, b.version)
  BY DEF TwoClauses
<1>2. BoundFrom(a.version, clauses) /\ BoundFrom(b.version, clauses)
  <2>1. ~a.glob /\ ~b.glob
    BY <1>1 DEF ClausesOf, EqualityComparators
  <2> QED
    BY <2>1, VersionBound
<1>3. Reading(clauses) = {a, b}
  <2>1. Cardinality(clauses) # 1
    BY <1>1
  <2>2. Reading(clauses) = UNION {{c} : c \in clauses}
    BY <1>1, <2>1 DEF Reading
  <2> QED
    BY <1>1, <2>2
<1>4. r.lower = a.version /\ r.upper = b.version /\ a.version # Unbounded /\ b.version # Unbounded
  BY <1>1, <1>2 DEF HalfOpen, BoundFrom
<1>5. ASSUME NEW v, v.stage = Final
      PROVE  InRange(v, r) <=> SatisfiesAll(v, {a, b})
  <2>1. /\ Satisfies(v, a) <=> Rank(v) >= Rank(a.version)
        /\ Satisfies(v, b) <=> Rank(v) < Rank(b.version)
    BY <1>1, <1>5, SatisfiesOf
  <2> QED
    BY <1>4, <2>1 DEF InRange, SatisfiesAll
<1>6. RangeFrom(r, clauses)
  BY <1>1, <1>2, <1>4, UpperBound DEF RangeFrom
<1> QED
  BY <1>3, <1>5, <1>6

(* Combining ranges is intersecting them. *)
LEMMA CombineIntersects ==
    ASSUME NEW clauses, NEW a, NEW b, RangeFrom(a, clauses), RangeFrom(b, clauses)
    PROVE  LET r == Combine(a, b)
           IN  /\ r.lower \in {a.lower, b.lower} /\ r.upper \in {a.upper, b.upper}
               /\ RangeFrom(r, clauses)
               /\ a.lower # Unbounded => r.lower # Unbounded
               /\ \A v : Comparable(v) => (InRange(v, r) <=> InRange(v, a) /\ InRange(v, b))
<1> DEFINE r == Combine(a, b)
<1>1. /\ r.lower = TighterLower(a.lower, b.lower) /\ r.upper = TighterUpper(a.upper, b.upper)
      /\ r = HalfOpen(r.lower, r.upper)
  BY DEF Combine, HalfOpen
<1> HIDE DEF r
<1>2. /\ r.lower \in {a.lower, b.lower} /\ r.upper \in {a.upper, b.upper}
      /\ a.lower # Unbounded => r.lower # Unbounded
  BY <1>1 DEF TighterLower, TighterUpper
<1>3. RangeFrom(r, clauses)
  BY <1>1, <1>2 DEF RangeFrom
<1>4. ASSUME NEW v, Comparable(v)
      PROVE  InRange(v, r) <=> InRange(v, a) /\ InRange(v, b)
  <2>1. /\ Rank(v) \in Int
        /\ a.lower # Unbounded => Rank(a.lower) \in Int
        /\ a.upper # Unbounded => Rank(a.upper) \in Int
        /\ b.lower # Unbounded => Rank(b.lower) \in Int
        /\ b.upper # Unbounded => Rank(b.upper) \in Int
    BY <1>4, StageLast DEF RangeFrom, BoundFrom
  <2>2. (r.lower = Unbounded \/ Rank(v) >= Rank(r.lower))
            <=> /\ a.lower = Unbounded \/ Rank(v) >= Rank(a.lower)
                /\ b.lower = Unbounded \/ Rank(v) >= Rank(b.lower)
    BY <1>1, <2>1 DEF TighterLower
  <2>3. (r.upper = Unbounded \/ Rank(v) < Rank(r.upper))
            <=> /\ a.upper = Unbounded \/ Rank(v) < Rank(a.upper)
                /\ b.upper = Unbounded \/ Rank(v) < Rank(b.upper)
    BY <1>1, <2>1 DEF TighterUpper
  <2> QED
    BY <2>2, <2>3 DEF InRange
<1> QED
  BY <1>2, <1>3, <1>4 DEF r

-----------------------------------------------------------------------------
(* The range of a wheel.                                                   *)

LEMMA WheelShape ==
    ASSUME NEW w \in Wheels
    PROVE  /\ w.requirement.minor \in Nat /\ w.requirement.minor <= 197
           /\ w.requirement.exact \in BOOLEAN
           /\ w.requires_python.kind \in {"absent", "unparseable", "specifiers"}
           /\ w.requires_python.clauses \in SUBSET ClausesOf(SpecifierOperators)
           /\ IsFiniteSet(w.requires_python.clauses)
           /\ w.requires_python.kind # "specifiers" => w.requires_python.clauses = {}
           /\ w.subdir \in Subdirs \cup {Noarch} /\ w.marker \in Markers
           /\ w.extra \in STRING /\ w.allow_pre \in BOOLEAN
           /\ w.upper_bound \in (0 .. SegmentBound) \cup {NoMinor}
<1>1. w \in [requirement : [minor : 0 .. SegmentBound - 1, exact : BOOLEAN],
             requires_python : RequiresPythons, subdir : Subdirs \cup {Noarch}, marker : Markers,
             extra : STRING, allow_pre : BOOLEAN, upper_bound : (0 .. SegmentBound) \cup {NoMinor}]
  BY WheelsAssumption
<1>2. /\ w.requirement \in [minor : 0 .. SegmentBound - 1, exact : BOOLEAN]
      /\ w.requires_python \in RequiresPythons
      /\ w.subdir \in Subdirs \cup {Noarch} /\ w.marker \in Markers
      /\ w.extra \in STRING /\ w.allow_pre \in BOOLEAN
      /\ w.upper_bound \in (0 .. SegmentBound) \cup {NoMinor}
  BY <1>1, Zenon
<1>3. w.requirement.minor \in Nat /\ w.requirement.minor <= 197 /\ w.requirement.exact \in BOOLEAN
  <2>1. w.requirement.minor \in 0 .. 197 /\ w.requirement.exact \in BOOLEAN
    BY <1>2 DEF SegmentBound
  <2> QED
    BY <2>1
<1>4. /\ w.requires_python.kind \in {"absent", "unparseable", "specifiers"}
      /\ w.requires_python.clauses \in SUBSET ClausesOf(SpecifierOperators)
      /\ IsFiniteSet(w.requires_python.clauses)
      /\ w.requires_python.kind # "specifiers" => w.requires_python.clauses = {}
  BY <1>2 DEF RequiresPythons
<1> QED
  BY <1>2, <1>3, <1>4

LEMMA MinorBelow ==
    ASSUME NEW m \in Nat, m <= 198, NEW v, Comparable(v)
    PROVE  LET w == Minor(m)
           IN  /\ Comparable(w) /\ w.stage = Final /\ Segment(w, 4) = 0 /\ w # Unbounded
               /\ SegmentsBelow(v, w) <=>
                    Segment(v, 1) < 3 \/ (Segment(v, 1) = 3 /\ Segment(v, 2) < m)
<1> DEFINE w == Minor(m)
<1>1. /\ Comparable(w) /\ w.stage = Final /\ w.release = <<3, m>>
      /\ Segment(w, 1) = 3 /\ Segment(w, 2) = m /\ Segment(w, 3) = 0 /\ Segment(w, 4) = 0
      /\ w # Unbounded
  BY MinorShape
<1>3. Segment(v, 3) \in Nat /\ Segment(v, 4) \in Nat
  BY SegmentTypes
<1> HIDE DEF w
<1>4. SegmentsBelow(v, w) <=> Segment(v, 1) < 3 \/ (Segment(v, 1) = 3 /\ Segment(v, 2) < m)
  BY <1>1, <1>3 DEF SegmentsBelow
<1> QED
  BY <1>1, <1>4 DEF w

(* The filename's range, whatever Requires-Python is. *)
LEMMA FilenameRangeShape ==
    ASSUME NEW w \in Wheels, NEW clauses
    PROVE  LET f == FilenameRange(w.requirement)
               m == w.requirement.minor
           IN  /\ RangeFrom(f, clauses) /\ f.lower # Unbounded
               /\ \A v : Comparable(v) /\ v.stage = Final =>
                    (InRange(v, f) <=>
                        IF w.requirement.exact THEN Segment(v, 1) = 3 /\ Segment(v, 2) = m
                        ELSE Rank(v) >= Rank(Minor(m)))
<1> DEFINE f == FilenameRange(w.requirement)
           m == w.requirement.minor
           a == Minor(m)
           b == Minor(m + 1)
<1>1. m \in Nat /\ m <= 197 /\ w.requirement.exact \in BOOLEAN
  BY WheelShape
<1>2. f.lower = a /\ f.upper = (IF w.requirement.exact THEN b ELSE Unbounded)
      /\ f = HalfOpen(f.lower, f.upper)
  BY DEF FilenameRange, HalfOpen
<1> HIDE DEF f, m, a, b
<1>3. /\ Comparable(a) /\ a.stage = Final /\ Segment(a, 4) = 0 /\ a # Unbounded
  BY <1>1, MinorShape DEF a
<1>4. /\ Comparable(b) /\ b.stage = Final /\ Segment(b, 4) = 0 /\ b # Unbounded
  <2>1. m + 1 \in Nat /\ m + 1 <= 198
    BY <1>1
  <2> QED
    BY <2>1, MinorShape DEF b
<1>5. RangeFrom(f, clauses)
  BY <1>2, <1>3, <1>4 DEF RangeFrom, BoundFrom, UpperFrom
<1>6. ASSUME NEW v, Comparable(v), v.stage = Final, w.requirement.exact
      PROVE  InRange(v, f) <=> Segment(v, 1) = 3 /\ Segment(v, 2) = m
  <2>1. m + 1 \in Nat /\ m + 1 <= 198
    BY <1>1
  <2>2. /\ SegmentsBelow(v, a) <=> Segment(v, 1) < 3 \/ (Segment(v, 1) = 3 /\ Segment(v, 2) < m)
        /\ SegmentsBelow(v, b) <=> Segment(v, 1) < 3 \/ (Segment(v, 1) = 3 /\ Segment(v, 2) < m + 1)
    BY <1>1, <1>6, <2>1, MinorBelow DEF a, b
  <2>3. /\ Rank(v) < Rank(a) <=> SegmentsBelow(v, a)
        /\ Rank(v) < Rank(b) <=> SegmentsBelow(v, b)
        /\ Rank(v) \in Int /\ Rank(a) \in Int
    BY <1>3, <1>4, <1>6, StageLast
  <2>4. Segment(v, 1) \in Int /\ Segment(v, 2) \in Int
    BY <1>6, SegmentTypes
  <2>5. InRange(v, f) <=> Rank(v) >= Rank(a) /\ Rank(v) < Rank(b)
    BY <1>2, <1>3, <1>4, <1>6 DEF InRange
  <2> QED
    BY <1>1, <2>2, <2>3, <2>4, <2>5
<1>7. ASSUME NEW v, ~w.requirement.exact
      PROVE  InRange(v, f) <=> Rank(v) >= Rank(Minor(m))
  BY <1>2, <1>3, <1>7 DEF InRange, a
<1> QED
  BY <1>1, <1>2, <1>3, <1>5, <1>6, <1>7 DEF f, m

(* The range a wheel comes down to, if there is one. *)
LEMMA CombinedRangeCases ==
    ASSUME NEW w \in Wheels
    PROVE  LET clauses == w.requires_python.clauses
               range == CombinedRange(w.requirement, w.requires_python)
           IN  \/ range = {} /\ SimplifiedRange(clauses) = {}
               \/ \E r : /\ range = {r} /\ RangeFrom(r, clauses) /\ r.lower # Unbounded
                         /\ \A v : Comparable(v) /\ v.stage = Final =>
                              (InRange(v, r) <=> /\ InRange(v, FilenameRange(w.requirement))
                                                 /\ SatisfiesAll(v, Reading(clauses)))
<1> DEFINE clauses == w.requires_python.clauses
           range == CombinedRange(w.requirement, w.requires_python)
           f == FilenameRange(w.requirement)
<1>1. /\ clauses \in SUBSET ClausesOf(SpecifierOperators) /\ IsFiniteSet(clauses)
      /\ w.requires_python.kind # "specifiers" => clauses = {}
  BY WheelShape
<1>2. RangeFrom(f, clauses) /\ f.lower # Unbounded
  BY FilenameRangeShape
<1>3. CASE w.requires_python.kind = "absent"
  <2>1. range = {f}
    BY <1>3 DEF CombinedRange
  <2>2. clauses = {}
    BY <1>1, <1>3
  <2>3. \A v : SatisfiesAll(v, Reading(clauses))
    BY <2>2 DEF Reading, SatisfiesAll
  <2> HIDE DEF clauses, range, f
  <2> QED
    BY <1>2, <2>1, <2>3 DEF clauses, range, f
<1>4. CASE w.requires_python.kind # "absent"
  <2>1. range = {Combine(f, r) : r \in SimplifiedRange(clauses)}
    BY <1>4 DEF CombinedRange
  <2> HIDE DEF clauses, range, f
  <2>2. CASE SimplifiedRange(clauses) = {}
    BY <2>1, <2>2 DEF clauses, range
  <2>3. CASE SimplifiedRange(clauses) # {}
    <3>1. PICK s : /\ SimplifiedRange(clauses) = {s}
                   /\ OneClause(clauses, s) \/ TwoClauses(clauses, s)
      BY <1>1, <2>3, SimplifiedRangeCases
    <3>2. /\ RangeFrom(s, clauses)
          /\ \A v : Comparable(v) /\ v.stage = Final =>
                (InRange(v, s) <=> SatisfiesAll(v, Reading(clauses)))
      BY <1>1, <3>1, OneClauseRange, TwoClausesRange
    <3> DEFINE r == Combine(f, s)
    <3>3. /\ RangeFrom(r, clauses) /\ r.lower # Unbounded
          /\ \A v : Comparable(v) => (InRange(v, r) <=> InRange(v, f) /\ InRange(v, s))
      <4>1. RangeFrom(f, clauses) /\ RangeFrom(s, clauses) /\ f.lower # Unbounded
        BY <1>2, <3>2
      <4>2. RangeFrom(r, clauses) /\ (f.lower # Unbounded => r.lower # Unbounded)
        BY <4>1, CombineIntersects
      <4>3. ASSUME NEW v, Comparable(v) PROVE InRange(v, r) <=> InRange(v, f) /\ InRange(v, s)
        BY <4>1, <4>3, CombineIntersects
      <4> QED
        BY <4>1, <4>2, <4>3
    <3>4. range = {r}
      BY <2>1, <3>1
    <3> HIDE DEF r
    <3> QED
      BY <3>2, <3>3, <3>4 DEF clauses, range, f
  <2> QED
    BY <2>2, <2>3
<1> QED
  BY <1>3, <1>4

-----------------------------------------------------------------------------
(* The python dependency.                                                  *)

LEMMA ConvertedEach ==
    ASSUME NEW v, NEW specifier
    PROVE  MatchesAll(v, SpecifierToMatchspec(specifier))
                <=> \A c \in specifier : MatchesAll(v, ConvertSpecifier(c))
  BY DEF MatchesAll, SpecifierToMatchspec

LEMMA LowerConverted ==
    ASSUME NEW v, NEW x
    PROVE  MatchesAll(v, ConvertSpecifier(Clause(">=", x))) <=> Rank(v) >= Rank(x)
<1>1. ConvertSpecifier(Clause(">=", x)) = {Clause(">=", x)}
  BY DEF ConvertSpecifier, Clause
<1> QED
  BY <1>1, MatchesOf DEF MatchesAll

(* What conda makes of a range. *)
LEMMA RangeConverted ==
    ASSUME NEW w \in Wheels, NEW r,
           CombinedRange(w.requirement, w.requires_python) = {r},
           RangeFrom(r, w.requires_python.clauses), r.lower # Unbounded
    PROVE  LET spec == PythonMatchSpec(w.requirement, w.requires_python)
           IN  /\ \A v : MatchesAll(v, spec) <=>
                    /\ Rank(v) >= Rank(r.lower)
                    /\ r.upper = Unbounded
                        \/ MatchesAll(v, ConvertSpecifier(Clause("<", r.upper)))
               /\ PythonMatchSpecError(w.requirement, w.requires_python, w.allow_pre) = "ok" =>
                    r.upper = Unbounded
                        \/ (r.upper.stage # Local /\ ~(IsPrerelease(r.upper) /\ ~w.allow_pre))
<1> DEFINE spec == PythonMatchSpec(w.requirement, w.requires_python)
           specifier == CombinedSpecifier(w.requirement, w.requires_python)
<1>1. specifier = {Clause(">=", r.lower)} \cup
                    (IF r.upper = Unbounded THEN {} ELSE {Clause("<", r.upper)})
  BY DEF CombinedSpecifier
<1>2. spec = SpecifierToMatchspec(specifier)
  BY DEF PythonMatchSpec
<1> HIDE DEF specifier, spec
<1>3. ASSUME NEW v
      PROVE  MatchesAll(v, spec) <=>
                    /\ Rank(v) >= Rank(r.lower)
                    /\ r.upper = Unbounded
                        \/ MatchesAll(v, ConvertSpecifier(Clause("<", r.upper)))
  <2>1. MatchesAll(v, spec) <=> \A c \in specifier : MatchesAll(v, ConvertSpecifier(c))
    BY <1>2, ConvertedEach
  <2>2. MatchesAll(v, ConvertSpecifier(Clause(">=", r.lower))) <=> Rank(v) >= Rank(r.lower)
    BY LowerConverted
  <2> QED
    BY <1>1, <2>1, <2>2
<1>4. ASSUME PythonMatchSpecError(w.requirement, w.requires_python, w.allow_pre) = "ok",
             r.upper # Unbounded
      PROVE  r.upper.stage # Local /\ ~(IsPrerelease(r.upper) /\ ~w.allow_pre)
  <2>1. Clause("<", r.upper) \in specifier
    BY <1>1, <1>4
  <2>2. ~Unsupported(Clause("<", r.upper), w.allow_pre)
    BY <1>4, <2>1 DEF PythonMatchSpecError, specifier
  <2> QED
    BY <2>2 DEF Unsupported, Clause
<1> QED
  BY <1>3, <1>4 DEF spec

(* A clause that is left as it is, read by pip and converted for conda. *)
LEMMA GenericClause ==
    ASSUME NEW clauses \in SUBSET ClausesOf(SpecifierOperators), SimplifiedRange(clauses) = {},
           IsFiniteSet(clauses), NEW v, Comparable(v), v.stage = Final,
           \A c \in clauses : c.glob \/ c.version.stage # Local
    PROVE  SatisfiesAll(v, Reading(clauses))
                <=> \A c \in clauses : MatchesAll(v, ConvertSpecifier(c))
<1> DEFINE read(c) == IF c.op = "===" THEN Clause("==", c.version) ELSE c
<1>1. ASSUME NEW c \in clauses, Cardinality(clauses) = 1, c.op = "==", c.version.stage = Final,
             Len(c.version.release) = 2 \/ (c.glob /\ Len(c.version.release) = 1)
      PROVE  FALSE
  <2>1. clauses = {c}
    BY <1>1, AtMostOne
  <2>2. SimplifiedRange(clauses) = SingleClauseRange(c)
    BY <1>1, <2>1 DEF SimplifiedRange
  <2>3. SingleClauseRange(c) # {}
    BY <1>1 DEF SingleClauseRange, EqualityRange
  <2> QED
    BY <2>2, <2>3
<1>2. Reading(clauses) = {read(c) : c \in clauses}
  <2>1. ASSUME NEW c \in clauses
        PROVE  (CASE Cardinality(clauses) = 1 /\ c.op = "==" /\ c.version.stage = Final
                     /\ Len(c.version.release) = 2 -> {GlobClause("==", c.version)}
                  [] Cardinality(clauses) = 1 /\ c.op = "==" /\ c.version.stage = Final
                     /\ c.glob /\ Len(c.version.release) = 1 -> {Clause(">=", c.version)}
                  [] c.op = "===" -> {Clause("==", c.version)}
                  [] OTHER -> {c}) = {read(c)}
    BY <1>1
  <2>2. Reading(clauses) = UNION {{read(c)} : c \in clauses}
    BY <2>1 DEF Reading
  <2> HIDE DEF read
  <2> QED
    BY <2>2
<1>3. ASSUME NEW c \in clauses
      PROVE  Satisfies(v, read(c)) <=> MatchesAll(v, ConvertSpecifier(c))
  <2>1. CASE c.op = "==="
    <3>1. ConvertSpecifier(c) = {Clause("==", c.version)}
      BY <2>1 DEF ConvertSpecifier
    <3>2. Satisfies(v, Clause("==", c.version)) <=> Rank(v) = Rank(c.version)
      BY SatisfiesOf DEF Clause
    <3> QED
      BY <2>1, <3>1, <3>2, MatchesOf DEF MatchesAll
  <2>2. CASE c.op # "==="
    BY <2>2, ClauseConverted
  <2> QED
    BY <2>1, <2>2
<1> HIDE DEF read
<1> QED
  BY <1>2, <1>3 DEF SatisfiesAll

LEMMA FilenameGeneric ==
    ASSUME NEW w \in Wheels, NEW v, Comparable(v), v.stage = Final
    PROVE  MatchesAll(v, ConvertSpecifier(FilenameGenericSpecifier(w.requirement)))
             <=> /\ w.requirement.exact => Segment(v, 1) = 3
                 /\ Rank(v) >= Rank(Minor(w.requirement.minor))
<1> DEFINE m == w.requirement.minor
           a == Minor(m)
           u == Release(BumpLast(<<3>>))
<1>1. m \in Nat /\ m <= 197
  BY WheelShape
<1>2. CASE w.requirement.exact
  <2>1. FilenameGenericSpecifier(w.requirement) = Clause("~=", a)
    BY <1>2 DEF FilenameGenericSpecifier
  <2>2. Front(a.release) = <<3>>
    <3>1. a.release = <<3, m>>
      BY DEF Minor, Release
    <3> QED
      BY <3>1, FrontOf
  <2>3. ConvertSpecifier(Clause("~=", a)) = {Clause(">=", a), Clause("<", Anchored(u))}
    BY <2>2 DEF ConvertSpecifier, Clause
  <2>4. /\ Comparable(u) /\ u.stage = Final
        /\ Segment(u, 1) = 4 /\ Segment(u, 2) = 0 /\ Segment(u, 3) = 0 /\ Segment(u, 4) = 0
    BY BumpedOne
  <2> HIDE DEF u
  <2>5. Matches(v, Clause("<", Anchored(u))) <=> SegmentsBelow(v, u)
    BY <2>4, BelowAnchored DEF Final, Post
  <2>6. /\ Segment(v, 1) \in Int /\ Segment(v, 2) \in Nat /\ Segment(v, 3) \in Nat
        /\ Segment(v, 4) \in Nat
    BY SegmentTypes
  <2>7. SegmentsBelow(v, u) <=> Segment(v, 1) < 4
    BY <2>4, <2>6 DEF SegmentsBelow
  <2>8. Rank(v) >= Rank(a) => Segment(v, 1) >= 3
    <3>1. Comparable(a) /\ Segment(a, 1) = 3
      BY <1>1, MinorShape
    <3> HIDE DEF a
    <3>2. Rank(v) < Rank(a) <=> SegmentsBelow(v, a) \/ (SameSegments(v, a) /\ v.stage < a.stage)
      BY <3>1, StageLast
    <3>3. Rank(v) \in Int /\ Rank(a) \in Int
      BY <3>1, StageLast
    <3>4. Rank(v) >= Rank(a) => ~SegmentsBelow(v, a)
      BY <3>2, <3>3
    <3>5. ~SegmentsBelow(v, a) => ~(Segment(v, 1) < 3)
      BY <3>1 DEF SegmentsBelow
    <3> QED
      BY <2>6, <3>4, <3>5
  <2>9. MatchesAll(v, ConvertSpecifier(Clause("~=", a)))
            <=> Rank(v) >= Rank(a) /\ Segment(v, 1) < 4
    BY <2>3, <2>5, <2>7, MatchesOf DEF MatchesAll
  <2> HIDE DEF a
  <2> QED
    BY <1>2, <2>1, <2>6, <2>8, <2>9 DEF a
<1>3. CASE ~w.requirement.exact
  <2>1. FilenameGenericSpecifier(w.requirement) = Clause(">=", a)
    BY <1>3 DEF FilenameGenericSpecifier
  <2> QED
    BY <1>3, <2>1, LowerConverted
<1> QED
  BY <1>2, <1>3

(* The python dependency is what the filename and Requires-Python say. *)
LEMMA PythonSpecFinal ==
    ASSUME NEW w \in Wheels, NEW v \in Pythons, v.stage = Final,
           PythonMatchSpecError(w.requirement, w.requires_python, w.allow_pre) = "ok"
    PROVE  MatchesAll(v, PythonMatchSpec(w.requirement, w.requires_python)) <=> Installs(w, v)
<1> DEFINE clauses == w.requires_python.clauses
           range == CombinedRange(w.requirement, w.requires_python)
           f == FilenameRange(w.requirement)
           m == w.requirement.minor
           spec == PythonMatchSpec(w.requirement, w.requires_python)
<1>1. /\ clauses \in SUBSET ClausesOf(SpecifierOperators) /\ IsFiniteSet(clauses)
  BY WheelShape
<1>2. Comparable(v) /\ Segment(v, 1) = v.release[1] /\ Segment(v, 2) = v.release[2]
  BY PythonShape
<1> HIDE DEF clauses, range, f, m, spec
<1>3. CASE range = {} /\ SimplifiedRange(clauses) = {}
  <2> DEFINE specifier == {FilenameGenericSpecifier(w.requirement)} \cup clauses
  <2>1. CombinedSpecifier(w.requirement, w.requires_python) = specifier
    BY <1>3 DEF CombinedSpecifier, range, clauses
  <2>2. \A c \in clauses : ~Unsupported(c, w.allow_pre)
    BY <2>1 DEF PythonMatchSpecError
  <2>3. \A c \in clauses : c.glob \/ c.version.stage # Local
    BY <2>2 DEF Unsupported
  <2>4. MatchesAll(v, spec) <=> \A c \in specifier : MatchesAll(v, ConvertSpecifier(c))
    BY <2>1, ConvertedEach DEF PythonMatchSpec, spec
  <2>5. SatisfiesAll(v, Reading(clauses)) <=> \A c \in clauses : MatchesAll(v, ConvertSpecifier(c))
    BY <1>1, <1>2, <1>3, <2>3, GenericClause
  <2>6. MatchesAll(v, ConvertSpecifier(FilenameGenericSpecifier(w.requirement)))
             <=> /\ w.requirement.exact => Segment(v, 1) = 3
                 /\ Rank(v) >= Rank(Minor(m))
    BY <1>2, FilenameGeneric DEF m
  <2>7. Installs(w, v) <=> /\ w.requirement.exact => v.release[1] = 3
                           /\ Rank(v) >= Rank(Minor(m))
                           /\ SatisfiesAll(v, Reading(clauses))
    BY <1>3 DEF Installs, FilenameAdmits, IsGeneric, clauses, m, range
  <2> QED
    BY <1>2, <2>4, <2>5, <2>6, <2>7 DEF spec
<1>4. ASSUME NEW r, range = {r}, RangeFrom(r, clauses), r.lower # Unbounded,
             InRange(v, r) <=> InRange(v, f) /\ SatisfiesAll(v, Reading(clauses))
      PROVE  MatchesAll(v, spec) <=> Installs(w, v)
  <2>1. /\ MatchesAll(v, spec) <=>
                    /\ Rank(v) >= Rank(r.lower)
                    /\ r.upper = Unbounded
                        \/ MatchesAll(v, ConvertSpecifier(Clause("<", r.upper)))
        /\ r.upper = Unbounded \/ r.upper.stage # Local
    BY <1>4, RangeConverted DEF range, clauses, spec
  <2>2. r.upper # Unbounded =>
            (MatchesAll(v, ConvertSpecifier(Clause("<", r.upper))) <=> Rank(v) < Rank(r.upper))
    BY <1>2, <1>4, <2>1, BelowConverted DEF RangeFrom, BoundFrom
  <2>3. MatchesAll(v, spec) <=> InRange(v, r)
    BY <1>4, <2>1, <2>2 DEF InRange
  <2>4. InRange(v, f) <=> FilenameAdmits(w, v)
    <3>1. InRange(v, f) <=> IF w.requirement.exact THEN Segment(v, 1) = 3 /\ Segment(v, 2) = m
                            ELSE Rank(v) >= Rank(Minor(m))
      BY <1>2, FilenameRangeShape DEF f, m
    <3>2. ~IsGeneric(w)
      BY <1>4 DEF IsGeneric, range
    <3> QED
      BY <1>2, <3>1, <3>2 DEF FilenameAdmits, m
  <2> QED
    BY <1>4, <2>3, <2>4 DEF Installs, clauses
<1> QED
  <2>1. \/ range = {} /\ SimplifiedRange(clauses) = {}
        \/ \E r : /\ range = {r} /\ RangeFrom(r, clauses) /\ r.lower # Unbounded
                  /\ \A x : Comparable(x) /\ x.stage = Final =>
                        (InRange(x, r) <=> InRange(x, f) /\ SatisfiesAll(x, Reading(clauses)))
    BY CombinedRangeCases DEF range, clauses, f
  <2> QED
    BY <1>2, <1>3, <1>4, <2>1 DEF spec

(* A pre-release is admitted by a range only with its release. *)
LEMMA PythonSpecPrerelease ==
    ASSUME NEW w \in Wheels, NEW v \in Pythons, ~IsGeneric(w), ~w.allow_pre,
           PythonMatchSpecError(w.requirement, w.requires_python, w.allow_pre) = "ok",
           MatchesAll(v, PythonMatchSpec(w.requirement, w.requires_python))
    PROVE  MatchesAll([v EXCEPT !.stage = Final],
                      PythonMatchSpec(w.requirement, w.requires_python))
<1> DEFINE x == [v EXCEPT !.stage = Final]
           spec == PythonMatchSpec(w.requirement, w.requires_python)
<1>1. Comparable(v) /\ v.stage \in {Alpha, Candidate, Final}
  BY PythonShape
<1>2. /\ Comparable(x) /\ SameSegments(v, x) /\ x.stage = Final
      /\ \A i : Segment(x, i) = Segment(v, i)
  <2>1. Final \in Anchor .. Local
    BY DEF Anchor, Final, Local
  <2> QED
    BY <1>1, <2>1, Restaged
<1> HIDE DEF x, spec
<1>3. PICK r : /\ CombinedRange(w.requirement, w.requires_python) = {r}
               /\ RangeFrom(r, w.requires_python.clauses) /\ r.lower # Unbounded
  BY CombinedRangeCases DEF IsGeneric
<1> DEFINE u == r.upper
<1>4. /\ \A z : MatchesAll(z, spec) <=>
                    /\ Rank(z) >= Rank(r.lower)
                    /\ u = Unbounded \/ MatchesAll(z, ConvertSpecifier(Clause("<", u)))
      /\ u = Unbounded \/ (u.stage # Local /\ ~IsPrerelease(u))
  BY <1>3, RangeConverted DEF spec
<1>5. Rank(x) >= Rank(r.lower)
  <2>1. Comparable(r.lower)
    BY <1>3 DEF RangeFrom, BoundFrom
  <2>2. Rank(v) >= Rank(r.lower)
    BY <1>4 DEF spec
  <2>3. Rank(v) <= Rank(x)
    <3>1. Rank(x) < Rank(v) <=> SegmentsBelow(x, v) \/ (SameSegments(x, v) /\ x.stage < v.stage)
      BY <1>1, <1>2, StageLast
    <3>2. ~SegmentsBelow(x, v)
      BY <1>1, <1>2, SegmentsTotal
    <3>3. ~(x.stage < v.stage)
      BY <1>1, <1>2 DEF Alpha, Candidate, Final
    <3> QED
      BY <1>1, <1>2, <3>1, <3>2, <3>3, StageLast
  <2> QED
    BY <1>1, <1>2, <2>1, <2>2, <2>3, StageLast
<1>6. ASSUME u # Unbounded PROVE MatchesAll(x, ConvertSpecifier(Clause("<", u)))
  <2>1. /\ Comparable(u) /\ u.stage # Local /\ ~IsPrerelease(u)
        /\ MatchesAll(v, ConvertSpecifier(Clause("<", u)))
    BY <1>3, <1>4, <1>6 DEF RangeFrom, BoundFrom, spec
  <2> HIDE DEF u
  <2>2. \A z : MatchesAll(z, ConvertSpecifier(Clause("<", u)))
                    <=> Matches(z, Clause("<", Anchored(u)))
    <3>1. ConvertSpecifier(Clause("<", u)) = {Clause("<", Anchored(u))}
      BY <2>1 DEF ConvertSpecifier, Clause
    <3> QED
      BY <3>1 DEF MatchesAll
  <2>3. SegmentsBelow(x, u) <=> SegmentsBelow(v, u)
    BY <1>2 DEF SegmentsBelow
  <2>4. CASE u.stage = Post
    <3>1. Anchored(u) = u
      BY <2>4 DEF Anchored
    <3>2. Rank(v) < Rank(u)
      BY <2>1, <2>2, <3>1, MatchesOf
    <3>3. SegmentsBelow(v, u) \/ SameSegments(v, u)
      BY <1>1, <2>1, <3>2, StageLast
    <3>4. SameSegments(v, u) => SameSegments(x, u)
      BY <1>2 DEF SameSegments
    <3>5. x.stage < u.stage
      BY <1>2, <2>4 DEF Final, Post
    <3>6. Rank(x) < Rank(u)
      BY <1>2, <2>1, <2>3, <3>3, <3>4, <3>5, StageLast
    <3> QED
      BY <2>2, <3>1, <3>6, MatchesOf
  <2>5. CASE u.stage # Post
    BY <1>1, <1>2, <2>1, <2>2, <2>3, <2>5, BelowAnchored
  <2> QED
    BY <2>4, <2>5
<1> QED
  BY <1>4, <1>5, <1>6 DEF x, spec

(* A wheel that comes down to a range is installed by what is in it. *)
LEMMA RangeInstalls ==
    ASSUME NEW w \in Wheels, NEW v \in Pythons, v.stage = Final,
           NEW r \in CombinedRange(w.requirement, w.requires_python)
    PROVE  InRange(v, r) <=> Installs(w, v)
<1> DEFINE clauses == w.requires_python.clauses
           range == CombinedRange(w.requirement, w.requires_python)
           f == FilenameRange(w.requirement)
           m == w.requirement.minor
<1>1. Comparable(v) /\ Segment(v, 1) = v.release[1] /\ Segment(v, 2) = v.release[2]
  BY PythonShape
<1> HIDE DEF clauses, range, f, m
<1>2. \E s : /\ range = {s}
             /\ \A x : Comparable(x) /\ x.stage = Final =>
                    (InRange(x, s) <=> InRange(x, f) /\ SatisfiesAll(x, Reading(clauses)))
  BY CombinedRangeCases DEF range, clauses, f
<1>3. InRange(v, r) <=> InRange(v, f) /\ SatisfiesAll(v, Reading(clauses))
  BY <1>1, <1>2 DEF range
<1>4. InRange(v, f) <=> IF w.requirement.exact THEN Segment(v, 1) = 3 /\ Segment(v, 2) = m
                        ELSE Rank(v) >= Rank(Minor(m))
  BY <1>1, FilenameRangeShape DEF f, m
<1>5. ~IsGeneric(w)
  BY DEF IsGeneric
<1> QED
  BY <1>1, <1>3, <1>4, <1>5 DEF Installs, FilenameAdmits, m, clauses

(* Nothing can install a wheel whose ranges are disjoint. *)
LEMMA DisjointInstallsNone ==
    ASSUME NEW w \in Wheels, NEW v \in Pythons, v.stage = Final,
           RangeError(w.requirement, w.requires_python) # "ok"
    PROVE  ~Installs(w, v)
<1>1. PICK r \in CombinedRange(w.requirement, w.requires_python) : Disjoint(r)
  BY DEF RangeError
<1>2. RangeFrom(r, w.requires_python.clauses) /\ r.lower # Unbounded
  BY CombinedRangeCases
<1>3. r.upper # Unbounded /\ Rank(r.lower) >= Rank(r.upper)
  BY <1>1 DEF Disjoint
<1>4. Comparable(v) /\ Comparable(r.lower) /\ Comparable(r.upper)
  BY <1>2, <1>3, PythonShape DEF RangeFrom, BoundFrom
<1>5. Rank(v) \in Int /\ Rank(r.lower) \in Int /\ Rank(r.upper) \in Int
  BY <1>4, StageLast
<1>6. ~InRange(v, r)
  BY <1>2, <1>3, <1>5 DEF InRange
<1> QED
  BY <1>6, RangeInstalls

(* Where only releases bound it, a range holds the release it begins with. *)
LEMMA FirstAdmitted ==
    ASSUME NEW w \in Wheels, RangeError(w.requirement, w.requires_python) = "ok",
           \A c \in w.requires_python.clauses : c.version.stage = Final /\ Len(c.version.release) <= 3,
           NEW r \in CombinedRange(w.requirement, w.requires_python)
    PROVE  MatchesAll(Release(<<Segment(r.lower, 1), Segment(r.lower, 2), Segment(r.lower, 3)>>),
                      PythonMatchSpec(w.requirement, w.requires_python))
<1> DEFINE a == r.lower
           x == Release(<<Segment(a, 1), Segment(a, 2), Segment(a, 3)>>)
<1>1. /\ CombinedRange(w.requirement, w.requires_python) = {r}
      /\ RangeFrom(r, w.requires_python.clauses) /\ a # Unbounded
  BY CombinedRangeCases
<1>2. /\ Comparable(a) /\ a.stage = Final /\ Segment(a, 4) = 0
      /\ r.upper # Unbounded => Comparable(r.upper) /\ r.upper.stage = Final
  BY <1>1 DEF RangeFrom, BoundFrom
<1> HIDE DEF a
<1>3. /\ Segment(a, 1) \in Nat /\ Segment(a, 2) \in Nat /\ Segment(a, 3) \in Nat
      /\ Segment(a, 1) <= 199 /\ Segment(a, 2) <= 199 /\ Segment(a, 3) <= 199
  <2>1. Comparable(a)
    BY <1>2
  <2>2. /\ Segment(a, 1) \in 0 .. 199 /\ Segment(a, 2) \in 0 .. 199 /\ Segment(a, 3) \in 0 .. 199
    BY ONLY <2>1, SegmentTypes
  <2> QED
    BY ONLY <2>2
<1>4. /\ Comparable(x) /\ x.stage = Final
      /\ Segment(x, 1) = Segment(a, 1) /\ Segment(x, 2) = Segment(a, 2)
      /\ Segment(x, 3) = Segment(a, 3) /\ Segment(x, 4) = 0
  BY <1>3, ReleaseShape
<1> HIDE DEF x
<1>5. Rank(x) = Rank(a) /\ Rank(a) \in Int
  <2>1. SameSegments(x, a)
    BY <1>2, <1>4 DEF SameSegments
  <2> QED
    BY <1>2, <1>4, <2>1, StageLast
<1>6. ASSUME r.upper # Unbounded
      PROVE  MatchesAll(x, ConvertSpecifier(Clause("<", r.upper)))
  <2>1. ~(Rank(a) >= Rank(r.upper))
    BY <1>1, <1>6 DEF RangeError, Disjoint, a
  <2>2. Rank(r.upper) \in Int
    BY <1>2, <1>6, StageLast
  <2> QED
    BY <1>2, <1>4, <1>5, <1>6, <2>1, <2>2, BelowConverted DEF Final, Local
<1>7. Rank(x) >= Rank(a)
  BY <1>5
<1> QED
  BY <1>1, <1>6, <1>7, RangeConverted DEF a, x

(* A bound that cannot be converted is one of Requires-Python's. *)
LEMMA UnsupportedFromClauses ==
    ASSUME NEW w \in Wheels,
           PythonMatchSpecError(w.requirement, w.requires_python, w.allow_pre) # "ok"
    PROVE  \E c \in w.requires_python.clauses : Unsupported(c, w.allow_pre)
<1> DEFINE clauses == w.requires_python.clauses
           range == CombinedRange(w.requirement, w.requires_python)
<1>1. PICK d \in CombinedSpecifier(w.requirement, w.requires_python) : Unsupported(d, w.allow_pre)
  BY DEF PythonMatchSpecError
<1>2. d.version.stage # Final
  BY <1>1 DEF Unsupported, IsPrerelease, Local, Final, Alpha, Candidate
<1>3. CASE range = {}
  <2>1. d = FilenameGenericSpecifier(w.requirement) \/ d \in clauses
    BY <1>1, <1>3 DEF CombinedSpecifier
  <2>2. d # FilenameGenericSpecifier(w.requirement)
    BY <1>2 DEF FilenameGenericSpecifier, Clause, Minor, Release
  <2> QED
    BY <1>1, <2>1, <2>2
<1>4. CASE range # {}
  <2>1. PICK r : range = {r} /\ RangeFrom(r, clauses) /\ r.lower # Unbounded
    BY <1>4, CombinedRangeCases
  <2>2. d = Clause(">=", r.lower) \/ (d = Clause("<", r.upper) /\ r.upper # Unbounded)
    BY <1>1, <1>4, <2>1 DEF CombinedSpecifier
  <2>3. PICK x : BoundFrom(x, clauses) /\ d.version = x /\ ~d.glob
    BY <2>1, <2>2 DEF RangeFrom, Clause
  <2>4. PICK c \in clauses : ~c.glob /\ c.version = x
    BY <1>2, <2>3 DEF BoundFrom
  <2> QED
    BY <1>1, <2>3, <2>4 DEF Unsupported
<1> QED
  BY <1>3, <1>4

(* What is below a converted bound is not above the bound. *)
LEMMA UpperConverted ==
    ASSUME NEW v, NEW u, Comparable(v), Comparable(u),
           MatchesAll(v, ConvertSpecifier(Clause("<", u)))
    PROVE  /\ SegmentsBelow(v, u) \/ SameSegments(v, u)
           /\ ~IsPrerelease(u) /\ u.stage # Post => SegmentsBelow(v, u)
<1>1. ConvertSpecifier(Clause("<", u)) =
        IF IsPrerelease(u) THEN {Clause("<", u)} ELSE {Clause("<", Anchored(u))}
  BY DEF ConvertSpecifier, Clause
<1>2. CASE IsPrerelease(u) \/ u.stage = Post
  <2>1. ConvertSpecifier(Clause("<", u)) = {Clause("<", u)}
    BY <1>1, <1>2 DEF Anchored
  <2>2. Rank(v) < Rank(u)
    BY <2>1, MatchesOf DEF MatchesAll
  <2> QED
    BY <1>2, <2>2, StageLast
<1>3. CASE ~IsPrerelease(u) /\ u.stage # Post
  BY <1>1, <1>3, BelowAnchored DEF MatchesAll
<1> QED
  BY <1>2, <1>3

(* exact_minor is right about every Python that the dependency admits, if  *)
(* no bound above is finer than releases are.                              *)
LEMMA ExactMinorFixes ==
    ASSUME NEW w \in Wheels, NEW v \in Pythons,
           MatchesAll(v, PythonMatchSpec(w.requirement, w.requires_python)),
           \A c \in w.requires_python.clauses : c.op = "<" => Len(c.version.release) <= 3,
           ExactMinor(w.requirement, w.requires_python) # NoMinor
    PROVE  v.release[1] = 3 /\ v.release[2] = ExactMinor(w.requirement, w.requires_python)
<1> DEFINE range == CombinedRange(w.requirement, w.requires_python)
           fixed == {Segment(r.lower, 2) : r \in {s \in range : FixesMinor(s)}}
           E == ExactMinor(w.requirement, w.requires_python)
<1>1. E \in fixed
  BY DEF ExactMinor
<1>2. PICK r \in range : FixesMinor(r) /\ E = Segment(r.lower, 2)
  BY <1>1
<1> DEFINE a == r.lower
           u == r.upper
<1>3. range = {r} /\ RangeFrom(r, w.requires_python.clauses) /\ a # Unbounded
  BY CombinedRangeCases
<1>4. /\ u # Unbounded /\ Segment(a, 1) = 3 /\ Segment(u, 1) = 3
      /\ \/ Segment(u, 2) = Segment(a, 2)
         \/ /\ Segment(u, 2) = Segment(a, 2) + 1 /\ Segment(u, 3) = 0
            /\ ~IsPrerelease(u) /\ u.stage # Post
  BY <1>2 DEF FixesMinor
<1>5. Comparable(a) /\ Comparable(u) /\ Segment(u, 4) = 0
  BY <1>3, <1>4 DEF RangeFrom, BoundFrom, UpperFrom
<1>6. Comparable(v) /\ Segment(v, 1) = v.release[1] /\ Segment(v, 2) = v.release[2]
  BY PythonShape
<1>7. Rank(v) >= Rank(a) /\ MatchesAll(v, ConvertSpecifier(Clause("<", u)))
  BY <1>3, <1>4, RangeConverted
<1> HIDE DEF range, fixed, a, u, E
<1>8. ~SegmentsBelow(v, a)
  <2>1. Rank(v) \in Int /\ Rank(a) \in Int /\ (SegmentsBelow(v, a) => Rank(v) < Rank(a))
    BY <1>5, <1>6, StageLast
  <2> QED
    BY <1>7, <2>1
<1>9. /\ SegmentsBelow(v, u) \/ SameSegments(v, u)
      /\ ~IsPrerelease(u) /\ u.stage # Post => SegmentsBelow(v, u)
  BY <1>5, <1>6, <1>7, UpperConverted
<1>10. /\ Segment(v, 1) \in Nat /\ Segment(v, 2) \in Nat /\ Segment(v, 3) \in Nat
       /\ Segment(v, 4) \in Nat /\ Segment(a, 2) \in Nat /\ Segment(u, 2) \in Nat
  <2>1. /\ Segment(v, 1) \in 0 .. 199 /\ Segment(v, 2) \in 0 .. 199 /\ Segment(v, 3) \in 0 .. 199
        /\ Segment(v, 4) \in 0 .. 9 /\ Segment(a, 2) \in 0 .. 199 /\ Segment(u, 2) \in 0 .. 199
    BY ONLY <1>5, <1>6, SegmentTypes
  <2> QED
    BY ONLY <2>1
<1>11. ~(Segment(v, 1) < 3 \/ (Segment(v, 1) = 3 /\ Segment(v, 2) < Segment(a, 2)))
  BY <1>4, <1>8 DEF SegmentsBelow
<1>12. Segment(v, 1) = 3 /\ Segment(v, 2) = Segment(a, 2)
  <2>1. CASE Segment(u, 2) = Segment(a, 2)
    BY <1>4, <1>9, <1>10, <1>11, <2>1 DEF SegmentsBelow, SameSegments
  <2>2. CASE /\ Segment(u, 2) = Segment(a, 2) + 1 /\ Segment(u, 3) = 0
             /\ ~IsPrerelease(u) /\ u.stage # Post
    BY <1>4, <1>5, <1>9, <1>10, <1>11, <2>2 DEF SegmentsBelow
  <2> QED
    BY <1>4, <2>1, <2>2
<1> QED
  BY <1>2, <1>6, <1>12 DEF a, E

-----------------------------------------------------------------------------
(* The releases of a minor that are probed stand for all of them.          *)

(* A clause does not tell two releases of a minor apart if it is about     *)
(* another minor, or about a patch release that is on the same side of     *)
(* both.                                                                   *)
LEMMA SameSide ==
    ASSUME NEW c \in ClausesOf(SpecifierOperators), NEW m \in Nat, NEW p \in Nat, NEW q \in Nat,
           m <= 199, p <= 199, q <= 199,
           \/ Segment(c.version, 1) # 3 \/ Segment(c.version, 2) # m \/ p = q
           \/ p < Segment(c.version, 3) /\ q < Segment(c.version, 3)
           \/ p > Segment(c.version, 3) /\ q > Segment(c.version, 3)
    PROVE  Satisfies(Release(<<3, m, p>>), c) <=> Satisfies(Release(<<3, m, q>>), c)
<1> DEFINE b == c.version
           x == Release(<<3, m, p>>)
           y == Release(<<3, m, q>>)
           b1 == Segment(b, 1)
           b2 == Segment(b, 2)
           b3 == Segment(b, 3)
           b4 == Segment(b, 4)
           n == Len(b.release)
<1>1. /\ b \in Versions /\ c.op \in SpecifierOperators /\ c.glob \in BOOLEAN
      /\ c.glob => c.op \in {"==", "!="}
      /\ c.op = "~=" => n > 1
  BY DEF ClausesOf, EqualityComparators
<1>2. /\ Comparable(b) /\ n \in 1 .. 4
      /\ \A i \in 1 .. n : b.release[i] = Segment(b, i)
      /\ n < 2 => b2 = 0 /\ b3 = 0 /\ b4 = 0
  <2>1. /\ Comparable(b) /\ n \in 1 .. 4
        /\ \A i \in 1 .. 4 : /\ i <= n => Segment(b, i) = b.release[i]
                             /\ i > n => Segment(b, i) = 0
    BY <1>1, VersionShape
  <2> HIDE DEF n, b
  <2> QED
    BY <2>1
<1>3. /\ Comparable(x) /\ x.stage = Final /\ x.release = <<3, m, p>>
      /\ Segment(x, 1) = 3 /\ Segment(x, 2) = m /\ Segment(x, 3) = p /\ Segment(x, 4) = 0
  BY ReleaseShape
<1>4. /\ Comparable(y) /\ y.stage = Final /\ y.release = <<3, m, q>>
      /\ Segment(y, 1) = 3 /\ Segment(y, 2) = m /\ Segment(y, 3) = q /\ Segment(y, 4) = 0
  BY ReleaseShape
<1>5. b1 \in Int /\ b2 \in Int /\ b3 \in Int /\ b4 \in Int /\ b4 >= 0
  <2>1. b1 \in 0 .. 199 /\ b2 \in 0 .. 199 /\ b3 \in 0 .. 199 /\ b4 \in 0 .. 9
    BY ONLY <1>2, SegmentTypes
  <2> QED
    BY ONLY <2>1
<1>6. \/ b1 # 3 \/ b2 # m \/ p = q \/ (p < b3 /\ q < b3) \/ (p > b3 /\ q > b3)
  OBVIOUS
<1>7. /\ SegmentsBelow(x, b) <=> 3 < b1 \/ (3 = b1 /\ (m < b2 \/ (m = b2 /\
                                    (p < b3 \/ (p = b3 /\ 0 < b4)))))
      /\ SegmentsBelow(y, b) <=> 3 < b1 \/ (3 = b1 /\ (m < b2 \/ (m = b2 /\
                                    (q < b3 \/ (q = b3 /\ 0 < b4)))))
      /\ SameSegments(x, b) <=> 3 = b1 /\ m = b2 /\ p = b3 /\ 0 = b4
      /\ SameSegments(y, b) <=> 3 = b1 /\ m = b2 /\ q = b3 /\ 0 = b4
  BY ONLY <1>3, <1>4 DEF SegmentsBelow, SameSegments
<1> HIDE DEF b, x, y, b1, b2, b3, b4, n
<1>8. /\ SegmentsBelow(x, b) <=> SegmentsBelow(y, b)
      /\ SameSegments(x, b) <=> SameSegments(y, b)
  BY <1>5, <1>6, <1>7
<1>9. /\ Rank(x) \in Int /\ Rank(y) \in Int /\ Rank(b) \in Int
      /\ Rank(x) < Rank(b) <=> Rank(y) < Rank(b)
      /\ Rank(x) = Rank(b) <=> Rank(y) = Rank(b)
  BY <1>2, <1>3, <1>4, <1>8, StageLast
<1>10. ASSUME NEW k \in 0 .. 4, k = n \/ (k = n - 1 /\ n > 1)
       PROVE  (\A i \in 1 .. k : Segment(x, i) = b.release[i])
                <=> (\A i \in 1 .. k : Segment(y, i) = b.release[i])
  <2>1. \A i \in 1 .. k : b.release[i] = Segment(b, i)
    BY <1>2, <1>10
  <2>2. \A i \in 1 .. k : i \in {1, 2, 3, 4}
    OBVIOUS
  <2>3. \A i \in 1 .. k : i # 3 => Segment(x, i) = Segment(y, i)
    BY <1>3, <1>4, <2>2
  <2>4. CASE p = q
    <3>1. \A i \in 1 .. k : Segment(x, i) = Segment(y, i)
      BY <1>3, <1>4, <2>3, <2>4
    <3> QED
      BY <3>1
  <2>5. CASE k < 3
    <3>1. \A i \in 1 .. k : Segment(x, i) = Segment(y, i)
      BY <2>3, <2>5
    <3> QED
      BY <3>1
  <2>6. CASE k >= 3 /\ p # q
    <3>1. 1 \in 1 .. k /\ 2 \in 1 .. k /\ 3 \in 1 .. k
      BY <2>6
    <3>2. b.release[1] = b1 /\ b.release[2] = b2 /\ b.release[3] = b3
      BY <2>1, <3>1 DEF b1, b2, b3
    <3>3. b1 # 3 \/ b2 # m \/ (p # b3 /\ q # b3)
      BY <1>5, <1>6, <2>6
    <3> QED
      BY <1>3, <1>4, <3>1, <3>2, <3>3
  <2> QED
    BY <1>10, <2>4, <2>5, <2>6
<1>11. StartsWith(x, b) <=> StartsWith(y, b)
  <2>1. n \in 0 .. 4
    BY <1>2
  <2>2. (\A i \in 1 .. n : Segment(x, i) = b.release[i])
                <=> (\A i \in 1 .. n : Segment(y, i) = b.release[i])
    BY <1>10, <2>1
  <2> QED
    BY <2>2 DEF StartsWith, n
<1>12. x = b <=> y = b
  <2>1. x = b \/ y = b => p = q
    BY <1>3, <1>4, <1>5, <1>6 DEF b1, b2, b3
  <2> QED
    BY <2>1 DEF x, y
<1>13. CASE c.op = "~="
  <2>1. n - 1 \in 0 .. 4 /\ n > 1
    BY <1>1, <1>2, <1>13
  <2>2. (\A i \in 1 .. n - 1 : Segment(x, i) = b.release[i])
                <=> (\A i \in 1 .. n - 1 : Segment(y, i) = b.release[i])
    BY <1>10, <2>1
  <2>3. \A z : Satisfies(z, c) <=> /\ Rank(z) >= Rank(b)
                                   /\ \A i \in 1 .. n - 1 : Segment(z, i) = b.release[i]
    BY <1>13, SatisfiesOf DEF b, n
  <2> QED
    BY <1>9, <2>2, <2>3 DEF x, y
<1>14. CASE c.op = "==="
  <2>1. \A z : Satisfies(z, c) <=> z = b
    BY <1>14, SatisfiesOf DEF b
  <2> QED
    BY <1>12, <2>1 DEF x, y
<1>15. CASE c.op \in {"==", "!="}
  <2>1. \A z : Satisfies(z, c) <=>
                ((IF c.glob THEN StartsWith(z, b) ELSE Rank(z) = Rank(b)) <=> c.op = "==")
    BY <1>1, <1>15, SatisfiesOf DEF b
  <2> QED
    BY <1>9, <1>11, <2>1 DEF x, y
<1>16. CASE c.op \in {">=", ">", "<=", "<"}
  <2>1. \A z : z.stage = Final =>
            (Satisfies(z, c) <=> \/ c.op = ">=" /\ Rank(z) >= Rank(b)
                                 \/ c.op = ">" /\ Rank(z) > Rank(b)
                                 \/ c.op = "<=" /\ Rank(z) <= Rank(b)
                                 \/ c.op = "<" /\ Rank(z) < Rank(b))
    BY <1>16, SatisfiesOf DEF b
  <2> QED
    BY <1>3, <1>4, <1>9, <2>1 DEF x, y
<1> QED
  BY <1>1, <1>13, <1>14, <1>15, <1>16 DEF SpecifierOperators, EqualityComparators, OrderedComparators

(* The largest of some numbers below a bound. *)
LEMMA LargestBelow ==
    ASSUME NEW A \in SUBSET Nat, NEW p \in Nat, \E a \in A : a < p
    PROVE  \E a \in A : a < p /\ \A b \in A : b < p => b <= a
<1> DEFINE T == {p - a : a \in {b \in A : b < p}}
<1>1. T \in SUBSET Nat /\ T # {}
  <2>1. ASSUME NEW a \in A, a < p PROVE p - a \in Nat
    <3>1. a \in Nat
      OBVIOUS
    <3> QED
      BY ONLY <2>1, <3>1, p \in Nat
  <2>2. PICK a \in A : a < p
    OBVIOUS
  <2>3. p - a \in T
    BY <2>2
  <2> QED
    BY <2>1, <2>3
<1>2. PICK d \in T : \A e \in T : d <= e
  BY <1>1, LeastNatural
<1>3. PICK a \in A : a < p /\ d = p - a
  BY <1>2
<1>4. ASSUME NEW b \in A, b < p PROVE b <= a
  <2>1. d <= p - b
    BY <1>2, <1>4
  <2> QED
    BY <1>3, <1>4, <2>1
<1> QED
  BY <1>3, <1>4

(* The release that is probed for p, among the anchors of the clauses. *)
Representative(q, p, anchors) ==
    \/ q = p /\ p \in anchors
    \/ p \notin anchors /\ q = 0 /\ \A a \in anchors : p < a
    \/ p \notin anchors /\ \E a \in anchors : /\ a < p /\ q = a + 1
                                              /\ \A b \in anchors : b < p => b <= a

LEMMA RepresentativeExists ==
    ASSUME NEW anchors \in SUBSET Nat, NEW p \in Nat
    PROVE  \E q \in Nat : /\ Representative(q, p, anchors)
                          /\ q <= p
                          /\ \A a \in anchors : \/ p = q
                                                \/ p < a /\ q < a
                                                \/ p > a /\ q > a
<1>1. CASE p \in anchors
  BY <1>1 DEF Representative
<1>2. CASE p \notin anchors /\ \E a \in anchors : a < p
  <2>1. PICK a \in anchors : a < p /\ \A b \in anchors : b < p => b <= a
    BY <1>2, LargestBelow
  <2>2. Representative(a + 1, p, anchors)
    BY <1>2, <2>1 DEF Representative
  <2>3. a + 1 \in Nat /\ a + 1 <= p
    BY <2>1
  <2>4. ASSUME NEW b \in anchors PROVE (p < b /\ a + 1 < b) \/ (p > b /\ a + 1 > b)
    <3>1. b \in Nat /\ a \in Nat /\ p # b
      BY <1>2
    <3>2. CASE b < p
      BY <2>1, <3>1, <3>2
    <3>3. CASE b > p
      BY <2>3, <3>1, <3>3
    <3> QED
      BY <3>1, <3>2, <3>3
  <2> QED
    BY <2>2, <2>3, <2>4
<1>3. CASE p \notin anchors /\ ~\E a \in anchors : a < p
  <2>1. \A a \in anchors : p < a /\ 0 < a
    BY <1>3
  <2>2. Representative(0, p, anchors)
    BY <1>3, <2>1 DEF Representative
  <2> QED
    BY <2>1, <2>2
<1> QED
  BY <1>1, <1>2, <1>3

(* The patch releases that the clauses name in a minor. *)
Anchors(clauses, m) ==
    {Segment(c.version, 3) : c \in {k \in clauses : /\ Len(k.version.release) > 1
                                                    /\ Segment(k.version, 1) = 3
                                                    /\ Segment(k.version, 2) = m}}

LEMMA ProbeMicrosOf ==
    ASSUME NEW clauses, NEW m
    PROVE  ProbeMicros(clauses, m) =
             {0} \cup UNION {{a + d : d \in {-1, 0, 1}} \cap Nat : a \in Anchors(clauses, m)}
<1>1. \A v : StartsWith(v, Minor(m)) <=> Segment(v, 1) = 3 /\ Segment(v, 2) = m
  BY DEF StartsWith, Minor, Release
<1> DEFINE named == {c.version : c \in {k \in clauses : /\ Len(k.version.release) > 1
                                                       /\ StartsWith(k.version, Minor(m))}}
<1>2. Anchors(clauses, m) = {Segment(v, 3) : v \in named}
  BY <1>1 DEF Anchors
<1>3. ProbeMicros(clauses, m) =
        {0} \cup UNION {{Segment(v, 3) + d : d \in {-1, 0, 1}} \cap Nat : v \in named}
  BY DEF ProbeMicros
<1> DEFINE near(a) == {a + d : d \in {-1, 0, 1}} \cap Nat
<1>4. /\ ProbeMicros(clauses, m) = {0} \cup UNION {near(Segment(v, 3)) : v \in named}
      /\ {near(Segment(v, 3)) : v \in named} = {near(a) : a \in {Segment(v, 3) : v \in named}}
  <2>1. ProbeMicros(clauses, m) = {0} \cup UNION {near(Segment(v, 3)) : v \in named}
    BY <1>3
  <2> HIDE DEF near, named
  <2> QED
    BY <2>1
<1> QED
  BY <1>2, <1>4

(* What a minor's releases satisfy, one that is probed does. *)
LEMMA RepresentativeSatisfies ==
    ASSUME NEW clauses \in SUBSET ClausesOf(SpecifierOperators), \A c \in clauses : ~UnprobedClause(c),
           NEW m \in Nat, m <= 99, NEW p \in Nat, p <= 100, NEW q \in Nat, q <= p,
           Representative(q, p, Anchors(clauses, m)),
           \A a \in Anchors(clauses, m) : p = q \/ (p < a /\ q < a) \/ (p > a /\ q > a),
           SatisfiesAll(Release(<<3, m, p>>), clauses)
    PROVE  SatisfiesAll(Release(<<3, m, q>>), clauses)
<1> SUFFICES ASSUME NEW c \in clauses PROVE Satisfies(Release(<<3, m, q>>), c)
  BY DEF SatisfiesAll
<1> DEFINE b == c.version
<1>1. Satisfies(Release(<<3, m, p>>), c)
  BY DEF SatisfiesAll
<1>2. c \in ClausesOf(SpecifierOperators) /\ b \in Versions
  BY DEF ClausesOf
<1>3. m <= 199 /\ p <= 199 /\ q <= 199
  OBVIOUS
<1>4. Len(b.release) \in 1 .. 4 /\ (Len(b.release) < 2 => Segment(b, 2) = 0 /\ Segment(b, 3) = 0)
  <2>1. /\ Len(b.release) \in 1 .. 4
        /\ \A i \in 1 .. 4 : i > Len(b.release) => Segment(b, i) = 0
    BY <1>2, VersionShape
  <2> HIDE DEF b
  <2> QED
    BY <2>1
<1>5. CASE Segment(b, 1) # 3 \/ Segment(b, 2) # m \/ p = q
  BY <1>1, <1>2, <1>3, <1>5, SameSide
<1>6. CASE Segment(b, 1) = 3 /\ Segment(b, 2) = m /\ Len(b.release) > 1
  <2>1. Segment(b, 3) \in Anchors(clauses, m)
    BY <1>6 DEF Anchors
  <2>2. \/ p = q \/ (p < Segment(b, 3) /\ q < Segment(b, 3)) \/ (p > Segment(b, 3) /\ q > Segment(b, 3))
    BY <2>1
  <2> QED
    BY <1>1, <1>2, <1>3, <2>2, SameSide
<1>7. CASE Segment(b, 1) = 3 /\ Segment(b, 2) = m /\ ~(Len(b.release) > 1) /\ p # q
  <2>1. m = 0 /\ Segment(b, 3) = 0 /\ p > 0 /\ Len(b.release) = 1
    <3>0. Segment(b, 2) = m /\ ~(Len(b.release) > 1) /\ p # q
      BY <1>7
    <3> HIDE DEF b
    <3>1. Len(b.release) \in 1 .. 4
      BY <1>4
    <3>2. Len(b.release) = 1 /\ Len(b.release) < 2
      <4>1. \A n \in 1 .. 4 : ~(n > 1) => n = 1 /\ n < 2
        OBVIOUS
      <4> QED
        BY <3>0, <3>1, <4>1, Zenon
    <3>3. Segment(b, 2) = 0 /\ Segment(b, 3) = 0
      BY <1>4, <3>2
    <3> QED
      BY <3>0, <3>2, <3>3
  <2>2. Satisfies(Release(<<3, 0, 1>>), c)
    <3>1. p > Segment(b, 3) /\ 1 > Segment(b, 3) /\ 1 \in Nat /\ 1 <= 199
      BY <2>1
    <3>2. Satisfies(Release(<<3, m, p>>), c) <=> Satisfies(Release(<<3, m, 1>>), c)
      BY <1>2, <1>3, <3>1, SameSide
    <3> QED
      BY <1>1, <2>1, <3>2
  <2>3. CASE q = 0
    <3>1. Satisfies(Release(<<3, 0, 0>>), c)
      BY <2>1, <2>2 DEF UnprobedClause
    <3> QED
      BY <2>1, <2>3, <3>1
  <2>4. CASE q # 0
    <3>1. p > Segment(b, 3) /\ q > Segment(b, 3)
      BY <2>1, <2>4
    <3> QED
      BY <1>1, <1>2, <1>3, <3>1, SameSide
  <2> QED
    BY <2>3, <2>4
<1> QED
  BY <1>5, <1>6, <1>7

(* Few releases are probed, and a minor is satisfied if any release is. *)
LEMMA ProbesSuffice ==
    ASSUME NEW w \in Wheels, \A c \in w.requires_python.clauses : ~UnprobedClause(c),
           NEW m \in 0 .. MinorScanCeiling - 1
    PROVE  MinorIsSatisfied(w.requires_python.clauses, m)
            <=> \E p \in Micros : SatisfiesAll(Release(<<3, m, p>>), w.requires_python.clauses)
<1> DEFINE clauses == w.requires_python.clauses
           anchors == Anchors(clauses, m)
<1>1. /\ clauses \in SUBSET ClausesOf(SpecifierOperators)
      /\ MaxMicro \in 0 .. 100
      /\ \A c \in clauses : Segment(c.version, 3) < MaxMicro
  BY WheelShape, PythonsAssumption
<1>2. m \in Nat /\ m <= 99
  BY DEF MinorScanCeiling
<1>3. \A a \in anchors : a \in Nat /\ a < MaxMicro
  <2>1. ASSUME NEW c \in clauses PROVE Segment(c.version, 3) \in Nat
    <3>1. c.version \in Versions
      BY <1>1 DEF ClausesOf
    <3>2. Comparable(c.version)
      BY <3>1, VersionShape
    <3>3. Segment(c.version, 3) \in 0 .. 199
      BY ONLY <3>2, SegmentTypes
    <3> QED
      BY ONLY <3>3
  <2> QED
    BY <1>1, <2>1 DEF Anchors
<1>4. ProbeMicros(clauses, m) = {0} \cup UNION {{a + d : d \in {-1, 0, 1}} \cap Nat : a \in anchors}
  BY ProbeMicrosOf
<1> HIDE DEF anchors
<1>5. ASSUME NEW q \in ProbeMicros(clauses, m) PROVE q \in Micros
  <2>1. CASE q = 0
    BY <1>1, <2>1 DEF Micros
  <2>2. ASSUME NEW a \in anchors, NEW d \in {-1, 0, 1}, q = a + d, q \in Nat PROVE q \in Micros
    BY <1>1, <1>3, <2>2 DEF Micros
  <2> QED
    BY <1>4, <2>1, <2>2
<1>6. ASSUME NEW p \in Micros, SatisfiesAll(Release(<<3, m, p>>), clauses)
      PROVE  \E q \in ProbeMicros(clauses, m) : SatisfiesAll(Release(<<3, m, q>>), clauses)
  <2>1. p \in Nat /\ p <= 100
    BY <1>1 DEF Micros
  <2>2. PICK q \in Nat : /\ Representative(q, p, anchors) /\ q <= p
                         /\ \A a \in anchors : p = q \/ (p < a /\ q < a) \/ (p > a /\ q > a)
    <3>1. anchors \in SUBSET Nat
      BY <1>3
    <3> QED
      BY <2>1, <3>1, RepresentativeExists
  <2>3. q \in ProbeMicros(clauses, m)
    <3>1. q = 0 \/ q \in anchors \/ \E a \in anchors : q = a + 1
      BY <2>2 DEF Representative
    <3>2. CASE q = 0
      BY <1>4, <3>2
    <3>3. CASE q \in anchors
      <4>1. q \in {q + d : d \in {-1, 0, 1}} \cap Nat
        BY <2>2
      <4> QED
        BY <1>4, <3>3, <4>1
    <3>4. ASSUME NEW a \in anchors, q = a + 1 PROVE q \in ProbeMicros(clauses, m)
      <4>1. q \in {a + d : d \in {-1, 0, 1}} \cap Nat
        BY <2>2, <3>4
      <4> QED
        BY <1>4, <3>4, <4>1
    <3> QED
      BY <3>1, <3>2, <3>3, <3>4
  <2>4. SatisfiesAll(Release(<<3, m, q>>), clauses)
    BY <1>1, <1>2, <1>6, <2>1, <2>2, RepresentativeSatisfies DEF anchors
  <2> QED
    BY <2>3, <2>4
<1> QED
  BY <1>5, <1>6 DEF MinorIsSatisfied

(* The verdict on Requires-Python is about the minors with a release that  *)
(* satisfies it.                                                           *)
LEMMA RequiresPythonErrorIsExact ==
    ASSUME NEW w \in Wheels, \A c \in w.requires_python.clauses : ~UnprobedClause(c)
    PROVE  LET error == RequiresPythonError(w.requires_python)
               contiguous == Contiguous(AdmittedMinors(w.requires_python.clauses))
           IN  /\ error = "InvalidPythonRequirementRangeError" => ~contiguous
               /\ error = "ok" => contiguous
<1> DEFINE clauses == w.requires_python.clauses
<1>1. {m \in 0 .. MinorScanCeiling - 1 : MinorIsSatisfied(clauses, m)} = AdmittedMinors(clauses)
  BY ProbesSuffice DEF AdmittedMinors
<1>2. ASSUME clauses = {} PROVE Contiguous(AdmittedMinors(clauses))
  <2>1. 0 \in Micros
    BY PythonsAssumption DEF Micros
  <2>2. AdmittedMinors(clauses) = 0 .. 99
    BY <1>2, <2>1 DEF AdmittedMinors, SatisfiesAll, MinorScanCeiling
  <2> QED
    BY <2>2 DEF Contiguous
<1> QED
  BY <1>1, <1>2, WheelShape DEF RequiresPythonError
===============================================================================
