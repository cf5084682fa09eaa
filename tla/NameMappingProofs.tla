-------------------------- MODULE NameMappingProofs ---------------------------
(***************************************************************************)
(* What NameMapping guarantees for any tables, names and chains of mappers *)
(* that its assumptions allow.                                             *)
(***************************************************************************)
EXTENDS NameMapping, FiniteLemmas, SequenceTheorems

-----------------------------------------------------------------------------
(* What the score of ParselmouthEvidence is for any finite set of claims:  *)
(* how large it is, and how one more claim moves it.                       *)

Axes == {"same", "near", "subpackage", "unrelated"}

(* The versions that some build agrees on, and those that only disagree. *)
AgreedVersions(pair) == {k.version : k \in Agreeing(pair)}
DisputedVersions(pair) ==
    {k.version : k \in {j \in pair : VersionState(j) = "disagrees"}} \ AgreedVersions(pair)

(* ScoreEvidence over its weight, the version factor and what that is divided by. *)
Rounded(weight, factor, informative) ==
    (2 * (weight * factor) + Certain * informative) \div (2 * Certain * informative)

Weight(evidence) == BaseProbability * NameFactor(evidence.name_axis) * ContradictionFactor(evidence)

Informative(agree, disagree) == IF agree + disagree = 0 THEN 1 ELSE agree + disagree

-----------------------------------------------------------------------------

LEMMA QuotientBound ==
    ASSUME NEW a \in Nat, NEW m \in Nat, m > 0, NEW q \in Int, q * m <= a
    PROVE  q <= a \div m
<1> DEFINE d == a \div m
           r == a % m
<1>1. a = m * d + r /\ r < m /\ d \in Int /\ r \in Int
  OBVIOUS
<1> HIDE DEF d, r
<1>2. q * m < (d + 1) * m
  <2>1. (d + 1) * m = m * d + m
    BY <1>1
  <2> QED
    BY <1>1, <2>1
<1>3. q < d + 1
  <2>1. ASSUME q >= d + 1 PROVE FALSE
    <3>1. q * m >= (d + 1) * m
      BY <1>1, <2>1
    <3> QED
      BY <1>1, <1>2, <3>1
  <2> QED
    BY <1>1, <2>1
<1> QED
  BY <1>1, <1>3 DEF d

LEMMA QuotientLow ==
    ASSUME NEW a \in Nat, NEW m \in Nat, m > 0
    PROVE  a \div m \in Nat /\ (a \div m) * m <= a
<1> DEFINE d == a \div m
           r == a % m
<1>1. a = m * d + r /\ 0 <= r /\ d \in Int /\ r \in Int
  OBVIOUS
<1>2. 0 <= d
  BY QuotientBound
<1> HIDE DEF d, r
<1>3. d \in Nat /\ d * m <= a
  BY <1>1, <1>2
<1> QED
  BY <1>3 DEF d

(* Division is monotone in the fraction. *)
LEMMA QuotientMonotone ==
    ASSUME NEW a \in Nat, NEW m \in Nat, m > 0, NEW b \in Nat, NEW n \in Nat, n > 0,
           a * n <= b * m
    PROVE  a \div m <= b \div n
<1> DEFINE q == a \div m
           r == a % m
<1>1. a = m * q + r /\ 0 <= r /\ q \in Int /\ r \in Int
  OBVIOUS
<1> HIDE DEF q, r
<1>2. q * m <= a
  BY <1>1
<1>3. (q * m) * n <= a * n
  BY <1>1, <1>2
<1>4. (q * n) * m <= b * m
  <2>1. (q * n) * m = (q * m) * n
    BY <1>1
  <2>2. (q * m) * n \in Int /\ a * n \in Int /\ b * m \in Int
    BY <1>1
  <2> QED
    BY <1>3, <2>1, <2>2
<1>5. q * n <= b
  <2>1. ASSUME q * n >= b + 1 PROVE FALSE
    <3>1. q * n \in Int
      BY <1>1
    <3>2. (q * n) * m >= (b + 1) * m
      BY <2>1, <3>1
    <3>3. (b + 1) * m = b * m + m
      OBVIOUS
    <3> QED
      BY <1>4, <3>1, <3>2, <3>3
  <2> QED
    BY <1>1, <2>1
<1>6. q <= b \div n
  BY <1>1, <1>5, QuotientBound
<1> QED
  BY <1>6 DEF q

LEMMA RoundedMonotone ==
    ASSUME NEW c \in Nat, NEW v \in Nat, NEW n \in Nat, n > 0,
           NEW d \in Nat, NEW w \in Nat, NEW m \in Nat, m > 0,
           c <= d, v * m <= w * n
    PROVE  Rounded(c, v, n) <= Rounded(d, w, m)
<1> DEFINE x == c * v
           y == d * w
<1>1. x \in Nat /\ y \in Nat
  OBVIOUS
<1>2. x * m <= y * n
  <2>1. x * m = c * (v * m) /\ y * n = d * (w * n)
    OBVIOUS
  <2>2. c * (v * m) <= c * (w * n)
    OBVIOUS
  <2>3. c * (w * n) <= d * (w * n)
    OBVIOUS
  <2>4. c * (v * m) \in Int /\ c * (w * n) \in Int /\ d * (w * n) \in Int
    OBVIOUS
  <2> HIDE DEF x, y
  <2> QED
    BY <2>1, <2>2, <2>3, <2>4
<1> HIDE DEF x, y
<1>3. (2 * x + Certain * n) * (2 * Certain * m) <= (2 * y + Certain * m) * (2 * Certain * n)
  <2>1. (2 * x + 10000 * n) * (20000 * m) = 40000 * (x * m) + 200000000 * (n * m)
    BY <1>1
  <2>2. (2 * y + 10000 * m) * (20000 * n) = 40000 * (y * n) + 200000000 * (n * m)
    BY <1>1
  <2>3. x * m \in Int /\ y * n \in Int /\ n * m \in Int
    BY <1>1
  <2>4. 40000 * (x * m) + 200000000 * (n * m) <= 40000 * (y * n) + 200000000 * (n * m)
    BY <1>2, <2>3
  <2> QED
    BY <2>1, <2>2, <2>4 DEF Certain
<1>4. /\ 2 * x + Certain * n \in Nat /\ 2 * y + Certain * m \in Nat
      /\ 2 * Certain * n \in Nat /\ 2 * Certain * m \in Nat
      /\ 2 * Certain * n > 0 /\ 2 * Certain * m > 0
  BY <1>1 DEF Certain
<1> QED
  BY <1>3, <1>4, QuotientMonotone DEF Rounded, x, y

(* A score is at most its weight, since no version factor exceeds 100.     *)
LEMMA RoundedBound ==
    ASSUME NEW c \in Nat, NEW v \in Nat, NEW n \in Nat, n > 0, v <= 100 * n
    PROVE  Rounded(c, v, n) \in Nat /\ 100 * Rounded(c, v, n) <= c + 50
<1> DEFINE x == c * v
<1>1. x \in Nat /\ x <= 100 * (c * n) /\ c * n \in Nat
  <2>1. c * v <= c * (100 * n)
    OBVIOUS
  <2> QED
    BY <2>1
<1> HIDE DEF x
<1> DEFINE q == (2 * x + 10000 * n) \div (20000 * n)
<1>2. q \in Nat /\ q * (20000 * n) <= 2 * x + 10000 * n
  <2>1. 2 * x + 10000 * n \in Nat /\ 20000 * n \in Nat /\ 20000 * n > 0
    BY <1>1
  <2> QED
    BY <2>1, QuotientLow
<1> HIDE DEF q
<1>3. (100 * q) * n <= (c + 50) * n
  <2>1. q * (20000 * n) = 20000 * (q * n) /\ (100 * q) * n = 100 * (q * n)
        /\ (c + 50) * n = c * n + 50 * n /\ q * n \in Int
    BY <1>2
  <2> QED
    BY <1>1, <1>2, <2>1
<1>4. 100 * q <= c + 50
  <2>1. ASSUME 100 * q >= c + 51 PROVE FALSE
    <3>1. (100 * q) * n >= (c + 51) * n
      BY <1>2, <2>1
    <3>2. (c + 51) * n = (c + 50) * n + n
      OBVIOUS
    <3> QED
      BY <1>2, <1>3, <3>1, <3>2
  <2> QED
    BY <1>2, <2>1
<1> QED
  BY <1>2, <1>4 DEF Rounded, Certain, q, x

LEMMA VersionsFinite ==
    ASSUME NEW pair, IsFiniteSet(pair)
    PROVE  IsFiniteSet({k.version : k \in pair})
<1> DEFINE f == [k \in pair |-> k.version]
<1>1. IsFiniteSet({f[k] : k \in pair})
  <2> HIDE DEF f
  <2>1. DOMAIN f = pair
    BY DEF f
  <2> QED
    BY <2>1, FiniteRange
<1>2. {f[k] : k \in pair} = {k.version : k \in pair}
  OBVIOUS
<1> QED
  BY <1>1, <1>2

LEMMA VersionStates ==
    \A k : VersionState(k) \in {"agrees", "disagrees", "no_signal"}
BY DEF VersionState

(* The two counts of a row of evidence. *)
LEMMA CountsAreOf ==
    ASSUME NEW pair, IsFiniteSet(pair)
    PROVE  /\ VersionsWith(pair, "agrees") = AgreedVersions(pair)
           /\ VersionsWith(pair, "disagrees") = DisputedVersions(pair)
           /\ IsFiniteSet(AgreedVersions(pair)) /\ IsFiniteSet(DisputedVersions(pair))
<1> DEFINE states(v) == {VersionState(k) : k \in {j \in pair : j.version = v}}
<1>1. ASSUME NEW v
      PROVE  /\ "agrees" \in states(v) <=> v \in AgreedVersions(pair)
             /\ "disagrees" \in states(v) <=>
                    v \in {k.version : k \in {j \in pair : VersionState(j) = "disagrees"}}
  BY DEF AgreedVersions, Agreeing
<1>2. ASSUME NEW v
      PROVE  /\ Verdict(pair, v) = "agrees" <=> "agrees" \in states(v)
             /\ Verdict(pair, v) = "disagrees" <=>
                    "agrees" \notin states(v) /\ "disagrees" \in states(v)
  <2>1. "agrees" # "disagrees" /\ "agrees" # "no_signal" /\ "disagrees" # "no_signal"
    OBVIOUS
  <2> QED
    BY <2>1 DEF Verdict
<1> HIDE DEF states
<1>3. \A v : v \in AgreedVersions(pair) \/ v \in DisputedVersions(pair) =>
                v \in {k.version : k \in pair}
  BY DEF AgreedVersions, DisputedVersions, Agreeing
<1>4. VersionsWith(pair, "agrees") = AgreedVersions(pair)
  BY <1>1, <1>2, <1>3 DEF VersionsWith
<1>5. VersionsWith(pair, "disagrees") = DisputedVersions(pair)
  BY <1>1, <1>2, <1>3 DEF VersionsWith, DisputedVersions
<1> QED
  BY <1>3, <1>4, <1>5, VersionsFinite, FS_Subset

LEMMA WeightBound ==
    ASSUME NEW e, e.name_axis \in Axes
    PROVE  /\ Weight(e) \in Nat /\ Weight(e) <= 95 * 100 * 100
           /\ e.vendored_only => Weight(e) <= 95 * 100 * 35
<1>1. NameFactor(e.name_axis) \in {100, 75, 60, 40}
  BY DEF Axes, NameFactor
<1>2. ContradictionFactor(e) \in {5, 35, 100} /\ (e.vendored_only => ContradictionFactor(e) # 100)
  BY DEF ContradictionFactor
<1> QED
  BY <1>1, <1>2 DEF Weight, BaseProbability

(* The counts of a row as counts of agreed and disputed versions. *)
LEMMA EvidenceCounts ==
    ASSUME NEW claims, IsFiniteSet(claims), NEW pypi, NEW conda
    PROVE  LET pair == Pair(claims, pypi, conda)
               e == Evidence(claims, pypi, conda)
           IN  /\ IsFiniteSet(pair)
               /\ e.n_versions_agree = Cardinality(AgreedVersions(pair))
               /\ e.n_versions_disagree = Cardinality(DisputedVersions(pair))
               /\ e.n_versions_agree \in Nat /\ e.n_versions_disagree \in Nat
<1> DEFINE pair == Pair(claims, pypi, conda)
<1>1. IsFiniteSet(pair)
  BY FS_Subset DEF Pair
<1> HIDE DEF pair
<1>2. /\ VersionsWith(pair, "agrees") = AgreedVersions(pair)
      /\ VersionsWith(pair, "disagrees") = DisputedVersions(pair)
      /\ Cardinality(AgreedVersions(pair)) \in Nat /\ Cardinality(DisputedVersions(pair)) \in Nat
  BY <1>1, CountsAreOf, FS_CardinalityType
<1> QED
  BY <1>1, <1>2 DEF pair, Evidence

LEMMA ScoreIsRounded ==
    ASSUME NEW e, e.name_axis \in Axes,
           NEW a \in Nat, a = e.n_versions_agree, NEW d \in Nat, d = e.n_versions_disagree
    PROVE  /\ ScoreEvidence(e) = Rounded(Weight(e), VersionFactor(a, d), Informative(a, d))
           /\ VersionFactor(a, d) \in Nat
           /\ Informative(a, d) \in Nat /\ Informative(a, d) > 0
           /\ VersionFactor(a, d) <= 100 * Informative(a, d)
<1>1. /\ VersionFactor(a, d) \in Nat
      /\ Informative(a, d) \in Nat /\ Informative(a, d) > 0
      /\ VersionFactor(a, d) <= 100 * Informative(a, d)
  <2>1. CASE a + d = 0
    BY <2>1 DEF VersionFactor, Informative
  <2>2. CASE a + d # 0
    BY <2>2 DEF VersionFactor, Informative
  <2> QED
    BY <2>1, <2>2
<1> DEFINE n == NameFactor(e.name_axis)
           c == ContradictionFactor(e)
           v == VersionFactor(a, d)
<1>2. n \in {100, 75, 60, 40} /\ c \in {5, 35, 100} /\ v \in Nat
  BY <1>1 DEF Axes, NameFactor, ContradictionFactor
<1> HIDE DEF n, c, v
<1>3. BaseProbability * n * v * c = (BaseProbability * n * c) * v
  BY <1>2 DEF BaseProbability
<1>4. ScoreEvidence(e) = (2 * (BaseProbability * n * v * c) + Certain * Informative(a, d))
                            \div (2 * Certain * Informative(a, d))
  BY DEF ScoreEvidence, Informative, n, c, v
<1>5. ScoreEvidence(e) = Rounded(BaseProbability * n * c, v, Informative(a, d))
  BY <1>3, <1>4 DEF Rounded
<1> QED
  BY <1>1, <1>5 DEF Weight, n, c, v

(* What a row scores is a probability below that of a curated one, and a   *)
(* release that is another name's costs it any chance to decide alone.     *)
THEOREM ScoreBound ==
    ASSUME NEW claims, IsFiniteSet(claims), NEW pypi, NEW conda, NameAxis(conda, pypi) \in Axes
    PROVE  /\ Score(claims, pypi, conda) \in Nat
           /\ Score(claims, pypi, conda) \in 0 .. 9500
           /\ VendoredOnly(claims, Pair(claims, pypi, conda)) => Score(claims, pypi, conda) < 9000
<1> DEFINE e == Evidence(claims, pypi, conda)
           a == e.n_versions_agree
           d == e.n_versions_disagree
<1>1. /\ e.name_axis \in Axes /\ e.vendored_only = VendoredOnly(claims, Pair(claims, pypi, conda))
      /\ a \in Nat /\ d \in Nat
  BY EvidenceCounts DEF Evidence
<1> HIDE DEF e, a, d
<1>2. PICK m \in Nat, k \in Nat : a = m /\ d = k
  BY <1>1
<1>3. /\ ScoreEvidence(e) = Rounded(Weight(e), VersionFactor(m, k), Informative(m, k))
      /\ VersionFactor(m, k) \in Nat
      /\ Informative(m, k) \in Nat /\ Informative(m, k) > 0
      /\ VersionFactor(m, k) <= 100 * Informative(m, k)
  BY <1>1, <1>2, ScoreIsRounded DEF a, d
<1>4. ScoreEvidence(e) \in Nat /\ 100 * ScoreEvidence(e) <= Weight(e) + 50
  <2> DEFINE w == Weight(e)
             v == VersionFactor(m, k)
             n == Informative(m, k)
  <2>1. w \in Nat
    BY <1>1, WeightBound
  <2> HIDE DEF w, v, n
  <2>2. v \in Nat /\ n \in Nat /\ n > 0 /\ v <= 100 * n
    BY <1>3 DEF v, n
  <2>3. Rounded(w, v, n) \in Nat /\ 100 * Rounded(w, v, n) <= w + 50
    BY <2>1, <2>2, RoundedBound
  <2> QED
    BY <1>3, <2>3 DEF w, v, n
<1>5. ScoreEvidence(e) <= 9500 /\ (e.vendored_only => ScoreEvidence(e) < 9000)
  BY <1>1, <1>4, WeightBound
<1>6. ScoreEvidence(e) \in 0 .. 9500
  <2>1. PICK score \in Nat : score = ScoreEvidence(e)
    BY <1>4
  <2>2. score <= 9500
    BY <1>5, <2>1
  <2>3. score \in 0 .. 9500
    BY <2>2
  <2> QED
    BY <2>1, <2>3
<1> QED
  BY <1>1, <1>4, <1>5, <1>6 DEF Score, e

-----------------------------------------------------------------------------

LEMMA ScoreMonotone ==
    ASSUME NEW e, NEW f, e.name_axis \in Axes, f.name_axis = e.name_axis,
           NEW a \in Nat, a = e.n_versions_agree, NEW d \in Nat, d = e.n_versions_disagree,
           NEW b \in Nat, b = f.n_versions_agree, NEW g \in Nat, g = f.n_versions_disagree,
           f.vendored_only => e.vendored_only, f.claimed_by_other => e.claimed_by_other,
           \/ a = b /\ d = g
           \/ b = a + 1 /\ d \in {g, g + 1}
    PROVE  ScoreEvidence(e) <= ScoreEvidence(f)
<1>1. Weight(e) \in Nat /\ Weight(f) \in Nat /\ Weight(e) <= Weight(f)
  <2>1. NameFactor(e.name_axis) \in {100, 75, 60, 40}
    BY DEF Axes, NameFactor
  <2>2. /\ ContradictionFactor(e) \in {5, 35, 100} /\ ContradictionFactor(f) \in {5, 35, 100}
        /\ ContradictionFactor(e) <= ContradictionFactor(f)
    BY DEF ContradictionFactor
  <2> QED
    BY <2>1, <2>2 DEF Weight, BaseProbability
<1> DEFINE v == VersionFactor(a, d)
           n == Informative(a, d)
           w == VersionFactor(b, g)
           m == Informative(b, g)
<1>2. v * m <= w * n
  <2>1. CASE a = b /\ d = g
    <3>1. v = w /\ n = m
      BY <2>1
    <3> QED
      BY <3>1 DEF VersionFactor, Informative
  <2>2. CASE b = a + 1
    <3>1. w = 100 * b + 45 * g /\ m = b + g
      BY <2>2 DEF VersionFactor, Informative
    <3>2. CASE a + d = 0
      <4>1. v = 80 /\ n = 1 /\ b = 1 /\ g = 0
        BY <2>2, <3>2 DEF VersionFactor, Informative
      <4> QED
        BY <3>1, <4>1
    <3>3. CASE a + d # 0
      <4>1. v = 100 * a + 45 * d /\ n = a + d
        BY <3>3 DEF VersionFactor, Informative
      <4>2. v * m = 100 * (a * b) + 100 * (a * g) + 45 * (d * b) + 45 * (d * g)
        BY <3>1, <4>1
      <4>3. w * n = 100 * (a * b) + 100 * (b * d) + 45 * (g * a) + 45 * (g * d)
        BY <3>1, <4>1
      <4>4. a * g <= b * d
        <5>1. a * g <= a * d
          BY <2>2
        <5>2. b * d = a * d + d
          BY <2>2
        <5> QED
          BY <5>1, <5>2
      <4>5. /\ a * b \in Int /\ a * g \in Int /\ b * d \in Int /\ d * g \in Int
            /\ d * b = b * d /\ g * a = a * g /\ g * d = d * g
        OBVIOUS
      <4> HIDE DEF v, w, m, n
      <4> QED
        BY <4>2, <4>3, <4>4, <4>5
    <3> QED
      BY <3>2, <3>3
  <2> QED
    BY <2>1, <2>2
<1>3. /\ ScoreEvidence(e) = Rounded(Weight(e), v, n) /\ v \in Nat /\ n \in Nat /\ n > 0
  BY ScoreIsRounded
<1>4. /\ ScoreEvidence(f) = Rounded(Weight(f), w, m) /\ w \in Nat /\ m \in Nat /\ m > 0
  BY ScoreIsRounded
<1> HIDE DEF v, n, w, m
<1>5. PICK x \in Nat, y \in Nat : x = Weight(e) /\ y = Weight(f)
  BY <1>1
<1>6. Rounded(x, v, n) <= Rounded(y, w, m)
  BY <1>1, <1>2, <1>3, <1>4, <1>5, RoundedMonotone
<1> QED
  BY <1>3, <1>4, <1>5, <1>6

(* A claim for another PyPI name never makes a pair more probable. *)
THEOREM OthersNeverRaise ==
    ASSUME NEW claims, IsFiniteSet(claims), NEW k \in claims, NEW pypi, NEW conda,
           NameAxis(conda, pypi) \in Axes, k.pypi # pypi
    PROVE  Score(claims, pypi, conda) <= Score(claims \ {k}, pypi, conda)
<1> DEFINE fewer == claims \ {k}
           e == Evidence(claims, pypi, conda)
           f == Evidence(fewer, pypi, conda)
<1>1. Pair(claims, pypi, conda) = Pair(fewer, pypi, conda)
  BY DEF Pair
<1>2. IsFiniteSet(fewer) /\ Agreeing(fewer) \subseteq Agreeing(claims)
  BY FS_RemoveElement DEF Agreeing
<1>3. /\ e.name_axis = NameAxis(conda, pypi) /\ f.name_axis = e.name_axis
      /\ e.n_versions_agree = f.n_versions_agree
      /\ e.n_versions_disagree = f.n_versions_disagree
      /\ f.vendored_only => e.vendored_only
      /\ f.claimed_by_other => e.claimed_by_other
  BY <1>1, <1>2 DEF Evidence, VendoredOnly, ClaimedByOther
<1>4. e.n_versions_agree \in Nat /\ e.n_versions_disagree \in Nat
  BY EvidenceCounts
<1> HIDE DEF e, f, fewer
<1>5. ScoreEvidence(e) <= ScoreEvidence(f)
  BY <1>3, <1>4, ScoreMonotone
<1> QED
  BY <1>5 DEF Score, e, f, fewer

(* A claim that corroborates a pair never makes it less probable. *)
THEOREM CorroborationNeverLowers ==
    ASSUME NEW claims, IsFiniteSet(claims), NEW k \in claims, NEW pypi, NEW conda,
           NameAxis(conda, pypi) \in Axes,
           k.pypi = pypi, k.conda = conda, VersionState(k) = "agrees"
    PROVE  Score(claims \ {k}, pypi, conda) <= Score(claims, pypi, conda)
<1> DEFINE fewer == claims \ {k}
           with == Pair(claims, pypi, conda)
           without == Pair(fewer, pypi, conda)
           e == Evidence(fewer, pypi, conda)
           f == Evidence(claims, pypi, conda)
<1>1. IsFiniteSet(fewer)
  BY FS_RemoveElement
<1>2. with = without \cup {k} /\ k \in with
  BY DEF Pair
<1>3. AgreedVersions(with) = AgreedVersions(without) \cup {k.version}
  BY <1>2 DEF AgreedVersions, Agreeing
<1>4. DisputedVersions(with) = DisputedVersions(without) \ {k.version}
  <2> HIDE DEF with, without
  <2>1. VersionState(k) # "disagrees"
    OBVIOUS
  <2>2. {j \in with : VersionState(j) = "disagrees"}
            = {j \in without : VersionState(j) = "disagrees"}
    BY <1>2, <2>1
  <2> QED
    BY <1>3, <2>2 DEF DisputedVersions
<1>5. k.version \in AgreedVersions(without) => k.version \notin DisputedVersions(without)
  BY DEF DisputedVersions
<1>6. f.vendored_only = FALSE
  <2> HIDE DEF with
  <2>1. VersionsWith(with, "agrees") # {}
    <3>1. IsFiniteSet(with)
      BY EvidenceCounts DEF with
    <3> QED
      BY <1>3, <3>1, CountsAreOf
  <2> QED
    BY <2>1 DEF Evidence, VendoredOnly, with
<1>7. f.claimed_by_other = e.claimed_by_other
  BY DEF Evidence, ClaimedByOther, Agreeing
<1>8. /\ e.name_axis = NameAxis(conda, pypi) /\ f.name_axis = e.name_axis
  BY DEF Evidence
<1>9. PICK a \in Nat, d \in Nat, b \in Nat, g \in Nat :
        /\ a = e.n_versions_agree /\ a = Cardinality(AgreedVersions(without))
        /\ d = e.n_versions_disagree /\ d = Cardinality(DisputedVersions(without))
        /\ b = f.n_versions_agree /\ b = Cardinality(AgreedVersions(with))
        /\ g = f.n_versions_disagree /\ g = Cardinality(DisputedVersions(with))
  BY <1>1, EvidenceCounts
<1>10. IsFiniteSet(AgreedVersions(without)) /\ IsFiniteSet(DisputedVersions(without))
  BY <1>1, EvidenceCounts, CountsAreOf
<1> HIDE DEF e, f, with, without
<1>11. \/ a = b /\ d = g
       \/ b = a + 1 /\ d \in {g, g + 1}
  <2>1. CASE k.version \in AgreedVersions(without)
    <3>1. AgreedVersions(with) = AgreedVersions(without)
      BY <1>3, <2>1
    <3>2. DisputedVersions(with) = DisputedVersions(without)
      BY <1>4, <1>5, <2>1
    <3> QED
      BY <1>9, <3>1, <3>2
  <2>2. CASE k.version \notin AgreedVersions(without)
    <3>1. b = a + 1
      BY <1>3, <1>9, <1>10, <2>2, FS_AddElement
    <3>2. g = IF k.version \in DisputedVersions(without) THEN d - 1 ELSE d
      <4>1. PICK D : D = DisputedVersions(without)
        OBVIOUS
      <4>2. Cardinality(D \ {k.version}) =
                IF k.version \in D THEN Cardinality(D) - 1 ELSE Cardinality(D)
        BY <1>10, <4>1, FS_RemoveElement
      <4> QED
        BY <1>4, <1>9, <4>1, <4>2
    <3> QED
      BY <3>1, <3>2
  <2> QED
    BY <2>1, <2>2
<1>12. ScoreEvidence(e) <= ScoreEvidence(f)
  BY <1>6, <1>7, <1>8, <1>9, <1>11, ScoreMonotone
<1>13. Score(claims, pypi, conda) = ScoreEvidence(f) /\ Score(fewer, pypi, conda) = ScoreEvidence(e)
  BY DEF Score, e, f
<1> QED
  BY <1>12, <1>13

-----------------------------------------------------------------------------
(* The mappers and what write_relations leaves for them.                   *)

NameClaims == Claims(tables.relations)

(* The rows that write_relations leaves are the ones an ask reads. *)
RowFor(k) ==
    [pypi |-> k.pypi, conda |-> k.conda, evidence |-> Evidence(NameClaims, k.pypi, k.conda)]

MappingInv ==
    /\ tables \in Tables /\ chain \in Chains
    /\ pc = "ask" \/ (pc = "done" /\ outcome.kind # "ConfigLoadError") =>
            mapping = {RowFor(k) : k \in NameClaims}

(* A candidate is what the mapper that its field names makes of its table. *)
FromGrayskull(c) ==
    /\ HasOpinion("grayskull_config")
    /\ c = Candidate(tables.grayskull, Certain, "grayskull", "grayskull_config")
FromCondaLock(c) ==
    /\ HasOpinion("conda_forge_bot_graph")
    /\ LET row == SurvivingRow(tables.conda_lock, Name)
       IN  c = Candidate(row.conda, RowProbability(tables.conda_lock, row), "conda-lock",
                         "conda_forge_bot_graph")
FromParselmouth(c) ==
    \E conda \in Opinions(NameClaims, Name) :
        c = Candidate(conda, Score(NameClaims, Name, conda), "parselmouth",
                      "parselmouth_relations")
FromCustom(c) ==
    /\ HasOpinion("custom")
    /\ c.source = "other" /\ c.mapper = "custom"

Handed(c) == FromGrayskull(c) \/ FromCondaLock(c) \/ FromParselmouth(c) \/ FromCustom(c)

CandidateInv == \A i \in DOMAIN candidates : Handed(candidates[i])

(* No mapper that has been passed had anything to say and did not say it. *)
PassedInv ==
    \A j \in 1 .. position - 1 :
        /\ HasOpinion(chain[j]) => chain[j] \in Mappers
        /\ chain[j] = "passthrough_mapper" => candidates # <<>>
        /\ chain[j] = "parselmouth_relations" =>
            \A c \in Opinions(NameClaims, Name) :
                \E i \in DOMAIN candidates :
                    candidates[i].mapper = chain[j] /\ candidates[i].conda = c

(* The only ways in which a candidate wins. *)
Decides(winner) ==
    \/ \E i \in DOMAIN candidates :
        /\ winner = candidates[i]
        /\ \/ winner.source = "grayskull"
           \/ winner.source = "conda-lock" /\ winner.probability >= Certain
    \/ Contested # {} /\ winner = VoteWinner
    \/ /\ Contested = {} /\ Cardinality(Mappers) = 1
       /\ candidates # <<>> /\ winner = Best
       /\ \/ Len(candidates) = 1 /\ candidates[1].source = "parselmouth"
          \/ Best.probability >= Confident

Elected(mapper, winner) ==
    \/ /\ mapper = "overrides_mapper" /\ tables.overrides # NoEntry
       /\ winner = Candidate(tables.overrides, Certain, "other", "overrides_mapper")
    \/ /\ mapper = "passthrough_mapper" /\ candidates = <<>>
       /\ winner = Candidate(NoEntry, 0, "passthrough", "passthrough_mapper")
    \/ mapper = "aggregator_mapper" /\ Decides(winner)

DecidedInv ==
    /\ Won => position <= Len(chain) /\ Elected(chain[position], outcome.winner)
    /\ outcome = [kind |-> "UnresolvedCondaNameError"] => position = Len(chain) + 1

IInv == TypeOK /\ MappingInv /\ CandidateInv /\ PassedInv /\ DecidedInv

-----------------------------------------------------------------------------

LEMMA LeastExists ==
    ASSUME NEW S \in SUBSET Nat, S # {}
    PROVE  Min(S) \in S /\ \A y \in S : Min(S) <= y
<1>1. \E x \in S : \A y \in S : x <= y
  BY LeastNatural
<1> QED
  BY <1>1 DEF Min

LEMMA GreatestExists ==
    ASSUME NEW S \in SUBSET Nat, IsFiniteSet(S), S # {}
    PROVE  Max(S) \in S /\ \A y \in S : Max(S) >= y
<1> DEFINE f == [x \in S |-> x]
<1>1. f \in [S -> Int]
  OBVIOUS
<1> HIDE DEF f
<1>2. \E x \in S : \A y \in S : f[y] <= f[x]
  BY <1>1, LargestExists
<1>3. \E x \in S : \A y \in S : x >= y
  BY <1>2 DEF f
<1> QED
  BY <1>3 DEF Max

(* The row that build_candidates keeps is one of the name's. *)
LEMMA SurvivingRowIsOne ==
    ASSUME NEW source, BotTables(source), RowsOf(source, Name) # {}
    PROVE  Max(RowsOf(source, Name)) \in RowsOf(source, Name)
<1>1. RowsOf(source, Name) \in SUBSET (1 .. Len(source.mapping))
  BY DEF RowsOf, BotTables
<1>2. IsFiniteSet(RowsOf(source, Name)) /\ RowsOf(source, Name) \in SUBSET Nat
  <2>1. PICK n \in Nat : n = Len(source.mapping)
    BY DEF BotTables
  <2>2. IsFiniteSet(1 .. n)
    BY FS_Interval
  <2> QED
    BY <1>1, <2>1, <2>2, FS_Subset
<1> QED
  BY <1>2, GreatestExists

(* What is known of a row that has not been written by a human. *)
LEMMA RowProbabilities ==
    ASSUME NEW source, BotTables(source), NEW i \in RowsOf(source, Name)
    PROVE  LET row == source.mapping[i]
               probability == RowProbability(source, row)
           IN  /\ row.conda \in CondaName /\ probability \in 0 .. Certain
               /\ probability >= Certain => row.static
               /\ probability >= Confident /\ ~row.static =>
                    /\ CondaNamesOf(source, Name) = {row.conda}
                    /\ row.import \in DOMAIN source.ranked =>
                            source.ranked[row.import] = {row.conda}
<1> DEFINE row == source.mapping[i]
           p == RowProbability(source, row)
           same == {r \in source.raw : Canonical(r.pypi) = Name}
<1>1. /\ row.conda \in CondaName /\ row.static \in BOOLEAN /\ Canonical(row.pypi) = Name
      /\ ~row.static => /\ [pypi |-> row.pypi, conda |-> row.conda] \in source.raw
                        /\ row.import \in DOMAIN source.ranked =>
                                row.conda \in source.ranked[row.import]
  BY DEF BotTables, RowsOf
<1>2. p \in 0 .. Certain /\ (p >= Certain => row.static)
  BY <1>1 DEF RowProbability, Certain, StaticProbability, UnambiguousProbability,
              AmbiguousProbability, CollidingProbability
<1>3. ASSUME p >= Confident, ~row.static
      PROVE  ~IsColliding(source, Name) /\ row.import \notin AmbiguousImports(source)
  BY <1>1, <1>3 DEF RowProbability, Confident, CollidingProbability, AmbiguousProbability
<1>4. IsFiniteSet(CondaNamesOf(source, Name))
  <2>1. IsFiniteSet(same)
    BY FS_Subset DEF BotTables
  <2> DEFINE f == [r \in same |-> r.conda]
  <2>2. IsFiniteSet({f[r] : r \in same})
    <3> HIDE DEF same
    <3>1. DOMAIN f = same
      OBVIOUS
    <3> HIDE DEF f
    <3> QED
      BY <2>1, <3>1, FiniteRange
  <2>3. {f[r] : r \in same} = CondaNamesOf(source, Name)
    BY DEF CondaNamesOf
  <2> QED
    BY <2>2, <2>3
<1> HIDE DEF row, p
<1>5. ASSUME p >= Confident, ~row.static
      PROVE  CondaNamesOf(source, Name) = {row.conda}
  <2>1. row.conda \in CondaNamesOf(source, Name)
    <3>1. PICK r : r = [pypi |-> row.pypi, conda |-> row.conda]
      OBVIOUS
    <3>2. r \in source.raw /\ r.conda = row.conda /\ Canonical(r.pypi) = Name
      BY <1>1, <1>5, <3>1
    <3> QED
      BY <3>2 DEF CondaNamesOf
  <2> QED
    BY <1>3, <1>4, <1>5, <2>1, AtMostOne DEF IsColliding
<1>6. ASSUME p >= Confident, ~row.static, row.import \in DOMAIN source.ranked
      PROVE  source.ranked[row.import] = {row.conda}
  <2>1. IsFiniteSet(source.ranked[row.import]) /\ row.conda \in source.ranked[row.import]
    BY <1>1, <1>6 DEF BotTables
  <2>2. ~(Cardinality(source.ranked[row.import]) > 1)
    BY <1>3, <1>6 DEF AmbiguousImports
  <2> QED
    BY <2>1, <2>2, AtMostOne
<1> QED
  BY <1>1, <1>2, <1>5, <1>6 DEF row, p

LEMMA ClaimFacts ==
    ASSUME tables \in Tables
    PROVE  /\ IsFiniteSet(NameClaims)
           /\ \A k \in NameClaims : k.conda \in CondaName
           /\ \A conda \in CondaName : NameAxis(conda, Name) \in Axes
BY FS_Subset, TableAssumption, AxisAssumption DEF NameClaims, Claims, Axes

LEMMA OpinionScores ==
    ASSUME tables \in Tables, NEW c \in CondaName
    PROVE  Score(NameClaims, Name, c) \in 0 .. Certain
<1>1. PICK claims : claims = NameClaims
  OBVIOUS
<1>2. Score(claims, Name, c) \in 0 .. 9500
  BY <1>1, ClaimFacts, ScoreBound
<1> QED
  BY <1>1, <1>2 DEF Certain

(* A step in which a mapper hands more candidates on. *)
Deferred(more) ==
    /\ pc = "ask" /\ position <= Len(chain)
    /\ more \in Seq(Candidates)
    /\ \A i \in DOMAIN more : more[i].mapper = chain[position] /\ Handed(more[i])
    /\ HasOpinion(chain[position]) => more # <<>>
    /\ chain[position] = "passthrough_mapper" => candidates # <<>>
    /\ chain[position] = "parselmouth_relations" =>
            \A c \in Opinions(NameClaims, Name) : \E i \in DOMAIN more : more[i].conda = c
    /\ candidates' = candidates \o more
    /\ position' = position + 1
    /\ UNCHANGED <<pc, tables, chain, mapping, outcome>>

(* A step in which one commits. *)
Committed(winner) ==
    /\ pc = "ask" /\ position <= Len(chain)
    /\ Elected(chain[position], winner)
    /\ pc' = "done"
    /\ outcome' = [kind |-> "winner", winner |-> winner]
    /\ UNCHANGED <<tables, chain, mapping, position, candidates>>

LEMMA DeferNothing ==
    ASSUME TypeOK, pc = "ask", position <= Len(chain), Defer(candidates),
           UNCHANGED <<tables, chain, mapping>>, ~HasOpinion(chain[position]),
           chain[position] = "passthrough_mapper" => candidates # <<>>
    PROVE  Deferred(<<>>)
<1>1. candidates = candidates \o <<>> /\ <<>> \in Seq(Candidates)
  BY ConcatEmptySeq DEF TypeOK
<1>2. chain[position] = "parselmouth_relations" => Opinions(NameClaims, Name) = {}
  BY DEF HasOpinion, NameClaims
<1> QED
  BY <1>1, <1>2 DEF Deferred, Defer

LEMMA DeferOne ==
    ASSUME TypeOK, pc = "ask", position <= Len(chain), NEW c \in Candidates,
           Defer(Append(candidates, c)), UNCHANGED <<tables, chain, mapping>>,
           chain[position] \in {"grayskull_config", "conda_forge_bot_graph"},
           c.mapper = chain[position], Handed(c)
    PROVE  Deferred(<<c>>)
<1>1. Append(candidates, c) = candidates \o <<c>> /\ <<c>> \in Seq(Candidates) /\ <<c>> # <<>>
  BY AppendIsConcat DEF TypeOK
<1>2. DOMAIN <<c>> = {1} /\ <<c>>[1] = c
  OBVIOUS
<1> QED
  BY <1>1, <1>2 DEF Deferred, Defer

LEMMA GrayskullDefers ==
    ASSUME TypeOK, MappingInv, AskGrayskull
    PROVE  \E more : Deferred(more)
<1>1. CASE tables.grayskull = NoEntry
  <2>1. Deferred(<<>>)
    BY <1>1, DeferNothing DEF AskGrayskull, Turn, HasOpinion
  <2> QED
    BY <2>1
<1>2. CASE tables.grayskull # NoEntry
  <2>1. tables.grayskull \in CondaName
    BY <1>2, TableAssumption DEF MappingInv
  <2>2. PICK c : c = Candidate(tables.grayskull, Certain, "grayskull", "grayskull_config")
    OBVIOUS
  <2>3. c \in Candidates /\ c.mapper = "grayskull_config" /\ Handed(c)
    BY <1>2, <2>1, <2>2
       DEF Candidate, Candidates, MapperNames, Certain, Handed, FromGrayskull, HasOpinion
  <2>4. Deferred(<<c>>)
    BY <1>2, <2>2, <2>3, DeferOne DEF AskGrayskull, Turn
  <2> QED
    BY <2>4
<1> QED
  BY <1>1, <1>2

LEMMA CondaLockDefers ==
    ASSUME TypeOK, MappingInv, AskCondaLock
    PROVE  \E more : Deferred(more)
<1> DEFINE source == tables.conda_lock
           row == SurvivingRow(source, Name)
<1>1. CASE RowsOf(source, Name) = {}
  <2>1. Deferred(<<>>)
    BY <1>1, DeferNothing DEF AskCondaLock, Turn, HasOpinion
  <2> QED
    BY <2>1
<1>2. CASE RowsOf(source, Name) # {}
  <2>1. BotTables(source)
    BY TableAssumption DEF MappingInv
  <2>2. row.conda \in CondaName /\ RowProbability(source, row) \in 0 .. Certain
    <3> HIDE DEF source
    <3> QED
      BY <1>2, <2>1, SurvivingRowIsOne, RowProbabilities DEF SurvivingRow
  <2>3. PICK c : c = Candidate(row.conda, RowProbability(source, row), "conda-lock",
                               "conda_forge_bot_graph")
    OBVIOUS
  <2>4. c \in Candidates /\ c.mapper = "conda_forge_bot_graph" /\ Handed(c)
    <3>1. Handed(c)
      BY <1>2, <2>3 DEF Handed, FromCondaLock, HasOpinion
    <3> HIDE DEF row, source
    <3> QED
      BY <2>2, <2>3, <3>1 DEF Candidate, Candidates, MapperNames
  <2>5. Deferred(<<c>>)
    BY <1>2, <2>3, <2>4, DeferOne DEF AskCondaLock, Turn
  <2> QED
    BY <2>5
<1> QED
  BY <1>1, <1>2

LEMMA OverridesStep ==
    ASSUME TypeOK, AskOverrides
    PROVE  (\E more : Deferred(more)) \/ (\E winner : Committed(winner))
<1>1. CASE tables.overrides = NoEntry
  <2>1. Deferred(<<>>)
    BY <1>1, DeferNothing DEF AskOverrides, Turn, HasOpinion
  <2> QED
    BY <2>1
<1>2. CASE tables.overrides # NoEntry
  <2>1. Committed(Candidate(tables.overrides, Certain, "other", "overrides_mapper"))
    BY <1>2 DEF AskOverrides, Turn, Commit, Committed, Elected
  <2> QED
    BY <2>1
<1> QED
  BY <1>1, <1>2

(* An enumeration of a finite set reaches all of it. *)
LEMMA EnumerationIsComplete ==
    ASSUME NEW S, IsFiniteSet(S), NEW rows \in SetToSeqs(S)
    PROVE  /\ Len(rows) = Cardinality(S) /\ Len(rows) \in Nat
           /\ DOMAIN rows = 1 .. Cardinality(S) /\ rows \in Seq(S)
           /\ \A i \in DOMAIN rows : rows[i] \in S
           /\ \A r \in S : \E i \in DOMAIN rows : rows[i] = r
<1> DEFINE n == Cardinality(S)
           D == 1 .. n
<1>1. n \in Nat
  BY FS_CardinalityType
<1>2. rows \in [D -> S] /\ \A i, j \in D : i # j => rows[i] # rows[j]
  BY DEF SetToSeqs
<1> HIDE DEF n
<1>3. IsFiniteSet(D) /\ Cardinality(D) = n
  BY <1>1, FS_Interval
<1>4. rows \in Injection(D, S)
  BY <1>2 DEF Injection, IsInjective
<1>5. rows \in Surjection(D, S)
  BY <1>3, <1>4, FS_Injection DEF n
<1>6. rows \in Seq(S) /\ Len(rows) = n
  BY <1>1, <1>2
<1> QED
  BY <1>1, <1>2, <1>5, <1>6 DEF Surjection, n

LEMMA ParselmouthDefers ==
    ASSUME TypeOK, MappingInv, AskParselmouth
    PROVE  \E more : Deferred(more)
<1> DEFINE S == {row \in mapping : row.pypi = Name}
           From(row) == Candidate(row.conda, ScoreEvidence(row.evidence),
                                  "parselmouth", "parselmouth_relations")
<1>1. PICK rows \in SetToSeqs(S) :
        Defer(candidates \o [i \in DOMAIN rows |-> From(rows[i])])
  BY DEF AskParselmouth
<1>2. mapping = {RowFor(k) : k \in NameClaims} /\ IsFiniteSet(NameClaims)
  BY ClaimFacts DEF MappingInv, AskParselmouth, Turn
<1>3. IsFiniteSet(S)
  <2> DEFINE f == [k \in NameClaims |-> RowFor(k)]
  <2>1. DOMAIN f = NameClaims /\ mapping = {f[k] : k \in NameClaims}
    BY <1>2
  <2> HIDE DEF f
  <2>2. IsFiniteSet(mapping)
    BY <1>2, <2>1, FiniteRange
  <2> QED
    BY <2>2, FS_Subset
<1>4. ASSUME NEW row \in S
      PROVE  /\ row.conda \in Opinions(NameClaims, Name)
             /\ From(row) \in Candidates /\ FromParselmouth(From(row))
  <2>1. PICK k \in NameClaims : row = RowFor(k) /\ k.pypi = Name
    BY <1>2 DEF RowFor
  <2>2. PICK c : c = k.conda
    OBVIOUS
  <2>3. c \in Opinions(NameClaims, Name) /\ c \in CondaName /\ NameAxis(c, Name) \in Axes
    BY <2>1, <2>2, ClaimFacts DEF Opinions, MappingInv
  <2>4. row.conda = c /\ ScoreEvidence(row.evidence) = Score(NameClaims, Name, c)
    BY <2>1, <2>2 DEF RowFor, Score
  <2>5. Score(NameClaims, Name, c) \in 0 .. Certain
    BY <2>3, OpinionScores DEF MappingInv
  <2>6. From(row) = Candidate(c, Score(NameClaims, Name, c), "parselmouth", "parselmouth_relations")
    BY <2>4
  <2> HIDE DEF From
  <2> QED
    BY <2>3, <2>4, <2>5, <2>6 DEF Candidate, Candidates, MapperNames, FromParselmouth
<1>5. \A c \in Opinions(NameClaims, Name) : \E row \in S : row.conda = c
  <2> TAKE c \in Opinions(NameClaims, Name)
  <2>1. PICK k \in NameClaims : k.pypi = Name /\ k.conda = c
    BY DEF Opinions
  <2>2. RowFor(k) \in S /\ RowFor(k).conda = c
    BY <1>2, <2>1 DEF RowFor
  <2> QED
    BY <2>2
<1>6. \A row \in S : From(row).mapper = "parselmouth_relations" /\ From(row).conda = row.conda
  BY DEF Candidate
<1> HIDE DEF S, From
<1>7. /\ DOMAIN rows = 1 .. Len(rows) /\ Len(rows) \in Nat
      /\ \A i \in DOMAIN rows : rows[i] \in S
      /\ \A row \in S : \E i \in DOMAIN rows : rows[i] = row
  BY <1>3, EnumerationIsComplete
<1> DEFINE more == [i \in DOMAIN rows |-> From(rows[i])]
<1>8. more \in Seq(Candidates) /\ DOMAIN more = DOMAIN rows
  BY <1>4, <1>7
<1>9. \A i \in DOMAIN more : more[i].mapper = "parselmouth_relations" /\ Handed(more[i])
  BY <1>4, <1>6, <1>7 DEF Handed
<1>10. \A c \in Opinions(NameClaims, Name) : \E i \in DOMAIN more : more[i].conda = c
  BY <1>5, <1>6, <1>7
<1>11. Defer(candidates \o more)
  BY <1>1
<1> HIDE DEF more
<1>12. HasOpinion("parselmouth_relations") => more # <<>>
  <2>1. HasOpinion("parselmouth_relations") => Opinions(NameClaims, Name) # {}
    BY DEF HasOpinion, NameClaims
  <2> QED
    BY <1>10, <2>1
<1>13. Deferred(more)
  BY <1>8, <1>9, <1>10, <1>11, <1>12 DEF Deferred, Defer, AskParselmouth, Turn
<1> QED
  BY <1>13

LEMMA CustomDefers ==
    ASSUME TypeOK, MappingInv, AskCustom
    PROVE  \E more : Deferred(more)
<1> DEFINE more == [i \in DOMAIN tables.custom |->
                        Candidate(tables.custom[i], 5000, "other", "custom")]
<1>1. PICK custom \in Seq(CondaName) : custom = tables.custom
  BY TableAssumption DEF MappingInv
<1>2. \A i \in DOMAIN custom : Candidate(custom[i], 5000, "other", "custom") \in Candidates
  BY DEF Candidate, Candidates, MapperNames, Certain
<1>3. more \in Seq(Candidates) /\ DOMAIN more = DOMAIN custom
  BY <1>1, <1>2
<1>4. HasOpinion("custom") = (custom # <<>>)
  BY <1>1 DEF HasOpinion
<1>5. more = <<>> => custom = <<>>
  BY <1>1, <1>3
<1>6. \A i \in DOMAIN more : more[i].mapper = "custom" /\ more[i].source = "other"
  BY DEF Candidate
<1>7. Defer(candidates \o more)
  BY DEF AskCustom
<1> HIDE DEF more
<1>8. \A i \in DOMAIN more : Handed(more[i])
  <2>1. \A i \in DOMAIN more : HasOpinion("custom")
    <3>1. custom = <<>> => DOMAIN custom = {}
      OBVIOUS
    <3> QED
      BY <1>3, <1>4, <3>1
  <2> QED
    BY <1>6, <2>1 DEF Handed, FromCustom
<1>9. Deferred(more)
  BY <1>3, <1>4, <1>5, <1>6, <1>7, <1>8 DEF Deferred, Defer, AskCustom, Turn
<1> QED
  BY <1>9

LEMMA PassthroughStep ==
    ASSUME TypeOK, AskPassthrough
    PROVE  (\E more : Deferred(more)) \/ (\E winner : Committed(winner))
<1>1. CASE candidates = <<>>
  <2>1. Committed(Candidate(NoEntry, 0, "passthrough", "passthrough_mapper"))
    BY <1>1 DEF AskPassthrough, Turn, Commit, Committed, Elected
  <2> QED
    BY <2>1
<1>2. CASE candidates # <<>>
  <2>1. Deferred(<<>>)
    BY <1>2, DeferNothing DEF AskPassthrough, Turn, HasOpinion
  <2> QED
    BY <2>1
<1> QED
  BY <1>1, <1>2

(* The candidate that a test selects passes it. *)
LEMMA FirstFromIsOne ==
    ASSUME TypeOK, NEW source, NEW probability, FirstFrom(source, probability) # 0
    PROVE  LET i == FirstFrom(source, probability)
           IN  /\ i \in DOMAIN candidates
               /\ candidates[i].source = source /\ candidates[i].probability >= probability
<1> DEFINE I == {i \in 1 .. Len(candidates) :
                    candidates[i].source = source /\ candidates[i].probability >= probability}
<1>1. FirstFrom(source, probability) = IF I # {} THEN Min(I) ELSE 0
  BY DEF FirstFrom, SelectInSeq
<1>2. I \in SUBSET Nat
  OBVIOUS
<1>3. Min(I) \in I
  <2> HIDE DEF I
  <2> QED
    BY <1>1, <1>2, LeastExists
<1>4. DOMAIN candidates = 1 .. Len(candidates)
  BY DEF TypeOK
<1> QED
  BY <1>1, <1>3, <1>4

LEMMA AggregatorStep ==
    ASSUME TypeOK, AskAggregator
    PROVE  (\E more : Deferred(more)) \/ (\E winner : Committed(winner))
<1> DEFINE grayskull == FirstFrom("grayskull", 0)
           static == FirstFrom("conda-lock", Certain)
<1>1. CASE Defer(candidates)
  <2>1. Deferred(<<>>)
    BY <1>1, DeferNothing DEF AskAggregator, Turn, HasOpinion
  <2> QED
    BY <2>1
<1>2. ASSUME NEW winner, Commit(winner), Decides(winner) PROVE Committed(winner)
  BY <1>2 DEF AskAggregator, Turn, Commit, Committed, Elected
<1>3. CASE candidates # <<>> /\ grayskull # 0 /\ Commit(candidates[grayskull])
  <2>1. Decides(candidates[grayskull])
    BY <1>3, FirstFromIsOne DEF Decides
  <2> QED
    BY <1>2, <1>3, <2>1
<1>4. CASE candidates # <<>> /\ static # 0 /\ Commit(candidates[static])
  <2>1. Decides(candidates[static])
    BY <1>4, FirstFromIsOne DEF Decides
  <2> QED
    BY <1>2, <1>4, <2>1
<1>5. CASE Contested # {} /\ Commit(VoteWinner)
  BY <1>2, <1>5 DEF Decides
<1>6. CASE candidates # <<>> /\ Contested = {} /\ Cardinality(Mappers) = 1 /\ SoleOpinion
  BY <1>1, <1>2, <1>6 DEF SoleOpinion, Decides
<1> QED
  BY <1>1, <1>3, <1>4, <1>5, <1>6 DEF AskAggregator

(* Every step either hands candidates on, commits, or ends or starts an ask. *)
LEMMA Steps ==
    ASSUME TypeOK, MappingInv, [Next]_vars
    PROVE  \/ \E more : Deferred(more)
           \/ \E winner : Committed(winner)
           \/ WriteRelations \/ LoadFails \/ GiveUp \/ Again
           \/ UNCHANGED vars
BY GrayskullDefers, CondaLockDefers, OverridesStep, ParselmouthDefers, CustomDefers,
   AggregatorStep, PassthroughStep DEF Next

-----------------------------------------------------------------------------

(* The candidates after a mapper has handed more on. *)
LEMMA HandedOn ==
    ASSUME TypeOK, NEW more, Deferred(more)
    PROVE  /\ candidates' \in Seq(Candidates)
           /\ \A i \in DOMAIN candidates :
                i \in DOMAIN candidates' /\ candidates'[i] = candidates[i]
           /\ \A i \in DOMAIN more : \E j \in DOMAIN candidates' : candidates'[j] = more[i]
           /\ \A i \in DOMAIN candidates' :
                \/ i \in DOMAIN candidates /\ candidates'[i] = candidates[i]
                \/ \E j \in DOMAIN more : candidates'[i] = more[j]
<1>1. PICK before \in Seq(Candidates), added \in Seq(Candidates) :
        before = candidates /\ added = more
  BY DEF TypeOK, Deferred
<1>2. PICK after : after = candidates'
  OBVIOUS
<1>3. /\ after = before \o added /\ after \in Seq(Candidates)
      /\ Len(after) = Len(before) + Len(added)
      /\ \A i \in 1 .. Len(before) + Len(added) :
            after[i] = IF i <= Len(before) THEN before[i] ELSE added[i - Len(before)]
  BY <1>1, <1>2, ConcatProperties DEF Deferred
<1>4. /\ DOMAIN before = 1 .. Len(before) /\ DOMAIN added = 1 .. Len(added)
      /\ DOMAIN after = 1 .. Len(after) /\ Len(before) \in Nat /\ Len(added) \in Nat
  BY <1>1, <1>3
<1>5. \A i \in DOMAIN before : i \in DOMAIN after /\ after[i] = before[i]
  BY <1>3, <1>4
<1>6. ASSUME NEW i \in DOMAIN added PROVE \E j \in DOMAIN after : after[j] = added[i]
  <2>1. /\ Len(before) + i \in DOMAIN after
        /\ after[Len(before) + i] = added[(Len(before) + i) - Len(before)]
    BY <1>3, <1>4
  <2>2. (Len(before) + i) - Len(before) = i
    BY <1>4
  <2> QED
    BY <2>1, <2>2
<1>7. ASSUME NEW i \in DOMAIN after, i \notin DOMAIN before
      PROVE  \E j \in DOMAIN added : after[i] = added[j]
  <2>1. i - Len(before) \in DOMAIN added /\ after[i] = added[i - Len(before)]
    BY <1>3, <1>4, <1>7
  <2> QED
    BY <2>1
<1> QED
  BY <1>1, <1>2, <1>3, <1>5, <1>6, <1>7

LEMMA ChainFacts ==
    ASSUME MappingInv
    PROVE  chain \in Seq(MapperNames) /\ Len(chain) \in Nat /\ DOMAIN chain = 1 .. Len(chain)
BY ChainAssumption DEF MappingInv

LEMMA TypeStep ==
    ASSUME TypeOK, MappingInv, [Next]_vars
    PROVE  TypeOK'
<1> USE ChainFacts DEF Pending
<1>1. ASSUME NEW more, Deferred(more) PROVE TypeOK'
  <2>1. position' \in 1 .. Len(chain)' + 1
    BY <1>1 DEF Deferred, TypeOK
  <2>2. \A i \in DOMAIN candidates' :
            \E j \in 1 .. position' - 1 : chain'[j] = candidates'[i].mapper
    <3> TAKE i \in DOMAIN candidates'
    <3>0. /\ position \in Nat /\ position' = position + 1 /\ chain' = chain
          /\ position \in 1 .. position' - 1
      BY <1>1 DEF Deferred, TypeOK
    <3>1. CASE i \in DOMAIN candidates /\ candidates'[i] = candidates[i]
      <4>1. PICK j \in 1 .. position - 1 : chain[j] = candidates[i].mapper
        BY <3>1 DEF TypeOK
      <4>2. j \in 1 .. position' - 1
        BY <3>0
      <4> QED
        BY <3>0, <3>1, <4>1, <4>2
    <3>2. CASE \E j \in DOMAIN more : candidates'[i] = more[j]
      <4>1. candidates'[i].mapper = chain[position]
        BY <1>1, <3>2 DEF Deferred
      <4> QED
        BY <3>0, <4>1
    <3> QED
      BY <1>1, <3>1, <3>2, HandedOn
  <2> QED
    BY <1>1, <2>1, <2>2, HandedOn DEF Deferred, TypeOK
<1>2. ASSUME NEW winner, Committed(winner) PROVE TypeOK'
  BY <1>2 DEF Committed, TypeOK
<1>3. CASE WriteRelations
  BY <1>3 DEF WriteRelations, TypeOK
<1>4. CASE LoadFails
  BY <1>4 DEF LoadFails, TypeOK
<1>5. CASE GiveUp
  BY <1>5 DEF GiveUp, TypeOK
<1>6. CASE Again
  BY <1>6 DEF Again, TypeOK
<1>7. CASE UNCHANGED vars
  BY <1>7 DEF vars, TypeOK
<1> QED
  BY <1>1, <1>2, <1>3, <1>4, <1>5, <1>6, <1>7, Steps

LEMMA MappingStep ==
    ASSUME TypeOK, MappingInv, [Next]_vars
    PROVE  MappingInv'
<1>1. NameClaims' = NameClaims /\ UNCHANGED <<tables, chain>>
  BY DEF Next, vars, WriteRelations, LoadFails, AskGrayskull, AskCondaLock, AskOverrides,
         AskParselmouth, AskCustom, AskAggregator, AskPassthrough, GiveUp, Again, NameClaims
<1>2. {RowFor(k) : k \in NameClaims}' = {RowFor(k) : k \in NameClaims}
  BY <1>1 DEF RowFor
<1>3. CASE WriteRelations
  BY <1>1, <1>2, <1>3 DEF WriteRelations, MappingInv, RowFor, NameClaims
<1>4. CASE LoadFails
  BY <1>1, <1>2, <1>4 DEF LoadFails, MappingInv
<1>5. ASSUME NEW more, Deferred(more) PROVE MappingInv'
  BY <1>1, <1>2, <1>5 DEF Deferred, MappingInv
<1>6. ASSUME NEW winner, Committed(winner) PROVE MappingInv'
  BY <1>1, <1>2, <1>6 DEF Committed, MappingInv
<1>7. CASE GiveUp
  BY <1>1, <1>2, <1>7 DEF GiveUp, MappingInv
<1>8. CASE Again
  BY <1>1, <1>2, <1>8 DEF Again, MappingInv, TypeOK, Pending
<1>9. CASE UNCHANGED vars
  BY <1>1, <1>2, <1>9 DEF vars, MappingInv
<1> QED
  BY <1>3, <1>4, <1>5, <1>6, <1>7, <1>8, <1>9, Steps

(* What is said of the tables alone stays so. *)
LEMMA TablesKept ==
    ASSUME UNCHANGED tables
    PROVE  /\ NameClaims' = NameClaims
           /\ \A mapper : HasOpinion(mapper)' = HasOpinion(mapper)
           /\ \A c : Handed(c)' = Handed(c)
BY DEF NameClaims, HasOpinion, Handed, FromGrayskull, FromCondaLock, FromParselmouth, FromCustom

LEMMA CandidateStep ==
    ASSUME TypeOK, MappingInv, CandidateInv, [Next]_vars
    PROVE  CandidateInv'
<1>1. ASSUME NEW more, Deferred(more) PROVE CandidateInv'
  <2> SUFFICES ASSUME NEW i \in DOMAIN candidates' PROVE Handed(candidates[i])'
    BY DEF CandidateInv
  <2>1. PICK c : c = candidates'[i]
    OBVIOUS
  <2>2. Handed(c)
    <3>1. \/ i \in DOMAIN candidates /\ c = candidates[i]
          \/ \E j \in DOMAIN more : c = more[j]
      BY <1>1, <2>1, HandedOn
    <3> QED
      BY <1>1, <3>1 DEF CandidateInv, Deferred
  <2>3. Handed(c)'
    BY <1>1, <2>2, TablesKept DEF Deferred
  <2> QED
    BY <2>1, <2>3
<1>2. CASE UNCHANGED <<tables, candidates>>
  <2>1. ASSUME NEW i \in DOMAIN candidates PROVE Handed(candidates[i])'
    <3>1. PICK c : c = candidates[i]
      OBVIOUS
    <3>2. Handed(c) /\ Handed(c)'
      BY <1>2, <2>1, <3>1, TablesKept DEF CandidateInv
    <3>3. candidates'[i] = c
      BY <1>2, <3>1
    <3> QED
      BY <1>2, <3>2, <3>3
  <2> QED
    BY <1>2, <2>1 DEF CandidateInv
<1>3. ASSUME NEW winner, Committed(winner) PROVE CandidateInv'
  BY <1>2, <1>3 DEF Committed
<1>4. CASE Again
  BY <1>4 DEF Again, CandidateInv
<1> QED
  BY <1>1, <1>2, <1>3, <1>4, Steps DEF WriteRelations, LoadFails, GiveUp, vars

LEMMA PassedStep ==
    ASSUME TypeOK, MappingInv, PassedInv, [Next]_vars
    PROVE  PassedInv'
<1>1. ASSUME NEW more, Deferred(more) PROVE PassedInv'
  <2>1. /\ chain' = chain /\ position' = position + 1 /\ position \in Nat /\ tables' = tables
    BY <1>1, ChainFacts DEF Deferred, TypeOK
  <2>2. Mappers \subseteq Mappers'
    BY <1>1, HandedOn DEF Mappers
  <2>3. candidates # <<>> => candidates' # <<>>
    <3>1. candidates # <<>> => \E i : i \in DOMAIN candidates
      BY DEF TypeOK
    <3>2. (\E i : i \in DOMAIN candidates') => candidates' # <<>>
      OBVIOUS
    <3> QED
      BY <1>1, <3>1, <3>2, HandedOn
  <2>4. Opinions(NameClaims, Name)' = Opinions(NameClaims, Name)
    BY <2>1, TablesKept
  <2>5. ASSUME NEW j \in 1 .. position - 1
        PROVE  /\ HasOpinion(chain[j])' => chain[j] \in Mappers'
               /\ chain[j] = "passthrough_mapper" => candidates' # <<>>
               /\ chain[j] = "parselmouth_relations" =>
                    \A c \in Opinions(NameClaims, Name) :
                        \E i \in DOMAIN candidates' :
                            candidates'[i].mapper = chain[j] /\ candidates'[i].conda = c
    <3>1. PICK mapper : mapper = chain[j]
      OBVIOUS
    <3>2. /\ HasOpinion(mapper) => mapper \in Mappers
          /\ mapper = "passthrough_mapper" => candidates # <<>>
          /\ mapper = "parselmouth_relations" =>
                \A c \in Opinions(NameClaims, Name) :
                    \E i \in DOMAIN candidates :
                        candidates[i].mapper = mapper /\ candidates[i].conda = c
      BY <2>5, <3>1 DEF PassedInv
    <3>3. HasOpinion(mapper)' = HasOpinion(mapper)
      BY <2>1, TablesKept
    <3>4. mapper = "parselmouth_relations" =>
                \A c \in Opinions(NameClaims, Name) :
                    \E i \in DOMAIN candidates' :
                        candidates'[i].mapper = mapper /\ candidates'[i].conda = c
      BY <1>1, <3>2, HandedOn
    <3> QED
      BY <2>1, <2>2, <2>3, <3>1, <3>2, <3>3, <3>4
  <2>6. PICK mapper : mapper = chain[position]
    OBVIOUS
  <2>7. HasOpinion(mapper)' => mapper \in Mappers'
    <3> SUFFICES ASSUME HasOpinion(mapper) PROVE mapper \in Mappers'
      BY <2>1, TablesKept
    <3>1. more # <<>> /\ more \in Seq(Candidates)
      BY <1>1, <2>6 DEF Deferred
    <3>2. 1 \in DOMAIN more
      BY <3>1, EmptySeq, LenProperties
    <3>3. PICK j \in DOMAIN candidates' : candidates'[j] = more[1]
      BY <1>1, <3>2, HandedOn
    <3>4. more[1].mapper = mapper
      BY <1>1, <2>6, <3>2 DEF Deferred
    <3> QED
      BY <3>3, <3>4 DEF Mappers
  <2>8. mapper = "passthrough_mapper" => candidates' # <<>>
    BY <1>1, <2>3, <2>6 DEF Deferred
  <2>9. ASSUME mapper = "parselmouth_relations", NEW c \in Opinions(NameClaims, Name)
        PROVE  \E i \in DOMAIN candidates' :
                    candidates'[i].mapper = mapper /\ candidates'[i].conda = c
    <3>1. PICK i \in DOMAIN more : more[i].conda = c /\ more[i].mapper = mapper
      BY <1>1, <2>6, <2>9 DEF Deferred
    <3> QED
      BY <1>1, <3>1, HandedOn
  <2> HIDE DEF Mappers
  <2>10. ASSUME NEW j \in 1 .. position' - 1
         PROVE  /\ HasOpinion(chain[j])' => chain[j] \in Mappers'
                /\ chain[j] = "passthrough_mapper" => candidates' # <<>>
                /\ chain[j] = "parselmouth_relations" =>
                    \A c \in Opinions(NameClaims, Name) :
                        \E i \in DOMAIN candidates' :
                            candidates'[i].mapper = chain[j] /\ candidates'[i].conda = c
    <3>1. CASE j \in 1 .. position - 1
      BY <2>5, <3>1
    <3>2. CASE j = position
      <4>1. chain[j] = mapper /\ chain'[j] = mapper
        BY <2>1, <2>6, <3>2
      <4> QED
        BY <2>7, <2>8, <2>9, <4>1
    <3> QED
      BY <2>1, <3>1, <3>2
  <2> QED
    BY <2>1, <2>4, <2>10 DEF PassedInv
<1>2. CASE UNCHANGED <<tables, chain, position, candidates>>
  <2>1. Mappers' = Mappers /\ NameClaims' = NameClaims
    BY <1>2, TablesKept DEF Mappers
  <2>2. ASSUME NEW j \in 1 .. position - 1 PROVE HasOpinion(chain[j])' = HasOpinion(chain[j])
    <3>1. PICK mapper : mapper = chain[j]
      OBVIOUS
    <3>2. HasOpinion(mapper)' = HasOpinion(mapper)
      BY <1>2, TablesKept
    <3> QED
      BY <1>2, <3>1, <3>2
  <2> QED
    BY <1>2, <2>1, <2>2 DEF PassedInv
<1>3. ASSUME NEW winner, Committed(winner) PROVE PassedInv'
  BY <1>2, <1>3 DEF Committed
<1>4. CASE Again
  BY <1>4 DEF Again, PassedInv
<1> QED
  BY <1>1, <1>2, <1>3, <1>4, Steps DEF WriteRelations, LoadFails, GiveUp, vars

(* Who is elected depends on the tables and the candidates alone. *)
LEMMA ElectionKept ==
    ASSUME UNCHANGED <<tables, candidates>>, NEW mapper, NEW winner
    PROVE  Elected(mapper, winner)' = Elected(mapper, winner)
<1>1. /\ Proposed' = Proposed /\ Mappers' = Mappers
      /\ \A c : Proposals(c)' = Proposals(c)
  BY DEF Proposed, Mappers, Proposals
<1>2. \A c : Backers(c)' = Backers(c)
  BY <1>1 DEF Backers
<1>3. \A c : TotalProbability(c)' = TotalProbability(c)
  BY <1>1 DEF TotalProbability, MapThenSumSet, MapThenFoldSet
<1>4. Contested' = Contested
  BY <1>1, <1>2 DEF Contested
<1>5. \A c, d : Outvotes(c, d)' = Outvotes(c, d)
  BY <1>2, <1>3 DEF Outvotes
<1>6. VoteWinner' = VoteWinner
  BY <1>4, <1>5 DEF VoteWinner
<1>7. Best' = Best
  BY DEF Best
<1>8. Decides(winner)' = Decides(winner)
  BY <1>1, <1>4, <1>6, <1>7 DEF Decides
<1> QED
  BY <1>8 DEF Elected

LEMMA DecidedStep ==
    ASSUME TypeOK, MappingInv, DecidedInv, [Next]_vars
    PROVE  DecidedInv'
<1> USE DEF Pending
<1>1. ASSUME NEW winner, Committed(winner) PROVE DecidedInv'
  <2>1. Elected(chain[position], winner)' /\ position' <= Len(chain')
    <3>1. PICK mapper : mapper = chain[position]
      OBVIOUS
    <3>2. Elected(mapper, winner) /\ Elected(mapper, winner)' /\ mapper = chain'[position']
      BY <1>1, <3>1, ElectionKept DEF Committed
    <3> QED
      BY <1>1, <3>2 DEF Committed
  <2>2. outcome'.winner = winner /\ outcome'.kind = "winner"
    BY <1>1 DEF Committed
  <2> HIDE DEF Pending
  <2>3. outcome' # [kind |-> "UnresolvedCondaNameError"]
    BY <2>2
  <2> QED
    BY <2>1, <2>2, <2>3 DEF DecidedInv
<1>2. CASE outcome' = Pending
  BY <1>2 DEF DecidedInv, Won
<1>3. ASSUME NEW more, Deferred(more) PROVE DecidedInv'
  BY <1>2, <1>3 DEF Deferred, TypeOK
<1>4. CASE WriteRelations \/ Again
  BY <1>2, <1>4 DEF WriteRelations, Again, TypeOK
<1>5. CASE LoadFails
  BY <1>5 DEF LoadFails, DecidedInv, Won
<1>6. CASE GiveUp
  <2>1. position' = Len(chain') + 1
    BY <1>6, ChainFacts DEF GiveUp, TypeOK
  <2>2. outcome'.kind # "winner"
    BY <1>6 DEF GiveUp
  <2> QED
    BY <2>1, <2>2 DEF DecidedInv, Won
<1>7. CASE UNCHANGED vars
  <2>1. PICK mapper, winner : mapper = chain[position] /\ winner = outcome.winner
    OBVIOUS
  <2>2. Elected(mapper, winner)' = Elected(mapper, winner)
    BY <1>7, ElectionKept DEF vars
  <2>3. mapper = chain'[position'] /\ winner = outcome'.winner /\ Won' = Won
    BY <1>7, <2>1 DEF vars, Won
  <2>4. Won => Elected(chain[position], outcome.winner)'
    BY <2>1, <2>2, <2>3 DEF DecidedInv
  <2> QED
    BY <1>7, <2>3, <2>4 DEF vars, DecidedInv
<1> QED
  BY <1>1, <1>3, <1>4, <1>5, <1>6, <1>7, Steps

(* How the candidates belong to the mappers that map_name has asked and to *)
(* their tables, and a winner to the candidates.                           *)
THEOREM Inductive == Spec => []IInv
<1>1. Init => IInv
  <2> SUFFICES ASSUME Init PROVE IInv
    OBVIOUS
  <2>1. TypeOK
    BY ChainAssumption DEF Init, TypeOK, Pending
  <2>2. MappingInv /\ CandidateInv
    BY DEF Init, MappingInv, CandidateInv
  <2>3. PassedInv /\ DecidedInv
    BY DEF Init, PassedInv, DecidedInv, Won, Pending
  <2> QED
    BY <2>1, <2>2, <2>3 DEF IInv
<1>2. IInv /\ [Next]_vars => IInv'
  BY TypeStep, MappingStep, CandidateStep, PassedStep, DecidedStep DEF IInv
<1> QED
  BY <1>1, <1>2, PTL DEF Spec

-----------------------------------------------------------------------------

(* Every variable stays in its set, and what has been handed on comes from *)
(* mappers that map_name has already asked.                                *)
THEOREM TypeCorrect == Spec => []TypeOK
<1>1. IInv => TypeOK
  BY DEF IInv
<1> QED
  BY <1>1, Inductive, PTL

(* write_relations' score: one more claim that corroborates a pair never   *)
(* makes it less probable, and one for another PyPI name never more.       *)
THEOREM EvidenceMonotone == Spec => []EvidenceIsMonotone
<1>1. IInv => EvidenceIsMonotone
  <2> SUFFICES ASSUME IInv,
                      NEW k \in NameClaims, NEW c \in Opinions(NameClaims \ {k}, Name)
               PROVE  LET with == Score(NameClaims, Name, c)
                          without == Score(NameClaims \ {k}, Name, c)
                      IN  /\ k.pypi = Name /\ k.conda = c /\ VersionState(k) = "agrees" =>
                                with >= without
                          /\ k.pypi # Name => with <= without
    BY DEF EvidenceIsMonotone, NameClaims
  <2>1. PICK claims : claims = NameClaims
    OBVIOUS
  <2>2. IsFiniteSet(claims) /\ c \in CondaName /\ NameAxis(c, Name) \in Axes
    BY <2>1, ClaimFacts DEF IInv, MappingInv, Opinions
  <2>3. ASSUME k.pypi = Name, k.conda = c, VersionState(k) = "agrees"
        PROVE  Score(claims \ {k}, Name, c) <= Score(claims, Name, c)
    BY <2>1, <2>2, <2>3, CorroborationNeverLowers
  <2>4. ASSUME k.pypi # Name
        PROVE  Score(claims, Name, c) <= Score(claims \ {k}, Name, c)
    BY <2>1, <2>2, <2>4, OthersNeverRaise
  <2>5. Score(claims, Name, c) \in Nat /\ Score(claims \ {k}, Name, c) \in Nat
    <3>1. PICK fewer : fewer = claims \ {k}
      OBVIOUS
    <3>2. IsFiniteSet(fewer)
      BY <2>2, <3>1, FS_RemoveElement
    <3> QED
      BY <2>2, <3>1, <3>2, ScoreBound
  <2> QED
    BY <2>1, <2>3, <2>4, <2>5
<1> QED
  BY <1>1, Inductive, PTL

LEMMA CandidateFacts ==
    ASSUME IInv, NEW i \in DOMAIN candidates
    PROVE  /\ candidates[i] \in Candidates /\ Handed(candidates[i])
           /\ candidates[i].mapper # "overrides_mapper"
           /\ HasOpinion(candidates[i].mapper)
<1>1. candidates[i] \in Candidates /\ Handed(candidates[i])
  BY DEF IInv, TypeOK, CandidateInv
<1>2. PICK c \in Candidates : c = candidates[i]
  BY <1>1
<1>3. /\ FromGrayskull(c) => c.mapper = "grayskull_config" /\ HasOpinion("grayskull_config")
      /\ FromCondaLock(c) =>
            c.mapper = "conda_forge_bot_graph" /\ HasOpinion("conda_forge_bot_graph")
      /\ FromCustom(c) => c.mapper = "custom" /\ HasOpinion("custom")
  BY DEF FromGrayskull, FromCondaLock, FromCustom, Candidate
<1>4. FromParselmouth(c) =>
            c.mapper = "parselmouth_relations" /\ HasOpinion("parselmouth_relations")
  BY DEF FromParselmouth, Candidate, HasOpinion, NameClaims
<1> QED
  BY <1>1, <1>2, <1>3, <1>4 DEF Handed

(* The first candidate of the largest probability. *)
LEMMA BestIsOne ==
    ASSUME TypeOK, candidates # <<>>
    PROVE  \E i \in DOMAIN candidates : Best = candidates[i]
<1> DEFINE D == 1 .. Len(candidates)
           f == [i \in D |-> candidates[i].probability]
           M == {i \in DOMAIN candidates :
                    \A j \in DOMAIN candidates :
                        candidates[j].probability <= candidates[i].probability}
<1>1. DOMAIN candidates = D /\ Len(candidates) \in Nat /\ Len(candidates) # 0
  BY EmptySeq, LenProperties DEF TypeOK
<1>2. IsFiniteSet(D) /\ D # {}
  <2>1. PICK n \in Nat : n = Len(candidates) /\ n # 0
    BY <1>1
  <2>2. IsFiniteSet(1 .. n) /\ 1 \in 1 .. n
    BY <2>1, FS_Interval
  <2> QED
    BY <2>1, <2>2
<1>3. f \in [D -> Int]
  <2>1. \A i \in D : candidates[i] \in Candidates
    BY <1>1 DEF TypeOK
  <2>2. ASSUME NEW c \in Candidates PROVE c.probability \in Int
    <3>1. c.probability \in 0 .. Certain
      BY DEF Candidates
    <3>2. \A n \in 0 .. Certain : n \in Int
      OBVIOUS
    <3> QED
      BY <3>1, <3>2
  <2> HIDE DEF D
  <2> QED
    BY <2>1, <2>2
<1>4. \E i \in D : \A j \in D : f[j] <= f[i]
  <2> HIDE DEF f, D
  <2> QED
    BY <1>2, <1>3, LargestExists
<1>5. M \in SUBSET Nat /\ M # {}
  BY <1>1, <1>4
<1>6. Min(M) \in M
  <2> HIDE DEF M
  <2> QED
    BY <1>5, LeastExists
<1> QED
  BY <1>6 DEF Best

(* overrides_mapper's docstring: a hit in the hand-maintained table ends   *)
(* the chain, whatever the mappers before or after it say.                 *)
THEOREM OverridesWin == Spec => []OverridesDecide
<1>1. IInv => OverridesDecide
  <2> SUFFICES ASSUME IInv, Won, tables.overrides # NoEntry, NEW i \in DOMAIN chain,
                      chain[i] = "overrides_mapper",
                      \A j \in 1 .. i : chain[j] \notin {"aggregator_mapper", "passthrough_mapper"}
               PROVE  outcome.winner.conda = tables.overrides
    BY DEF OverridesDecide, AskedBeforeDeciding
  <2>1. position \in Nat /\ i \in Nat /\ 1 <= position /\ Elected(chain[position], outcome.winner)
    BY ChainFacts DEF IInv, TypeOK, DecidedInv
  <2>2. ~(i < position)
    <3>1. SUFFICES ASSUME i < position PROVE FALSE
      OBVIOUS
    <3>2. i \in 1 .. position - 1
      BY <2>1, <3>1, ChainFacts DEF IInv
    <3>3. "overrides_mapper" \in Mappers
      BY <3>2 DEF IInv, PassedInv, HasOpinion
    <3> QED
      BY <3>3, CandidateFacts DEF Mappers
  <2>3. chain[position] \notin {"aggregator_mapper", "passthrough_mapper"}
    BY <2>1, <2>2
  <2> QED
    BY <2>1, <2>3 DEF Elected, Candidate
<1> QED
  BY <1>1, Inductive, PTL

LEMMA SomeoneSpoke ==
    ASSUME IInv, candidates # <<>>
    PROVE  \E j \in 1 .. position - 1 : HasOpinion(chain[j])
<1>1. 1 \in DOMAIN candidates
  BY EmptySeq, LenProperties DEF IInv, TypeOK
<1>2. PICK j \in 1 .. position - 1 : chain[j] = candidates[1].mapper
  BY <1>1 DEF IInv, TypeOK
<1>3. HasOpinion(chain[j])
  BY <1>1, <1>2, CandidateFacts
<1> QED
  BY <1>3

(* docs/pypi_conda_mapping.md: the PyPI name itself is used only if no     *)
(* table before the fallback knows it, and a chain with a fallback fails   *)
(* only if some table does.                                                *)
THEOREM AmbiguityReported == Spec => []AmbiguityIsReported
<1>1. ASSUME IInv, Won, outcome.winner.source = "passthrough"
      PROVE  \E i \in DOMAIN chain :
                /\ chain[i] = "passthrough_mapper"
                /\ \A j \in 1 .. i : ~HasOpinion(chain[j])
  <2>1. Elected(chain[position], outcome.winner) /\ position \in DOMAIN chain
    BY <1>1, ChainFacts DEF IInv, TypeOK, DecidedInv
  <2>2. ~Decides(outcome.winner)
    <3>1. \A i \in DOMAIN candidates : candidates[i].source # "passthrough"
      BY <1>1, CandidateFacts DEF Candidates
    <3>2. VoteWinner.source # "passthrough"
      BY DEF VoteWinner, Candidate
    <3> QED
      BY <1>1, <3>1, <3>2, BestIsOne DEF Decides, IInv
  <2>3. chain[position] = "passthrough_mapper" /\ candidates = <<>>
    BY <1>1, <2>1, <2>2 DEF Elected, Candidate
  <2>4. ASSUME NEW j \in 1 .. position PROVE ~HasOpinion(chain[j])
    <3>1. CASE j = position
      BY <2>3, <3>1 DEF HasOpinion
    <3>2. CASE j \in 1 .. position - 1
      <4>1. Mappers = {}
        BY <2>3 DEF Mappers
      <4> QED
        BY <1>1, <3>2, <4>1 DEF IInv, PassedInv
    <3> QED
      BY <2>1, <3>1, <3>2, ChainFacts, <1>1 DEF IInv
  <2> QED
    BY <2>1, <2>3, <2>4
<1>2. ASSUME IInv, outcome = [kind |-> "UnresolvedCondaNameError"], Asked("passthrough_mapper")
      PROVE  \E i \in DOMAIN chain : HasOpinion(chain[i])
  <2>1. position = Len(chain) + 1 /\ DOMAIN chain = 1 .. Len(chain) /\ Len(chain) \in Nat
    BY <1>2, ChainFacts DEF IInv, DecidedInv
  <2>2. PICK j \in 1 .. position - 1 : chain[j] = "passthrough_mapper"
    BY <1>2, <2>1 DEF Asked
  <2>3. candidates # <<>>
    BY <1>2, <2>2 DEF IInv, PassedInv
  <2> QED
    BY <1>2, <2>1, <2>3, SomeoneSpoke
<1>3. IInv => AmbiguityIsReported
  BY <1>1, <1>2 DEF AmbiguityIsReported
<1> QED
  BY <1>3, Inductive, PTL

(* conda_lock_mapper's probabilities: when the bot's table decides alone,  *)
(* a human wrote the row or nothing in its sources speaks against it.      *)
THEOREM CondaLockUncontested == Spec => []CondaLockAloneIsUncontested
<1> DEFINE source == tables.conda_lock
<1>1. ASSUME IInv, Won, outcome.winner.source = "conda-lock"
      PROVE  \E i \in RowsOf(source, Name) :
                LET row == source.mapping[i] IN
                /\ row.conda = outcome.winner.conda
                /\ \/ row.static
                   \/ /\ CondaNamesOf(source, Name) = {row.conda}
                      /\ row.import \in DOMAIN source.ranked =>
                            source.ranked[row.import] = {row.conda}
  <2>1. PICK w : w = outcome.winner
    OBVIOUS
  <2>2. Decides(w)
    BY <1>1, <2>1 DEF IInv, DecidedInv, Elected, Candidate
  <2>3. \E i \in DOMAIN candidates : w = candidates[i] /\ w.probability >= Confident
    <3>1. w # VoteWinner
      BY <1>1, <2>1 DEF VoteWinner, Candidate
    <3>2. CASE \E i \in DOMAIN candidates : w = candidates[i] /\ w.probability >= Certain
      <4>1. PICK i \in DOMAIN candidates : w = candidates[i] /\ w.probability >= Certain
        BY <3>2
      <4>2. w.probability \in 0 .. Certain
        BY <1>1, <4>1, CandidateFacts DEF Candidates
      <4>3. PICK p \in 0 .. Certain : p = w.probability
        BY <4>2
      <4>4. p >= Confident
        BY <4>1, <4>3 DEF Certain, Confident
      <4> QED
        BY <4>1, <4>3, <4>4
    <3>3. CASE /\ ~\E i \in DOMAIN candidates : w = candidates[i] /\ w.probability >= Certain
               /\ candidates # <<>> /\ w = Best /\ ~(Best.probability >= Confident)
      <4>1. PICK i \in DOMAIN candidates : w = candidates[i]
        BY <1>1, <3>3, BestIsOne DEF IInv
      <4>2. Len(candidates) = 1 /\ candidates[1].source = "parselmouth"
        BY <1>1, <2>1, <2>2, <3>1, <3>3, <4>1 DEF Decides
      <4>3. i = 1
        BY <1>1, <4>1, <4>2 DEF IInv, TypeOK
      <4> QED
        BY <1>1, <2>1, <4>1, <4>2, <4>3
    <3> QED
      BY <1>1, <2>1, <2>2, <3>1, <3>2, <3>3, BestIsOne DEF Decides, IInv
  <2>4. FromCondaLock(w)
    <3>1. Handed(w)
      BY <1>1, <2>3, CandidateFacts
    <3>2. w.source = "conda-lock"
      BY <1>1, <2>1
    <3>3. ~FromGrayskull(w) /\ ~FromCustom(w)
      BY <3>2 DEF FromGrayskull, FromCustom, Candidate
    <3>4. ~FromParselmouth(w)
      BY <3>2 DEF FromParselmouth, Candidate
    <3> QED
      BY <3>1, <3>3, <3>4 DEF Handed
  <2>5. PICK s : s = source
    OBVIOUS
  <2>6. BotTables(s) /\ RowsOf(s, Name) # {}
    BY <1>1, <2>4, <2>5, TableAssumption DEF IInv, MappingInv, FromCondaLock, HasOpinion
  <2>7. PICK i \in RowsOf(s, Name) : SurvivingRow(s, Name) = s.mapping[i]
    BY <2>6, SurvivingRowIsOne DEF SurvivingRow
  <2>8. w.conda = s.mapping[i].conda /\ RowProbability(s, s.mapping[i]) >= Confident
    BY <2>3, <2>4, <2>5, <2>7 DEF FromCondaLock, Candidate
  <2>9. \/ s.mapping[i].static
        \/ /\ CondaNamesOf(s, Name) = {s.mapping[i].conda}
           /\ s.mapping[i].import \in DOMAIN s.ranked =>
                s.ranked[s.mapping[i].import] = {s.mapping[i].conda}
    BY <2>6, <2>8, RowProbabilities
  <2> QED
    BY <2>1, <2>5, <2>8, <2>9
<1>2. IInv => CondaLockAloneIsUncontested
  <2> SUFFICES ASSUME IInv, Won, outcome.winner.source = "conda-lock"
               PROVE  CondaLockAloneIsUncontested
    BY DEF CondaLockAloneIsUncontested
  <2>1. PICK s, conda : s = source /\ conda = outcome.winner.conda
    OBVIOUS
  <2>2. PICK i \in RowsOf(s, Name) :
            LET row == s.mapping[i] IN
            /\ row.conda = conda
            /\ \/ row.static
               \/ /\ CondaNamesOf(s, Name) = {row.conda}
                  /\ row.import \in DOMAIN s.ranked => s.ranked[row.import] = {row.conda}
    BY <1>1, <2>1
  <2>3. PICK row : row = s.mapping[i]
    OBVIOUS
  <2>4. /\ row \in {s.mapping[j] : j \in RowsOf(s, Name)} /\ row.conda = conda
        /\ \/ row.static
           \/ /\ CondaNamesOf(s, Name) = {conda}
              /\ row.import \in DOMAIN s.ranked => s.ranked[row.import] \subseteq {conda}
    BY <2>2, <2>3
  <2> HIDE DEF source
  <2> QED
    BY <2>1, <2>4 DEF CondaLockAloneIsUncontested, source
<1> QED
  BY <1>2, Inductive, PTL

(* docs/parselmouth.md: on parselmouth's word, a package that vendors a    *)
(* project is never taken for it while its genuine package is known.       *)
THEOREM VendoredLoses == Spec => []VendoredNeverDisplaces
<1>1. ASSUME IInv, Won, outcome.winner.source = "parselmouth",
             Vendored(NameClaims, outcome.winner.conda), NEW c \in Opinions(NameClaims, Name)
      PROVE  ~Genuine(NameClaims, c)
  <2>1. PICK w, conda : w = outcome.winner /\ conda = w.conda
    OBVIOUS
  <2>2. Decides(w)
    BY <1>1, <2>1 DEF IInv, DecidedInv, Elected, Candidate
  <2>3. /\ candidates # <<>> /\ w = Best
        /\ \/ Len(candidates) = 1 /\ candidates[1].source = "parselmouth"
           \/ Best.probability >= Confident
    BY <1>1, <2>1, <2>2 DEF Decides, VoteWinner, Candidate
  <2>4. PICK i \in DOMAIN candidates : w = candidates[i]
    BY <1>1, <2>3, BestIsOne DEF IInv
  <2>5. FromParselmouth(w)
    <3>1. Handed(w)
      BY <1>1, <2>4, CandidateFacts
    <3> QED
      BY <1>1, <2>1, <3>1 DEF Handed, FromGrayskull, FromCondaLock, FromCustom, Candidate
  <2>6. /\ conda \in Opinions(NameClaims, Name) /\ w.mapper = "parselmouth_relations"
        /\ w.probability = Score(NameClaims, Name, conda)
    BY <2>1, <2>5 DEF FromParselmouth, Candidate
  <2>7. ~(w.probability >= Confident)
    <3>1. PICK claims : claims = NameClaims
      OBVIOUS
    <3>2. IsFiniteSet(claims) /\ NameAxis(conda, Name) \in Axes
      BY <1>1, <2>6, <3>1, ClaimFacts DEF IInv, MappingInv, Opinions
    <3>3. VendoredOnly(claims, Pair(claims, Name, conda))
      BY <1>1, <2>1, <3>1 DEF Vendored
    <3>4. Score(claims, Name, conda) < 9000 /\ Score(claims, Name, conda) \in Nat
      BY <3>2, <3>3, ScoreBound
    <3> QED
      BY <2>6, <3>1, <3>4 DEF Confident
  <2>8. Len(candidates) = 1 /\ DOMAIN candidates = {1}
    BY <1>1, <2>3, <2>7 DEF IInv, TypeOK
  <2>9. PICK j \in 1 .. position - 1 : chain[j] = "parselmouth_relations"
    BY <1>1, <2>4, <2>6 DEF IInv, TypeOK
  <2>10. c = conda
    BY <1>1, <2>1, <2>4, <2>8, <2>9 DEF IInv, PassedInv
  <2> QED
    BY <1>1, <2>1, <2>10 DEF Vendored, Genuine, VendoredOnly
<1>2. IInv => VendoredNeverDisplaces
  BY <1>1 DEF VendoredNeverDisplaces, NameClaims
<1> QED
  BY <1>2, Inductive, PTL

LEMMA TotalIsNatural ==
    ASSUME TypeOK, NEW c
    PROVE  TotalProbability(c) \in Nat
<1> DEFINE S == Proposals(c)
           w == [i \in S |-> candidates[i].probability]
           sums == CHOOSE g : g = [s \in SUBSET S |->
                        IF s = {} THEN 0
                        ELSE candidates[Pick(s)].probability + g[s \ {Pick(s)}]]
<1>1. IsFiniteSet(S)
  <2>1. PICK n \in Nat : n = Len(candidates) /\ DOMAIN candidates = 1 .. n
    BY DEF TypeOK
  <2>2. IsFiniteSet(1 .. n) /\ S \in SUBSET (1 .. n)
    BY <2>1, FS_Interval DEF Proposals
  <2> QED
    BY <2>2, FS_Subset
<1>2. w \in [S -> Nat]
  <2>1. ASSUME NEW i \in S PROVE candidates[i].probability \in Nat
    <3>1. PICK c0 \in Candidates : c0 = candidates[i]
      BY DEF TypeOK, Proposals
    <3>2. c0.probability \in 0 .. Certain /\ \A n \in 0 .. Certain : n \in Nat
      BY DEF Candidates
    <3> QED
      BY <3>1, <3>2
  <2> QED
    BY <2>1
<1>3. \A s \in SUBSET S : s # {} => w[Pick(s)] = candidates[Pick(s)].probability
  <2> SUFFICES ASSUME NEW s \in SUBSET S, s # {}
               PROVE  w[Pick(s)] = candidates[Pick(s)].probability
    OBVIOUS
  <2>1. Pick(s) \in S
    BY DEF Pick
  <2> QED
    BY <2>1
<1> HIDE DEF S, w
<1>4. PICK g : DOMAIN g = SUBSET S /\ SumsOver(g, w, S)
  BY <1>1, <1>2, SumsExist
<1>5. [s \in SUBSET S |-> g[s]] = [s \in SUBSET S |->
            IF s = {} THEN 0
            ELSE candidates[Pick(s)].probability + [t \in SUBSET S |-> g[t]][s \ {Pick(s)}]]
  BY <1>3, <1>4 DEF SumsOver
<1>6. sums = [s \in SUBSET S |->
            IF s = {} THEN 0 ELSE candidates[Pick(s)].probability + sums[s \ {Pick(s)}]]
  BY <1>5, Zenon
<1> HIDE DEF sums
<1>7. SumsOver(sums, w, S)
  BY <1>3, <1>6 DEF SumsOver
<1>8. sums[S] \in Nat
  BY <1>1, <1>2, <1>7, SumsAreNatural
<1>9. TotalProbability(c) = sums[S]
  BY DEF TotalProbability, MapThenSumSet, MapThenFoldSet, sums, Pick, S
<1> QED
  BY <1>8, <1>9

LEMMA BackersFinite ==
    ASSUME TypeOK
    PROVE  /\ IsFiniteSet(Proposed) /\ IsFiniteSet(Mappers) /\ Proposed \subseteq CondaName
           /\ \A c : Backers(c) \subseteq Mappers /\ Cardinality(Backers(c)) \in Nat
                    /\ Cardinality(Backers(c)) <= Cardinality(Mappers)
           /\ Cardinality(Mappers) \in Nat
<1> DEFINE D == DOMAIN candidates
           f == [i \in D |-> candidates[i].conda]
           g == [i \in D |-> candidates[i].mapper]
<1>1. IsFiniteSet(D)
  <2>1. PICK n \in Nat : n = Len(candidates) /\ DOMAIN candidates = 1 .. n
    BY DEF TypeOK
  <2> QED
    BY <2>1, FS_Interval
<1>2. Proposed = {f[i] : i \in D} /\ Mappers = {g[i] : i \in D} /\ DOMAIN f = D /\ DOMAIN g = D
  BY DEF Proposed, Mappers
<1>3. Proposed \subseteq CondaName
  <2>1. \A i \in DOMAIN candidates : candidates[i] \in Candidates
    BY DEF TypeOK
  <2>2. \A c \in Candidates : c.conda \in CondaName
    BY DEF Candidates
  <2> QED
    BY <2>1, <2>2 DEF Proposed
<1>4. \A c : Backers(c) \subseteq Mappers
  BY DEF Backers, Mappers, Proposals
<1> HIDE DEF f, g, D
<1>5. IsFiniteSet(Proposed) /\ IsFiniteSet(Mappers)
  BY <1>1, <1>2, FiniteRange
<1>6. ASSUME NEW c
      PROVE  Cardinality(Backers(c)) \in Nat /\ Cardinality(Backers(c)) <= Cardinality(Mappers)
  BY <1>4, <1>5, FS_Subset, FS_CardinalityType
<1> QED
  BY <1>3, <1>4, <1>5, <1>6, FS_CardinalityType

(* min finds a winner of the vote: by the number of backers, then by the   *)
(* total probability, then by name.                                        *)
LEMMA VoteIsWon ==
    ASSUME TypeOK, Contested # {}
    PROVE  \E c \in Contested : \A d \in Contested : Outvotes(c, d)
<1> DEFINE backers == [c \in Contested |-> Cardinality(Backers(c))]
           total == [c \in Contested |-> TotalProbability(c)]
           Most == {c \in Contested : \A d \in Contested : backers[d] <= backers[c]}
           Likeliest == {c \in Most : \A d \in Most : total[d] <= total[c]}
<1>1. IsFiniteSet(Contested) /\ Contested \in SUBSET Nat
  BY BackersFinite, NameAssumption, FS_Subset DEF Contested
<1>2. backers \in [Contested -> Int] /\ total \in [Contested -> Int]
  BY BackersFinite, TotalIsNatural
<1>3. Most # {} /\ IsFiniteSet(Most) /\ Most \subseteq Contested
  <2>1. \E c \in Contested : \A d \in Contested : backers[d] <= backers[c]
    <3> HIDE DEF backers
    <3> QED
      BY <1>1, <1>2, LargestExists
  <2> QED
    BY <1>1, <2>1, FS_Subset
<1>4. Likeliest # {}
  <2> DEFINE h == [c \in Most |-> total[c]]
  <2>1. h \in [Most -> Int]
    BY <1>2, <1>3
  <2>2. \E c \in Most : \A d \in Most : h[d] <= h[c]
    <3> HIDE DEF h, Most
    <3> QED
      BY <1>3, <2>1, LargestExists
  <2> QED
    BY <2>2
<1>5. PICK c \in Likeliest : \A d \in Likeliest : c <= d
  <2> HIDE DEF Likeliest
  <2>1. Likeliest \in SUBSET Nat
    BY <1>1, <1>3 DEF Likeliest
  <2> QED
    BY <1>4, <2>1, LeastNatural
<1>6. ASSUME NEW d \in Contested PROVE Outvotes(c, d)
  <2>1. /\ c \in Contested /\ backers[d] <= backers[c]
        /\ backers[c] \in Int /\ backers[d] \in Int /\ total[c] \in Int /\ total[d] \in Int
    BY <1>2, <1>3, <1>5
  <2>2. d \in Most => total[d] <= total[c]
    BY <1>5
  <2>3. d \in Most /\ total[d] = total[c] => c <= d
    <3> SUFFICES ASSUME d \in Most, total[d] = total[c] PROVE d \in Likeliest
      BY <1>5
    <3> QED
      BY <1>5
  <2>4. backers[d] = backers[c] => d \in Most
    BY <1>3, <1>5
  <2>5. /\ Cardinality(Backers(c)) = backers[c] /\ Cardinality(Backers(d)) = backers[d]
        /\ TotalProbability(c) = total[c] /\ TotalProbability(d) = total[d]
    BY <1>6, <2>1
  <2> HIDE DEF backers, total, Most, Likeliest
  <2> QED
    BY <2>1, <2>2, <2>3, <2>4, <2>5 DEF Outvotes
<1> QED
  BY <1>3, <1>5, <1>6

(* aggregator_mapper: a name that no curated table decides is never one    *)
(* that fewer mappers back than another, nor one mapper's word against     *)
(* another's.                                                              *)
THEOREM BestBackedWins == Spec => []BestBacked
<1>1. ASSUME IInv, Won, ~Authoritative(outcome.winner)
      PROVE  LET backers == Backers(outcome.winner.conda) IN
             /\ \A c \in Proposed : Cardinality(Backers(c)) <= Cardinality(backers)
             /\ Cardinality(backers) = 1 => Mappers = backers
  <2>1. PICK w, conda : w = outcome.winner /\ conda = w.conda
    OBVIOUS
  <2>2. Decides(w)
    BY <1>1, <2>1 DEF IInv, DecidedInv, Elected, Candidate, Authoritative
  <2>3. CASE Contested # {} /\ w = VoteWinner
    <3>1. conda \in Contested /\ \A d \in Contested : Outvotes(conda, d)
      BY <1>1, <2>1, <2>3, VoteIsWon DEF IInv, VoteWinner, Candidate
    <3>2. Cardinality(Backers(conda)) \in Nat /\ Cardinality(Backers(conda)) >= 2
      BY <1>1, <3>1, BackersFinite DEF IInv, Contested
    <3>3. ASSUME NEW c \in Proposed PROVE Cardinality(Backers(c)) <= Cardinality(Backers(conda))
      <4>1. Cardinality(Backers(c)) \in Nat
        BY <1>1, BackersFinite DEF IInv
      <4>2. CASE c \in Contested
        BY <3>1, <3>2, <4>1, <4>2 DEF Outvotes
      <4>3. CASE c \notin Contested
        BY <3>2, <3>3, <4>1, <4>3 DEF Contested
      <4> QED
        BY <4>2, <4>3
    <3> QED
      BY <2>1, <3>2, <3>3
  <2>4. CASE Cardinality(Mappers) = 1 /\ candidates # <<>> /\ w = Best
    <3>1. PICK i \in DOMAIN candidates : w = candidates[i]
      BY <1>1, <2>4, BestIsOne DEF IInv
    <3>2. w.mapper \in Backers(conda)
      BY <2>1, <3>1 DEF Backers, Proposals
    <3>3. PICK m : Mappers = {m}
      BY <1>1, <2>4, BackersFinite, FS_Singleton DEF IInv
    <3>4. Backers(conda) = Mappers
      BY <1>1, <3>2, <3>3, BackersFinite DEF IInv
    <3>5. \A c : Cardinality(Backers(c)) <= Cardinality(Mappers)
      BY <1>1, BackersFinite DEF IInv
    <3> QED
      BY <2>1, <3>4, <3>5
  <2>5. ASSUME NEW i \in DOMAIN candidates, w = candidates[i],
               w.source = "conda-lock", w.probability >= Certain
        PROVE  FALSE
    <3>1. PICK p \in 0 .. Certain : p = w.probability
      BY <1>1, <2>5, CandidateFacts DEF Candidates
    <3>2. p = Certain
      <4>1. p >= Certain
        BY <2>5, <3>1
      <4>2. Certain \in Int
        BY DEF Certain
      <4> QED
        BY <4>1, <4>2
    <3> QED
      BY <1>1, <2>1, <2>5, <3>1, <3>2 DEF Authoritative
  <2> QED
    BY <1>1, <2>1, <2>2, <2>3, <2>4, <2>5 DEF Decides, Authoritative
<1>2. IInv => BestBacked
  BY <1>1 DEF BestBacked
<1> QED
  BY <1>2, Inductive, PTL
===============================================================================
