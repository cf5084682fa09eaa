-------------------------- MODULE ParselmouthEvidence --------------------------
(***************************************************************************)
(* What write_relations makes of parselmouth's relations: one row of       *)
(* evidence per (PyPI name, conda name), and the probability it scores.    *)
(*                                                                         *)
(* Version strings are abstracted to release numbers that are equal when   *)
(* the versions differ at most in a suffix; how two names are spelled, to  *)
(* the axis name_axis puts them on.                                        *)
(*                                                                         *)
(* A definition introduced by "Bug:" is no part of the specification: it   *)
(* is a plausible mistake in the operator after it, used to confirm that   *)
(* the properties would notice.                                            *)
(***************************************************************************)
EXTENDS Integers, FiniteSets

CONSTANTS
    NameAxis(_, _),   \* name_axis(conda_name, pypi_name)
    Placeholder       \* a PyPI version that says nothing: 0.0.0, 0+unknown

(* _classify: a row whose filename disagrees with its name is dropped. *)
Claims(relations) == {r \in relations : ~r.filename_mismatch}

VersionState(claim) ==
    IF claim.version = claim.release THEN "agrees"
    ELSE IF claim.version = Placeholder THEN "no_signal"
    ELSE "disagrees"

Agreeing(claims) == {k \in claims : VersionState(k) = "agrees"}

Pair(claims, pypi, conda) == {k \in claims : k.pypi = pypi /\ k.conda = conda}

(* dominant_version_state of one PyPI version, however many builds claim it. *)
Verdict(pair, version) ==
    LET states == {VersionState(k) : k \in {j \in pair : j.version = version}}
    IN  IF "agrees" \in states THEN "agrees"
        ELSE IF "disagrees" \in states THEN "disagrees"
        ELSE "no_signal"

VersionsWith(pair, verdict) == {v \in {k.version : k \in pair} : Verdict(pair, v) = verdict}

(* Bug: a pair that has corroboration of its own is not exempt. *)
VendoredAnyway(claims, pair) ==
    \E k \in pair \ Agreeing(pair), a \in Agreeing(claims) :
        a.conda = k.conda /\ a.release = k.release

(* Some release the pair disagrees on is already another name's. *)
VendoredOnly(claims, pair) ==
    /\ VersionsWith(pair, "agrees") = {}
    /\ \E k \in pair \ Agreeing(pair), a \in Agreeing(claims) :
            a.conda = k.conda /\ a.release = k.release

ClaimedByOther(claims, pypi, conda) ==
    \E a \in Agreeing(claims) :
        a.conda = conda /\ a.pypi # pypi /\ NameAxis(conda, a.pypi) = "same"

(* The row of pypi_conda_mapping. *)
Evidence(claims, pypi, conda) ==
    LET pair == Pair(claims, pypi, conda)
    IN  [name_axis |-> NameAxis(conda, pypi),
         n_versions_agree |-> Cardinality(VersionsWith(pair, "agrees")),
         n_versions_disagree |-> Cardinality(VersionsWith(pair, "disagrees")),
         vendored_only |-> VendoredOnly(claims, pair),
         claimed_by_other |-> ClaimedByOther(claims, pypi, conda)]

-----------------------------------------------------------------------------

(* Factors are hundredths, probabilities ten-thousandths: the code rounds  *)
(* to four places.                                                         *)
Certain == 10000
BaseProbability == 95

NameFactor(axis) ==
    CASE axis = "same" -> 100 [] axis = "near" -> 75
      [] axis = "subpackage" -> 60 [] axis = "unrelated" -> 40

(* Times the number of versions that say something, which ScoreEvidence    *)
(* divides by.                                                             *)
VersionFactor(agree, disagree) ==
    IF agree + disagree = 0 THEN 80 ELSE 100 * agree + 45 * disagree

ContradictionFactor(evidence) ==
    IF evidence.vendored_only /\ evidence.claimed_by_other THEN 5
    ELSE IF evidence.vendored_only \/ evidence.claimed_by_other THEN 35
    ELSE 100

ScoreEvidence(evidence) ==
    LET agree == evidence.n_versions_agree
        disagree == evidence.n_versions_disagree
        informative == IF agree + disagree = 0 THEN 1 ELSE agree + disagree
        product == BaseProbability * NameFactor(evidence.name_axis)
                    * VersionFactor(agree, disagree) * ContradictionFactor(evidence)
    IN  (2 * product + Certain * informative) \div (2 * Certain * informative)

Score(claims, pypi, conda) == ScoreEvidence(Evidence(claims, pypi, conda))

(* The conda names parselmouth has an opinion about for a PyPI name. *)
Opinions(claims, pypi) == {k.conda : k \in {j \in claims : j.pypi = pypi}}
=============================================================================
