---------------------------- MODULE PythonVersions ----------------------------
(***************************************************************************)
(* Versions as packaging and conda read them, neither of which is code of  *)
(* this repository.                                                        *)
(*                                                                         *)
(* A version is its release segments and a stage.  The stages are in their *)
(* order: Anchor is the "a0" that the conversion glues to a bound, which   *)
(* conda sorts below every pre-release of it; Local stands for a version   *)
(* with a local label.                                                     *)
(*                                                                         *)
(* A clause is one comparison with a version; glob is a trailing ".*".     *)
(***************************************************************************)
EXTENDS Integers, Sequences

Anchor == 0
Alpha == 1
Candidate == 2
Final == 3
Post == 4
Local == 5

Release(segments) == [release |-> segments, stage |-> Final]

Segment(version, i) == IF i <= Len(version.release) THEN version.release[i] ELSE 0

(* is_prerelease *)
IsPrerelease(version) == version.stage \in {Alpha, Candidate}

(* The order of versions: trailing zeros are insignificant.  Four segments *)
(* below 200, of which the last is below 10, are all that is compared.     *)
Rank(version) ==
    (((Segment(version, 1) * 200 + Segment(version, 2)) * 200 + Segment(version, 3)) * 10
        + Segment(version, 4)) * 6 + version.stage

SameRelease(v, w) == Rank([v EXCEPT !.stage = Final]) = Rank([w EXCEPT !.stage = Final])

StartsWith(version, prefix) ==
    \A i \in 1 .. Len(prefix.release) : Segment(version, i) = prefix.release[i]

Clause(op, version) == [op |-> op, version |-> version, glob |-> FALSE]
GlobClause(op, version) == [op |-> op, version |-> version, glob |-> TRUE]

-----------------------------------------------------------------------------

(* Specifier.contains(version, prereleases=True), as PEP 440 has it.       *)
Satisfies(version, clause) ==
    LET bound == clause.version
        equal == IF clause.glob THEN StartsWith(version, bound) ELSE Rank(version) = Rank(bound)
    IN  CASE clause.op = "==" -> equal
          [] clause.op = "!=" -> ~equal
          [] clause.op = ">=" -> Rank(version) >= Rank(bound)
          [] clause.op = "<=" -> Rank(version) <= Rank(bound)
          [] clause.op = ">" -> Rank(version) > Rank(bound)
          [] clause.op = "<" ->
                /\ Rank(version) < Rank(bound)
                /\ IsPrerelease(version) /\ SameRelease(version, bound) => IsPrerelease(bound)
          [] clause.op = "~=" ->
                /\ Rank(version) >= Rank(bound)
                /\ \A i \in 1 .. Len(bound.release) - 1 :
                        Segment(version, i) = bound.release[i]
          [] clause.op = "===" -> version = bound

(* A conda package of this version matches the clause of a MatchSpec.      *)
Matches(version, clause) ==
    LET bound == clause.version
    IN  CASE clause.op = "=" -> StartsWith(version, bound)
          [] clause.op = "==" -> Rank(version) = Rank(bound)
          [] clause.op = "!=" -> IF clause.glob THEN ~StartsWith(version, bound)
                                 ELSE Rank(version) # Rank(bound)
          [] clause.op = ">=" -> Rank(version) >= Rank(bound)
          [] clause.op = "<=" -> Rank(version) <= Rank(bound)
          [] clause.op = ">" -> Rank(version) > Rank(bound)
          [] clause.op = "<" -> Rank(version) < Rank(bound)

SatisfiesAll(version, clauses) == \A c \in clauses : Satisfies(version, c)
MatchesAll(version, clauses) == \A c \in clauses : Matches(version, c)
=============================================================================
