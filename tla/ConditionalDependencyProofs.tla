---------------------- MODULE ConditionalDependencyProofs ----------------------
(***************************************************************************)
(* The invariants of ConditionalDependency, for every wheel, feed and      *)
(* Python.                                                                 *)
(***************************************************************************)
EXTENDS MarkerLemmas

Converting == {"entry", "rewrite_in", "rewrite_not_in", "convert"}
Rewriting == {"rewrite_in", "rewrite_not_in", "convert"}

(* The call's arguments, and where it is. *)
CallInv ==
    /\ wheel \in Wheels
    /\ pc \in Steps /\ api \in {"wheel", "to_matchspec"}
    /\ bounds \subseteq UpperBounds
    /\ pc \in {"metadata", "range", "evaluate", "python"} => api = "wheel"
    /\ pc # "idle" => result = Pending
    /\ result.error \in Errors

(* The tree is the marker's own, and what each step may find in it has     *)
(* been seen to by those before.                                           *)
NodeInv ==
    /\ pc \in Converting =>
        /\ FromMarker(node, wheel.marker)
        /\ api = "wheel" => MarkerKeys(node) \subseteq PermittedKeys
    /\ pc = "entry" => ~AlwaysFalse(node)
    /\ pc \in Rewriting \/ (pc = "entry" /\ api = "wheel") =>
        \A l \in Leaves(node) : l.kind # "extra"
    /\ pc = "rewrite_in" => ~IsConstant(node)
    /\ pc \in {"rewrite_not_in", "convert"} =>
        /\ \A l \in Leaves(node) : ~IsPythonVersionIn(l)
        /\ IsConstant(node) => \E l \in Leaves(wheel.marker) : ConstantLeaf(l)
    /\ pc = "convert" => \A l \in Leaves(node) : ~IsPythonVersionNotIn(l)

(* How far the call is tells what has been found of the ranges, and the    *)
(* result what came of them.                                               *)
RangeInv ==
    /\ api = "wheel" /\ pc \notin {"idle", "metadata"} =>
        RequiresPythonError(wheel.requires_python) = "ok"
    /\ api = "wheel" /\ pc \notin {"idle", "metadata", "range"} =>
        RangeError(wheel.requirement, wheel.requires_python) = "ok"
    /\ result.error = "ok" /\ api = "wheel" =>
        /\ result.python = PythonMatchSpec(wheel.requirement, wheel.requires_python)
        /\ PythonMatchSpecError(wheel.requirement, wheel.requires_python, wheel.allow_pre) = "ok"
        /\ RequiresPythonError(wheel.requires_python) = "ok"
        /\ RangeError(wheel.requirement, wheel.requires_python) = "ok"
    /\ result.error = "ok" /\ api = "to_matchspec" => result.python = {}
    /\ result.error = "InvalidPythonRequirementRangeError" =>
        RequiresPythonError(wheel.requires_python) = "InvalidPythonRequirementRangeError"
    /\ result.error = "PythonRangeMismatchError" =>
        /\ RequiresPythonError(wheel.requires_python) = "ok"
        /\ RangeError(wheel.requirement, wheel.requires_python) # "ok"

(* The Pythons and platforms on which the condition has to hold exactly    *)
(* where the marker does.                                                  *)
InQuestion(v, subdir) ==
    /\ subdir \in Platforms /\ WithinBounds(v)
    /\ IsPrerelease(v) => ~AsksFullVersion(wheel.marker)
    /\ api = "wheel" =>
        /\ MatchesAll(v, PythonMatchSpec(wheel.requirement, wheel.requires_python))
        /\ ~FinerThanReleases(wheel)

IsCondition(condition) == \A l \in Leaves(condition) : l.kind \in {"clauses", "virtual"}

(* So far nothing is lost: the tree, and then the condition, mean what the *)
(* marker does.                                                            *)
MeaningInv ==
    /\ pc \in Converting =>
        \A v \in Pythons, s \in Subdirs : InQuestion(v, s) =>
            (Means(node, v, s, wheel.extra) <=> Holds(wheel.marker, v, s))
    /\ pc = "python" =>
        /\ IsCondition(node)
        /\ \A v \in Pythons, s \in Subdirs : InQuestion(v, s) =>
            (Applies(node, v, s) <=> Holds(wheel.marker, v, s))
    /\ IsCondition(result.condition)
    /\ result.error = "ok" =>
        \A v \in Pythons, s \in Subdirs : InQuestion(v, s) =>
            (Applies(result.condition, v, s) <=> Holds(wheel.marker, v, s))

IInv == CallInv /\ NodeInv /\ RangeInv /\ MeaningInv /\ FailureIsJustified

-----------------------------------------------------------------------------
(* What the steps may come to.                                             *)

LEMMA UpperBoundShape ==
    ASSUME wheel \in Wheels, NEW b \in UpperBounds
    PROVE  b \in Nat /\ b <= 198
<1>1. FeedMinors \subseteq 0 .. 198
  BY FeedAssumption DEF SegmentBound
<1>2. wheel.upper_bound \in (0 .. 198) \cup {NoMinor}
  BY WheelShape DEF SegmentBound
<1> QED
  BY <1>1, <1>2 DEF UpperBounds

LEMMA RangeErrorKinds ==
    ASSUME NEW requirement, NEW requires
    PROVE  /\ RequiresPythonError(requires) \in
                {"ok", "InvalidVersionSpecifierError", "InvalidPythonRequirementRangeError"}
           /\ RangeError(requirement, requires) \in {"ok", "PythonRangeMismatchError"}
           /\ \A allow_pre : PythonMatchSpecError(requirement, requires, allow_pre)
                                \in {"ok", "UnconvertableRequirementError"}
  BY DEF RequiresPythonError, RangeError, PythonMatchSpecError

LEMMA ResidualErrorKinds ==
    ASSUME NEW residual, NEW subdir
    PROVE  ResidualError(residual, subdir)
                \in {"ok", "NeedsArchSplitError", "UnconvertableMarkerError"}
  BY DEF ResidualError

LEMMA LeavesAt ==
    ASSUME NEW m
    PROVE  /\ \A i \in DOMAIN m.leaves : m.leaves[i] \in Leaves(m)
           /\ \A l \in Leaves(m) : \E i \in DOMAIN m.leaves : l = m.leaves[i]
  BY DEF Leaves, Range

(* A conversion fails with one of two errors.                              *)
LEMMA ConversionErrors ==
    ASSUME CallInv, NodeInv, pc = "convert"
    PROVE  MarkerCondition(node).error \in
             {"ok", "UnconvertableMarkerError", "UnconvertablePythonVersionEqualityError"}
<1>1. CASE IsConstant(node)
  BY <1>1 DEF MarkerCondition, NeverEqual
<1>2. CASE ~IsConstant(node)
  <2>1. /\ FromMarker(node, wheel.marker) /\ wheel.marker \in Markers
        /\ \A i \in DOMAIN node.leaves : node.leaves[i].kind # "extra"
    BY WheelShape, LeavesAt DEF CallInv, NodeInv, Converting, Rewriting
  <2> QED
    BY <1>2, <2>1, RefusedTree
<1> QED
  BY <1>1, <1>2

-----------------------------------------------------------------------------

LEMMA CallInvInit == Init => CallInv
  BY DEF Init, CallInv, Steps, Pending, Outcome, Errors

LEMMA CallInvNext ==
    ASSUME CallInv, NodeInv, [Next]_vars
    PROVE  CallInv'
<1> USE DEF CallInv
<1>0. wheel' = wheel /\ UpperBounds' = UpperBounds
  BY DEF Next, vars, Call, CallToMatchspec, Begin, ValidateMetadata, CombineRanges, EvaluateMarker,
         ConvertEntry, RewriteIn, RewriteNotIn, FeedFails, Convert, AppendPython, Raise, Finish,
         UpperBounds
<1>1. CASE Call
  BY <1>0, <1>1 DEF Call, Begin, Steps, Pending, Outcome, Errors
<1>2. CASE CallToMatchspec
  BY <1>0, <1>2 DEF CallToMatchspec, Begin, Steps, Pending, Outcome, Errors
<1>3. CASE ValidateMetadata
  BY <1>0, <1>3, RangeErrorKinds
     DEF ValidateMetadata, Raise, Steps, Pending, Outcome, Errors
<1>4. CASE CombineRanges
  BY <1>0, <1>4, RangeErrorKinds DEF CombineRanges, Raise, Steps, Pending, Outcome, Errors
<1>5. CASE EvaluateMarker
  BY <1>0, <1>5, ResidualErrorKinds DEF EvaluateMarker, Raise, Steps, Pending, Outcome, Errors
<1>6. CASE ConvertEntry
  BY <1>0, <1>6 DEF ConvertEntry, Raise, Finish, Steps, Pending, Outcome, Errors
<1>7. CASE RewriteIn
  BY <1>0, <1>7 DEF RewriteIn, Steps, Pending, Outcome, Errors
<1>8. CASE RewriteNotIn
  BY <1>0, <1>8 DEF RewriteNotIn, Steps, Pending, Outcome, Errors
<1>9. CASE FeedFails
  BY <1>0, <1>9 DEF FeedFails, Raise, Steps, Pending, Outcome, Errors
<1>10. CASE Convert
  <2>1. MarkerCondition(node).error \in Errors /\ pc = "convert"
    BY <1>10, ConversionErrors DEF Convert, Errors
  <2> QED
    BY <1>0, <1>10, <2>1 DEF Convert, Raise, Finish, Steps, Pending, Outcome, Errors
<1>11. CASE AppendPython
  BY <1>0, <1>11, RangeErrorKinds DEF AppendPython, Raise, Steps, Pending, Outcome, Errors
<1>12. CASE UNCHANGED vars
  BY <1>0, <1>12 DEF vars
<1> QED
  BY <1>1, <1>2, <1>3, <1>4, <1>5, <1>6, <1>7, <1>8, <1>9, <1>10, <1>11, <1>12 DEF Next

-----------------------------------------------------------------------------

LEMMA RangeInvInit == Init => RangeInv
  BY DEF Init, RangeInv, Pending, Outcome

LEMMA RangeInvNext ==
    ASSUME CallInv, NodeInv, RangeInv, [Next]_vars
    PROVE  RangeInv'
<1> USE DEF RangeInv
<1>0. wheel' = wheel
  BY DEF Next, vars, Call, CallToMatchspec, Begin, ValidateMetadata, CombineRanges, EvaluateMarker,
         ConvertEntry, RewriteIn, RewriteNotIn, FeedFails, Convert, AppendPython, Raise, Finish
<1>1. CASE Call
  BY <1>0, <1>1 DEF Call, Begin, Pending, Outcome
<1>2. CASE CallToMatchspec
  BY <1>0, <1>2 DEF CallToMatchspec, Begin, Pending, Outcome
<1>3. CASE ValidateMetadata
  <2>1. RequiresPythonError(wheel.requires_python) # "PythonRangeMismatchError"
    BY RangeErrorKinds
  <2> QED
    BY <1>0, <1>3, <2>1 DEF CallInv, ValidateMetadata, Raise, Outcome, Pending
<1>4. CASE CombineRanges
  <2>1. RangeError(wheel.requirement, wheel.requires_python) # "InvalidPythonRequirementRangeError"
    BY RangeErrorKinds
  <2>2. api = "wheel" /\ RequiresPythonError(wheel.requires_python) = "ok"
    BY <1>4 DEF CombineRanges, CallInv
  <2> QED
    BY <1>0, <1>4, <2>1, <2>2 DEF CallInv, CombineRanges, Raise, Outcome, Pending
<1>5. CASE EvaluateMarker
  <2>1. \A residual, subdir : ResidualError(residual, subdir)
            \notin {"InvalidPythonRequirementRangeError", "PythonRangeMismatchError"}
    BY ResidualErrorKinds
  <2> QED
    BY <1>0, <1>5, <2>1 DEF CallInv, EvaluateMarker, Raise, Outcome, Pending
<1>6. CASE ConvertEntry
  BY <1>0, <1>6 DEF CallInv, ConvertEntry, Raise, Finish, Outcome, Pending
<1>7. CASE RewriteIn
  BY <1>0, <1>7 DEF CallInv, RewriteIn, Outcome, Pending
<1>8. CASE RewriteNotIn
  BY <1>0, <1>8 DEF CallInv, RewriteNotIn, Outcome, Pending
<1>9. CASE FeedFails
  BY <1>0, <1>9 DEF CallInv, FeedFails, Raise, Outcome, Pending
<1>10. CASE Convert
  <2>1. MarkerCondition(node).error
            \notin {"InvalidPythonRequirementRangeError", "PythonRangeMismatchError"}
    BY <1>10, ConversionErrors DEF Convert
  <2> QED
    BY <1>0, <1>10, <2>1 DEF CallInv, Convert, Raise, Finish, Outcome, Pending
<1>11. CASE AppendPython
  <2>1. PythonMatchSpecError(wheel.requirement, wheel.requires_python, wheel.allow_pre)
            \notin {"InvalidPythonRequirementRangeError", "PythonRangeMismatchError"}
    BY RangeErrorKinds
  <2> QED
    BY <1>0, <1>11, <2>1 DEF CallInv, AppendPython, Raise, Outcome, Pending
<1>12. CASE UNCHANGED vars
  BY <1>0, <1>12 DEF vars
<1> QED
  BY <1>1, <1>2, <1>3, <1>4, <1>5, <1>6, <1>7, <1>8, <1>9, <1>10, <1>11, <1>12 DEF Next

(* What a returned record's python dependency is. *)
LEMMA RangeInvPythonSpec ==
    ASSUME CallInv, RangeInv
    PROVE  PythonSpecMeansTheWheel
<1> SUFFICES ASSUME ReturnedForWheel, NEW v \in Pythons
             PROVE  IF v.stage = Final THEN v \in Admitted <=> Installs(wheel, v)
                    ELSE v \in Admitted /\ ~IsGeneric(wheel) /\ ~wheel.allow_pre =>
                            MatchesAll([v EXCEPT !.stage = Final], result.python)
  BY DEF PythonSpecMeansTheWheel
<1>1. /\ wheel \in Wheels
      /\ result.python = PythonMatchSpec(wheel.requirement, wheel.requires_python)
      /\ PythonMatchSpecError(wheel.requirement, wheel.requires_python, wheel.allow_pre) = "ok"
  BY DEF CallInv, RangeInv, ReturnedForWheel, Returned
<1>2. v \in Admitted <=> MatchesAll(v, result.python)
  BY DEF Admitted
<1>3. CASE v.stage = Final
  BY <1>1, <1>2, <1>3, PythonSpecFinal
<1>4. CASE v.stage # Final
  BY <1>1, <1>2, <1>4, PythonSpecPrerelease
<1> QED
  BY <1>3, <1>4

LEMMA RangeInvErrors ==
    ASSUME CallInv, RangeInv
    PROVE  RangeErrorsAreExact
<1> DEFINE clauses == wheel.requires_python.clauses
           contiguous == Contiguous(AdmittedMinors(clauses))
           first(r) == Release(<<Segment(r.lower, 1), Segment(r.lower, 2), Segment(r.lower, 3)>>)
<1>0. wheel \in Wheels
  BY DEF CallInv
<1>1. ASSUME \A c \in clauses : ~UnprobedClause(c)
      PROVE  /\ result.error = "InvalidPythonRequirementRangeError" => ~contiguous
             /\ ReturnedForWheel \/ result.error = "PythonRangeMismatchError" => contiguous
  BY <1>0, <1>1, RequiresPythonErrorIsExact DEF RangeInv, ReturnedForWheel, Returned
<1>2. result.error = "PythonRangeMismatchError" =>
        ~\E v \in Pythons : v.stage = Final /\ Installs(wheel, v)
  BY <1>0, DisjointInstallsNone DEF RangeInv
<1>3. ASSUME ReturnedForWheel,
             \A c \in clauses : c.version.stage = Final /\ Len(c.version.release) <= 3,
             NEW r \in CombinedRange(wheel.requirement, wheel.requires_python)
      PROVE  MatchesAll(first(r), result.python)
  <2>1. /\ RangeError(wheel.requirement, wheel.requires_python) = "ok"
        /\ result.python = PythonMatchSpec(wheel.requirement, wheel.requires_python)
    BY <1>3 DEF RangeInv, ReturnedForWheel, Returned
  <2> QED
    BY <1>0, <1>3, <2>1, FirstAdmitted
<1> QED
  BY <1>1, <1>2, <1>3 DEF RangeErrorsAreExact

-----------------------------------------------------------------------------

LEMMA BareLeaves ==
    ASSUME NEW m, Formed(m), IsConstant(m)
    PROVE  Leaves(m) = {} /\ MarkerKeys(m) = {}
<1>1. DOMAIN m.leaves = {}
  BY ConstantsAreBare
<1>2. Leaves(m) = {}
  BY <1>1, LeavesAt
<1> QED
  BY <1>2 DEF MarkerKeys

LEMMA SameIsConstant ==
    ASSUME NEW l, NEW b, b \in bounds', wheel' = wheel, SameUpTo(l, b)
    PROVE  ConstantLeaf(l)'
<1>1. PICK holds \in BOOLEAN : \A v \in Pythons : \A s, extra :
        v.release[1] = 3 /\ v.release[2] <= b => (LeafHolds(l, v, s, extra) <=> holds)
  BY DEF SameUpTo
<1>2. \A v \in {u \in Pythons : WithinBounds(u)'} : v.release[1] = 3 /\ v.release[2] <= b
  BY DEF WithinBounds
<1> QED
  BY <1>1, <1>2 DEF ConstantLeaf

(* One pass over the membership tests. *)
LEMMA RewriteStep ==
    ASSUME CallInv, NodeInv, pc \in {"rewrite_in", "rewrite_not_in"},
           NEW negate \in BOOLEAN, NEW b \in UpperBounds, wheel' = wheel,
           node' = IF negate THEN RewritePythonVersionNotIn(node, b)
                   ELSE RewritePythonVersionIn(node, b),
           bounds' = bounds \cup {b}
    PROVE  /\ FromMarker(node', wheel.marker)
           /\ \A l \in Leaves(node') : l \in Leaves(node) \/ IsChain(l)
           /\ \A l \in Leaves(node') : IF negate THEN ~IsPythonVersionNotIn(l)
                                       ELSE ~IsPythonVersionIn(l)
           /\ MarkerKeys(node) \subseteq PermittedKeys => MarkerKeys(node') \subseteq PermittedKeys
           /\ ~IsConstant(node) /\ IsConstant(node') =>
                \E l \in Leaves(wheel.marker) : ConstantLeaf(l)'
<1>1. wheel.marker \in Markers /\ FromMarker(node, wheel.marker) /\ b \in Nat /\ b <= 198
  BY WheelShape, UpperBoundShape DEF CallInv, NodeInv, Converting
<1>2. /\ FromMarker(node', wheel.marker) /\ DOMAIN node'.leaves \subseteq DOMAIN node.leaves
      /\ \A i \in DOMAIN node'.leaves :
            /\ node'.leaves[i] = node.leaves[i] \/ IsChain(node'.leaves[i])
            /\ IF negate THEN ~IsPythonVersionNotIn(node'.leaves[i])
               ELSE ~IsPythonVersionIn(node'.leaves[i])
      /\ ~IsConstant(node) /\ IsConstant(node') =>
            \E i \in DOMAIN wheel.marker.leaves : SameUpTo(wheel.marker.leaves[i], b)
  BY <1>1, RewriteKeeps
<1>3. \A l \in Leaves(node') : /\ l \in Leaves(node) \/ IsChain(l)
                               /\ IF negate THEN ~IsPythonVersionNotIn(l) ELSE ~IsPythonVersionIn(l)
  <2> TAKE l \in Leaves(node')
  <2>1. PICK i \in DOMAIN node'.leaves : l = node'.leaves[i]
    BY LeavesAt
  <2>2. i \in DOMAIN node.leaves /\ node.leaves[i] \in Leaves(node)
    BY <1>2, LeavesAt
  <2> QED
    BY <1>2, <2>1, <2>2
<1>4. ASSUME MarkerKeys(node) \subseteq PermittedKeys
      PROVE  MarkerKeys(node') \subseteq PermittedKeys
  <2> SUFFICES ASSUME NEW l \in Leaves(node'),
                      l.kind \in {"compare", "contains", "chain", "string"}
               PROVE  l.key \in PermittedKeys
    BY DEF MarkerKeys
  <2>1. CASE l \in Leaves(node)
    BY <1>4, <2>1 DEF MarkerKeys
  <2>2. CASE IsChain(l)
    BY <2>2, ChainKind DEF PermittedKeys
  <2> QED
    BY <1>3, <2>1, <2>2
<1>5. ASSUME ~IsConstant(node), IsConstant(node')
      PROVE  \E l \in Leaves(wheel.marker) : ConstantLeaf(l)'
  <2>1. PICK i \in DOMAIN wheel.marker.leaves : SameUpTo(wheel.marker.leaves[i], b)
    BY <1>2, <1>5
  <2>2. PICK l \in Leaves(wheel.marker) : SameUpTo(l, b)
    BY <2>1, LeavesAt
  <2> QED
    BY <2>2, SameIsConstant
<1> QED
  BY <1>2, <1>3, <1>4, <1>5

LEMMA NodeInvInit == Init => NodeInv
  BY DEF Init, NodeInv, Converting, Rewriting

LEMMA NodeInvNext ==
    ASSUME CallInv, NodeInv, [Next]_vars
    PROVE  NodeInv'
<1>0. wheel' = wheel /\ wheel \in Wheels
  BY DEF Next, vars, Call, CallToMatchspec, Begin, ValidateMetadata, CombineRanges, EvaluateMarker,
         ConvertEntry, RewriteIn, RewriteNotIn, FeedFails, Convert, AppendPython, Raise, Finish,
         CallInv
<1>1. ASSUME pc' \in {"idle", "metadata", "range", "evaluate", "python"}
      PROVE  NodeInv'
  BY <1>1 DEF NodeInv, Converting, Rewriting
<1>2. CASE CallToMatchspec
  <2>1. /\ node' = wheel.marker /\ pc' = "entry" /\ api' = "to_matchspec"
    BY <1>2 DEF CallToMatchspec, Begin
  <2>2. /\ wheel.marker \in Markers /\ Formed(wheel.marker) /\ ~IsConstant(wheel.marker)
    BY <1>0, WheelShape, MarkersFormed
  <2>3. FromMarker(node', wheel.marker) /\ ~AlwaysFalse(node')
    BY <2>1, <2>2 DEF FromMarker, IsConstant
  <2> QED
    BY <1>0, <2>1, <2>3 DEF NodeInv, Converting, Rewriting
<1>3. CASE EvaluateMarker
  <2>1. PICK membership \in BOOLEAN :
            LET residual == Evaluate(wheel.marker,
                                     ExactMinor(wheel.requirement, wheel.requires_python),
                                     wheel.subdir, wheel.extra, membership)
                error == ResidualError(residual, wheel.subdir)
            IN  IF error # "ok" THEN Raise(error)
                ELSE /\ node' = residual
                     /\ pc' = IF AlwaysFalse(residual) THEN "python" ELSE "entry"
                     /\ UNCHANGED <<api, wheel, result>>
    BY <1>3 DEF EvaluateMarker
  <2> DEFINE residual == Evaluate(wheel.marker,
                                  ExactMinor(wheel.requirement, wheel.requires_python),
                                  wheel.subdir, wheel.extra, membership)
  <2>2. CASE ResidualError(residual, wheel.subdir) # "ok"
    BY <1>1, <2>1, <2>2 DEF Raise
  <2>3. CASE ResidualError(residual, wheel.subdir) = "ok" /\ AlwaysFalse(residual)
    BY <1>1, <2>1, <2>3
  <2>4. CASE ResidualError(residual, wheel.subdir) = "ok" /\ ~AlwaysFalse(residual)
    <3>1. node' = residual /\ pc' = "entry"
      BY <2>1, <2>4
    <3>2. /\ FromMarker(residual, wheel.marker)
          /\ \A i \in DOMAIN residual.leaves : residual.leaves[i].kind # "extra"
      BY <1>0, EvaluateKeeps DEF Residual
    <3> HIDE DEF residual
    <3>3. \A l \in Leaves(residual) : l.kind # "extra"
      BY <3>2, LeavesAt
    <3>4. MarkerKeys(residual) \subseteq PermittedKeys
      <4>1. CASE IsConstant(residual)
        BY <3>2, <4>1, BareLeaves DEF FromMarker
      <4>2. CASE ~IsConstant(residual)
        BY <2>4, <4>2 DEF ResidualError
      <4> QED
        BY <4>1, <4>2
    <3> QED
      BY <1>0, <2>4, <3>1, <3>2, <3>3, <3>4 DEF NodeInv, Converting, Rewriting
  <2> QED
    BY <2>2, <2>3, <2>4
<1>4. CASE ConvertEntry
  <2>1. SUFFICES ASSUME pc' = "rewrite_in" PROVE NodeInv'
    BY <1>1, <1>4 DEF ConvertEntry, Raise, Finish
  <2>2. /\ pc = "entry" /\ UNCHANGED <<api, node>> /\ ~AlwaysTrue(node)
        /\ \A l \in Leaves(node) : l.kind # "extra"
    BY <1>4, <2>1 DEF ConvertEntry, Raise, Finish
  <2> QED
    BY <1>0, <2>1, <2>2 DEF NodeInv, Converting, Rewriting, IsConstant
<1>5. CASE RewriteIn
  <2>1. /\ pc = "rewrite_in" /\ pc' = "rewrite_not_in" /\ api' = api
        /\ FromMarker(node, wheel.marker) /\ ~IsConstant(node)
        /\ api = "wheel" => MarkerKeys(node) \subseteq PermittedKeys
        /\ \A l \in Leaves(node) : l.kind # "extra"
    BY <1>5 DEF RewriteIn, NodeInv, Converting, Rewriting
  <2>2. CASE \E l \in Leaves(node) : IsPythonVersionIn(l)
    <3>1. PICK b \in UpperBounds : /\ node' = RewritePythonVersionIn(node, b)
                                   /\ bounds' = bounds \cup {b}
      BY <1>5, <2>2 DEF RewriteIn
    <3>2. /\ FromMarker(node', wheel.marker)
          /\ \A l \in Leaves(node') : l \in Leaves(node) \/ IsChain(l)
          /\ \A l \in Leaves(node') : ~IsPythonVersionIn(l)
          /\ MarkerKeys(node) \subseteq PermittedKeys => MarkerKeys(node') \subseteq PermittedKeys
          /\ ~IsConstant(node) /\ IsConstant(node') =>
                \E l \in Leaves(wheel.marker) : ConstantLeaf(l)'
      BY <1>0, <2>1, <3>1, RewriteStep
    <3>3. \A l \in Leaves(node') : l.kind # "extra"
      BY <2>1, <3>2, ChainKind
    <3> QED
      BY <1>0, <2>1, <3>2, <3>3 DEF NodeInv, Converting, Rewriting
  <2>3. CASE ~\E l \in Leaves(node) : IsPythonVersionIn(l)
    <3>1. node' = node
      BY <1>5, <2>3 DEF RewriteIn
    <3> QED
      BY <1>0, <2>1, <2>3, <3>1 DEF NodeInv, Converting, Rewriting
  <2> QED
    BY <2>2, <2>3
<1>6. CASE RewriteNotIn
  <2>1. /\ pc = "rewrite_not_in" /\ pc' = "convert" /\ api' = api
        /\ FromMarker(node, wheel.marker)
        /\ api = "wheel" => MarkerKeys(node) \subseteq PermittedKeys
        /\ \A l \in Leaves(node) : l.kind # "extra" /\ ~IsPythonVersionIn(l)
        /\ IsConstant(node) => \E l \in Leaves(wheel.marker) : ConstantLeaf(l)
    BY <1>6 DEF RewriteNotIn, NodeInv, Converting, Rewriting
  <2>2. CASE \E l \in Leaves(node) : IsPythonVersionNotIn(l)
    <3>0. ~IsConstant(node)
      BY <2>1, <2>2, BareLeaves DEF FromMarker
    <3>1. PICK b \in UpperBounds : /\ node' = RewritePythonVersionNotIn(node, b)
                                   /\ bounds' = bounds \cup {b}
      BY <1>6, <2>2 DEF RewriteNotIn
    <3>2. /\ FromMarker(node', wheel.marker)
          /\ \A l \in Leaves(node') : l \in Leaves(node) \/ IsChain(l)
          /\ \A l \in Leaves(node') : ~IsPythonVersionNotIn(l)
          /\ MarkerKeys(node) \subseteq PermittedKeys => MarkerKeys(node') \subseteq PermittedKeys
          /\ ~IsConstant(node) /\ IsConstant(node') =>
                \E l \in Leaves(wheel.marker) : ConstantLeaf(l)'
      BY <1>0, <2>1, <3>1, RewriteStep
    <3>3. \A l \in Leaves(node') : l.kind # "extra" /\ ~IsPythonVersionIn(l)
      BY <2>1, <3>2, ChainKind
    <3> QED
      BY <1>0, <2>1, <3>0, <3>2, <3>3 DEF NodeInv, Converting, Rewriting
  <2>3. CASE ~\E l \in Leaves(node) : IsPythonVersionNotIn(l)
    <3>1. node' = node /\ bounds' = bounds
      BY <1>6, <2>3 DEF RewriteNotIn
    <3>2. \A l : ConstantLeaf(l)' <=> ConstantLeaf(l)
      BY <1>0, <3>1 DEF ConstantLeaf, WithinBounds
    <3> QED
      BY <1>0, <2>1, <2>3, <3>1, <3>2 DEF NodeInv, Converting, Rewriting
  <2> QED
    BY <2>2, <2>3
<1>7. CASE UNCHANGED vars
  <2>1. \A l : ConstantLeaf(l)' <=> ConstantLeaf(l)
    BY <1>7 DEF ConstantLeaf, WithinBounds, vars
  <2> QED
    BY <1>7, <2>1 DEF NodeInv, Converting, Rewriting, vars
<1>8. CASE Call \/ ValidateMetadata \/ CombineRanges \/ FeedFails \/ Convert \/ AppendPython
  BY <1>1, <1>8 DEF Call, ValidateMetadata, CombineRanges, FeedFails, Convert, AppendPython,
                    Begin, Raise, Finish
<1> QED
  BY <1>2, <1>3, <1>4, <1>5, <1>6, <1>7, <1>8 DEF Next

-----------------------------------------------------------------------------

LEMMA MeansHolds ==
    ASSUME NEW marker \in Markers, NEW v, NEW s
    PROVE  Means(marker, v, s, wheel.extra) <=> Holds(marker, v, s)
<1>1. Formed(marker) /\ \A i \in DOMAIN marker.leaves : marker.leaves[i] \in MarkerLeaves
  BY MarkersFormed DEF MarkerLeaves
<1>2. \A i \in DOMAIN marker.leaves : marker.leaves[i].kind # "chain"
  BY <1>1, LeafShape
<1>3. \A t \in marker.terms : t \subseteq DOMAIN marker.leaves
  BY <1>1 DEF Formed
<1> QED
  BY <1>2, <1>3 DEF Means, Holds, LeafMeans

(* A constant tree is as good a condition. *)
LEMMA BareCondition ==
    ASSUME NEW m, Formed(m), IsConstant(m), NEW v, NEW s, NEW extra
    PROVE  /\ IsCondition(m)
           /\ Applies(m, v, s) <=> Means(m, v, s, extra)
<1>1. IsCondition(m)
  BY BareLeaves DEF IsCondition
<1>2. CASE AlwaysTrue(m)
  BY <1>1, <1>2 DEF AlwaysTrue, Applies, Means
<1>3. CASE AlwaysFalse(m)
  BY <1>1, <1>3 DEF AlwaysFalse, Applies, Means
<1> QED
  BY <1>1, <1>2, <1>3 DEF IsConstant

LEMMA NeverIsCondition == IsCondition(Never)
<1>1. DOMAIN <<>> = {}
  OBVIOUS
<1> QED
  BY <1>1 DEF IsCondition, Never, Leaves, Range

(* What is in question later was before. *)
LEMMA StillInQuestion ==
    ASSUME wheel' = wheel, api' = api, bounds \subseteq bounds', NEW v, NEW s, InQuestion(v, s)'
    PROVE  InQuestion(v, s)
  BY DEF InQuestion, Platforms, WithinBounds

LEMMA MeaningInvInit == Init => MeaningInv
  BY NeverIsCondition DEF Init, MeaningInv, Converting, Pending, Outcome

(* A call that raises has no condition to account for. *)
LEMMA RaiseMeaning ==
    ASSUME NEW error, error # "ok", Raise(error)
    PROVE  MeaningInv'
<1>1. pc' = "idle" /\ result'.error # "ok" /\ result'.condition = Never
  BY DEF Raise, Outcome
<1>2. IsCondition(result'.condition)
  BY <1>1, NeverIsCondition
<1> QED
  BY <1>1, <1>2 DEF MeaningInv, Converting

LEMMA PendingMeaning ==
    ASSUME CallInv, pc # "idle"
    PROVE  IsCondition(result.condition) /\ result.error # "ok"
  BY NeverIsCondition DEF CallInv, Pending, Outcome

(* A call that has its condition hands it on, or returns it. *)
LEMMA FinishMeaning ==
    ASSUME CallInv, pc # "idle", NEW condition, Finish(condition), bounds' = bounds,
           IsCondition(condition),
           \A v \in Pythons, s \in Subdirs : InQuestion(v, s) =>
                (Applies(condition, v, s) <=> Holds(wheel.marker, v, s))
    PROVE  MeaningInv'
<1>1. wheel' = wheel /\ api' = api /\ node' = condition
  BY DEF Finish
<1>2. \A v \in Pythons, s \in Subdirs : InQuestion(v, s)' =>
        (Applies(condition, v, s) <=> Holds(wheel.marker, v, s)')
  <2> TAKE v \in Pythons, s \in Subdirs
  <2> HAVE InQuestion(v, s)'
  <2>1. InQuestion(v, s)
    BY <1>1, StillInQuestion
  <2>2. Holds(wheel.marker, v, s)' <=> Holds(wheel.marker, v, s)
    BY <1>1 DEF Holds
  <2> QED
    BY <2>1, <2>2
<1>3. CASE api = "wheel"
  <2>1. pc' = "python" /\ result' = result
    BY <1>3 DEF Finish
  <2> QED
    BY <1>1, <1>2, <2>1, PendingMeaning DEF MeaningInv, Converting
<1>4. CASE api # "wheel"
  <2>1. pc' = "idle" /\ result'.error = "ok" /\ result'.condition = condition
    BY <1>4 DEF Finish, Outcome
  <2> QED
    BY <1>1, <1>2, <2>1 DEF MeaningInv, Converting
<1> QED
  BY <1>3, <1>4

(* A tree that keeps its meaning on what is still in question. *)
LEMMA TreeMeaning ==
    ASSUME CallInv, MeaningInv, pc \in Converting, pc' \in Converting,
           wheel' = wheel, api' = api, result' = result, bounds \subseteq bounds',
           \A v \in Pythons, s \in Subdirs : InQuestion(v, s)' =>
                (Means(node', v, s, wheel.extra) <=> Means(node, v, s, wheel.extra))
    PROVE  MeaningInv'
<1>1. pc # "idle" /\ pc' # "python"
  BY DEF Converting
<1>2. \A v \in Pythons, s \in Subdirs : InQuestion(v, s)' =>
        (Means(node, v, s, wheel.extra)' <=> Holds(wheel.marker, v, s)')
  <2> TAKE v \in Pythons, s \in Subdirs
  <2> HAVE InQuestion(v, s)'
  <2>1. InQuestion(v, s)
    BY StillInQuestion
  <2>2. Means(node, v, s, wheel.extra) <=> Holds(wheel.marker, v, s)
    BY <2>1 DEF MeaningInv
  <2>3. Holds(wheel.marker, v, s)' <=> Holds(wheel.marker, v, s)
    BY DEF Holds
  <2>4. Means(node, v, s, wheel.extra)' <=> Means(node', v, s, wheel.extra)
    BY DEF Means
  <2> QED
    BY <2>2, <2>3, <2>4
<1>3. IsCondition(result'.condition) /\ result'.error # "ok"
  BY <1>1, PendingMeaning
<1> QED
  BY <1>1, <1>2, <1>3 DEF MeaningInv

LEMMA MeaningInvNext ==
    ASSUME CallInv, NodeInv, MeaningInv, [Next]_vars
    PROVE  MeaningInv'
<1>0. wheel' = wheel /\ wheel \in Wheels /\ wheel.marker \in Markers
  BY WheelShape
     DEF Next, vars, Call, CallToMatchspec, Begin, ValidateMetadata, CombineRanges, EvaluateMarker,
         ConvertEntry, RewriteIn, RewriteNotIn, FeedFails, Convert, AppendPython, Raise, Finish,
         CallInv
<1>1. CASE Call
  <2>1. pc' = "metadata" /\ result' = Pending
    BY <1>1 DEF Call, Begin
  <2>2. result'.error # "ok" /\ IsCondition(result'.condition)
    BY <2>1, NeverIsCondition DEF Pending, Outcome
  <2> QED
    BY <2>1, <2>2 DEF MeaningInv, Converting
<1>2. CASE CallToMatchspec
  <2>1. pc' = "entry" /\ result' = Pending /\ node' = wheel.marker
    BY <1>2 DEF CallToMatchspec, Begin
  <2>2. result'.error # "ok" /\ IsCondition(result'.condition)
    BY <2>1, NeverIsCondition DEF Pending, Outcome
  <2>3. ASSUME NEW v \in Pythons, NEW s \in Subdirs
        PROVE  Means(node, v, s, wheel.extra)' <=> Holds(wheel.marker, v, s)'
    <3>1. Means(wheel.marker, v, s, wheel.extra) <=> Holds(wheel.marker, v, s)
      BY <1>0, MeansHolds
    <3> QED
      BY <1>0, <2>1, <3>1 DEF Means, Holds
  <2> QED
    BY <2>1, <2>2, <2>3 DEF MeaningInv
<1>3. CASE ValidateMetadata \/ CombineRanges
  <2>1. CASE \E error : error # "ok" /\ Raise(error)
    BY <2>1, RaiseMeaning
  <2>2. CASE ~\E error : error # "ok" /\ Raise(error)
    <3>1. pc # "idle" /\ pc' \in {"range", "evaluate"} /\ result' = result
      BY <1>3, <2>2 DEF ValidateMetadata, CombineRanges
    <3> QED
      BY <3>1, PendingMeaning DEF MeaningInv, Converting
  <2> QED
    BY <2>1, <2>2
<1>4. CASE EvaluateMarker
  <2> DEFINE minor == ExactMinor(wheel.requirement, wheel.requires_python)
  <2>1. PICK membership \in BOOLEAN :
            LET residual == Evaluate(wheel.marker, minor, wheel.subdir, wheel.extra, membership)
                error == ResidualError(residual, wheel.subdir)
            IN  IF error # "ok" THEN Raise(error)
                ELSE /\ node' = residual
                     /\ pc' = IF AlwaysFalse(residual) THEN "python" ELSE "entry"
                     /\ UNCHANGED <<api, wheel, result>>
    BY <1>4 DEF EvaluateMarker
  <2>2. pc = "evaluate" /\ bounds' = bounds /\ api = "wheel"
    BY <1>4 DEF EvaluateMarker, CallInv
  <2> DEFINE residual == Evaluate(wheel.marker, minor, wheel.subdir, wheel.extra, membership)
  <2>3. CASE ResidualError(residual, wheel.subdir) # "ok"
    BY <2>1, <2>3, RaiseMeaning
  <2>4. CASE ResidualError(residual, wheel.subdir) = "ok"
    <3>1. /\ node' = residual /\ api' = api /\ result' = result
          /\ pc' = IF AlwaysFalse(residual) THEN "python" ELSE "entry"
      BY <2>1, <2>4
    <3>2. ASSUME NEW v \in Pythons, NEW s \in Subdirs, InQuestion(v, s)
          PROVE  Means(residual, v, s, wheel.extra) <=> Holds(wheel.marker, v, s)
      <4>1. /\ wheel.subdir = Noarch \/ wheel.subdir = s
            /\ IsPrerelease(v) => ~AsksFullVersion(wheel.marker)
            /\ ~FinerThanReleases(wheel)
            /\ MatchesAll(v, PythonMatchSpec(wheel.requirement, wheel.requires_python))
        BY <2>2, <3>2 DEF InQuestion, Platforms
      <4>2. wheel.requires_python.clauses \in SUBSET ClausesOf(SpecifierOperators)
        BY <1>0, WheelShape
      <4>3. \A c \in wheel.requires_python.clauses : c.op = "<" => Len(c.version.release) <= 3
        <5> TAKE c \in wheel.requires_python.clauses
        <5>1. c.op = "<" => ~(Len(c.version.release) > 3)
          BY <4>1 DEF FinerThanReleases
        <5>2. Len(c.version.release) \in 1 .. 4
          BY <4>2, VersionShape DEF ClausesOf
        <5> QED
          BY <5>1, <5>2
      <4>4. minor = NoMinor \/ (v.release[1] = 3 /\ v.release[2] = minor)
        BY <1>0, <4>1, <4>3, ExactMinorFixes
      <4>5. Means(residual, v, s, wheel.extra) <=> Means(wheel.marker, v, s, wheel.extra)
        BY <1>0, <4>1, <4>4, EvaluateMeans
      <4> QED
        BY <1>0, <4>5, MeansHolds
    <3>3. Formed(residual)
      BY <1>0, EvaluateKeeps DEF Residual, FromMarker
    <3>4. IsCondition(result'.condition) /\ result'.error # "ok"
      BY <2>2, <3>1, PendingMeaning
    <3> HIDE DEF residual, minor
    <3>5. ASSUME NEW v \in Pythons, NEW s \in Subdirs, InQuestion(v, s)'
          PROVE  Means(residual, v, s, wheel.extra) <=> Holds(wheel.marker, v, s)'
      <4>1. InQuestion(v, s)
        BY <1>0, <2>2, <3>1, <3>5, StillInQuestion
      <4>2. Holds(wheel.marker, v, s)' <=> Holds(wheel.marker, v, s)
        BY <1>0 DEF Holds
      <4> QED
        BY <3>2, <4>1, <4>2
    <3>6. CASE AlwaysFalse(residual)
      <4>1. pc' = "python"
        BY <3>1, <3>6
      <4>2. IsCondition(node')
        BY <3>1, <3>3, <3>6, BareLeaves DEF IsCondition, IsConstant
      <4>3. ASSUME NEW v \in Pythons, NEW s \in Subdirs, InQuestion(v, s)'
            PROVE  Applies(node, v, s)' <=> Holds(wheel.marker, v, s)'
        <5>1. Applies(residual, v, s) <=> Means(residual, v, s, wheel.extra)
          BY <3>3, <3>6, BareCondition DEF IsConstant
        <5>2. Applies(node, v, s)' <=> Applies(residual, v, s)
          BY <3>1 DEF Applies
        <5> QED
          BY <3>5, <4>3, <5>1, <5>2
      <4> QED
        BY <3>4, <4>1, <4>2, <4>3 DEF MeaningInv, Converting
    <3>7. CASE ~AlwaysFalse(residual)
      <4>1. pc' = "entry"
        BY <3>1, <3>7
      <4>2. ASSUME NEW v \in Pythons, NEW s \in Subdirs, InQuestion(v, s)'
            PROVE  Means(node, v, s, wheel.extra)' <=> Holds(wheel.marker, v, s)'
        <5>1. Means(node, v, s, wheel.extra)' <=> Means(residual, v, s, wheel.extra)
          BY <1>0, <3>1 DEF Means
        <5> QED
          BY <3>5, <4>2, <5>1
      <4> QED
        BY <3>4, <4>1, <4>2 DEF MeaningInv, Converting
    <3> QED
      BY <3>6, <3>7
  <2> QED
    BY <2>3, <2>4
<1>5. CASE ConvertEntry
  <2>1. pc = "entry" /\ bounds' = bounds /\ FromMarker(node, wheel.marker)
    BY <1>5 DEF ConvertEntry, NodeInv, Converting
  <2>2. CASE \E l \in Leaves(node) : l.kind = "extra"
    <3>1. Raise("UnconvertableRequirementError")
      BY <1>5, <2>2 DEF ConvertEntry
    <3> QED
      BY <3>1, RaiseMeaning
  <2>3. CASE (~\E l \in Leaves(node) : l.kind = "extra") /\ AlwaysTrue(node)
    <3>1. Finish(node)
      BY <1>5, <2>3 DEF ConvertEntry
    <3>2. IsCondition(node)
      BY <2>1, <2>3, BareLeaves DEF IsCondition, IsConstant, FromMarker
    <3>3. ASSUME NEW v \in Pythons, NEW s \in Subdirs, InQuestion(v, s)
          PROVE  Applies(node, v, s) <=> Holds(wheel.marker, v, s)
      <4>1. Applies(node, v, s) <=> Means(node, v, s, wheel.extra)
        BY <2>1, <2>3, BareCondition DEF IsConstant, FromMarker
      <4>2. Means(node, v, s, wheel.extra) <=> Holds(wheel.marker, v, s)
        BY <2>1, <3>3 DEF MeaningInv, Converting
      <4> QED
        BY <4>1, <4>2
    <3> QED
      BY <2>1, <3>1, <3>2, <3>3, FinishMeaning
  <2>4. CASE (~\E l \in Leaves(node) : l.kind = "extra") /\ ~AlwaysTrue(node)
    <3>1. pc' = "rewrite_in" /\ UNCHANGED <<api, wheel, node, result>>
      BY <1>5, <2>4 DEF ConvertEntry
    <3> QED
      BY <2>1, <3>1, TreeMeaning DEF Converting
  <2> QED
    BY <2>2, <2>3, <2>4
<1>6. CASE RewriteIn \/ RewriteNotIn
  <2>1. /\ pc \in Converting /\ pc' \in Converting /\ api' = api /\ result' = result
        /\ bounds \subseteq bounds' /\ FromMarker(node, wheel.marker)
    BY <1>6 DEF RewriteIn, RewriteNotIn, Converting, NodeInv
  <2>2. \/ node' = node
        \/ \E negate \in BOOLEAN, b \in UpperBounds :
             /\ node' = IF negate THEN RewritePythonVersionNotIn(node, b)
                        ELSE RewritePythonVersionIn(node, b)
             /\ bounds' = bounds \cup {b}
    BY <1>6 DEF RewriteIn, RewriteNotIn
  <2>3. CASE node' = node
    BY <1>0, <2>1, <2>3, TreeMeaning
  <2>4. ASSUME NEW negate \in BOOLEAN, NEW b \in UpperBounds,
               node' = IF negate THEN RewritePythonVersionNotIn(node, b)
                       ELSE RewritePythonVersionIn(node, b),
               bounds' = bounds \cup {b}
        PROVE  MeaningInv'
    <3>1. b \in Nat /\ b <= 198
      BY <1>0, UpperBoundShape
    <3>2. \A v \in Pythons : \A s, extra : v.release[1] = 3 /\ v.release[2] <= b =>
            (Means(node', v, s, extra) <=> Means(node, v, s, extra))
      BY <1>0, <2>1, <2>4, <3>1, RewriteKeeps
    <3>3. \A v \in Pythons, s \in Subdirs : InQuestion(v, s)' =>
            v.release[1] = 3 /\ v.release[2] <= b
      BY <2>4 DEF InQuestion, WithinBounds
    <3> QED
      BY <1>0, <2>1, <3>2, <3>3, TreeMeaning
  <2> QED
    BY <2>2, <2>3, <2>4
<1>7. CASE FeedFails
  BY <1>7, RaiseMeaning DEF FeedFails
<1>8. CASE Convert
  <2>1. /\ pc = "convert" /\ bounds' = bounds /\ FromMarker(node, wheel.marker)
        /\ \A i \in DOMAIN node.leaves : node.leaves[i].kind # "extra"
    BY <1>8, LeavesAt DEF Convert, NodeInv, Converting, Rewriting
  <2> DEFINE conversion == MarkerCondition(node)
  <2>2. CASE conversion.error # "ok"
    BY <1>8, <2>2, RaiseMeaning DEF Convert
  <2>3. CASE conversion.error = "ok"
    <3>1. Finish(conversion.condition)
      BY <1>8, <2>3 DEF Convert
    <3>2. ~IsConstant(node)
      BY <2>3 DEF MarkerCondition, NeverEqual
    <3>3. /\ IsCondition(conversion.condition)
          /\ \A v \in Pythons, s \in Subdirs : \A extra :
                (IsPrerelease(v) => ~AsksFullVersion(wheel.marker)) =>
                    (Applies(conversion.condition, v, s) <=> Means(node, v, s, extra))
      BY <1>0, <2>1, <2>3, <3>2, ConvertedTree DEF IsCondition
    <3> HIDE DEF conversion
    <3>4. ASSUME NEW v \in Pythons, NEW s \in Subdirs, InQuestion(v, s)
          PROVE  Applies(conversion.condition, v, s) <=> Holds(wheel.marker, v, s)
      <4>1. Means(node, v, s, wheel.extra) <=> Holds(wheel.marker, v, s)
        BY <2>1, <3>4 DEF MeaningInv, Converting
      <4> QED
        BY <3>3, <3>4, <4>1 DEF InQuestion
    <3> QED
      BY <2>1, <3>1, <3>3, <3>4, FinishMeaning
  <2> QED
    BY <2>2, <2>3
<1>9. CASE AppendPython
  <2> DEFINE error == PythonMatchSpecError(wheel.requirement, wheel.requires_python, wheel.allow_pre)
  <2>1. CASE error # "ok"
    BY <1>9, <2>1, RaiseMeaning DEF AppendPython
  <2>2. CASE error = "ok"
    <3>1. /\ pc = "python" /\ pc' = "idle" /\ UNCHANGED <<api, wheel, node, bounds>>
          /\ result'.error = "ok" /\ result'.condition = node
      BY <1>9, <2>2 DEF AppendPython, Outcome
    <3>2. ASSUME NEW v \in Pythons, NEW s \in Subdirs, InQuestion(v, s)'
          PROVE  Applies(result.condition, v, s)' <=> Holds(wheel.marker, v, s)'
      <4>1. InQuestion(v, s)
        BY <3>1, <3>2, StillInQuestion
      <4>2. Applies(node, v, s) <=> Holds(wheel.marker, v, s)
        BY <3>1, <4>1 DEF MeaningInv
      <4> QED
        BY <3>1, <4>2 DEF Applies, Holds
    <3> QED
      BY <3>1, <3>2 DEF MeaningInv, Converting
  <2> QED
    BY <2>1, <2>2
<1>10. CASE UNCHANGED vars
  BY <1>10 DEF MeaningInv, vars, InQuestion, Platforms, WithinBounds, Holds, Converting
<1> QED
  BY <1>1, <1>2, <1>3, <1>4, <1>5, <1>6, <1>7, <1>8, <1>9, <1>10 DEF Next

-----------------------------------------------------------------------------
(* What a call is refused for.                                             *)

Justified(error) ==
    LET leaves == Leaves(wheel.marker)
    IN  /\ error = "UnconvertablePythonVersionEqualityError" => \E l \in leaves : ConstantLeaf(l)
        /\ error = "UnconvertableMarkerError" => \E l \in leaves : l.kind # "extra" /\ ~InTable(l)
        /\ error = "UnconvertableRequirementError" =>
            \/ \E c \in wheel.requires_python.clauses : Unsupported(c, wheel.allow_pre)
            \/ api = "to_matchspec" /\ \E l \in leaves : l.kind = "extra"
        /\ error = "NeedsArchSplitError" =>
            /\ api = "wheel" /\ wheel.subdir = Noarch
            /\ MarkerKeys(wheel.marker) \cap ArchKeys # {}
        /\ error = "NetworkFetchError" =>
            \E l \in leaves : IsPythonVersionIn(l) \/ IsPythonVersionNotIn(l)

(* A call that is refused for what justifies it. *)
LEMMA JustifiedRaise ==
    ASSUME NEW error, Raise(error), bounds' = bounds, wheel' = wheel, Justified(error)
    PROVE  FailureIsJustified'
<1>0. /\ result'.error = error /\ api' = api /\ wheel' = wheel
      /\ \A l : ConstantLeaf(l)' <=> ConstantLeaf(l)
  BY DEF Raise, Outcome, ConstantLeaf, WithinBounds
<1>1. CASE error = "UnconvertablePythonVersionEqualityError"
  BY <1>0, <1>1 DEF FailureIsJustified, Justified
<1>2. CASE error = "UnconvertableMarkerError"
  BY <1>0, <1>2 DEF FailureIsJustified, Justified
<1>3. CASE error = "UnconvertableRequirementError"
  BY <1>0, <1>3 DEF FailureIsJustified, Justified
<1>4. CASE error = "NeedsArchSplitError"
  BY <1>0, <1>4 DEF FailureIsJustified, Justified
<1>5. CASE error = "NetworkFetchError"
  BY <1>0, <1>5 DEF FailureIsJustified, Justified
<1>6. CASE error \notin {"UnconvertablePythonVersionEqualityError", "UnconvertableMarkerError",
                "UnconvertableRequirementError", "NeedsArchSplitError", "NetworkFetchError"}
  BY <1>0, <1>6 DEF FailureIsJustified
<1> QED
  BY <1>1, <1>2, <1>3, <1>4, <1>5, <1>6

(* A residual is refused for a key its marker has.                         *)
LEMMA RefusedResidual ==
    ASSUME NEW w \in Wheels, NEW minor, NEW membership \in BOOLEAN, NEW n,
           n = Evaluate(w.marker, minor, w.subdir, w.extra, membership)
    PROVE  /\ ResidualError(n, w.subdir) = "NeedsArchSplitError" =>
                w.subdir = Noarch /\ MarkerKeys(w.marker) \cap ArchKeys # {}
           /\ ResidualError(n, w.subdir) = "UnconvertableMarkerError" =>
                \E l \in Leaves(w.marker) : l.kind # "extra" /\ ~InTable(l)
<1>0. /\ w.marker \in Markers /\ w.subdir \in Subdirs \cup {Noarch}
      /\ DOMAIN n.leaves \subseteq DOMAIN w.marker.leaves
      /\ \A i \in DOMAIN n.leaves :
            /\ n.leaves[i] = w.marker.leaves[i] /\ n.leaves[i].kind # "extra"
            /\ n.leaves[i].kind = "string" => n.leaves[i].key \notin DOMAIN StringsOf(w.subdir)
  <2>1. Residual(n, w)
    BY EvaluateKeeps
  <2>2. w.marker \in Markers /\ w.subdir \in Subdirs \cup {Noarch}
    BY WheelShape
  <2> QED
    BY <2>1, <2>2 DEF Residual, FromMarker
<1>1. \A l \in Leaves(n) : /\ l \in Leaves(w.marker) /\ l \in MarkerLeaves /\ l.kind # "extra"
                           /\ l.kind = "string" => l.key \notin DOMAIN StringsOf(w.subdir)
  <2> TAKE l \in Leaves(n)
  <2>1. PICK i \in DOMAIN n.leaves : l = n.leaves[i]
    BY LeavesAt
  <2>2. i \in DOMAIN w.marker.leaves /\ l = w.marker.leaves[i]
    BY <1>0, <2>1
  <2>3. l \in MarkerLeaves
    BY <1>0, <2>2, MarkersFormed DEF MarkerLeaves
  <2> QED
    BY <1>0, <2>1, <2>2, <2>3, LeavesAt
<1>2. MarkerKeys(n) \subseteq MarkerKeys(w.marker)
  BY <1>1 DEF MarkerKeys
<1>3. ResidualError(n, w.subdir) = "NeedsArchSplitError" =>
            w.subdir = Noarch /\ MarkerKeys(w.marker) \cap ArchKeys # {}
  BY <1>2 DEF ResidualError
<1>4. ASSUME ResidualError(n, w.subdir) = "UnconvertableMarkerError"
      PROVE  \E l \in Leaves(w.marker) : l.kind # "extra" /\ ~InTable(l)
  <2>1. /\ ~(MarkerKeys(n) \subseteq PermittedKeys)
        /\ w.subdir = Noarch => MarkerKeys(n) \cap ArchKeys = {}
    BY <1>4 DEF ResidualError
  <2>2. PICK l \in Leaves(n) : /\ l.kind \in {"compare", "contains", "chain", "string"}
                               /\ l.key \notin PermittedKeys /\ l.key \in MarkerKeys(n)
    BY <2>1 DEF MarkerKeys
  <2>3. l.kind = "string"
    BY <1>1, <2>2, LeafShape DEF VersionKeys, PermittedKeys
  <2>4. l.key \notin ArchKeys
    BY <1>0, <1>1, <2>1, <2>2, <2>3, PlatformStrings
  <2>5. ~InTable(l)
    BY <2>3, <2>4 DEF InTable, IsPythonVersionIn, IsPythonVersionNotIn
  <2> QED
    BY <1>1, <2>2, <2>5
<1> QED
  BY <1>3, <1>4

(* What a tree still has to be rewritten or converted, its marker has.     *)
LEMMA MarkerHas ==
    ASSUME wheel \in Wheels, FromMarker(node, wheel.marker), NEW l \in Leaves(node)
    PROVE  /\ IsChain(l) \/ (l \in Leaves(wheel.marker) /\ l \in MarkerLeaves)
           /\ l.kind \in {"compare", "contains", "string", "chain", "extra"}
           /\ l.kind \in {"extra", "contains"} => l \in Leaves(wheel.marker)
<1>1. PICK i \in DOMAIN node.leaves : l = node.leaves[i]
  BY LeavesAt
<1>2. wheel.marker \in Markers
  BY WheelShape
<1>3. /\ i \in DOMAIN wheel.marker.leaves
      /\ IsChain(l) \/ (l \in MarkerLeaves /\ l = wheel.marker.leaves[i])
      /\ l.kind \in {"compare", "contains", "string", "chain", "extra"}
  BY <1>1, <1>2, FromMarkerLeaf
<1> QED
  BY <1>3, LeavesAt, ChainKind

LEMMA FailureIsJustifiedInit == Init => FailureIsJustified
  BY DEF Init, FailureIsJustified, Pending, Outcome

LEMMA FailureIsJustifiedNext ==
    ASSUME CallInv, NodeInv, FailureIsJustified, [Next]_vars
    PROVE  FailureIsJustified'
<1>0. wheel' = wheel /\ wheel \in Wheels
  BY DEF Next, vars, Call, CallToMatchspec, Begin, ValidateMetadata, CombineRanges, EvaluateMarker,
         ConvertEntry, RewriteIn, RewriteNotIn, FeedFails, Convert, AppendPython, Raise, Finish,
         CallInv
<1>1. ASSUME result'.error \in {"pending", "ok", "InvalidVersionSpecifierError",
                "InvalidPythonRequirementRangeError", "PythonRangeMismatchError"}
      PROVE  FailureIsJustified'
  BY <1>1 DEF FailureIsJustified
<1>2. ASSUME result' = result, pc # "idle"
      PROVE  FailureIsJustified'
  BY <1>1, <1>2 DEF CallInv, Pending, Outcome
<1>3. ASSUME NEW error, Raise(error), bounds' = bounds, Justified(error)
      PROVE  FailureIsJustified'
  BY <1>0, <1>3, JustifiedRaise
<1>4. CASE Call \/ CallToMatchspec
  BY <1>1, <1>4 DEF Call, CallToMatchspec, Begin, Pending, Outcome
<1>5. CASE ValidateMetadata
  BY <1>1, <1>2, <1>5, RangeErrorKinds DEF ValidateMetadata, Raise, Outcome
<1>6. CASE CombineRanges
  BY <1>1, <1>2, <1>6, RangeErrorKinds DEF CombineRanges, Raise, Outcome
<1>7. CASE EvaluateMarker
  <2>1. PICK membership \in BOOLEAN :
            LET residual == Evaluate(wheel.marker,
                                     ExactMinor(wheel.requirement, wheel.requires_python),
                                     wheel.subdir, wheel.extra, membership)
                error == ResidualError(residual, wheel.subdir)
            IN  IF error # "ok" THEN Raise(error)
                ELSE /\ node' = residual
                     /\ pc' = IF AlwaysFalse(residual) THEN "python" ELSE "entry"
                     /\ UNCHANGED <<api, wheel, result>>
    BY <1>7 DEF EvaluateMarker
  <2> DEFINE residual == Evaluate(wheel.marker,
                                  ExactMinor(wheel.requirement, wheel.requires_python),
                                  wheel.subdir, wheel.extra, membership)
             error == ResidualError(residual, wheel.subdir)
  <2>2. pc = "evaluate" /\ api = "wheel" /\ bounds' = bounds
    BY <1>7 DEF EvaluateMarker, CallInv
  <2>3. CASE error = "ok"
    BY <1>2, <2>1, <2>2, <2>3
  <2>4. CASE error # "ok"
    <3>1. Raise(error)
      BY <2>1, <2>4
    <3>2. error \in {"NeedsArchSplitError", "UnconvertableMarkerError"}
      BY <2>4, ResidualErrorKinds
    <3>3. /\ error = "NeedsArchSplitError" =>
                wheel.subdir = Noarch /\ MarkerKeys(wheel.marker) \cap ArchKeys # {}
          /\ error = "UnconvertableMarkerError" =>
                \E l \in Leaves(wheel.marker) : l.kind # "extra" /\ ~InTable(l)
      BY <1>0, RefusedResidual
    <3> HIDE DEF error, residual
    <3>4. Justified(error)
      BY <2>2, <3>2, <3>3 DEF Justified
    <3> QED
      BY <1>3, <2>2, <3>1, <3>4
  <2> QED
    BY <2>3, <2>4
<1>8. CASE ConvertEntry
  <2>1. pc = "entry" /\ bounds' = bounds
    BY <1>8 DEF ConvertEntry
  <2>2. CASE \E l \in Leaves(node) : l.kind = "extra"
    <3>1. PICK l \in Leaves(node) : l.kind = "extra"
      BY <2>2
    <3>2. FromMarker(node, wheel.marker) /\ api = "to_matchspec"
      BY <2>1, <3>1 DEF NodeInv, CallInv, Converting
    <3>3. l \in Leaves(wheel.marker)
      BY <1>0, <3>1, <3>2, MarkerHas
    <3>4. Justified("UnconvertableRequirementError")
      BY <3>1, <3>2, <3>3 DEF Justified
    <3> QED
      BY <1>3, <1>8, <2>1, <2>2, <3>4 DEF ConvertEntry
  <2>3. CASE ~\E l \in Leaves(node) : l.kind = "extra"
    <3>1. result' = result \/ result'.error = "ok"
      BY <1>8, <2>3 DEF ConvertEntry, Finish, Outcome
    <3> QED
      BY <1>1, <1>2, <2>1, <3>1
  <2> QED
    BY <2>2, <2>3
<1>9. CASE RewriteIn \/ RewriteNotIn
  BY <1>2, <1>9 DEF RewriteIn, RewriteNotIn
<1>10. CASE FeedFails
  <2>1. PICK l \in Leaves(node) : IsPythonVersionIn(l) \/ IsPythonVersionNotIn(l)
    BY <1>10 DEF FeedFails
  <2>2. FromMarker(node, wheel.marker)
    BY <1>10 DEF FeedFails, NodeInv, Converting
  <2>3. l \in Leaves(wheel.marker)
    BY <1>0, <2>1, <2>2, MarkerHas DEF IsPythonVersionIn, IsPythonVersionNotIn
  <2>4. Justified("NetworkFetchError")
    BY <2>1, <2>3 DEF Justified
  <2> QED
    BY <1>3, <1>10, <2>4 DEF FeedFails
<1>11. CASE Convert
  <2> DEFINE conversion == MarkerCondition(node)
  <2>1. /\ pc = "convert" /\ bounds' = bounds /\ FromMarker(node, wheel.marker)
        /\ \A l \in Leaves(node) : /\ l.kind # "extra"
                                   /\ ~IsPythonVersionIn(l) /\ ~IsPythonVersionNotIn(l)
        /\ IsConstant(node) => \E l \in Leaves(wheel.marker) : ConstantLeaf(l)
        /\ wheel.marker \in Markers
    BY <1>0, <1>11, WheelShape DEF Convert, NodeInv, Converting, Rewriting
  <2>2. CASE conversion.error = "ok"
    <3>1. result' = result \/ result'.error = "ok"
      BY <1>11, <2>2 DEF Convert, Finish, Outcome
    <3> QED
      BY <1>1, <1>2, <2>1, <3>1
  <2>3. CASE conversion.error # "ok"
    <3>1. Raise(conversion.error)
      BY <1>11, <2>3 DEF Convert
    <3>2. CASE IsConstant(node)
      <4>1. conversion.error = "UnconvertablePythonVersionEqualityError"
        BY <3>2 DEF MarkerCondition, NeverEqual
      <4>2. Justified("UnconvertablePythonVersionEqualityError")
        BY <2>1, <3>2 DEF Justified
      <4> QED
        BY <1>3, <2>1, <3>1, <4>1, <4>2
    <3>3. CASE ~IsConstant(node)
      <4>1. \A i \in DOMAIN node.leaves :
                /\ node.leaves[i].kind # "extra" /\ ~IsPythonVersionIn(node.leaves[i])
                /\ ~IsPythonVersionNotIn(node.leaves[i])
        BY <2>1, LeavesAt
      <4>2. \E i \in DOMAIN node.leaves : LET l == node.leaves[i]
            IN  /\ l \in Leaves(wheel.marker) /\ l.kind # "extra"
                /\ \/ /\ conversion.error = "UnconvertableMarkerError"
                      /\ InTable(l) => IsPythonVersionIn(l) \/ IsPythonVersionNotIn(l)
                   \/ /\ conversion.error = "UnconvertablePythonVersionEqualityError"
                      /\ \A v \in Pythons : \A s, extra : LeafHolds(l, v, s, extra) <=> l.op = "!="
        BY <2>1, <2>3, <3>3, <4>1, RefusedTree
      <4> HIDE DEF conversion
      <4>3. PICK l \in Leaves(wheel.marker) :
                /\ l.kind # "extra"
                /\ \/ conversion.error = "UnconvertableMarkerError" /\ ~InTable(l)
                   \/ /\ conversion.error = "UnconvertablePythonVersionEqualityError"
                      /\ \A v \in Pythons : \A s, extra : LeafHolds(l, v, s, extra) <=> l.op = "!="
        BY <4>1, <4>2
      <4>4. CASE conversion.error = "UnconvertableMarkerError" /\ ~InTable(l)
        <5>1. Justified("UnconvertableMarkerError")
          BY <4>3, <4>4 DEF Justified
        <5> QED
          BY <1>3, <2>1, <3>1, <4>4, <5>1
      <4>5. CASE /\ conversion.error = "UnconvertablePythonVersionEqualityError"
                 /\ \A v \in Pythons : \A s, extra : LeafHolds(l, v, s, extra) <=> l.op = "!="
        <5>1. ConstantLeaf(l)
          BY <4>5 DEF ConstantLeaf
        <5>2. Justified("UnconvertablePythonVersionEqualityError")
          BY <4>3, <5>1 DEF Justified
        <5> QED
          BY <1>3, <2>1, <3>1, <4>5, <5>2
      <4> QED
        BY <4>3, <4>4, <4>5
    <3> QED
      BY <3>2, <3>3
  <2> QED
    BY <2>2, <2>3
<1>12. CASE AppendPython
  <2> DEFINE error == PythonMatchSpecError(wheel.requirement, wheel.requires_python, wheel.allow_pre)
  <2>1. pc = "python" /\ bounds' = bounds
    BY <1>12 DEF AppendPython
  <2>2. CASE error = "ok"
    BY <1>1, <1>12, <2>2 DEF AppendPython, Outcome
  <2>3. CASE error # "ok"
    <3>1. Raise(error)
      BY <1>12, <2>3 DEF AppendPython
    <3>2. /\ error = "UnconvertableRequirementError"
          /\ \E c \in wheel.requires_python.clauses : Unsupported(c, wheel.allow_pre)
      BY <1>0, <2>3, UnsupportedFromClauses DEF PythonMatchSpecError
    <3> HIDE DEF error
    <3>3. Justified(error)
      BY <3>2 DEF Justified
    <3> QED
      BY <1>3, <2>1, <3>1, <3>3
  <2> QED
    BY <2>2, <2>3
<1>13. CASE UNCHANGED vars
  BY <1>13 DEF vars, FailureIsJustified, ConstantLeaf, WithinBounds
<1> QED
  BY <1>4, <1>5, <1>6, <1>7, <1>8, <1>9, <1>10, <1>11, <1>12, <1>13 DEF Next

-----------------------------------------------------------------------------
(* The inductive invariant, and what it implies.                           *)

LEMMA IInvInit == Init => IInv
<1> SUFFICES ASSUME Init PROVE IInv
  OBVIOUS
<1>1. CallInv /\ NodeInv /\ RangeInv
  BY CallInvInit, NodeInvInit, RangeInvInit
<1>2. MeaningInv /\ FailureIsJustified
  BY MeaningInvInit, FailureIsJustifiedInit
<1> QED
  BY <1>1, <1>2 DEF IInv

LEMMA IInvNext == IInv /\ [Next]_vars => IInv'
<1> SUFFICES ASSUME IInv, [Next]_vars PROVE IInv'
  OBVIOUS
<1>0. CallInv /\ NodeInv /\ RangeInv /\ MeaningInv /\ FailureIsJustified
  BY DEF IInv
<1>1. CallInv'
  BY <1>0, CallInvNext
<1>2. NodeInv'
  BY <1>0, NodeInvNext
<1>3. RangeInv'
  BY <1>0, RangeInvNext
<1>4. MeaningInv'
  BY <1>0, MeaningInvNext
<1>5. FailureIsJustified'
  BY <1>0, FailureIsJustifiedNext
<1> QED
  BY <1>1, <1>2, <1>3, <1>4, <1>5 DEF IInv

LEMMA IInvTypeOK == IInv => TypeOK
<1> SUFFICES ASSUME IInv PROVE TypeOK
  OBVIOUS
<1>1. CallInv /\ NodeInv /\ MeaningInv
  BY DEF IInv
<1>2. /\ pc \in Steps /\ api \in {"wheel", "to_matchspec"} /\ bounds \subseteq UpperBounds
      /\ result.error \in Errors
  BY <1>1 DEF CallInv
<1>3. ASSUME pc \in Rewriting
      PROVE  /\ \A l \in Leaves(node) : l.kind \in {"compare", "contains", "chain", "string"}
             /\ api = "wheel" => MarkerKeys(node) \subseteq PermittedKeys
  <2>1. /\ wheel \in Wheels /\ FromMarker(node, wheel.marker)
        /\ \A l \in Leaves(node) : l.kind # "extra"
        /\ api = "wheel" => MarkerKeys(node) \subseteq PermittedKeys
    BY <1>1, <1>3 DEF CallInv, NodeInv, Converting, Rewriting
  <2>2. \A l \in Leaves(node) : l.kind \in {"compare", "contains", "string", "chain", "extra"}
    BY <2>1, MarkerHas
  <2> QED
    BY <2>1, <2>2
<1>4. \A l \in Leaves(result.condition) : l.kind \in {"clauses", "virtual"}
  BY <1>1 DEF MeaningInv, IsCondition
<1> QED
  BY <1>2, <1>3, <1>4 DEF TypeOK, Rewriting

LEMMA IInvCondition == IInv => ConditionMeansTheMarker
<1> SUFFICES ASSUME IInv, Returned, api = "wheel" => ~FinerThanReleases(wheel),
                    NEW v \in Admitted, NEW subdir \in Platforms, WithinBounds(v),
                    IsPrerelease(v) => ~AsksFullVersion(wheel.marker)
             PROVE  Applies(result.condition, v, subdir) <=> Holds(wheel.marker, v, subdir)
  BY DEF ConditionMeansTheMarker
<1>1. CallInv /\ RangeInv /\ MeaningInv /\ result.error = "ok"
  BY DEF IInv, Returned
<1>2. v \in Pythons /\ MatchesAll(v, result.python)
  BY DEF Admitted
<1>3. subdir \in Subdirs
  <2>1. wheel.subdir \in Subdirs \cup {Noarch}
    BY <1>1, WheelShape DEF CallInv
  <2> QED
    BY <2>1 DEF Platforms
<1>4. api = "wheel" => MatchesAll(v, PythonMatchSpec(wheel.requirement, wheel.requires_python))
  BY <1>1, <1>2 DEF RangeInv
<1>5. InQuestion(v, subdir)
  BY <1>4 DEF InQuestion
<1> QED
  BY <1>1, <1>2, <1>3, <1>5 DEF MeaningInv

THEOREM Inductive == Spec => []IInv
<1>1. Init => IInv
  BY IInvInit
<1>2. IInv /\ [Next]_vars => IInv'
  BY IInvNext
<1> QED
  BY <1>1, <1>2, PTL DEF Spec

(* Every variable stays in its set, no extra is left in a marker that is   *)
(* rewritten, and a stored condition is made of clauses and virtual        *)
(* packages only, whatever wheels are offered.                             *)
THEOREM TypeCorrect == Spec => []TypeOK
  BY Inductive, IInvTypeOK, PTL

(* Nothing is lost between the marker of a Requires-Dist entry and the     *)
(* condition of the MatchSpec, for every wheel, every upper bound the feed *)
(* may name and every Python.                                              *)
THEOREM MarkerKeepsItsMeaning == Spec => []ConditionMeansTheMarker
  BY Inductive, IInvCondition, PTL

(* The record's python dependency admits exactly what the filename and     *)
(* Requires-Python together do.                                            *)
THEOREM PythonSpecKeepsItsMeaning == Spec => []PythonSpecMeansTheWheel
<1>1. IInv => PythonSpecMeansTheWheel
  BY RangeInvPythonSpec DEF IInv
<1> QED
  BY <1>1, Inductive, PTL

(* Requires-Python is refused, and found to contradict the filename, only  *)
(* where it should be, however few releases are probed.                    *)
THEOREM RangesAreRefusedExactly == Spec => []RangeErrorsAreExact
<1>1. IInv => RangeErrorsAreExact
  BY RangeInvErrors DEF IInv
<1> QED
  BY <1>1, Inductive, PTL

(* No entry is refused but for what the documents say cannot be converted. *)
THEOREM EveryFailureIsJustified == Spec => []FailureIsJustified
<1>1. IInv => FailureIsJustified
  BY DEF IInv
<1> QED
  BY <1>1, Inductive, PTL
=============================================================================
