----------------------------- MODULE MCNameMapping -----------------------------
(* NameMapping for the project "p", on every small set of relations drawn    *)
(* from those that agree, disagree, say nothing, vendor "p" and are its own. *)
EXTENDS NameMapping

(* Packages 1 and 2 are spelled like p, package 3 like q. *)
MCNameAxis(conda, pypi) ==
    CASE conda \in {1, 2} /\ pypi = "p" -> "same"
      [] conda = 3 /\ pypi = "q" -> "same"
      [] conda = 3 /\ pypi = "p" -> "near"
      [] OTHER -> "unrelated"

Relation(conda, release, pypi, version, mismatch) ==
    [conda |-> conda, release |-> release, pypi |-> pypi, version |-> version,
     filename_mismatch |-> mismatch]

Relations ==
    {Relation(1, 1, "p", 1, FALSE), Relation(1, 2, "p", 1, FALSE), Relation(1, 2, "p", 3, FALSE),
     Relation(1, 2, "p", 2, FALSE), Relation(2, 1, "p", 1, FALSE), Relation(2, 1, "p", 1, TRUE),
     Relation(2, 2, "p", 0, FALSE), Relation(3, 5, "p", 1, FALSE), Relation(3, 5, "q", 5, FALSE),
     Relation(1, 2, "q", 2, FALSE)}

(* "p" and "p_" are spellings of p. *)
MCCanonical(spelling) == IF spelling = "p_" THEN "p" ELSE spelling

Row(pypi, conda, import, static) ==
    [pypi |-> pypi, conda |-> conda, import |-> import, static |-> static]

(* Import "i" belongs to package 1 alone, "j" to packages 2 and 3. *)
MCRanked == [i |-> {1}, j |-> {2, 3}]
Sources(rows, other_raw) ==
    [mapping |-> rows, ranked |-> MCRanked,
     raw |-> other_raw \cup {[pypi |-> r.pypi, conda |-> r.conda] : r \in Range(rows)}]
Raw(pypi, conda) == [pypi |-> pypi, conda |-> conda]

CondaLockSources ==
    {Sources(<<Row("q", 3, "j", FALSE)>>, {}),
     Sources(<<Row("p", 1, "i", TRUE), Row("q", 3, "j", FALSE)>>, {Raw("p_", 2)}),
     Sources(<<Row("p", 1, "i", FALSE)>>, {Raw("p_", 1), Raw("q", 2)}),
     Sources(<<Row("p_", 1, "i", FALSE)>>, {Raw("p", 2)}),
     Sources(<<Row("p", 2, "j", FALSE)>>, {}),
     Sources(<<Row("p", 1, "i", TRUE), Row("p_", 3, "j", FALSE)>>, {}),
     Sources(<<Row("p_", 2, "j", FALSE), Row("p", 1, "k", FALSE)>>, {})}

FewRelations == {R \in SUBSET Relations : Cardinality(R) <= 4}

DefaultTables ==
    [relations : FewRelations, grayskull : {NoEntry, 2}, conda_lock : CondaLockSources,
     overrides : {NoEntry, 3}, custom : {<<>>}]
CustomTables ==
    [relations : {R \in FewRelations : Cardinality(R) <= 2}, grayskull : {NoEntry},
     conda_lock : CondaLockSources, overrides : {NoEntry}, custom : {<<2, 2>>, <<2, 1>>}]

MCTables == DefaultTables \cup CustomTables

DefaultMappers ==
    <<"grayskull_config", "conda_forge_bot_graph", "overrides_mapper", "parselmouth_relations",
      "aggregator_mapper", "passthrough_mapper">>
MCChains ==
    {DefaultMappers,
     <<"conda_forge_bot_graph", "custom", "parselmouth_relations", "aggregator_mapper">>,
     <<"parselmouth_relations", "aggregator_mapper", "passthrough_mapper", "overrides_mapper">>,
     <<>>}
=============================================================================
