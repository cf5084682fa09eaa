------------------------------ MODULE NameMapping ------------------------------
(***************************************************************************)
(* map_name: one PyPI name is resolved by a chain of mappers, each of      *)
(* which commits to a conda name or hands the candidates on.               *)
(*                                                                         *)
(* Conda names are numbered in their lexicographic order.                  *)
(*                                                                         *)
(* A definition introduced by "Bug:" is no part of the specification: it   *)
(* is a plausible mistake in the definition after it, used to confirm that *)
(* the properties would notice.                                            *)
(***************************************************************************)
EXTENDS ParselmouthEvidence, CondaLockTable, FiniteSetsExt, SequencesExt

CONSTANTS
    Name,        \* the PyPI name looked up
    CondaName,   \* conda names, as naturals
    Tables,      \* the tables the mappers may have been built from
    Chains       \* the chains of mappers callers use

NoEntry == 0
ASSUME NameAssumption == CondaName \subseteq Nat \ {NoEntry}
ASSUME AxisAssumption ==
    \A conda \in CondaName : NameAxis(conda, Name) \in {"same", "near", "subpackage", "unrelated"}

(* A package in the table provides the import it is listed with, and its   *)
(* row was there before rows were collapsed: conda_lock_mapper's docstrings *)
(* say so of the bot's files.  A human's rows need not be consistent.      *)
BotTables(source) ==
    /\ IsFiniteSet(source.raw)
    /\ \A i \in DOMAIN source.ranked : IsFiniteSet(source.ranked[i])
    /\ DOMAIN source.mapping = 1 .. Len(source.mapping)
    /\ Len(source.mapping) \in Nat
    /\ \A i \in DOMAIN source.mapping :
        LET row == source.mapping[i] IN
        /\ row.conda \in CondaName /\ row.static \in BOOLEAN
        /\ ~row.static =>
            /\ [pypi |-> row.pypi, conda |-> row.conda] \in source.raw
            /\ row.import \in DOMAIN source.ranked => row.conda \in source.ranked[row.import]

ASSUME TableAssumption ==
    \A t \in Tables :
        /\ IsFiniteSet(t.relations)
        /\ \A r \in t.relations : r.conda \in CondaName
        /\ t.grayskull \in CondaName \cup {NoEntry}
        /\ t.overrides \in CondaName \cup {NoEntry}
        /\ t.custom \in Seq(CondaName)
        /\ BotTables(t.conda_lock)

MapperNames ==
    {"grayskull_config", "conda_forge_bot_graph", "overrides_mapper", "parselmouth_relations",
     "custom", "aggregator_mapper", "passthrough_mapper"}
ASSUME ChainAssumption == Chains \subseteq Seq(MapperNames)

VARIABLES
    pc,           \* "build", "ask" or "done"
    tables,       \* what the mappers are built from
    chain,        \* mappers
    mapping,      \* pypi_conda_mapping
    position,     \* the mapper to be asked next
    candidates,   \* what the mappers before it handed on
    outcome       \* what map_name returned or raised

vars == <<pc, tables, chain, mapping, position, candidates, outcome>>

-----------------------------------------------------------------------------

Candidate(conda, probability, source, mapper) ==
    [conda |-> conda, probability |-> probability, source |-> source, mapper |-> mapper]

Candidates ==
    [conda : CondaName, probability : 0 .. Certain,
     source : {"grayskull", "conda-lock", "parselmouth", "other"}, mapper : MapperNames]

Pending == [kind |-> "pending"]

Init ==
    /\ pc = "build"
    /\ tables \in Tables
    /\ chain \in Chains
    /\ mapping = {}
    /\ position = 1
    /\ candidates = <<>>
    /\ outcome = Pending

(* _refresh_pypi_conda_mapping, the end of write_relations. *)
WriteRelations ==
    /\ pc = "build"
    /\ pc' = "ask"
    /\ mapping' = LET claims == Claims(tables.relations) IN
            {[pypi |-> k.pypi, conda |-> k.conda, evidence |-> Evidence(claims, k.pypi, k.conda)] :
                k \in claims}
    /\ UNCHANGED <<tables, chain, position, candidates, outcome>>

(* A file of grayskull's or conda-lock's cannot be fetched, read or parsed, *)
(* so the chain is not built at all.                                       *)
LoadFails ==
    /\ pc = "build"
    /\ \E i \in DOMAIN chain : chain[i] \in {"grayskull_config", "conda_forge_bot_graph"}
    /\ pc' = "done"
    /\ outcome' = [kind |-> "ConfigLoadError"]
    /\ UNCHANGED <<tables, chain, mapping, position, candidates>>

Turn(mapper) == pc = "ask" /\ position <= Len(chain) /\ chain[position] = mapper

(* Bug: the mapper that has answered is asked again. *)
DeferAskingAgain(handed_on) ==
    /\ candidates' = handed_on
    /\ UNCHANGED <<pc, position, outcome>>

(* A mapper returns candidates. *)
Defer(handed_on) ==
    /\ candidates' = handed_on
    /\ position' = position + 1
    /\ UNCHANGED <<pc, outcome>>

(* A mapper returns a Winner. *)
Commit(candidate) ==
    /\ pc' = "done"
    /\ outcome' = [kind |-> "winner", winner |-> candidate]
    /\ UNCHANGED <<position, candidates>>

AskGrayskull ==
    /\ Turn("grayskull_config")
    /\ Defer(IF tables.grayskull = NoEntry THEN candidates
             ELSE Append(candidates, Candidate(tables.grayskull, Certain, "grayskull",
                                               "grayskull_config")))
    /\ UNCHANGED <<tables, chain, mapping>>

(* candidate_mapper, over the table that build_candidates makes. *)
AskCondaLock ==
    /\ Turn("conda_forge_bot_graph")
    /\ LET source == tables.conda_lock
           row == SurvivingRow(source, Name)
       IN  Defer(IF RowsOf(source, Name) = {} THEN candidates
                 ELSE Append(candidates, Candidate(row.conda, RowProbability(source, row),
                                                   "conda-lock", "conda_forge_bot_graph")))
    /\ UNCHANGED <<tables, chain, mapping>>

(* Bug: an override is one more opinion. *)
AskOverridesDeferring ==
    /\ Turn("overrides_mapper")
    /\ Defer(IF tables.overrides = NoEntry THEN candidates
             ELSE Append(candidates, Candidate(tables.overrides, Certain, "other",
                                               "overrides_mapper")))
    /\ UNCHANGED <<tables, chain, mapping>>

(* static_mapper: an override is final. *)
AskOverrides ==
    /\ Turn("overrides_mapper")
    /\ IF tables.overrides = NoEntry
       THEN Defer(candidates)
       ELSE Commit(Candidate(tables.overrides, Certain, "other", "overrides_mapper"))
    /\ UNCHANGED <<tables, chain, mapping>>

(* One candidate per row; the query asks for no particular order. *)
AskParselmouth ==
    /\ Turn("parselmouth_relations")
    /\ \E rows \in SetToSeqs({row \in mapping : row.pypi = Name}) :
        Defer(candidates \o
              [i \in DOMAIN rows |-> Candidate(rows[i].conda, ScoreEvidence(rows[i].evidence),
                                               "parselmouth", "parselmouth_relations")])
    /\ UNCHANGED <<tables, chain, mapping>>

(* A mapper of the caller's own, as map_name's contract allows it. *)
AskCustom ==
    /\ Turn("custom")
    /\ Defer(candidates \o
             [i \in DOMAIN tables.custom |->
                Candidate(tables.custom[i], 5000, "other", "custom")])
    /\ UNCHANGED <<tables, chain, mapping>>

-----------------------------------------------------------------------------

Proposals(conda) == {i \in DOMAIN candidates : candidates[i].conda = conda}
Backers(conda) == {candidates[i].mapper : i \in Proposals(conda)}
Proposed == {candidates[i].conda : i \in DOMAIN candidates}
Mappers == {candidates[i].mapper : i \in DOMAIN candidates}

TotalProbability(conda) ==
    LET probability(i) == candidates[i].probability IN MapThenSumSet(probability, Proposals(conda))

(* Bug: a mapper that proposes a name twice has two votes. *)
ContestedByCandidates == {c \in Proposed : Cardinality(Proposals(c)) >= 2}

Contested == {c \in Proposed : Cardinality(Backers(c)) >= 2}

(* The key of _vote_winner's min, compared from its front. *)
Outvotes(c, d) ==
    \/ Cardinality(Backers(c)) > Cardinality(Backers(d))
    \/ /\ Cardinality(Backers(c)) = Cardinality(Backers(d))
       /\ \/ TotalProbability(c) > TotalProbability(d)
          \/ TotalProbability(c) = TotalProbability(d) /\ c <= d

VoteWinner ==
    Candidate(CHOOSE c \in Contested : \A d \in Contested : Outvotes(c, d),
              Certain, "consensus", "aggregator_mapper")

(* 0 when there is none. *)
FirstFrom(source, probability) ==
    SelectInSeq(candidates,
                LAMBDA c : c.source = source /\ c.probability >= probability)

(* max keeps the first of equals. *)
Best ==
    candidates[Min({i \in DOMAIN candidates :
        \A j \in DOMAIN candidates : candidates[j].probability <= candidates[i].probability})]

Confident == 9000

(* Bug: parselmouth's first candidate is taken as if it were its only one. *)
SoleOpinionOfFirst ==
    IF candidates[1].source = "parselmouth" THEN Commit(candidates[1])
    ELSE IF Best.probability >= Confident THEN Commit(Best)
    ELSE Defer(candidates)

(* The only mapper with an opinion may decide on its own. *)
SoleOpinion ==
    IF \/ Len(candidates) = 1 /\ candidates[1].source = "parselmouth"
       \/ Best.probability >= Confident
    THEN Commit(Best)
    ELSE Defer(candidates)

AskAggregator ==
    /\ Turn("aggregator_mapper")
    /\ LET grayskull == FirstFrom("grayskull", 0)
           static == FirstFrom("conda-lock", Certain)
       IN  IF candidates = <<>> THEN Defer(candidates)
           ELSE IF grayskull # 0 THEN Commit(candidates[grayskull])
           ELSE IF static # 0 THEN Commit(candidates[static])
           ELSE IF Contested # {} THEN Commit(VoteWinner)
           ELSE IF Cardinality(Mappers) = 1 THEN SoleOpinion
           ELSE Defer(candidates)
    /\ UNCHANGED <<tables, chain, mapping>>

(* Bug: the fallback answers whenever nobody committed. *)
AskPassthroughAlways ==
    /\ Turn("passthrough_mapper")
    /\ Commit(Candidate(NoEntry, 0, "passthrough", "passthrough_mapper"))
    /\ UNCHANGED <<tables, chain, mapping>>

(* The name itself, which NoEntry stands for, if nobody has an opinion. *)
AskPassthrough ==
    /\ Turn("passthrough_mapper")
    /\ IF candidates = <<>>
       THEN Commit(Candidate(NoEntry, 0, "passthrough", "passthrough_mapper"))
       ELSE Defer(candidates)
    /\ UNCHANGED <<tables, chain, mapping>>

(* No mapper, or none that commits. *)
GiveUp ==
    /\ pc = "ask"
    /\ position > Len(chain)
    /\ pc' = "done"
    /\ outcome' = [kind |-> IF chain = <<>> THEN "ValueError" ELSE "UnresolvedCondaNameError"]
    /\ UNCHANGED <<tables, chain, mapping, position, candidates>>

(* The chain is asked again, for the next requirement of the same name, or *)
(* built again if it could not be.                                         *)
Again ==
    /\ pc = "done"
    /\ pc' = IF outcome.kind = "ConfigLoadError" THEN "build" ELSE "ask"
    /\ position' = 1
    /\ candidates' = <<>>
    /\ outcome' = Pending
    /\ UNCHANGED <<tables, chain, mapping>>

Next ==
    \/ WriteRelations \/ LoadFails
    \/ AskGrayskull \/ AskCondaLock \/ AskOverrides \/ AskParselmouth \/ AskCustom
    \/ AskAggregator \/ AskPassthrough
    \/ GiveUp \/ Again

Spec == Init /\ [][Next]_vars

-----------------------------------------------------------------------------

(* Every variable stays in its set, and what has been handed on comes from *)
(* mappers already asked.                                                  *)
TypeOK ==
    /\ pc \in {"build", "ask", "done"}
    /\ position \in 1 .. Len(chain) + 1
    /\ candidates \in Seq(Candidates)
    /\ \A i \in DOMAIN candidates : \E j \in 1 .. position - 1 : chain[j] = candidates[i].mapper
    /\ outcome = Pending <=> pc # "done"

(* What a new claim does to the evidence: one that corroborates a pair     *)
(* never makes it less probable, whatever it says of other releases, and   *)
(* one for another PyPI name never makes it more probable.                 *)
EvidenceIsMonotone ==
    pc = "ask" /\ position = 1 =>
        LET claims == Claims(tables.relations) IN
        \A k \in claims : \A conda \in Opinions(claims \ {k}, Name) :
            LET with == Score(claims, Name, conda)
                without == Score(claims \ {k}, Name, conda)
            IN  /\ k.pypi = Name /\ k.conda = conda /\ VersionState(k) = "agrees" => with >= without
                /\ k.pypi # Name => with <= without

Won == outcome # Pending /\ outcome.kind = "winner"
Asked(mapper) == \E i \in DOMAIN chain : chain[i] = mapper

AskedBeforeDeciding(mapper) ==
    \E i \in DOMAIN chain :
        /\ chain[i] = mapper
        /\ \A j \in 1 .. i : chain[j] \notin {"aggregator_mapper", "passthrough_mapper"}

(* overrides_mapper's docstring: a hit in the hand-maintained table ends   *)
(* the chain. In every chain that asks it before it decides, nothing that  *)
(* the mappers before it or after it say wins over the table.              *)
OverridesDecide ==
    Won /\ AskedBeforeDeciding("overrides_mapper") /\ tables.overrides # NoEntry =>
        outcome.winner.conda = tables.overrides

HasOpinion(mapper) ==
    CASE mapper = "grayskull_config" -> tables.grayskull # NoEntry
      [] mapper = "conda_forge_bot_graph" -> RowsOf(tables.conda_lock, Name) # {}
      [] mapper = "overrides_mapper" -> tables.overrides # NoEntry
      [] mapper = "parselmouth_relations" -> Opinions(Claims(tables.relations), Name) # {}
      [] mapper = "custom" -> tables.custom # <<>>
      [] OTHER -> FALSE

(* docs/pypi_conda_mapping.md: candidates are never picked automatically.  *)
(* The PyPI name itself is used only if no table that comes before the     *)
(* fallback knows the name, and a chain with a fallback fails only if some *)
(* table does.                                                             *)
AmbiguityIsReported ==
    /\ Won /\ outcome.winner.source = "passthrough" =>
            \E i \in DOMAIN chain :
                /\ chain[i] = "passthrough_mapper"
                /\ \A j \in 1 .. i : ~HasOpinion(chain[j])
    /\ outcome = [kind |-> "UnresolvedCondaNameError"] /\ Asked("passthrough_mapper") =>
            \E i \in DOMAIN chain : HasOpinion(chain[i])

Authoritative(winner) ==
    \/ winner.source \in {"grayskull", "passthrough"}
    \/ winner.mapper = "overrides_mapper"
    \/ winner.source = "conda-lock" /\ winner.probability = Certain

(* A name that no curated table decides is never one that fewer mappers    *)
(* back than some other name, nor one mapper's word against another's.     *)
BestBacked ==
    Won /\ ~Authoritative(outcome.winner) =>
        LET backers == Backers(outcome.winner.conda) IN
        /\ \A c \in Proposed : Cardinality(Backers(c)) <= Cardinality(backers)
        /\ Cardinality(backers) = 1 => Mappers = backers

(* The bot's table decides alone only where nothing in its sources speaks  *)
(* against the row: a human wrote it, or every row that any spelling of    *)
(* the name had before rows were collapsed names this package, and no      *)
(* other package provides its import.                                      *)
CondaLockAloneIsUncontested ==
    Won /\ outcome.winner.source = "conda-lock" =>
        LET source == tables.conda_lock
            conda == outcome.winner.conda
            rows == {source.mapping[i] : i \in RowsOf(source, Name)}
        IN  \E row \in rows :
                /\ row.conda = conda
                /\ \/ row.static
                   \/ /\ CondaNamesOf(source, Name) = {conda}
                      /\ row.import \in DOMAIN source.ranked =>
                            source.ranked[row.import] \subseteq {conda}

(* Every version of Name that says something agrees with this package, of  *)
(* its own name, that no other PyPI name claims.                           *)
Genuine(claims, conda) ==
    /\ NameAxis(conda, Name) = "same"
    /\ VersionsWith(Pair(claims, Name, conda), "agrees") # {}
    /\ VersionsWith(Pair(claims, Name, conda), "disagrees") = {}
    /\ ~ClaimedByOther(claims, Name, conda)

(* Name's metadata is found in the package, but the releases are another's. *)
Vendored(claims, conda) ==
    /\ Pair(claims, Name, conda) # {}
    /\ VendoredOnly(claims, Pair(claims, Name, conda))

(* docs/parselmouth.md: the heuristics are there so that a package that    *)
(* merely vendors a project is not taken for it: on parselmouth's word,    *)
(* that never happens while its genuine package is known.                  *)
VendoredNeverDisplaces ==
    Won /\ outcome.winner.source = "parselmouth" =>
        LET claims == Claims(tables.relations) IN
        Vendored(claims, outcome.winner.conda) =>
            \A c \in Opinions(claims, Name) : ~Genuine(claims, c)
=============================================================================
