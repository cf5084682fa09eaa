---------------------------- MODULE CondaLockTable -----------------------------
(***************************************************************************)
(* build_candidates: the bot's three downloaded tables as the one          *)
(* candidate conda-lock has for a PyPI name.                               *)
(*                                                                         *)
(* A set of source tables is a record                                      *)
(*   mapping : the rows, in file order, of distinct pypi spellings,        *)
(*             [pypi, conda, import, static]                               *)
(*   ranked  : import name -> the conda packages said to provide it        *)
(*   raw     : the (pypi spelling, conda) pairs before rows were collapsed *)
(* static says that a row's mapping_source is the bot's static table.      *)
(***************************************************************************)
EXTENDS Integers, FiniteSets, FiniteSetsExt

CONSTANT Canonical(_)     \* canonicalize_name, from spellings to names

(* Probabilities are counted in ten-thousandths. *)
StaticProbability == 10000
UnambiguousProbability == 9000
AmbiguousProbability == 6000
CollidingProbability == 4000

(* Imports that more than one conda package provides. *)
AmbiguousImports(source) ==
    {i \in DOMAIN source.ranked : Cardinality(source.ranked[i]) > 1}

CondaNamesOf(source, name) ==
    {r.conda : r \in {r \in source.raw : Canonical(r.pypi) = name}}

(* Bug: names collide only if they are spelled alike. *)
IsCollidingAsSpelled(source, name) ==
    Cardinality({r.conda : r \in {r \in source.raw : r.pypi = name}}) > 1

(* _colliding_pypi_names *)
IsColliding(source, name) == Cardinality(CondaNamesOf(source, name)) > 1

RowsOf(source, name) == {i \in DOMAIN source.mapping : Canonical(source.mapping[i].pypi) = name}

(* The last of the rows whose spellings come to the same name. *)
SurvivingRow(source, name) == source.mapping[Max(RowsOf(source, name))]

(* The first of these that is true of the row. *)
RowProbability(source, row) ==
    IF row.static THEN StaticProbability
    ELSE IF IsColliding(source, Canonical(row.pypi)) THEN CollidingProbability
    ELSE IF row.import \in AmbiguousImports(source) THEN AmbiguousProbability
    ELSE UnambiguousProbability
=============================================================================
