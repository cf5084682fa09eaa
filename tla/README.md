# TLA+ models of reroll

reroll turns a wheel (its filename and its METADATA) into conda repodata
records, without an index and without installing anything. This directory
holds TLA+ models of it, the TLC configurations that check them, and proofs
about them. Paths below are relative to `src/reroll/` unless they start with
`docs/`.

## 1. The system

`reroll` (`__init__.py`) is one synchronous call of three stages. It extracts
METADATA from the archive, parses it, and hands it to `get_wheel_records`
(`wheel_record.py`), which parses the filename into configurations and computes
the dependencies of each for every conda subdir it is meant for.
`to_matchspec` converts one requirement without a wheel. On the way two files
are consulted that all processes of a user share under `~/.cache/reroll`: the
cache of the Python release feed and the parselmouth database.

| Part | State it keeps | Operations | What is hard | What makes it correct |
|---|---|---|---|---|
| Release cache, `filename/python_latest_release.py` | `python_version_<timestamp>.json` files in a shared directory | scan, staged download, rename, second scan, unlink, read | several processes refresh at once; clocks; failures and kills between any two steps | only whole responses; bounded age; the newest survives, the others go |
| Parselmouth database, `parselmouth_mapper/db.py`, `ingest.py` | one sqlite file, with the ETag of the table it was built from | conditional request, scratch build, staging, rename, connect | slow installers, open connections, truncated bodies, two channels, ETags | replaced as a unit; an ETag never vouches for another version's rows; eventually current, empty bodies apart |
| Parselmouth evidence, `db.py`, `scoring.py`, `versions.py`, `names.py`, `mapper.py` | `pypi_claim`, `pypi_conda_mapping` | aggregate claims per pair, score a pair, look a name up | many rows of many names decide one score | corroboration never hurts; a vendoring package does not displace the genuine one |
| Name mapping, `name_mapping.py`, `default_mappers.py`, `grayskull_mapper.py`, `conda_lock_mapper.py`, `overrides_mapper.py` | the candidates handed down a chain | each mapper's lookup, the aggregator, the fallback | order of mappers and candidates, votes, ties | overrides decide; ambiguity is reported; the best backed name wins |
| Tags, `filename/*`, `subdir.py` | none | parse, pair and normalise tags, explode stable ABIs, fan out to subdirs | many legal and illegal combinations in one filename; minors at the bounds | see records |
| Records, `filename/__init__.py`, `wheel_record.py` | the list being built | parse, dedupe, check METADATA, one turn per configuration | partial failure, two tags that become one | a record installs exactly where pip would install the wheel |
| Dependencies, `dependencies/*` | none | evaluate markers for a target, split noarch, extras, python and python_abi, glibc and osx floors | what a target is known to have; retry after a failed noarch attempt | in every environment, what the markers ask for there |
| Python ranges, `filename/python_requirement.py`, `dependencies/python_version_dependency.py`, `python.py`, `matchspec_specifier.py` | none | is Requires-Python one range of minors; combine it with the filename's; which minor is fixed; convert it | patch releases inside a minor, pre-releases at a bound, few probes | the python dependency admits what filename and Requires-Python admit; errors exactly when nothing is left |
| Marker conversion, `dependencies/marker_conversion.py`, `conditional_dependency.py`, `environment.py`, `python_version_membership.py` | none | partial evaluation, two rewriting passes, residual marker to MatchSpec condition | off-by-ones of `==`, `>`, `in` between minors and patch releases; two lookups of the newest minor | the condition holds exactly where the marker does |
| METADATA and archives, `wheel_archive.py`, `wheel_metadata.py`, `lenient_parser/` | none | find and decode METADATA, read its headers, validate them | repeated headers, damaged archives | a wheel is converted only as everybody reads it |
| Licences, MatchSpec and name grammars, `license.py`, `matchspec.py`, `conda_package_name.py` | none | text conversion | spelling | (not modelled) |
| Errors, `errors.py` | none; logs at construction | four categories | an error caught later has already logged | the category a document promises |

How they interact: `parse_filename` asks the release cache for the newest
Python when a stable ABI has to be exploded and no bound was given
(`explode_abi3`, `resolve_upper_bound`), and the mapper chain for the conda
name; `wheel_dependencies` asks the chain again for every requirement.
Building the default chain opens the parselmouth database. Everything is a
plain call; processes meet only in the two shared files, and each reaches them
without a lock, by atomic renames.

The hazards of this code, each at its line and with the properties that would
catch it, are in `PROJECT.json`.

## 2. Modules

    ReleaseCache ------------ MCReleaseCache
      \-- ReleaseCacheProofs
    RelationsSnapshot <-- refined by -- ParselmouthDb ------ MCParselmouthDb
      \-- ParselmouthDbProofs
    ParselmouthEvidence, CondaLockTable <-- NameMapping ---- MCNameMapping
                                              \-- NameMappingProofs
    WheelTags <-- WheelDependencies  <--\
    MinorRange <-- WheelMetadata     <--- WheelConversion -- MCWheelConversion
                                            \-- WheelConversionProofs
    PythonVersions, MinorRange <-- PythonRange <-- MarkerConversion
        <-- ConditionalDependency -------------------------- MCConditionalDependency
              \-- PythonRangeLemmas <-- MarkerLemmas <-- ConditionalDependencyProofs

`<--` reads "is extended by"; `FiniteLemmas`, facts on finite sets and sums, is
extended by `NameMappingProofs`, `WheelConversionProofs` and
`PythonRangeLemmas`.

A wheel is modelled twice, at two precisions. `WheelConversion` has the whole
wheel: every tag, target, entry and extra, on minors. `ConditionalDependency`
has one entry and the python dependency, on patch releases and pre-releases,
with every form of marker. What links them is a conjunction on minors and
subdirs, on which both say the same.

### ReleaseCache

`latest_python_minor` in several processes. `files[t]` is the file named with
timestamp `t`; a response is the second at which the feed produced it and what
reading it will give (a release, JSON without one, no JSON). `pc[p]` says
where a process is: `scan` and `rescan` are the two calls of `_cached_files`,
`download`, `request`, `body` and `install` are `_download`, `clean` is the
loop of unlinks and `read` the two lines that end `latest_python_minor`.

Every filesystem operation is a step of its own. `DownloadFails` is the
`except OSError` of `_download`, `DownloadAborts` the `except BaseException`,
`LocalFsError` an OSError nobody guards, `Crash` a kill at any point.
`abandoned` is a history variable: a process died (or failed) between its
rename and its last unlink, and no second scan has happened since.

Assumed: a scan of the directory is atomic; all processes read one clock that
does not go back; the clock has seconds, and in the second in which an age
reaches the maximum, staleness may be judged either way, because the code
compares microseconds with a stamp that has none. Nothing in the repository
deletes cache files otherwise.

### ParselmouthDb and RelationsSnapshot

`open_parselmouth_database` in several processes. A file is an inode: the name
`db_path` moves from one to another at `os.replace`, and a connection stays on
the inode it opened, which the kernel keeps while it is referenced
(`KeepReferenced`). `ReadEtag` is `_stored_etag`; `NotModified` and
`Modified` are the answers to the conditional request, whose server may also
send no ETag or answer 200 whatever it was asked; `Truncate` ends a body early,
which `copyfileobj` does not notice. What is left is part of a gzip file, or,
if not one byte of the body had come, an empty file, which `gzip.open` reads as
one without lines: a table of version `NoRows`, with the ETag that came in the
headers. `Build` is the scratch database, whatever rows there are;
`BuildRejects` gzip finding no end marker; `Stage`, `CopyDone`, `Install` are
`mkstemp` and `copy2`, its end, and `os.replace`; `Connect` is either
`sqlite3.connect`. `Fails` stands for every error and for a kill.

`RelationsSnapshot` is the promise in the abstract: a database that is only
ever replaced by a whole table, and connections that keep the table they were
opened on. `ParselmouthDb` implements it (`ImplementsSnapshot`) with the table
in the inode the name denotes as `database`, and the one in each connection's
inode as `view`. It is no more than the code keeps: a table may be `NoRows`,
which upstream never published (section 4), and replacements need not go
forward (section 6).

Assumed: upstream's file is one gzip member, so that every proper prefix of it
but the empty one is refused.

A call drops the connection the process got before. A caller that keeps one
is one more process of the model.

### ParselmouthEvidence and NameMapping

`ParselmouthEvidence` is `_refresh_pypi_conda_mapping`, `version_state`,
`dominant_version_state` and `score_evidence` as operators on a set of claims.
Versions are release numbers, equal when `version_state` says they agree;
`Placeholder` is a PyPI version that says nothing. `NameAxis` is a constant
operator, for what `name_axis` makes of the spelling of two names. Factors are
hundredths and probabilities ten-thousandths, rounded to four places as the
code does. A decimal half is rounded up here and may go either way in the
code's floats; no comparison the chain makes is that fine.

`CondaLockTable` is `build_candidates`: how conda-lock's rows are graded from
the bot's three tables, and which of several spellings of a name survives.
`Canonical` is `canonicalize_name`.

`NameMapping` is `map_name`. Each mapper of the chain is an action that takes
its turn and either hands candidates on (`Defer`) or commits (`Commit`).
`AskAggregator` has the decision order of `aggregator_mapper`, branch by
branch; `Outvotes` is the key of `_vote_winner`. The rows of a name come from
the database in any order. `tables` holds what the mappers were built from;
`NoEntry` is a miss; `LoadFails` is a table that cannot be loaded, which leaves
the caller without a chain. Conda names are numbered in lexicographic order.

Assumed: tables are finite; chains are made of the mappers the code has and one
of a caller's own, in any order; the bot's three tables agree where
`conda_lock_mapper.py` says so ("Every extracted mapping row", "Per import
name, every conda package that provides it"), but a human's static rows need
not be consistent with anything.

### WheelTags, WheelDependencies, WheelConversion

`WheelTags` are the pure parts: what `parse_interpreter`, `parse_abi`,
`normalize_abi`, `check_interpreter_abi`, `explode_abi3`, `classify_platform`
and the validators of `WheelConfig` accept and make of a tag. A tag is a record
of an interpreter (prefix, major, minor), an ABI (form, version, suffix
letters) and a platform (form, version, architecture).

`WheelDependencies` is `calculate_dependencies` for one target: Requires-Dist
entries are stripped of interpreter requirements, their markers evaluated with
what the target is known to have, and turned into base and extra dependencies;
Requires-Python and the filename's range are combined. A marker is a
conjunction: an extra, an upper bound on the minor, a set of subdirs, and
whether it asks for a key conda cannot answer. The order of Requires-Dist
entries is abstracted, so where several entries are in error any of the errors
may be the one reported.

`WheelMetadata` are `extract_metadata_file` and `parse_metadata`. An archive is
whether it is a zip file, how many METADATA entries it lists and the state of
that entry's data; a header is the sequence of its occurrences. The order in
which fields are validated is abstracted: any of their errors may be raised.

`WheelConversion` is `reroll`: a behaviour converts one wheel again and again,
the upper bound being whatever the feed says that time. `ExtractMetadata` and
`ParseMetadata` are the first two stages, the rest is `get_wheel_records`.
`ParseFilename` keeps the accepted configurations and raises only if there is
none; `DedupeConfigs` keeps the first of each key; `CheckMetadata`; then one
`Convert` per configuration in the order `_sort_key` gives; an error on any of
them is `Raise`, which loses the records already built. Because errors log
where they are constructed, `skip_logged` also records those that are caught.

Assumed of a wheel: its tags, headers, requirements and archive have the shapes
the regular expressions and parsers give them (`Tags`, `HeaderSets`,
`RequiresDist`, `Archives`), the errors of a filename and of a requirement's
conversion are among those the code raises there, and no minor reaches the
number that stands for "no bound". Environments have Python 3.4 or later,
because the code refuses an interpreter tag of an older one.

### PythonRange, MarkerConversion, ConditionalDependency

`PythonVersions` is what is not code of this repository: how packaging
(`Satisfies`) and conda (`Matches`) compare a version with a clause. A version
is release segments and a stage; the stages are ordered, the first being the
`a0` reroll glues to a bound.

`PythonRange` are the pure functions on Requires-Python: `minor_range` with the
releases it probes, `python_version_dependency` with the reduced grammar and
the generic combination, `exact_minor`, and `specifier_to_matchspec`. A range
that may be None is a set of at most one range.

`MarkerConversion` is what becomes of a marker tree. A marker is its leaves,
numbered in the order they are written, and its terms: the smallest sets of
leaves that suffice to make the marker true. `a and (b or c)` has the terms
{a, b} and {a, c}. What a tree means, and which leaves decide it, is all the
code asks of one, and the nesting of its `and`s and `or`s is not; in this form
no operator on markers is recursive. `Modify` is `Node.modify`: every leaf
becomes its image, a term with a false leaf goes, a true leaf goes from its
terms. Where the rewriting of a membership test puts a chain of comparisons,
the model has one leaf, of kind `chain`, that stands for all of them.

`Evaluate` is the partial evaluation of `conditional_dependency` in the
environment of `environment.py`, the full version being known by the two probes
`3.m.0` and `3.m.100`; `RewritePythonVersionIn` and `NotIn` spell membership
out; and `PythonVersionCondition`, `FullVersionCondition` and
`VirtualPackageCondition` are the rows of the conversion table. A membership
literal is the set of minors it spells, with `Spells` for "3.1" being a
substring of "3.10".

`ConditionalDependency` runs them in order, for an entry of a wheel (`Call`)
or for `to_matchspec` (`CallToMatchspec`), one action per stage. The two
rewriting passes each resolve the upper bound for themselves, so between them
the feed may change its answer or fail.

Assumed of the input (the ASSUMEs of `ConditionalDependency`): versions have up
to four segments, which are at most 198, and a fourth is a single digit;
`===` on a version key and membership tests on other keys do not occur in
markers; minors, bounds and what the feed says are at most 198. Of Python: a
release has three segments and no minor more than 101 releases, which is what
the probe `3.m.100` relies on; and a minor has a release after every one that
Requires-Python names, because a bound on a release not yet made says nothing
about the releases there are.

Assumed of markerpry: `modify` maps leaves and drops constants; `evaluate`
replaces what the environment decides; `tighten_ranges` changes the spelling of
a tree and not its meaning; a membership test may or may not be evaluated when
the minor is known.

In every module, a definition introduced by "Bug:" is not part of the
specification. It is a plausible mistake in the definition after it, and each
property has been seen to fail when its mistake is put in.

## 3. Runs

| Run | Instance | Checks |
|---|---|---|
| `release_cache` | 2 processes, cache age 1, clock 0..2 | types; `OnlyCompleteResponses`; `StagedFileOwned`; `BoundedStaleness`; `OldFilesReclaimed`; `NewestSurvives` |
| `parselmouth_db` | 2 processes, 2 channels, 3 inodes, 2 publications, 1 failure | types; `EtagDescribesContent`; `UndisturbedOpenIsCurrent`; refinement of `RelationsSnapshot` |
| `parselmouth_live` | 2 processes, 1 channel, as above, under `FairSpec` | `EventuallyCurrent` |
| `wheel_conversion` | every filename of up to 2 interpreters, 2 ABIs, 2 platforms of a list that reaches each rule, with plain METADATA; 5 filenames with METADATA of up to 2 of 8 requirements and 5 kinds of Requires-Python; every kind of archive; headers absent, repeated, malformed, undecodable | types; `RecordsUnique`; `RecordsSound`; `RecordsComplete`; `DependsMeanTheMarkers`; `OneReading`; `FailureIsJustified` |
| `python_markers` | markers: every leaf of the conversion table against 7 literals and full versions of up to four segments, and every conjunction and disjunction of 11 leaves of all kinds, some nested; 6 (target, extra, bound) combinations; Requires-Python: every operator on 11 literals, every pair `>=`,`<` of them, and 5 others, for 4 filenames | types; `ConditionMeansTheMarker`; `PythonSpecMeansTheWheel`; `RangeErrorsAreExact`; `FailureIsJustified` |
| `name_mapping` | every set of up to 4 of 10 relations, every table entry that is graded differently, among them conda-lock tables with colliding spellings; the default chain, one with a caller's own mapper and no override or fallback, one that asks parselmouth, aggregator, fallback, overrides, and the empty chain | types; `EvidenceIsMonotone`; `OverridesDecide`; `AmbiguityIsReported`; `BestBacked`; `CondaLockAloneIsUncontested`; `VendoredNeverDisplaces` |

What they show:

* However two refreshes of the release cache overlap, fail or die, the newest
  file is never removed, every other one has a process bound to remove it, no
  half response is ever under a final name, and no call acts on a response more
  than one cache age older than the call.
* The database is a sequence of whole tables, each a published one with its own
  ETag or none. An open connection is never disturbed, a call nobody installs
  over returns a table at least as new as upstream's was when the call began,
  and the file eventually holds what upstream serves, for good. Each of these
  has one exception, which it states: a body cut before its first byte is
  installed as a table without rows under the ETag of the whole one (the finding
  `parselmouth_empty`). What still holds then is that no such ETag is newer than
  what upstream has served, so that the next publication replaces the table.
* A record installs only where some tag of the filename and Requires-Python let
  pip install the wheel, and the records of a wheel install wherever pip would
  (stable ABIs up to the upper bound). `Admits`, `RunsOn` and `Holds` state
  what pip would do from the documents' reading of the tags and markers, not
  from the code. `RecordsSound` leaves out one case, `LoosePin`, which is the
  finding `pinned_minor`.
* In every environment a record installs into, its dependencies are those whose
  markers hold there, whether the record is noarch, of a subdir, or the outcome
  of a noarch attempt that had to be split.
* A wheel is converted only if METADATA has one reading: a repeated header
  counts if all its occurrences agree, whatever reads the first or the last.
* The condition of a dependency holds exactly where its marker does, on every
  Python release of the grid the record's python dependency admits and on every
  platform, through evaluation, probing, rewriting and conversion. Two kinds of
  Python are left out: minors beyond the bound up to which membership is spelt
  out, and pre-releases where a full version is compared (section 4). So are
  two kinds of wheel (`FinerThanReleases`):
  one whose Requires-Python has a `<` with a fourth segment (the finding
  `exact_minor_bound`), and one that asks for a full version `~=` one with a
  fourth segment (section 4).
* The python dependency admits a release exactly if the filename and
  Requires-Python do, and no pre-release of the version that ends a range.
  Requires-Python is refused exactly if the minors it leaves are none or have a
  hole, although only the neighbours of the releases it names are probed; the
  exception, `UnprobedClause`, is in section 4.
* A marker or Requires-Python is refused only for a reason the documents give.
* conda-lock's table decides a name alone only where no other spelling of the
  name and no other package with the import speaks against it.
* The hand-maintained table wins over everything in every chain that asks it
  before it decides, the fallback answers only for names that no table before it
  knows, a name without a curated table behind it
  wins only with at least as many mappers as any other, and on parselmouth's
  word alone a vendoring package never wins while the genuine one is known.

Why the bounds are enough. Two processes produce every pairwise overlap, and
every property is about a pair (a file and one that deletes it, a database and
one that replaces it) or one process. Clock 0..2 with age 1 gives fresh, stale
and boundary files and three coexisting stamps. Two versions suffice for "older
over newer", two channels for mixing them; three inodes are the installed file,
one staged by another process, and one more, for connections to old files.
Filenames: two values of each component are what a rule on a pair of tags can
relate; the minors 1, 3, 9, 10, 13, 14, 15, 16 lie on both sides of every
threshold in the code (abi3 from 2, python_abi from 10, free threading from
13, abi3t from 15, the upper bounds 14 and 15). Relations: a pair's evidence
depends on its own versions and on one other claim for the same package.
Python versions: minors on both sides of every literal and bound, one with two
digits that begins with a modelled one (1 and 10, 13), patch releases 0..2
around the literals' 0, 1 and 2, pre-releases of the minors that are bounds,
and 4.0.0. Literals have one to four segments, equal to a minor, inside one,
and of another major. A condition is built leaf by leaf, so two operands of
every pair of kinds, and one more level of nesting, produce every way operands
meet.
Interchangeable processes and inodes are declared symmetric in the runs that
check no liveness.

Fairness. Safety needs none. `FairSpec` asks that each process keeps working:
that it starts another call after the last (reroll is meant for batches,
`docs/errors_and_logging.md`) and that a call goes on, which includes that
upstream answers. The code passes no timeout to `urlopen`, so the last is an
assumption on the server and not something the code ensures. Failures and
publications are not fair, and bounded.

Deadlock is checked in every run. None is expected: a process or a caller that
has finished can always call again.

## 4. Where code and documents disagree

Each of these is a run that expects a violation; three more, at the end, are
exceptions that properties of passing runs state.

* `cache_load_errors`: of two overlapping refreshes, the second scan of one can
  delete the file the other has settled on but not read. The other's call ends
  with a bare `FileNotFoundError`, although the cache holds a newer file.
  `docs/errors_and_logging.md:36` promises a Runtime Issue error.
* `universal2_floor`: `_dedupe_configs` keeps the arm64 configuration of a
  universal2 tag, and its floor of macOS 11.0 is also given to the osx-64
  record. `docs/wheel_filename.md:162`: "The x86_64 half is never clamped."
* `pinned_minor`: an exact minor meets a Requires-Python that is not simplified
  as `~=3.m`, which allows later minors; below 3.10 no `python_abi` makes up
  for it. `docs/wheel_to_conda_dependencies.md:82`: "must be that minor version
  (and not a floor)".
* `skip_log`: errors log "skipping wheel" when constructed, also those the code
  then catches and recovers from. `errors.py:14-16`.
* `exact_minor_bound`: `_range_exact_minor` takes an upper bound like
  `3.14.0.1` for the `.0` of the next minor. The minor is then said to be fixed,
  and markers are decided for it, though the python dependency admits 3.14.0.
  `dependencies/python.py:45-47`: "is guaranteed to fall within".
* `parselmouth_empty`: a connection that drops before the first byte of the
  relations table leaves an empty file, and no error (`ingest.py:67-70`);
  `gzip.open` reads it as one without lines (`ingest.py:36-37`), so a database
  without rows is built, given the ETag of the whole table
  (`parselmouth_mapper/db.py:60-61`) and installed. Upstream answers 304 from
  then on, and until it publishes again parselmouth knows no name.
  `parselmouth_mapper/db.py:2-3`: "keeping a local copy of the database current
  with upstream"; `:38-39`: "rebuilding it from `relations_url` only if upstream
  has changed since it was last built here"; `docs/parselmouth.md:8`: "The etag
  is used to know whether to fetch new data or not". In the trace one process
  meets such a body on its first call, and no call after it changes the file.

The exceptions:

* A comparison of full versions is passed through: `python_full_version <
  "3.13.0"` becomes `python<3.13.0` (`marker_conversion.py:258`), which conda
  matches for 3.13.0rc1 and pip does not. The documents disagree with each
  other: the conversion table prescribes the passthrough
  (`docs/matchspec.md:147`), `docs/matchspec.md:67` has `<` skip pre-releases,
  `tests/marker_oracle.py:76-78` calls agreement with pip "the equivalence the
  conversion exists to preserve", and
  `tests/test_marker_matchspec_equivalence.py:112-115` expects any such mismatch
  to show up; none of its candidates is a pre-release of a final version that it
  compares with `<`. `ConditionMeansTheMarker` asks nothing of pre-releases
  where a marker compares a full version.

* `_probe_micros` skips a clause of fewer than two segments
  (`filename/python_requirement.py:105`), so of minor 0 only 3.0.0 is probed
  for `>3,<3.1`, and for `!=3` nothing but 3.0.0 either. 3.0.1 satisfies both.
  The first is refused as matching no Python 3 minor, the second begins at
  minor 1. The docstring of `minor_range` (`:61`) says that a minor counts "if
  *any* of its patch releases does"; that of `_probe_micros` (`:98`), that its
  micros are "enough to straddle either side of any inclusive or exclusive
  boundary". `RangeErrorsAreExact` says what is exact of all other clauses
  (`UnprobedClause`).
* A full version known by the two probes `3.m.0` and `3.m.100` is decided
  wrongly where both are on the same side of the clause and a release between
  them is not. Equality is never decided this way (`conditional_dependency.py`
  leaves such keys alone); `~= 3.13.2.0`, which holds for 3.13.2 only, is, and
  comes out false. Versions of Python have no fourth segment, so nobody will
  write it; `ConditionMeansTheMarker` leaves it out, and the proof that two
  probes are enough for every other clause (`ProbeAgrees`) needs that.

## 5. Proofs

TLAPS proves, for every value of the constants that the ASSUMEs allow, all that
the passing runs `release_cache`, `parselmouth_db`, `wheel_conversion`,
`name_mapping` and `python_markers` check on small instances, and the lemmas on
scores, tags, versions and markers behind them. Each specification has an
inductive invariant `IInv`, which holds on the instance of its run as well; the
properties follow from it. The proofs have one step per action.

`ReleaseCacheProofs`, for every set of processes, every cache age and every
length of the clock. The type invariant is inductive, and `StagedFileOwned` is
with its help. The others are not: that no call returns stale data depends on
what is under each name, and that nobody deletes the newest file depends on
what a process holds in its list of victims while others install.

    IInv = TypeOK /\ ClockInv /\ ContentInv /\ KeeperInv /\ PathInv /\ BoundedStaleness

* `ClockInv`: no call starts, and no download is stamped, in the future, and a
  stamp is never before the call that took it;
* `ContentInv`: a file named `t`, or staged for `t`, holds a response produced
  at `t` or later, and what is in the cache is whole. This is why the timestamp
  is taken before the request;
* `KeeperInv`: until a refresher scans again, its own download or a newer file
  is there; from then on its victims are all older than the file it settled on,
  which, or a newer one, is still there. This is what the second scan ensures,
  and it survives other processes' installs and unlinks;
* `PathInv`: the file a process has settled on was not older than the cache age
  when its call began.

`ParselmouthDbProofs`, for every set of processes, channels and inodes and
every number of publications and failures.

    IInv = TypeOK /\ PublishedInv /\ OwnerInv /\ BuildInv /\ NameInv /\ FreshInv

* `PublishedInv`: every table on disk or under way is one upstream has
  published, under its own ETag or none, or what an empty body left of one;
* `OwnerInv`: a staged file has one owner, and neither the name nor a connection
  denotes it, so that writing to it disturbs nobody;
* `BuildInv`: what a call builds is its own url's table, at least as new as the
  call or emptied, a completed file once it is built, and the staged file holds
  it once it is copied;
* `NameInv`: from the first install on the name denotes a completed file, and
  every connection's inode keeps one;
* `FreshInv`: what a call that nobody installs over knows of the file: before
  the request that it is what the ETag says or was left empty under it,
  afterwards that it is current (`AsNewAs`).

`EtagDescribesContent` follows from `PublishedInv` and `NameInv`,
`UndisturbedOpenIsCurrent` from `FreshInv`. That the exception for empty tables
is needed shows where the proof uses it: `Truncate` keeps `PublishedInv` only
with it. `Refinement` maps every step to one
of `RelationsSnapshot` or to none: `Publish` to `Publish`, the beginning of a
call to `Close`, `Install` to `Replace` and `Connect` to `Open`, and the rest
changes neither the installed table nor one that is open, which `OwnerInv` and
the kernel's keeping of referenced inodes are the reason for.

Of the evidence, for every set of claims and every `NameAxis`, with no state
(the first part of `NameMappingProofs`).
`ScoreBound`: a score is a probability. `OthersNeverRaise`: claims of other
names for a package never raise a pair's score. `CorroborationNeverLowers`: one
more agreeing claim never lowers it, rounding included. They rest on sums over
finite sets (`FiniteLemmas`), where induction is by a least counterexample,
because the library's induction theorems cannot be used here.

Of the chain of mappers (the rest of it), for every table, every chain and every
finite set of claims.

    IInv = TypeOK /\ MappingInv /\ CandidateInv /\ PassedInv /\ DecidedInv

* `MappingInv`: the stored rows are the evidence of the claims, one per pair;
* `CandidateInv`: each candidate handed on is what its mapper makes of its table;
* `PassedInv`: no mapper that the chain has passed had an opinion and kept it
  back, and the fallback was passed only with candidates in hand;
* `DecidedInv`: a winner won in one of the ways `aggregator_mapper`, the
  overrides and the fallback have, and a name is unresolved only at the end of
  the chain.

These hold between any two mappers of any chain, in any order and with
repetitions, so the properties follow without following the chain again;
`BestBacked` also needs that the order `Outvotes` on totals of probabilities
has a greatest element (`VoteIsWon`), and `VendoredNeverDisplaces` the bound on
a vendored row's score (`ScoreBound`).

`WheelConversionProofs`, for every wheel, every set of bounds and every set of
Pythons. The properties relate what a conversion returns to the filename, the
archive and METADATA, across all stages and all turns of the loop:

    IInv = StageInv /\ LoopInv /\ ResultInv

* `StageInv`: at every stage the archive has been found sound and METADATA has
  been read as its headers say, and a list, a set of configurations or an
  outcome exists only where the code has one;
* `LoopInv`: the records so far are those of exactly the configurations that
  are no longer to be converted, each of which converted without an error, and
  together with those that are they are what the filename comes to (`Chosen`);
* `ResultInv`: an outcome without an error is the records of all of `Chosen`,
  and each error has its reason. That `NeedsArchSplitError` never surfaces is
  here: what raises it on a noarch target is converted for the subdirs.

What then remains are facts about operators, with which the module begins:
accepted tags admit exactly the Pythons of their range and ABI (`TagAdmits`,
`RecordAdmits`), explosion neither adds nor loses a Python below the bound
(`ExplosionSound`, `ExplosionComplete`), a platform's subdirs are those it runs
on (`PlatformRuns`), one configuration per key is kept (`Deduped`), a residual
condition means its marker (`ConditionMeans`), and headers that raise nothing
have one value (`MetadataMeans`). `RecordsSound` needs the exception it states,
`LoosePin`: the proof of `RecordAdmits` fails without it, as the finding
`pinned_minor` says it must.

`ConditionalDependencyProofs`, for every set of wheels, markers of any size,
every feed and every set of Pythons that the ASSUMEs allow.

    IInv = CallInv /\ NodeInv /\ RangeInv /\ MeaningInv /\ FailureIsJustified

* `CallInv`: the call's arguments, where it is, and that nothing has been
  returned while it runs;
* `NodeInv`: the tree being converted is made of the marker's own leaves and of
  chains that membership tests became (`FromMarker`), and what each stage must
  not find in it has been removed by those before: a wheel's tree has permitted
  keys only, no `in` after the first pass, no `not in` after the second; it is a
  constant only if a leaf of the marker is one;
* `RangeInv`: which errors Requires-Python and the filename can no longer give,
  by how far the call is, and what the result says of them;
* `MeaningInv`: on every Python and platform in question, the tree, then the
  condition, then the result holds exactly where the marker does. This is what
  every stage preserves, and the reason the whole way does;
* `FailureIsJustified`, which with the others is inductive as it stands: that a
  refused tree came from a leaf of the marker is in `NodeInv`.

`MeaningInv` rests on lemmas about the operators, in two modules.

`PythonRangeLemmas`: comparing ranks is comparing segments and then stages
(`RankOrder`); an upper bound with its anchor excludes what packaging's `<`
does and cuts off no release (`UpperConverted`, `ClauseConverted`); two ranges
combined are their intersection (`CombineIntersects`), so the specifier admits
what the filename and Requires-Python do (`PythonSpecFinal`,
`PythonSpecPrerelease`), a disjoint range admits nothing
(`DisjointInstallsNone`) and an exact minor is one that every admitted Python
has (`ExactMinorFixes`). That few releases of a minor are probed is enough
because every other release is on the same side of all clauses as one that is
(`RepresentativeSatisfies`, `ProbesSuffice`).

`MarkerLemmas`: what is true of every leaf and its image is true of the trees
(`ModifyMeaning`, by choosing a smallest term, `MinimalTerm`, where a proof
over trees would use induction). Then leaf by leaf: evaluation decides only
what every Python of the target decides alike (`EvaluatedLeaf`, `ProbeAgrees`),
rewriting membership up to the bound loses nothing below it (`RewrittenLeaf`),
and each row of the conversion table says what its leaf does
(`PythonVersionConverted`, `FullVersionConverted`, `ChainConverted`,
`VirtualConverted`). `EvaluateMeans`, `RewriteKeeps`, `ConvertedTree` and
`RefusedTree` are the same for trees, one for each stage.

What the proofs say about the code: the off-by-ones of the conversion table are
right for literals of any length, not only for those that a test spells out;
and each exception in the properties is needed where the proof uses it.

Only model-checked:

* `EventuallyCurrent`: liveness under fairness;
* the six findings, each of which is a counterexample.

## 6. Behaviour worth knowing

These contradict no document, so they are neither properties nor findings.

* A slow process can install an old relations table over a newer one. The
  database then goes back until the next call, whose ETag no longer matches.
* An abi3 wheel whose Requires-Python excludes one of the minors it explodes to
  is rejected as a whole (`PythonRangeMismatchError`), though other minors would
  do. `RangeErrorsAreExact` justifies the error for one minor and says nothing
  of the others.
* `filename/__init__.py:118` says that no deduplication is needed. After
  `normalize_abi` two tags can be the same configuration; `_dedupe_configs`, in
  another module and for another reason, is what keeps build strings unique.
* Parselmouth's only candidate wins at any probability, however low.
* When two rows tie for the best score, the order in which sqlite returns them
  decides.
* A staged file of a killed process is never removed.
* A membership test that matches no candidate minor makes its marker constant.
  If that happens in the rewriting (the minor is not known), the whole wheel is
  refused with `UnconvertablePythonVersionEqualityError`, although "false" only
  means that the entry is not needed.
* `python_version == "3.9.*"` is refused while `"3.*"` is converted; the code
  says why (`marker_conversion.py:192-197`).
* Requires-Python that excludes a whole minor in the middle, or every Python 3
  minor, is refused when METADATA is validated, before the filename is seen.
* A noarch record asks to be split even for a platform clause that is true
  nowhere (`sys_platform == "cygwin"`).
* Damaged compressed data in an archive surfaces as `zlib.error`, which belongs
  to none of reroll's categories.
* A row of the bot's static table can be overwritten by a later row of another
  spelling of the name, and is then graded like any other.
* With `allow_pre`, a Requires-Python between two pre-releases of one version
  passes every check, and no release of Python satisfies it.

## 7. Not modelled

* `license.py`, `conda_package_name.py`, `matchspec.py`: each converts or
  matches one string, keeps no state and decides nothing other parts depend on,
  except for the errors of a grammar, which are error choices here.
* `names.py`: prefixes, suffixes and edit distances of two names. `NameAxis` is
  any function of two names, so what is checked does not depend on it.
* `lenient_parser`: eight regular expressions tried in order. Whether a value
  parses in the end is an input (`parses`, `unparseable`).
* License headers and `Provides-Extra` of METADATA: no stage modelled reads
  them.
* How grayskull's and conda-lock's files are fetched and parsed.
* Logging beyond the skip message.
* Batches: processes meet only in the two shared files, which are modelled with
  several processes each, and a feed that changes its answer within one
  conversion is part of `WheelConversion` (its bound) and of
  `ConditionalDependency` (one bound per pass).

## 8. State of the plan

The modelling is complete as far as section 7 allows, and every safety property
that a passing run checks is a theorem. What is left is out of the prover's
reach: `EventuallyCurrent`, which needs liveness and ENABLED, and induction over
data, which is why scores are sums with least counterexamples and markers are
sets of terms. What is assumed and not proved is the behaviour of packaging,
conda, markerpry, sqlite and the file system, as sections 2 and 7 state it.
