# TLA+ models of Omni-Sem

Omni-Sem is a command-line program that indexes approved directories ("roots")
into one SQLite database and answers queries with passages of their files. This
directory holds TLA+ modules that model its core, TLC configurations that check
them on small instances, and theorems about them that TLAPS checks.

## The system

| Part | State it keeps | Operations | What makes it correct |
|---|---|---|---|
| Full indexing (`index.rs`, `storage.rs`, `io.rs`) | `source_files`, `revisions`, `segments`, `segments_fts`; locals of a scan | discover, process each document, deletion pass | search serves, per file, the content of some version of it, never an older one after a newer one; the FTS surface is exactly the current revisions; a file that changed is served anew or flagged |
| Git-aware indexing (`index.rs`, `git.rs`) | `root_git_state` | detect, choose a base, collect changes, process them, advance the base | a file that search does not serve as it is is listed by the next incremental scan; the base never passes a change that is not indexed |
| Discovery (`discovery.rs`) | none | walk, validate one path | the same policy for full and incremental scans |
| Parsing (`parsing/`) | none | parse | ordinals and anchors are unique in a revision |
| Storage and migrations (`storage.rs`, `migrations/`) | the schema version | migrate, open | a failed migration leaves the version before it |
| Freshness (`freshness.rs`) | none | inspect | stale evidence is never called current |
| Roots and configuration (`config.rs`, CLI) | the configuration file, the `roots` table | add, remove, enable, disable | a removed root is never searched; a root in the configuration can be indexed |
| Snapshots (`snapshot.rs`) | `snapshots`, `snapshot_root_maps`, payload files | export, import, list, inspect, remove, eligibility | a listed snapshot has its payload and every root mapped, or is not queryable; no payload outlives its registration |
| Embeddings (`embedding_sync.rs`, `embedding.rs`) | spaces, active space, vectors, links, failures | synchronise after indexing; the semantic channel of a query | a link has its segment and a vector of its text; a query's vector is compared with vectors of its own model; a damaged or lost vector comes back |
| Retrieval (`retrieval.rs`, `query_parse.rs`, `tokens.rs`) | none | lexical, semantic, hybrid and automatic queries, federation, fusion, packing | nothing is returned that the request may not see or that was not served while it ran; the fused order is reciprocal rank fusion; budgets hold |
| Status server (`status_server.rs`) | none | serve | read only |
| Evaluation (`eval.rs`) | none | measure responses against judgments | rates are rates: recall and nDCG are at most 1 |
| Suggestions, domain types, CLI | none | | |

The parts meet in the database and the file system. `omnisem index` runs full or
incremental indexing for each root, then the embedding synchronisation; queries
read what those wrote, plus the payload files of imported snapshots. Nothing
keeps two processes apart except SQLite's own locks, which cover one statement
or one transaction: a git hook and a shell may index the same root at once, a
root may be removed while it is indexed, and the owner edits files at any time.

What is hard in it: steps of two processes between two statements; files that
change between the walk, the read and the commit; a crash between two commits;
file system and database steps that cannot share a transaction; and rows that
are unique for ever while files come and go. `PROJECT.json` lists these under
"hazards", each at its line.

## Modules

| Module | Models | State and actions |
|---|---|---|
| `EvidenceStore` | what lexical search promises about one root | `log` (versions of each file), `reflects`, `served`; a file is edited, or search comes to reflect a later version of it, in one step |
| `SnapshotCatalog` | what the snapshot commands promise to whoever queries | `phase`, `readable`, `maps`, `away`; a snapshot is added with its maps, hidden, settled, withheld or dropped, a local root is forgotten or readmitted, each in one step |
| `SourceIndex` | full indexing | below |
| `GitIncremental` | full and incremental scans of a git work tree | below |
| `Discovery` | one path under the walk of a full scan and the check of an incremental one | below |
| `SnapshotRegistry` | import and removal of snapshots, what list and queries make of them | below |
| `SnapshotExport` | export of snapshots, and what an import accepts of them | below |
| `RootLifecycle` | `root add`, `root remove` and `index` over the configuration and the database | below |
| `EmbeddingSync` | synchronisation of embeddings and the semantic channel | below |
| `Retrieval` | a query from its channels to its response | below |
| `Evaluation`, `Sums` | the measures of one response; the sum of a function | operators |
| `JudgedRetrieval` | `Retrieval` under an evaluation | composes the two |
| `MC...` | small instances of each for TLC, and what only they need | `MCSnapshotRegistry` and `MCRootLifecycle` add a history or a choice of scenario |
| `...Proofs` | theorems about each | below |

The modules share the database at different grains. `SourceIndex` details one
scan of one root, statement by statement; `GitIncremental` takes a document as
one step and details what decides which documents there are; `Discovery` takes
one path of either. `RootLifecycle` keeps a scan as one step and details what is
around it. `SnapshotRegistry` has the root commands as an environment: what they
may do to the rows of roots at any moment, whatever configuration each of them
loaded at its start, an `index` that brings back a root removed meanwhile
included; which commands do so when is in `RootLifecycle`. `SnapshotExport`, `EmbeddingSync` and `Retrieval` have the
commits of other commands as an environment: the revisions those promote or
remove between any two of their own statements.

### SourceIndex

The database is `sources` (rows of `source_files` by path), `indexed` and
`failed` (rows of `revisions`, named by their UNIQUE key, source and content)
and `fts` (the revisions that have rows in `segments_fts`). A process is `pc`
plus the locals of `index_one_root_full` (`unvisited`, `seenAt`, `todo`,
`listed`) and of `process_document` (`job`). The owner of the root is the action
`Edit`; the n-th version of a file has modification time n.

Each action is one SQLite statement or transaction, or one look at the file
system, because other processes and the owner can act between any two of them:

| Code | Actions |
|---|---|
| `discover_root` | `StartScan`, `Visit`, `EndWalk`, `WalkFails` |
| `find_source_file`, `get_revision` | `Find` |
| `read_stable_file` | `Read`, `ReadFails` |
| unchanged content | `Unchanged` |
| `upsert_source_file`, then `promote_revision` | `Stage`, then `Promote` or `PromoteRejected` |
| `record_parse_failure` | `ParseFails`, `RecordFailed` |
| any other error in a document | `DocumentFails` |
| deletion pass | `ListActive`, `MarkDeleted` |
| end of the scan, death of the process | `Finish`, `Crash` |

`Served` is the join of `search_fts`, `Freshness` is `inspect_freshness`.
`reflects` is a history variable: no guard reads it.

### SnapshotRegistry

The database is `rows` (the `roots` table), `registry` (rows of `snapshots`: which
of its two names `payload_path` has) and `maps` (`snapshot_root_maps`). `files` is
the managed directory: each snapshot may have a temporary and a final file, each
missing, partial or whole. `leaving` are the roots some `root remove` has taken out
of the configuration file, so that it may go on to their rows. The file itself is
not a variable: each command goes by the configuration it loaded at its start, so
an index run may write the row of any root at any moment (`Reindex`), and a query
may have loaded any set of enabled roots (the parameter of `Eligible`). A process is
`pc` and `job`; `granted`, `lost` and `removed` are histories.

| Code | Actions |
|---|---|
| validation of the `--map` arguments | `StartImport`, `CheckRoot`, `RefuseRoot` |
| `fs::copy`, `validate_payload_database` | `BeginCopy`, `EndCopy`, `CopyFails` |
| the transaction | `Register`, `RegisterFails` |
| `fs::rename`, the UPDATE of the path | `Rename`, `RenameFails`, `UpdatePath`, `UpdatePathFails` |
| the compensation | `UndoMaps`, `UndoRow`, `UndoFile`, `UndoFails` |
| `remove_snapshot` | `FindSnapshot`, `Deregister`, `DeregisterFails`, `DeletePayload`, `DeletePayloadFails` |
| `index_roots_with_options` (its `upsert_root`), `root remove` | `Reindex`, `Unapprove`, `DeleteRoot` |
| death of the process | `Crash` |

`Queryable` is what `list_snapshots` and `inspect_snapshot` say, `Eligible` is
`eligible_snapshot_sources`. The manifest's roots are the same in every import.

The module implements `SnapshotCatalog`: `Phase` tells from the registry and from
the registrations there have been (`granted`) how far a snapshot is, a snapshot is
readable if the payload its row names is whole, and a local root is away while
it has no row. `Register` adds, `UpdatePath` settles, `UndoMaps`
withholds, `UndoRow` and `Deregister` drop, `DeleteRoot` forgets a root and a `Reindex`
of a root without a row readmits it, and the rename hides the payload until
the path is updated, if it ever is; every other step changes nothing a query could tell.

### RootLifecycle

`torn` and `config` are the configuration file, `rows` the `roots` table,
`evidence` the roots that have active sources and FTS rows. Every command begins
by loading the configuration (`Begin`); `job` is what it holds in memory.

| Code | Actions |
|---|---|
| `add_root`, `remove_root` | `AddRoot`, `RemoveRoot` |
| `AppConfig::save` (`fs::write` empties the file, then writes) | `Truncate`, `Write` |
| `upsert_root` at the end of `root add` | `Register`, `RegisterRefused` |
| `delete_root_derived` | `DeleteDerived` |
| `index_roots_with_options` | `IndexAll`, `IndexOne`, `StartRoot`, `StartRootRefused`, `Scan`, `EndRoot`, `EndIndex` |
| a hand edit of `enabled` | `Toggle` |
| death of the process, failed statement | `Crash` |

`Searched` is the join of `search_fts` with `roots.enabled = 1`. Queries take
nothing about local roots from the configuration, but none runs while the file
does not parse.

### GitIncremental

The repository is `worktree`, `tracked` (git's index), `commits` and `head`; its
owner writes, stages, commits and checks out between any two steps of a scan.
Each git process is a step, since HEAD and the files may change between two.
`served` and `had` are the database (text of the current revision, contents that
have a revision), `base` is `root_git_state.last_indexed_commit`.

| Code | Actions |
|---|---|
| `detect_git_root`, choice of the base, fallbacks | `StartIndex`, `StartSince`, `StartSinceRevision`, `StartFallback`, `StartWithoutGit` |
| `collect_changes`: `git diff BASE`, `git diff HEAD`, `git ls-files --others` | `CollectDiff`, `CollectDirty`, `CollectUntracked`, `CollectFails` |
| `dedupe_changes`, one change or document after the other | `Apply` (`Delete`, `Document`, `PassOver`), `Visit`, `DocumentFails` |
| `upsert_root_git_state` if nothing failed | `Finish` |
| death of the process | `Crash` |

Three things the code does are part of the model and of what its properties
except. A path that was not clean during a scan (`dirtied`) may be indexed with a
text no commit has, and reverting it leaves it in no diff. `--since REV` moves the
base to HEAD, past what lies between the base and REV. A scan that indexed
documents and did not record its head leaves an index ahead of its base. Paths
with such a history are `risky` until a full scan; the properties are about all
the others, and the proof shows that there are no further cases. Besides, a
file that became too large keeps its old text (`PassOver`: validation refuses the
path and nothing is deleted), and with a root below the top of the work tree
untracked files are dropped, because `ls-files` prints paths relative to the
directory it runs in.

### Discovery

`tree` is the path with everything that decides about it: the kind of object,
the directory it is in, a flaw (hidden, excluded, not included, oversized,
unsupported) and the ignore rules that concern it. `walk` goes first, then
`check`; whoever writes to the root may replace the path between any two calls.

| Code | Actions |
|---|---|
| `discover_root`, `build_walker`, `process_entry` | `WalkStarts`, `WalkDirectory`, `WalkEntry` |
| `validate_relative_path` | `CheckStarts`, `Metadata` |
| `resolve_symlink_within_root` | `Resolve` |
| `classify_and_collect`: the tests, then `fs::canonicalize` | `Classify`, `Canonicalize` |

The matcher of the `ignore` crate is external: a rule matches the path or its
directory, and the order of the sources and the treatment of anchored rules are
those of the two matchers the code builds. `led` is a history variable: the
policies under which the path has led into the root.

### SnapshotExport

`rows`, `active` and `current` are what the statements of `build_payload` read,
and other commands commit between them. `temp` is the temporary directory,
`published` what each destination has. A statement is evaluated as a whole;
what it yields is inserted in the same step.

| Code | Actions |
|---|---|
| `remove_dir_all`, `create_dir_all`, `Connection::open` | `Clear`, `ClearFails`, `MakeDirectory`, `Open` |
| `build_payload` | `CreateTables`, `SelectRoots`, `CopySources` (one root each), `CopyRevisions`, `CopySegments` |
| the manifest | `ReadBytes`, `TooLarge`, `ListPayloadRoots`, `CountPayload`, `WriteManifest` |
| permissions, `fs::rename` | `Restrict`, `Publish` |
| death of the process, other failures | `Crash`, `Fails` |

`Accepts` is the validation of `import_snapshot`, `Hits` what
`search_snapshot_hits` finds. Destinations with one stem share the temporary
directory (`with_extension("tmp-export")`), and SQLite refuses to write to a
database file that has been moved or unlinked: that is what keeps two exports
that meet from mixing their rows. The histories of an export are what it
selected (`only`), what was served when it read its sources (`moment`), what was
deleted since (`lost`), what was served while it ran (`seen`), and whether it was
alone and undisturbed.

### EmbeddingSync

`stored` and `current` are segments of the index; `spaces`, `active`, `vectors`,
`links` and `failures` are the tables of migration 0004, with their foreign keys.
`tag` is the model the configured name resolves to: it may be pulled anew at any
time, and `embed` sends the name.

| Code | Actions |
|---|---|
| `active_segments`, `resolve_model`, `find_existing_dimensions` | `Start`, `Resolve`, `ChooseSpace` |
| `persist_space`, `set_active_space` | `Persist`, `Activate`, `Clear` |
| the vector cache | `Lookup`, `Link`, `Drop`, `EndLookup` |
| chunks: `embed`, the transaction, `record_failures` | `Embed`, `Malformed`, `Store`, `Blame` |
| the end | `Finish`, `Report` |
| a statement refused by a foreign key, death | `Refused`, `Crash` |
| `semantic_hits` | `LoadSpace`, `CountLinked`, `ResolveQuery`, `EmbedQuery`, `Scan` |
| indexer, owner, registry, damage | `Promote`, `Vanish`, `RemoveRoot`, `Configure`, `Pull`, `Damage` |

### Retrieval

A query is `request`, the results of its channels (`semantic`, `found` and
`lexical`, one list for each snapshot in `lists`), the state of the fusion
(`cursor`, `admitted`, `best`), the final ranking and the response. A channel
gives any ranking of any part of what it may see, in place of BM25 and cosines.

| Code | Actions |
|---|---|
| `retrieve`, `retrieve_with_runtime` | `Ask` |
| `semantic_hits`, `SqliteExactVectorSearch` | `SemanticSearch`, `SemanticFails` |
| `search_fts`, `suppress_duplicates`, `filter_sensitivity` | `LexicalSearch`, `LexicalFails` |
| `federate_with_snapshots`, `search_snapshot_hits` | `Federate`, `SearchSnapshot`, `SnapshotFails`, `Gather` |
| `rrf_merge`, one candidate at a time | `Admit`, `NextList`, `Rank` |
| `resolve_budget_args`, `pack_results`, one hit at a time | `StartPack`, `Take`, `Shorten`, `Stop`, `EndPack` |

Scores are whole multiples of 1/`Scale`, a common multiple of the denominators,
instead of 32-bit floats. Limit and budget are chosen when packing begins, which
is when they are first used. `seen` is a history variable.

### Evaluation

Operators for recall, reciprocal rank, nDCG and the duplicate rate.
`JudgedRetrieval` applies them to every response of `Retrieval` that an evaluation
could get (an index nobody changes, no snapshots), against every judgment. The
cut-offs (5 and 10 in the code) are `Small` and `Large`, and 1/log2(rank + 1) is a
falling table of whole numbers.

## Runs

| Run | Instance | Checks | Shows |
|---|---|---|---|
| `SoloScan` | 1 process, 2 files of 3 versions each or one of 5, 4 contents (1 malformed), 1 fault, fair | `FtsExact`, `OwnSnapshot`, `ChangesAreFlagged`, refinement of `EvidenceStore`, `NewContentReachesSearch` | with one indexer at a time the promises hold in every state, whatever the owner does and wherever the indexer dies, and a change reaches search in the end, also a third content after A, B, A, unless the content is malformed or one the file had before whose revision is no longer current |
| `ConcurrentScans` | 2 processes, 2 files, 2 contents, 2 versions each, 3 ids, 1 fault | `Lineage`, `AuthenticEvidence` | two indexers at once never mix two files up |
| `SoloRevert` | 1 process, 1 file, 4 versions, fair, no faults | `ModifiedFilesReachSearch` is violated | a file that goes back to an earlier content is never served again |
| `GitSince` | 1 path, 3 contents (1 too large), 3 commits, 5 steps of the owner, 1 fault, fair | `IncrementalIsComplete`, `Incremental`, `ChangesReachSearch` | what search does not serve as it is is listed by the next incremental scan, unless it is at risk, and comes to be served |
| `Paths` | up to 3 ignore rules, 2 replacements | `Decisions`, `PoliciesAgree` | each policy decides what it declares, a replaced path never leads out of the root, and on ordinary paths the policies agree |
| `PathsIgnored` | 1 ignore rule | `SameIgnoreRules` is violated | an incremental scan takes in what is below an ignored directory |
| `SnapshotFaults` | 2 processes, 2 ids, 2 snapshot roots, 2 local roots, 1 fault | `Registration`, `SearchedIsWhole`, `RegisteredIsHealthy`, `OneAtATime`, refinement of `SnapshotCatalog` | no crash, failure or interleaving gives the final name to a payload that is not whole, or loses a map whose local root was not removed, or lets a query open a copy in progress; maps go only with their snapshot or their local root, and do not return when an index run brings the root back; until something fails, what is registered has its payload; commands one after the other leave exactly the registered payloads; and a snapshot comes, stays readable and goes as the catalogue says |
| `Exports` | 2 exports, 1 destination, 2 roots of 1 file, 1 commit of another command, 1 fault | `OneMoment`, `Recent`, `QuietExportImports` | a snapshot that can be imported shows a root as it was at one moment and nothing from before the export, and an undisturbed export can be imported |
| `Roots` | 2 processes, 2 ids, 2 directories, 1 fault; and one command at a time, 3 ids, fair | `Approval`, `SearchedOnce`, `SoloStoresAgree`, `SoloRemovedStaysOut`, `SoloEnabledIsSearched` | lost updates, torn files and crashes never produce a root that was not approved, or a directory twice; with commands one after the other the two stores agree, and an enabled root comes to be searched |
| `RootsRevoked` | 2 processes, 1 root, no faults | `SearchedIsApproved` is violated | an index run brings back a root that was removed meanwhile |
| `Embeddings` | 1 process and 1 query, 2 segments, 2 texts, 2 models, batches of 1, 2 changes, 2 faults, fair | `Sound`, `ComparedAlike`, `ReportIsTrue`, `FailedIsUnlinked`, `CoverageReturns` | the embedding tables stay sound under the indexer and the registry, reports are true, and lost or damaged vectors come back |
| `Queries` | 4 local segments of 3 files, 2 snapshots, 2 texts, 1 change, fair | `Sound`, `OnlyPermitted`, `OneRevision`, `FusedByDefinition`, `LostToCopies`, `HeadOfRanking`, `WithinBudget`, `ResponsesAreMeasured`, `EveryQueryEnds` | whatever the channels rank, the response is what the request may see, fused by definition and packed within its budgets, and its measures are sound |

The snapshot, export and root runs do not check for deadlock: ids, commits and
exports are bounded, and when they are used up nobody is obliged to run another
command. Nor do `Paths` and `Queries`, where one path is examined and one query
answered per behaviour. `SourceIndex`, `GitIncremental` and `EmbeddingSync` never
stop, and their runs do check.

Bounds. `MaxVersions` bounds the versions of a file, of which the first is that it
is not there: three are created and changed, or created and removed; four (in
`SoloRevert`) are A, B, A, or created, changed and removed, or created, removed
and recreated, the last with the same content or another; five are also A, B, A,
then C, and recreation after a change. `Limits` says how many the files may have
together: in `SoloScan` three each, or five one of them while the other is never
there. In `ConcurrentScans` a file has one edit, which each of two scans may meet
at any point; `Lineage` is proved for any number. `MaxFaults` bounds crashes and
failures: one can fall at any step; what a scan, a command or a synchronisation
meets after one is in every run, as they go on afterwards. Two snapshot ids let an
import of one meet the removal of another, two snapshot roots let a map go while
another stays, and a third root id lets a directory be removed and approved anew
while another is configured. The actions on roots in `SnapshotFaults` need no
bound: they go round a finite set of rows. `SourceIds` has one id more than the
paths where two processes may each take one for a new path. In `GitSince` paths do
not interact (the theorems are for any number); five steps of the owner are enough
to commit, check out, revert and recreate between two scans and during one. In
`Exports` one commit can fall between any two statements; with one process, three
commits, two faults and two destinations the properties hold as well (3.6 million
states). In `Embeddings` two changes let the tag move and a segment be replaced,
two faults let a vector be damaged and the next synchronisation fail. In `Queries`
caps are two or a little more, so that each is reached; three texts' worth of
copies (two here, two in snapshots) let a local copy come before, between and
after those of snapshots. `Paths` has up to three rules, one for each source, and
two replacements, there and back. No action is bounded otherwise.

Fairness. In `SourceIndex`, `FairSpec` asks for weak fairness of what each process
does by itself: a process that runs takes its next step, and somebody keeps
running `omnisem index`. Faults and edits are never fair, and both are bounded,
so "once the owner stops editing" is what every behaviour comes to. The same
holds of `GitIncremental` (somebody runs `--since` again and again, and a scan
goes on), of `EmbeddingSync` (somebody runs synchronisations; answers may fail,
but only `MaxFaults` times) and of `Retrieval` (a query goes on by itself: nobody
else is needed for its next step).

In `RootLifecycle`, `Fairness` asks that a command that has begun goes on (weak)
and that `omnisem index` is run again and again (strong, since each of the other
commands makes it wait); `EnabledIsSearched` assumes that the root stays enabled.

## Proofs

`SourceIndexProofs` proves, for any sets of processes, paths, contents and ids,
under `SourceIndexAssumption` (values that stand for NULL or absence are not
ids, paths or contents):

- `LineageInvariant`: `Spec => []Lineage`. `Lineage` is inductive. A source that
  points to an indexed revision of its own (`OwnRevision`) is not inductive by
  itself: a process writes back the pointer it read (`JobRows`), for the id it
  read or took (`JobIds`), and the deletion pass uses ids it listed
  (`ListedRows`). The proof treats the steps that write no table with one lemma
  (`LocalsKeep`) and those that do with another (`TablesKeep`), whose hypothesis
  `RowsGrow` says that rows keep their ids and at most the document's own row is
  new.
- `TypeCorrect` and `SearchIsAuthentic`: consequences of it.
- With one process at a time (`OneProcess`, a hypothesis of each theorem):
  - `SoloSearchIsExact` and `SoloRemembersRight`: `FtsExact` and `OwnSnapshot` are
    invariants. The first needs the second, that what the process remembers is
    what the tables hold, which no other process disturbs (`SoloLineage`).
  - `SoloImplementsStore`: `Spec` implements `EvidenceStore`. The refinement needs
    that search never runs ahead of the version it reflects, and that a document
    in hand was read from a version no older than that (`Versions`, `Ahead`).
    `StoreReflects` and `StoreNext` map each step to a step of the store or to a
    stutter: the promotion and the deletion of a source are its steps.
  - `SoloSearchNeverGoesBack`: what the store promises carries over. Search shows
    the version it reflects (`ServesReflected`), and no step takes it to an older
    one (`NeverBack`), shown of the steps of the store alone.
  - `SoloChangesAreFlagged`: between the upsert of a new modification time and the
    promotion of the text search serves what no longer fits (`Pending`); any other
    row tells of its file (`Told`), as long as nothing has failed.

`SnapshotRegistryProofs` proves, under `SnapshotRegistryAssumption` (a manifest
has a root; "no value" is not an id):

- `RegistrationInvariant`: `Spec => []Registration`. `FinalIsSound` alone is not
  inductive: that the final file is whole depends on what the import still holds
  (`JobsHold`: the copy is whole once validated, the registration is not final
  before the rename), on one import per id (`IdsAreFresh`), and on a removal that
  read the path while the import was not done (`RemovalOwns`: it holds the
  temporary path). The steps that write neither a table nor a file are treated
  with one lemma (`LocalsKeep`), each of the others with its own.
- `SearchOpensWhole`: a consequence of it.
- `QuietRegistryIsHealthy`: while nothing fails, a row has its file except between
  a rename and the UPDATE of the path, and only then (`Intact`).
- `AloneNothingIsLeft`: about `MCSpec`, because whether commands have overlapped is
  the history `alone` of `MCSnapshotRegistry`. `Solo` says what the one command has
  in hand, step by step, and that every other snapshot is `Settled`.
- `RegistryImplementsCatalog`: `Spec => ImplementsSnapshotCatalog`, for any number of
  processes and faults. Each step is mapped to a step of the catalogue or a
  stutter, from `Registration` before and after it; that maps are granted with the
  registration and never before (`GrantedOnce`) keeps a snapshot from coming back.
  A root's row may return at any step; that its maps do not is what `Complete` and
  the catalogue say of it, with the history `lost` of the maps that went with it.

`RootLifecycleProofs` proves, under `RootLifecycleAssumption`:

- `ApprovalInvariant`: `Spec => []Approval`. What a command holds must be
  consistent with what was approved (`JobsApproved`), since it writes it back
  after others have changed both stores. `StepKeeps` reduces each step of one
  process to what it writes and what it holds afterwards.
- `SearchIsApprovedOnce`: a consequence of it.
- `SoloStoresMatch` and `SoloRemovalIsFinal`: about `MCSpec`, whose scenario `solo`
  is that of commands one after the other and without failures. `SoloHolds` says
  how far the one command has got: the stores differ at most in the root that an
  edit under way is about, and an index run works on roots that are configured.

`GitIncrementalProofs` proves, under `GitIncrementalAssumption`:

- `IncrementalInvariant`: `Spec => []Incremental`. What holds between scans
  (`InStep`: a path that is not at risk is in step with the base) is not
  inductive: during a scan a path moves from the base to the head
  (`BetweenCommits`), it is there once no change of it is left
  (`ChangesProgress`, which needs that a change listed for a clean path still
  fits, `CleanPaths`), and a full scan has put right what it has visited
  (`FullScanProgress`).
- `IncrementalScansAreComplete`: a consequence of it and of what `git diff` and
  `ls-files` list.

`EmbeddingSyncProofs` proves, under `EmbeddingSyncAssumption`, for any number of
synchronisations:

- `EmbeddingsSound`: `Spec => []Sound`. `LinksHold` needs what each process has
  read to be of the segments as they are or gone (`JobsHold`), since a
  synchronisation writes links for what it read at its start. `Unmixed`, a part of
  `Sound`, needs the model of an answer that is not stored yet; it excepts the
  spaces of models that the tag left while a command counted on it (`moved`),
  space by space: the others stay unmixed.
- `QueriesCompareAlike`: a consequence that needs `QueryHolds`, what a query has
  resolved.

and for one synchronisation at a time (`OneProcess`):

- `SoloReportsAreTrue`, `SoloFailuresAreUnlinked`. The invariant `Solitary` says how
  far the synchronisation has got (`Progress`): what it counts as linked is linked
  as long as it is stored, and its text is not to be looked up again
  (`LinkedHold`), so that no later statement drops that link; what it has still to
  embed has no vector in the space, which nobody else fills (`PendingHold`).

`RetrievalProofs` proves, under `RetrievalAssumption`, `HitsAssumption` and
`NoneAssumption` (there are finitely many hits and snapshots; no value is a hit
with its score), and for the measures `EvaluationAssumption` (finitely many
references; positive discounts that fall, up to the larger cut-off at least):

- `RetrievalInvariant`: `Spec => []IInv`, and from it `RetrievalSound` (each list
  has only what the request may see: the snapshots' lists, the fusion's
  accumulators and the final ranking all come from permitted lists),
  `ResponsesPermitted` and `ResponsesWithinBudget` (packing spends what it counts).
- `LostToCopiesOnly`, `ResponsesAreHeads`, `ResponsesOfOneRevision`: consequences of
  `Ordered`, which follows a hit from its channel through the lists and the fusion
  to the ranking: rankings are dense (`Rows`), which channel a query with a
  response of one channel has used (`Route`), where the lists and the ranking come
  from (`Descent`), and that what is packed is a prefix (`Heads`).
- `FusionByDefinition`: the loop of `rrf_merge` adds one entry at a time and drops
  what snapshots had contributed to a text when a local copy of it comes; the
  definition sums over all entries seen. `Counted` relates the two. That a sum
  over a finite set is the sum over the set without an element plus that element
  (`TotalMore`) is proved from the definition of `Total`, with a smallest subset
  for which two ways of summing differ (`SumsAgree`).

- `EvaluationsMeasure`: `Spec => []ResponsesAreMeasured`. While nobody changes the
  index a query has seen only what is there (`SeenIsThere`), so the hits of a
  response are of as many files (`IsolatedAnswers`), and the ranks of relevant ones
  are at most as many as the labels (`RanksInject`). That nDCG is at most 1 is
  then about sums of falling values: of sets of so many ranks the first ones sum
  to the most, and no others do (`FirstFewSumMost`), and gains are a sum over the
  positive ranks and twice one over those of the best grade (`GainsAre`). What
  would be an induction is a smallest set for which the claim fails
  (`LeastSubset`).
- `QueriesDescend`: the safety half of `EveryQueryEnds`. Each step of the query
  (`Nearer`) takes it to a later stage or makes `Rest` smaller, a natural number:
  snapshots still to search, lists and candidates left to fuse, room in the
  response.

`DiscoveryProofs` proves, under `DiscoveryAssumption`, for any bound on rules and
replacements:

- `ExaminedInvariant`: `Spec => []Examined`. `Decisions` is about verdicts; what
  is known on the way to them, test by test, is `Passed`.
- `PoliciesDecide` and `PoliciesAgreeAlways`: consequences of it.

`SnapshotExportProofs` proves, under `SnapshotExportAssumption` (no file is not a
file), for any number of exports:

- `SnapshotsAreRecent`: `Spec => []Recent`. An export may publish what another one
  wrote, so the property is not about what it copied itself. It needs that a file
  with tables is only written by exports that run since before it had them: an
  export that has made the tables has seen all that is in the file
  (`Witnessed`), one that comes later fails at CREATE TABLE, and a file without
  tables is empty (`Shelf`). `Step` says what any action of an export does to the
  files; each action is shown to be one (`ExportSteps`), and the invariant is shown
  to survive any `Step`.
- `SnapshotsShowOneMoment` and `QuietExportsImport`, consequences of `Kept`: of an
  export that met no other one, `Lone` says step by step what its payload has. The
  roots are those it selected and the sources those it saw (`Own`); there is one
  revision of a source, and a segment of each source that had a revision and was
  not deleted since (`Matched`); the manifest is of this payload (`Written`); and if
  nothing has changed, the payload is what the database says (`Still`). The
  validation of an import then leaves no other revision than the one of the
  moment.

`SnapshotRegistryProofs` and `RootLifecycleProofs` extend the `MC` modules for their
histories and take nothing else from them. `Fairness` in `MCSpec` of
`MCRootLifecycle` is not used by a proof.

Checked by TLC only: liveness (`NewContentReachesSearch`, `SoloEnabledIsSearched`,
`ChangesReachSearch`, `CoverageReturns`, `EveryQueryEnds`), which needs ENABLED. Of
the last, `QueriesDescend` proves that a query takes finitely many steps; that it
has one to take until it is answered is left to TLC.

## Findings

Each run that is expected to find a violation quotes the document it refutes in
`PROJECT.json`: (1) A, B, A is refused for ever by the UNIQUE key of `revisions`
(`SoloRevert`); (2) an index run that started before a root was removed brings it
back, and `root remove` cannot remove it again (`RootsRevoked`); (3) an incremental
scan does not apply ignore rules as the walk does: it takes in files below an
ignored directory, and reads rules of nested files relative to the root
(`PathsIgnored`).

These disagreements are stated in the modules as definitions of their own, and
TLC refutes each within seconds on the instance named:

- `StaleIsFlagged` (`SourceIndex`; one process, no faults). A rejected parse stores
  the new modification time with the old revision (index.rs:707), so stale text is
  called current; the blueprint (line 2894) wants it flagged.
- `NeverMixed` (`EmbeddingSync`; the instance of `Embeddings`). A tag that is pulled
  anew between the check of its digest and `embed` (embedding_sync.rs:131, 212)
  brings vectors of another model into a space; the README of the program (line
  26) has "digest-isolated spaces".
- `FtsExact` (`SourceIndex`; two processes, one file, three versions). The deletion
  pass of one scan clears a source with the row it listed (index.rs:511), after
  another has promoted a revision: its FTS rows are orphaned (blueprint, line 2870).
  Search does not show them: `SearchIsAuthentic`.
- `SearchedIsQueryable` (`SnapshotRegistry`; one process, two roots). A snapshot with
  a map missing is reported not queryable and still searched (snapshot.rs:726, 740).
- `ExplicitOnly` (`Retrieval`; `Tags <- MCBothTags`). A path under a
  `require_explicit_query` entry and a `never_return_to_mcp` one is returned to a
  request that does not opt in, because `sensitivity_for_path` prefers the latter
  and `filter_sensitivity` lets it through (retrieval.rs:949, 970; domain.rs:144).
- `SelectedOnly` (`SnapshotExport`; the instance of `Exports`). Of two exports that
  share a temporary directory one may publish the payload of the other, with roots
  it did not select (snapshot.rs:80, 97).
- `AlwaysBackfills` (`EmbeddingSync`; the instance of `Embeddings`). After
  `embeddings.dimensions` goes from a number back to 0, the youngest space keeps
  asking for the old dimensions and every batch of the provider's own is rejected
  (embedding_sync.rs:161).

Limits that properties state themselves: `RegisteredIsHealthy` asks that nothing
has failed (an import that dies between its rename and the UPDATE of its path
leaves a registration without a payload). `OneAtATime` asks that commands do not
overlap (a removal that overtakes the rename of an import reports success and
leaves the payload file). `QuietExportImports` asks that every active source has a
revision: a crash between upsert and promotion leaves one without, and an export
that takes it in cannot be imported. `OneRevision` leaves out hybrid queries,
whose two statements may see two revisions of a file. `ResponsesAreMeasured`
takes documents to be told apart: `validate_bundle` lets two have one
`document_id`, and then recall may exceed 1. A disabled root named with `--root`
loses all its sources in a full scan and is indexed by an incremental one
(`Discovery`: the walk refuses a disabled root, the check does not look).

## Plan

All modules of the plan are written but `Migrations` (versions and rollback), and
every safety property and refinement that a passing run checks is proved. What is
left: measures like that of `QueriesDescend` for the loops of a scan, a
synchronisation and an index run.

## Not modelled

Text and its segmentation, query parsing, BM25 and vector arithmetic, means and
percentiles of an evaluation, the status server's HTTP, argument parsing and
printing: pure computations or pure I/O without shared state that a model checker
would add anything to. Of an evaluation, the temporary installation runs the
indexer, the synchronisation and the queries of the other modules, and the pinned
provider repeats the check of the digest that `EmbeddingSync` has in
`ResolveQuery`. Migrations run once, in a transaction
each, before anything else; that two processes may open a new database at once is
left out.
