# Verification of obsidian-memory-mcp

TLA+ models of the server's core, model-checked with TLC, with proofs checked by
TLAPS. Paths like `writes/_service.py` are relative to `src/obsidian_memory_mcp/`
of the repository.

## The system

An MCP server gives a client guarded access to one Obsidian vault: a directory of
Markdown notes that the user edits at the same time. Every client starts a server
process of its own; a process handles one call at a time. A separate command
indexes the vault into a SQLite database, from which searches and context packs
are answered. Nothing locks the vault, and nothing keeps two servers, two index
runs and the user's editor from working at once.

| Part | State it keeps | Operations | Talks to |
|---|---|---|---|
| Write service (`writes/_service.py`, `_io.py`) | none; the files | `create`, `update`, `_write`, `_record_audit` | guardrails, `atomic_write`, audit |
| Supersession (`writes/_supersession.py`) | a plan, in a call | `plan`, `commit`, `_rollback` | files, archive directory |
| Write audit (`writes/_audit.py`) | table `write_audit` | `append`, `list` | SQLite |
| Server tools (`server.py`) | none; services are built per call | `write_memory`, `write_note`, `update_memory`, `update_note`, `read_note`, queries | all of the above |
| Readers (`retrieval/readers.py`) | none | `read`, `read_section` | files |
| Index pipeline (`indexing/service.py`, `_discovery.py`, `_candidates.py`) | locals of a run: candidates, rows fetched, counters | `run_index` | files, repository, parser |
| Index repository (`indexing/repository.py`) | tables `files`, `sections`, `blocks`, `blocks_fts`, `wikilinks`, `index_runs`, `index_errors` | one transaction per file | SQLite |
| Status (`status.py`) | none | `get_index_status`, `list_index_errors` | repository, discovery |
| Parser (`indexing/parser/`, `markdown/`) | none | `parse_markdown` | - |
| Context packs (`context_packs/`) | a cache of the configuration | `resolve`, `enforce`, `load` | files, index |
| Migrations (`migrations.py`, `alembic/`) | the schema; a memo of databases seen | `ensure_index_migrated`, repair | SQLite, every tool |
| Search (`retrieval/search.py`, `search_debug.py`) | none | `search`, `debug_search` | index |
| Guardrails, paths (`config/_guardrails.py`, `utils/_paths.py`) | none | `check_read`, `check_write` | configuration |
| Configuration (`config/`) | a cache per vault | load, validate | file |
| Registry, contracts, errors, CLI, benchmarks | static or none | printing, parsing, tables | - |

What is hard here, and hardly reached by the repository's tests:

- *Interleavings on files.* Checks (existence, `expected_hash`, a free archive
  name) and the rename they protect are separate system calls. A supersession is
  a dozen of them.
- *Partial failure.* A move, a merge or the audit fails in the middle of a
  supersession; the rollback itself can fail; the process can be killed.
- *Stale reads in the indexer.* What a run knows of a file comes from three
  moments: its stat, its row, its bytes. A row must not pair them wrongly, for
  a file with a fresh stat is never looked at again.
- *Recursion over what users declare.* Packs include packs; files reach a document
  list by several ways, and change between their read, the query of the index
  and the stat.
- *A database of unknown age.* Any program may be the first to open it, find it at
  any revision or half migrated, and be killed between two statements.
- *Text at its limits.* Fences, headings and token limits decide what a block is
  and what a section is, by scans that are written twice and split a text into
  lines in two ways.
- *Stale permissions.* Three programs have loaded the configuration at three
  moments, and the index was made under one of them.
- *Convergence.* Failures, kills, upgrades and unreadable directories leave an
  index that the next runs must bring back to the vault.

For the parts modelled, correct means: no text is lost or overwritten unless its
owner replaces it; a back-reference and an audit row name archive files that are
there until a call is given one of them; a rolled back call leaves its notes in
place; a refused call changes nothing; a file the indexer skips is indexed as it is;
a clean status is true; a successful run covers what it saw; repeated runs converge;
a pack is the files it declares, within its budget, fails only for one of them, and
what is newer than the index is reported; a database that was migrated is at the
head, and every program gets it there; what the user wrote is in the index once, is
found, and can be read; a permission withdrawn ends with the next index run and
restart. PROJECT.json lists the hazards line by line with the properties that catch
them.

## Modules

| Module | What it is |
|---|---|
| `NoteLedger` | Abstract: where the texts of a vault are, and which of them a call may write over or move, and where to. |
| `VaultWrites` | The write tools, supersession, audit and `read_note` as steps of server processes on one disk, with the user's editor, failures and kills. |
| `MCVaultWrites` | Instances of it for TLC. |
| `VaultWritesProofs` | Its types, and what a call leaves behind: theorems about audit rows, refusals and temporary files. |
| `VaultWritesSupersession` | What superseding keeps while clients share no names: theorems about references, audit rows and the written text; the write tools implement `NoteLedger`, so no text is lost; the archive and the rollback. |
| `Indexing` | `run_index` as a process, its database, the vault it indexes, failures, kills, upgrades; the status counters. |
| `MCIndexing` | Instances of it for TLC. |
| `IndexingProofs` | Theorems about it. |
| `ContextPacks` | A load of a context pack: validation of the includes, resolution, staleness, budget, while files are saved and indexed. |
| `MCContextPacks` | Instances of it for TLC. |
| `ContextPacksProofs` | Theorems about it. |
| `Migrations` | `ensure_index_migrated` by several programs on one database, with the two revisions, interruptions, failing statements and downgrades. |
| `MCMigrations` | Instances of it for TLC. |
| `MigrationsProofs` | Theorems about it. |
| `Markdown` | What the parser and `read_section` make of a text: fences, headings, sections, keys, units, blocks. Operators only. |
| `Retrieval` | The configuration and its cache, the read guardrails, the index as `Markdown` fills it, `search_notes`, `debug search`, `read_note`, `read_section`. |
| `MCRetrieval` | Instances of it for TLC. |
| `MarkdownProofs` | Lemmas: what sections, units and blocks are, of every text. |
| `RetrievalProofs` | Theorems about `Retrieval`. |
| `Lists` | Lists, and the comprehensions of the code over them. |
| `ListsProofs` | Lemmas: induction, recursion along a list, what selected, joined and flattened lists are. |

### VaultWrites

One action for each point of a call at which the disk is read or changed. `pc[s]`
is where server `s` is; `call[s]`, `moved[s]`, `cur[s]`, `buf[s]` are the locals
of the code (`SupersessionPlan` is `call[s].dest`, `completed` is `moved[s]`).
`files` is the disk, live notes and archive slots; `temps` the temporary files of
`atomic_write`; `audit` the table `write_audit`. `touched` and `outcome` are
history: which calls changed a file, and how each ended.

- `create`: `Create` (checks, staging), `Replace` (`os.replace`), `Audit`.
- `update`: `Update`, `Replace`, `Audit`.
- `update_memory` with supersedes: `Plan`, `UpdatePlanned`, `Replace`, for every
  source `MoveSource`, `StampRead`, `StampReplace`, then `LinkRead`,
  `LinkReplace`, `Audit`. An exception in `commit` goes to `MoveBack` for every
  completed move and `RollbackDone`.
- failures: `WriteFails`, `CommitFails`, `MoveLeavesCopy`, `MoveBackFails`,
  `AuditFails`, `Kill`; the user: `EditorSaves`, `EditorDeletes`.

A call may name any file of the vault, one in the archive too: `update_memory`
accepts `Memory/archive/x.md` as its target and in `supersedes`. Such a call moves
or rewrites a file that a live note refers to, so the properties of the archive hold
of a file until a call is given it; `named` is the history of those. An archive
file that is superseded gets a new ending, as its own name is taken by itself.

A file is `[body, head, by, refs]`: the text supplied, what is left of its
frontmatter, `superseded_by`, `supersedes`. Every text is new and names the call
that wrote it; a hash is the content. `HeadOf` says what frontmatter each text comes
with: none, a YAML mapping, other YAML, or text that cannot be read or parsed. A
merge (`MergeRead`, `MergeReplace`) keeps a mapping, drops other YAML (`Kept`) and
fails on the last (`Mergeable`), which leads to the rollback.

Simplifications: a merge also renders the mapping anew, which changes white space
and quoting that are not told apart; a text comes without `superseded_by` and
`supersedes` keys of its own, and timestamps are left out; `plan` is one step (it
only reads); the existence and hash checks of `update` are one step; a uuid ending
is any ending that is free; torn copies of a move across file systems are not
modelled (a copy that cannot be deleted is).

### Indexing

One action per step of `run_index` that touches the disk or the database, each
database action one transaction of `repository.py`. `rows` is the table `files`,
`derived[p]` what the sections, blocks, FTS rows and wikilinks of `p` were made
from (a content and a parser version; they change in one transaction).
`cand[i]` are the candidates, `snap[i]` is `file_rows`, `buf[i]` the bytes read.
A content has a `Kind`: what the parser and the schema make of it (`sound`,
`frontmatter` = malformed YAML, `undecodable`, `clashing` = two sections of one
key). Files are processed in any order (the code sorts them).

Simplifications: every save has a stat of its own (an editor that changes a file
and leaves size and mtime as they were is not seen by any stat-based index, and
is not modelled); the paths are those the guardrails admit, and the guardrails do
not change; a vault starts empty with an empty index; SQLite transactions are
atomic and serialised.

### ContextPacks

One load at a time; the locals of the recursive functions are a `stack` of packs,
each with the includes still to visit, `visited`, and the documents so far.

- Validation (`_validate_context_pack_references`, `find_context_pack_cycle`):
  `ValidateFrom` starts the depth-first search from a pack not yet visited,
  `ValidateChild` and `ValidateLeave` are its steps, `ValidateDone` its result.
  A `Request` that is `checked` goes through it; one that is not stands for a
  `ProjectConfig` built by a program, which the resolver must survive.
- `ContextPackResolver`: `Enter` is the head of `_resolve_pack` (the unknown name, the
  cycle, the expansion of the paths), `Read(i)` one thread of the pool, `Gather` the
  results in order with tags, sections and the test for duplicates, `Include` the
  loop over the included packs and the return from it.
- `ContextPackLoader.load`: `Query` is `indexed_at`, `Stat` the comparison with the
  times of the files, `Enforce` is `BudgetEnforcer.enforce` with the content it cuts.
- The user and the indexer: `Save`, `Delete`, `Index`.

Simplifications: tokens add up, and each piece costs `Header` more; a text has one
set of tags and a flat sequence of sections (in the code a named section contains
its subsections, and one named inside another is there twice); a file either can be
read or is one of `Broken` (not UTF-8, not to be opened); the guardrails are the set
`cfg.readable`; a glob is the set of the files it matches; the names asked for are
declared (names included need not be); the stats are one step; the search in the
index that ranks the files before a cut may give any order of any indexed files;
`touched` is the history of the files saved or deleted during a load; the list of
files left out by their tags and the texts of warnings are left out.

### Migrations

The database is the set of its tables and indexes and the set of rows of
`alembic_version`. A program that opens it (`Begin`) detects the state of the
installation (`Detect`), counts what is pending (`CountPending`), compares the
tables with those the head needs and forbids (`Compare`), reads the revision
(`NeedsRepair`), stamps a broken database back to base (`ReadStamp`, `StampBase`)
and upgrades: `ReadHeads` plans the revisions, `Execute` runs one statement of
one revision, `Record` writes its row, `Remember` puts the path into the memo of
the process. `Raise` ends a call that cannot go on, `Interrupt` a program
between any two statements (killed, or by an error of the disk), `Restart` is a new
process, `Downgrade` the operator's `alembic
downgrade -1`, by the same statements.

A database at revision 001 whose tables are incomplete (an interrupted second
downgrade leaves one) is upgraded to 002 as it is and remembered as migrated: the
comparison is made before the upgrade and never after. The next process repairs
it. `EnsuredIsMigrated` exempts exactly these (`vouched`), and a database that the
operator has downgraded since. The comparison does not look at indexes.

In the passing run one program migrates at a time or the database is finished
(`MayBegin`, `Overlap = FALSE`): the lock of `ensure_index_migrated` is one of its
process. With `Overlap = TRUE` TLC finds that two programs which open an index of an
older, unversioned version can both upgrade it from no revision; `alembic_version`
ends with the rows 001 and 002, and `_current_revision` raises for every program
from then on. A program that compares the tables before and reads the revision after
the upgrade of another stamps a whole database back to base. No document promises
anything of two programs, so no run is kept for this; `Overlap` stays a constant
because `TypeCorrect` and the first half of `StaysMigrated` are proved for both
values.

Simplifications: statements of SQLite commit one by one (the driver commits
before DDL); Alembic is what its log of statements is; a table that exists has
its columns.

### Markdown and Retrieval

A note is a sequence of lines; a line is its kind (text, blank, table, heading,
fence), its size, what the scans read of it (level, marker, length, suffix) and
one word. `Sections` is `find_headings` and `build_sections`, `SectionUnits` and
`SplitOversized` the chunker up to its units, `BuildBlocks` the packing under the
three token limits; a block is a sequence of units, a unit a sequence of pieces of
lines, so that one can see what became of every character. `ExtractSection` is
the other scan, which `read_section` makes over the whole file, on lines of its own:
the parser splits a text at line breaks, the reader with `str.splitlines`, which also
splits at form feeds, vertical tabs, NEL, U+2028 and a few more. `line.cut` is what
the reader makes of such a line; `ReaderLines` and `ReaderEnd` lead from the lines of
the parser to those of the reader.

`Retrieval` puts them together: `RunIndex` is `mcp-memory index` from beginning to
end (its interleavings are those of `Indexing`; a note with clashing sections ends
it after any of the others, and a file that cannot be read keeps the rows it had),
`SearchNotes`, `ReadNote` and `ReadSection` load the
configuration at the first call of a server and keep it (`cached`), `DebugSearch`
loads it every time. The user edits the configuration, which may be broken for a
while, and the notes.

What the properties say precisely, because the code does not do more:

- `docs/retrieval-guide.md` has every tool apply the read guardrails before it
  returns content. A search does not (`retrieval_search_denied`): only the run of
  the indexer does, with the configuration of its start. `DeniedOnlyWhenStale` says
  what remains true: while the configuration is the one the index was made under, a
  search finds files only under names it permits.
- A symbolic link is indexed, and found, under its own name; reading it asks the
  guardrails for its target. A link to a private note that has a readable name is
  searched and not read, with nothing stale. `DeniedOnlyWhenStale` says that this is
  the only way to find what cannot be read.
- `FoundSectionsAreReadable` excludes a heading whose name occurs above (the first
  is read; a comment in the front matter counts as a heading), a front matter with
  a code fence, and a note in which a line that only the reader splits is, or is
  split into, a heading or a fence (`SplitAlike`). The last is needed: of a note with
  the lines `# a`, text with a form feed before `# b`, and more text, `read_section`
  ends section `a` at the form feed, and TLC finds it when the premise is dropped.
- The chunker closes a fence at any fence line that is long enough, the scan for
  headings only at one without a suffix: where the two differ a fence may be cut
  (`Misread` in `FencesStayWhole`).
- A heading without text below it has no block and is not found; `context_suffix`
  is always empty, as the line after a section is a heading or the end.
- A rule `dir/` denies everything below the directory, at any depth.

Simplifications: headings differ as their slugs do; lines have no white space at
their ends; where the front matter ends is the same for the parser and the reader
(no part of a line that only the reader splits is a `---`); the directories on the
way to a file are no links, as the scan of the vault enters none; a word is a token
of the full text search, and a regular expression a set of words of which each
occurs in what it matches; which rows come first among equals of the limit is open;
the FTS query language is left out.

## Runs

Passing runs:

| Run | Instance | Shows |
|---|---|---|
| `writes_solo` | 1 server, 3 notes of one name and the archive file of that name, which may be there and which calls may name; frontmatter that is a mapping, is other YAML or cannot be merged; 2 calls, 1 fault, fair | `BackRefsResolve`, `AuditedArchivesStay`, `RolledBackNotesAreLive`, `KeepsLedger` (refinement of `NoteLedger`), `WrittenNoteIsWhole`, `CallsReturn` |
| `writes_shared` | 2 servers and the editor on the same 2 notes, 2 texts, 2 faults | `TypeOK`, `RefusedCallsChangeNothing`, `AuditTrail`, `TempsAccounted`: what holds whoever else is at work |
| `indexing_one` | 1 indexer, 2 notes, all kinds of content, 2 saves, an upgrade, 2 faults, fair | `TypeOK`, `SkippedFilesAreCurrent`, `CleanStatusIsTrue`, `SuccessCoversCandidates`, `IndexCatchesUp` |
| `context_packs` | 343 graphs of includes over 3 packs (with self-inclusion, double inclusion and an undeclared name); and 3 packs that name the same 3 files as path, glob and twice, with tags, sections and budgets of 3 and 4, in vaults of two readable files, and of files that are not UTF-8 or cannot be opened; one save or deletion at any moment, indexing at any moment, fair | `TypeOK`, `CyclesAreReported`, `ValidationIsExact`, `PackIsItsFiles`, `LoadsFailForAFile`, `BudgetHolds`, `TruncatedAtSections`, `SavedSinceIndexingIsWarned`, `LoadsEnd` |
| `migrations` | 2 programs, every kind of database they can find (none, empty, of an older version, at each revision, with tables missing), 3 interruptions, failures or downgrades, one migration at a time, fair | `TypeOK`, `OneRevision`, `EnsuredIsMigrated`, `MigratedStaysMigrated`, `EventuallyEnsured` |
| `retrieval` | all notes of up to 4 lines of 9 kinds, up to 5 lines of 4 kinds, and up to 4 lines with one kind that only the reader splits, limits of 3, 6 and 9 tokens, indexed, searched and read; and a vault of a note, a private note and a link to it, two policies and a broken file, 3 changes in any order with runs, restarts and 5 searches, 7 reads (two by absolute paths), `debug search` | `TypeOK`, `DeniedOnlyWhenStale`, `IndexedTextIsFound`, `FoundSectionsAreReadable`, `ChunksKeepText`, `BlocksWithinLimit`, `SmallBlocksOnlyAtLimit`, `FencesStayWhole`, `KeysClashOnlyForRoot` |

Runs that end in a violation, each a documented promise that the code breaks:

| Run | What the documentation says | What happens |
|---|---|---|
| `writes_lost_update` | an update is rejected if the file changed since the hash | the hash check and the rename are two steps: what the editor saves in between is overwritten |
| `writes_archive_race` | "the archive never overwrites an existing file" | two servers plan the same free name; the second move overwrites the first |
| `writes_stamp_kept` | `superseded: true` when the note was moved to the archive | a rollback moves notes back with the stamp |
| `indexing_many` | a path that reappears is rebuilt | of two runs at once, one tombstones a file and the other, with rows read before, makes its row active again without derived rows; incremental runs skip it from then on |
| `indexing_clash` | the run continues for other files | text before the first heading and a heading `Root` have the same section key; the constraint fails the run, every time |
| `retrieval_search_denied` | every tool applies the read guardrails before returning vault content | the user withdraws a permission after an index run; a server that has loaded the new configuration answers a search with a file it forbids |

Two more divergences need no run to be seen: `read_note` reads the file twice, for
the text and for the hash (`ReadText`, `ReadHash`), and may pair versions;
`update_memory` with `supersedes` returns the hash of the text without the
references it then adds (see the last conjunct of `WrittenNoteIsWhole`), so that an
update with that hash is refused. And a create overwrites a file that appears
between its existence check and its rename, by the same two steps as an update.

### Bounds

- `MaxBody = 2` texts after the start are two calls, or a call and an edit: every
  race above is between two actors and needs no more. Kills and faults are
  bounded by `MaxFaults`: in `writes_solo` a commit fails at the note whose
  frontmatter cannot be merged, without a fault, and the one fault then fails its
  rollback; `writes_shared` has two.
- Three notes of one name and an archive file make a supersession of two files whose
  archive names collide, with each other or with what is there. `Tags = {Plain, u1,
  u2}` gives the name two more endings, so that a call can archive two files beside
  one that is there, or a second call the archive file of the first.
- Two paths in `Indexing` tell a file from the others; two saves are a version and
  a later one of the same file, or one of each; two parser versions are an
  upgrade; two faults make a failure and a failure of its diagnostics. Safety
  was also checked once with three saves and one fault (9.4 million states).
- Three packs make cycles of every length up to three, a diamond (`c` included by
  `a` and by `b`) and a cycle that the root reaches without being on it. In the
  files' setups the whole content needs up to 8 tokens, so that budgets of 3 and 4
  cut between files and inside one. Files that cannot be read are in the vaults with
  the budget of 4, all others in those with 3. `MaxTime = 2` allows one change of a
  file that was there from the start: before, between or after its read, the query
  and the stat. The third file is outside the guardrails, and must never show.
- Two programs make every race of a migration; three interruptions cut an upgrade,
  the repair of what is left, and the repair of that.
- Lines of 4, 5, 9, 17 and 40 characters against blocks of 18 (9 tokens of 2) make
  units that fit, that fit exactly, that do not fit together and that must be cut
  in three. Four lines are a fence, its end and a line before and after, or two
  headings with text. A line with a form feed, which the reader makes three lines of,
  stands before, in and behind headings and fences. Three changes withdraw a
  permission, give another and save.

### Fairness

- `VaultWrites`: weak fairness of `Progress(s)`: a server process that is in a call
  goes on executing it (the code has no waits). Requests and failures are not
  fair. `CallsReturn` says every call ends, kills and failing rollbacks included.
- `Indexing`: weak fairness of `Progress(i)`, and of `Request(i)`: the command is
  run again and again, in either mode. Without repeated runs nothing converges;
  the documentation has the user or a scheduler run `mcp-memory index`. Saves,
  faults and upgrades are bounded, so that `IndexCatchesUp` speaks of what happens
  once the vault has come to rest.
- `ContextPacks`: weak fairness of `Progress`: a load goes on, and a thread of the
  pool that was given a file reads it. `LoadsEnd` then says that the recursion
  ends on every graph of includes, validated or not.
- `Migrations`: weak fairness of the steps of a program that has begun and of its
  calls: clients call again. `EventuallyEnsured` speaks of databases whose
  revision the program knows; of others it promises an error.

## Proofs

For every value of the constants:

- `VaultWritesProofs!TypeCorrect`: `Spec => []TypeOK`. `TypeOK` alone is not
  inductive: an archive path written by `MoveSource` is a slot only because the
  move is of a planned source, a buffer is a file only in the steps that
  write it back. The invariant adds, for each server, what `pc[s]` says of its
  locals.
- `VaultWritesProofs!AuditTrailHolds`, `RefusalsChangeNothing`, `NoTempsLeft`: with
  any number of servers and whoever else writes the notes. Their common invariant
  `HistInv` says that the calls in progress are different calls, that a call which
  has not reached its first write has touched nothing, that a call in progress has
  not ended (so that, by `AuditTrail` itself, it has no audit row yet), and that the
  calls still to come have left no trace at all; without the last, a new call could
  inherit the touched file or the temporary file of another.
- Under `Partitioned` (the clients share no file names, and the user edits no file
  that a client works on): `VaultWritesSupersession!ReferencesResolve`,
  `AuditStaysTrue`, `WrittenWhole`, from the invariant `SupInv`:
  - the footprint of a call is its target, its sources and the archive paths it
    planned; two calls in progress have disjoint footprints (`FootprintsDisjoint`),
    so that what a call knows of its files outlives the steps of others
    (`CallFrame`) and the edits of the user;
  - `CallHolds` is what a call knows at each step: the file it is to replace is as
    it was checked (`TargetOK`), sources not yet moved are there and their archive
    paths are free (`PendingOK`), those moved are in the archive and, once stamped,
    name the new note (`MovedOK`, `StampingOK`), and a rollback that has not failed
    has the rest of the sources in place (`RollbackOK`);
  - references and audit rows name files that are `Settled`: stamped with the note
    that names them, and planned by no call that could still touch them, or given
    to a call (`named`). That every reference resolves is not inductive without the
    second half. A file that is moved takes its references along (`RefsSettled`,
    also for the archived copy, which a rollback brings back).
- `VaultWritesSupersession!LedgerKept`, under the same assumption: `Spec => KeepsLedger`,
  the refinement of `NoteLedger`. The ledger knows the open calls: what they were
  given and whether they have written. `NextLedger` gives for each action the step
  of the ledger it is (a call begins, writes, moves a superseded text to or from its
  archive place, or ends) or that nothing changes. `TextsSurvive` follows: no step
  takes a text out of the vault unless an update was given its very file or the user
  edits it; so does `ArchiveKept` (the archive never overwrites). `RollbackRestores`
  (a call that reports a complete rollback has every file back) is from `RollbackOK`.
  `writes_archive_race` and `writes_lost_update` show that `Partitioned` is needed.
- `IndexingProofs!TypeCorrect`: the types of `Indexing`, with any number of
  indexers. The invariant adds `RunOK`: rows that were fetched are still there
  (nothing deletes a row of `files`), and what an indexer has left to do are
  candidates, so that the stats it writes are stats.
- Under `OneIndexer` (at most one run at a time):
  `SkippedFilesCurrent`, `CleanStatusTrue` and `SuccessCovers`, each from the same
  inductive invariant `IInv`:
  - `RowOK`: a row that can be skipped names the content and version of its
    derived rows, has the content of the file if it has its stat, and a deleted
    row has no derived rows;
  - `StatsOK`: no stat in a row or a candidate is of the future, so that a save
    makes every pairing of stat and content about that file vacuous;
  - `Fetched`: the rows fetched are still those of the files not yet processed
    (this is what two indexers break: see `indexing_many`);
  - `InHand`: the bytes read belong to the candidate's stat, unless the file has
    changed since;
  - `Done`: without an error, every candidate processed is covered.
  The step of the database (`StoreKept`) is proved once and used for
  `UpdateMetadata`, `RecordFailure` and `Replace`.

- `MigrationsProofs!TypeCorrect`: the types of `Migrations`, however many programs
  migrate at once. The statements of the revisions are computed from lists of
  names; the lemmas on the revisions say once what they contain (every table
  the head needs is created, every proposal table is dropped and no other).
- Under `Overlap = FALSE`: `EnsuredHolds`, `OneRow`, `StaysMigrated`, for any
  number of programs, interruptions and downgrades, from the invariant `MigInv`:
  - `Turns`: two programs are in a call at once only on a finished database, and on
    a finished one nobody is past the checks (`Looking`);
  - `ProgramOK`: what `pc[p]` says of the database: after a comparison that failed
    it is not at the head, whoever goes to `upgrade` with the row of the head
    has compared the tables, and what `memo` claims is so;
  - `ExecutedOK`: the tables that the statements before `line[p]` have made or
    dropped, so that the row is written when all are.
  With `Overlap = TRUE` TLC finds `OneRow` violated (see Migrations above). Programs
  drop no needed table even then (`RequiredKept`).

- `ContextPacksProofs`, for all packs, files, graphs of includes and vaults, with
  a user and an indexer that work between any two steps of a load:
  - `TypeCorrect` from `Types`, which adds to `TypeOK` that a frame of the stack has
    packs and names still to visit, and that while files are read there is a frame
    and a place for every text;
  - `BudgetKept` by what `_emit_truncated_content` carries along: what it has taken
    and what is left of the budget add up, fragment by fragment, in any ranking;
  - `StalenessWarned` from `TimesOK`: a document is as old as its file was when it
    was read, or the file has been saved since (`NotAfter`); from the stat on, every
    document older than its file's row allows is in the warning. No assumption on
    when the file is saved, deleted or indexed is needed;
  - `LoadsFail` from `SteadyOK` and `NamedOK`: a file that nobody has touched since
    the request is there when it is read and when its time is taken, and every file
    found or read is one that a pack reached from the root declares;
  - `CyclesReported`, `ValidationExact` from `SearchOK`, the invariant of the two
    depth-first searches. Each pack of the stack includes the next (`Chain`); what
    a pack on the stack includes is still to do, done, or on the stack (`LeftTo`).
    The packs validation is done with are closed under inclusion and in no cycle
    (`Searched`), so that a pack left to a finished set is in no cycle either
    (`NoCycleFromClosed`); those the resolver has come back from reach no cycle
    (`Resolving`). A pack met twice on the stack is a cycle because the top is
    reached from all of it (`TopReached`);
  - `TruncationAtSections` from `CutAt`: the content has the first sections of a
    document up to one that no longer fits, and as the tokens of the content only
    grow, that one never fits again (`StillOut`). It goes along the documents
    (`EmitCuts`), each of which finds nothing of its file in the content
    (`FragmentShares`), because the documents have a path once (`DistinctHolds`) in
    every ranking of them (`RankingsOrder`);
  - `FilesExact` from `VisitOK`: at every step there is a list `V` of the packs
    visited such that `V`, what is being visited and what the frames of the stack
    still have to visit are together the tree of includes unfolded from the root
    (`Planned`), and the documents are those of `V` (`Resolved`: every file a pack
    of `V` takes, with the sections of the first that takes it, in order). Reading a
    pack appends to both (`ResolvedMore`), whatever the threads do meanwhile
    (`ReadIsPutIn`). The tree is unfolded over as many steps as there are packs,
    which is enough because the packs on the stack are distinct (`StackFits`); a
    name that is not declared stands for itself, and as `V` has none in the end,
    the tree is `Visits` (`SameVisits`).
- `RetrievalProofs`, for every text, policy, vault and query, and all values of
  the token limits:
  - `TypeCorrect`, `DeniedWhenStale` from `Inv`: the rows are those of the text that
    was indexed (`IndexOK`), every path in the index was allowed by the
    configuration it was indexed under, and what was read by the one the server has
    loaded (`PermittedOK`); the hits of a search are rows of the index as it is
    (`HitsOK`). A place that is no link resolves to itself, as no directory on the
    way to it is a link (`NamesLead`), so that what a search finds under the name of
    a file can be read;
  - `KeysClashForRoot` from `OrdinalsGrow`: of two headings of one slug the later
    one counts at least one more;
  - `BlocksFit`: every state of the two loops of the chunker holds only texts that
    fit (`SplitState`, `BlockState`); a part of a line that is cut is at most as long
    as a block, whatever the sizes (`LongLine`);
  - `SmallBlocks`: a block was closed only before a unit that does not join it
    (`Closed`), and a row with a later ordinal is the next block of its section
    (`RowsFollow`);
  - `TextKept`, in three steps that say the same of larger things, each an induction
    along a loop. `Tells` is that pieces tell exactly the lines of a range, in
    order: the parts of a cut unit and its buffer tell the lines seen so far
    (`SplitTells`), and so do the blocks that are closed with the one that is open
    (`BlocksTell`), as pieces that tell neighbouring ranges tell both (`TellsJoin`).
    What a part drops is blank (`DroppedParts`). The ranges of the sections are all
    lines but the headings, in order (`SectionsDivide`).
  - `FoundIsReadable`: a unit of a row is a unit of its section or a part of one
    (`RowParts`), so its lines are lines of the section (`PartLines`); front matter
    without a fence shifts the scan for headings and no more (`FenceShift`), so the
    scan over the file ends the section no earlier than the parser does
    (`SectionRead`). The lines of the reader are those of the parser, each replaced
    by what `splitlines` makes of it (`ReaderPlace`); where none of the new lines is a
    heading or a fence, the reader's headings are the parser's, moved
    (`ReaderHeadings`), and moving keeps their order (`ReaderGrows`, `ReaderOrder`),
    so the section has the same end (`ReadAlike`);
  - `TextIsFound`: every line below the headings begins in some row (`LineIsInRow`,
    from the lemmas of `TextKept`); there are finitely many rows, and a search that
    returns less than its limit has returned all that match (`AllOfThem`).
  - `FencesWhole`: a section begins outside of fences (`SectionEdges`), so each of its
    units does as long as the chunker and the scan for headings agree
    (`UnitsOutside`, by induction along the lines, from what a unit does to the scan:
    `PlainUnit`, `FenceUnit`); a fence is then a unit (`FenceIsUnit`), which is not
    cut if it fits. A line that is told whole is told once (`ToldOnce`), so no other
    row has any of it (`Apart`).

The assumptions are those the modules declare (`VaultAssumption`, `IndexAssumption`,
`NoRowAssumption`, `MigrationAssumption`, `PackAssumption`, `SizeAssumption`,
`FinitelyManyPacks`, `MarkdownAssumption`, `RetrievalAssumption`): ranges of the
constants, markers that are not values, that lists are lists, that a section has a
number of tokens and a configuration finitely many packs; of a text, that its empty
lines are those without characters and a fence has some (`IsBody`); that a token is
at least one character and the three limits of a block are in their order; that
there are finitely many places, which are lists of names and have no linked directory
above them, a limit is positive, and the words of a regular expression are among the
terms its search asks for. TLC evaluates them in every run.
`OneIndexer`, `Partitioned` and `Overlap = FALSE` are assumptions of the theorems,
not of the modules.

Much of the program is loops over lists, which the models write as recursive
functions on `0..n`. `ListsProofs` derives what they need from the
well-foundedness of the natural numbers: induction over a set of numbers
(`Induction`, `InductionUpTo`, `InductionDown`), that a function defined along a
list exists and is the one the definition chooses (`Recursion`, `RecursionDown`,
`ConcatRun`), and what comprehensions (`Select`, in `Lists`) and joined lists
consist of.

Only model-checked: liveness (`CallsReturn`, `IndexCatchesUp`, `LoadsEnd`,
`EventuallyEnsured`), as the proof system does not reach fairness. Every safety
property of a passing run is a theorem.

## Not modelled

- Argument parsing and printing of the CLI; the static tables of `contracts` and
  `errors`; the registry, which is read at every call and keeps nothing; benchmarks
  and release metadata; field-by-field validation of the configuration
  (sequential and pure).
- Characters: slugs, tags, wikilinks and their escaping, YAML, percent escapes of
  paths, wildcards inside of a name. They are pure functions of strings, which
  tests reach.
- Ranking, previews and the FTS query language (SQLite's), and token counts of
  packs (a library's).
