------------------------------ MODULE Indexing ------------------------------
(***************************************************************************)
(* The index of a vault: run_index and the rows it keeps in SQLite.        *)
(*                                                                         *)
(* An indexer is a process that executes run_index: it lists the vault,    *)
(* takes the stat of each file, reads the rows of the table `files`, and   *)
(* then deletes, skips, reads and replaces file by file, each in its own   *)
(* transaction.  Notes are saved and deleted all the while, so what an     *)
(* indexer knows of a file was read at three different moments: its stat,  *)
(* its row and its bytes.  Nothing keeps two indexers from running at once.*)
(*                                                                         *)
(* A file is a content and a stat (size and mtime, one value); every save  *)
(* has a stat of its own.  The rows derived from a file (sections, blocks, *)
(* blocks_fts, wikilinks) change together, in one transaction, and are     *)
(* represented by what they were derived from: a content and a parser      *)
(* version.  A hash is the content.                                        *)
(***************************************************************************)
EXTENDS Naturals, FiniteSets

CONSTANTS
    Indexers,      \* processes that run run_index
    Paths,         \* vault paths that discovery and the guardrails admit
    Contents,      \* contents a note can have
    Kind,          \* Kind[c] is what the parser makes of content c
    MaxSaves,      \* bound: number of saves
    MaxParser,     \* bound: number of parser versions
    MaxFaults,     \* bound: number of failing operations and kills
    NoFile, NoRow, NoStat, NoHash, NoPath, Unreadable, Nothing

Kinds == {"sound", "frontmatter", "undecodable", "clashing"}
Stats == 1..MaxSaves
Parsers == 1..MaxParser

File == [content : Contents, stat : Stats]

ASSUME IndexAssumption ==
    /\ \A c \in Contents : Kind[c] \in Kinds
    /\ MaxSaves \in Nat /\ MaxParser \in Nat \ {0} /\ MaxFaults \in Nat
    /\ NoFile \notin File
    /\ {NoHash, Unreadable} \cap Contents = {}
    /\ NoStat \notin Stats /\ NoPath \notin Paths
    /\ Nothing \notin Contents \X Parsers

(* A row of `files`; `error` is the type of the error last_error_id names. *)
Row == [stat : Stats, hash : Contents \cup {NoHash}, parser : Parsers,
        deleted : BOOLEAN, error : {"none", "frontmatter", "failure"}]

ASSUME NoRowAssumption == NoRow \notin Row

VARIABLES
    vault,      \* the files on disk: Paths -> File or NoFile
    saves,      \* number of saves so far
    installed,  \* PARSER_VERSION of the installed program
    rows,       \* table files
    derived,    \* what the derived rows of a path were derived from
    pc,         \* where each indexer is in run_index
    full,       \* whether its run is a full reindex
    parser,     \* its parser version
    cand,       \* the candidates it discovered: their stats
    snap,       \* the rows it fetched at the start (file_rows)
    left,       \* the paths that remain in its current loop
    cur, buf,   \* the candidate at work, and its bytes
    errors,     \* whether stats.errors is positive
    runs,       \* status of its latest row of index_runs
    faults

db == <<rows, derived>>
locals == <<pc, full, parser, cand, snap, left, cur, buf, errors, runs>>
vars == <<vault, saves, installed, rows, derived, pc, full, parser, cand, snap,
          left, cur, buf, errors, runs, faults>>

Steps == {"idle", "list", "stat", "delete", "process", "store", "failed"}
Statuses == {"none", "running", "success", "success_with_errors", "failed"}

Present(p) == vault[p] # NoFile
Active(row) == row # NoRow /\ ~row.deleted
NoCandidates == [p \in Paths |-> NoStat]
NoRows == [p \in Paths |-> NoRow]

Init ==
    /\ vault = [p \in Paths |-> NoFile]
    /\ saves = 0
    /\ installed = 1
    /\ rows = NoRows
    /\ derived = [p \in Paths |-> Nothing]
    /\ pc = [i \in Indexers |-> "idle"]
    /\ full = [i \in Indexers |-> FALSE]
    /\ parser = [i \in Indexers |-> 1]
    /\ cand = [i \in Indexers |-> NoCandidates]
    /\ snap = [i \in Indexers |-> NoRows]
    /\ left = [i \in Indexers |-> {}]
    /\ cur = [i \in Indexers |-> NoPath]
    /\ buf = [i \in Indexers |-> Unreadable]
    /\ errors = [i \in Indexers |-> FALSE]
    /\ runs = [i \in Indexers |-> "none"]
    /\ faults = 0

----------------------------------------------------------------------------
(* The run: discovery.                                                     *)

Goto(i, step) == pc' = [pc EXCEPT ![i] = step]

(* The program starts; insert_run.                                         *)
Start(i, f) ==
    /\ pc[i] = "idle"
    /\ Goto(i, "list")
    /\ full' = [full EXCEPT ![i] = f]
    /\ parser' = [parser EXCEPT ![i] = installed]
    /\ runs' = [runs EXCEPT ![i] = "running"]
    /\ UNCHANGED <<vault, saves, installed, db, cand, snap, left, cur, buf, errors,
                   faults>>

(* _iter_markdown_entries finds the files `found`.                         *)
Listed(i, found) ==
    /\ pc[i] = "list"
    /\ left' = [left EXCEPT ![i] = found]
    /\ Goto(i, "stat")
    /\ UNCHANGED <<vault, saves, installed, db, full, parser, cand, snap, cur,
                   buf, errors, runs>>

List(i) == Listed(i, {p \in Paths : Present(p)}) /\ UNCHANGED faults

(* A candidate is a listed file with its stat; a file that has gone since  *)
(* is skipped.                                                             *)
Stat(i, p) ==
    /\ pc[i] = "stat" /\ p \in left[i]
    /\ left' = [left EXCEPT ![i] = @ \ {p}]
    /\ cand' = [cand EXCEPT ![i][p] = IF Present(p) THEN vault[p].stat ELSE NoStat]
    /\ UNCHANGED <<vault, saves, installed, db, pc, full, parser, snap, cur, buf,
                   errors, runs, faults>>

Candidates(i) == {p \in Paths : cand[i][p] # NoStat}

(* fetch_files_by_path, and the paths process_deleted_files goes through.  *)
Fetch(i) ==
    /\ pc[i] = "stat" /\ left[i] = {}
    /\ snap' = [snap EXCEPT ![i] = rows]
    /\ left' = [left EXCEPT ![i] = {p \in Paths : Active(rows[p])} \ Candidates(i)]
    /\ Goto(i, "delete")
    /\ UNCHANGED <<vault, saves, installed, db, full, parser, cand, cur, buf,
                   errors, runs, faults>>

----------------------------------------------------------------------------
(* The run: deleted files.                                                 *)

(* Mutant: the derived rows of a deleted file stay.                        *)
TombstoneRowOnly(i, p) ==
    /\ pc[i] = "delete" /\ p \in left[i]
    /\ left' = [left EXCEPT ![i] = @ \ {p}]
    /\ rows' = [rows EXCEPT ![p].deleted = TRUE]
    /\ UNCHANGED <<vault, saves, installed, derived, pc, full, parser, cand,
                   snap, cur, buf, errors, runs, faults>>

(* tombstone_file.                                                         *)
Tombstone(i, p) ==
    /\ pc[i] = "delete" /\ p \in left[i]
    /\ left' = [left EXCEPT ![i] = @ \ {p}]
    /\ rows' = [rows EXCEPT ![p].deleted = TRUE]
    /\ derived' = [derived EXCEPT ![p] = Nothing]
    /\ UNCHANGED <<vault, saves, installed, pc, full, parser, cand, snap, cur,
                   buf, errors, runs, faults>>

Deleted(i) ==
    /\ pc[i] = "delete" /\ left[i] = {}
    /\ left' = [left EXCEPT ![i] = Candidates(i)]
    /\ Goto(i, "process")
    /\ UNCHANGED <<vault, saves, installed, db, full, parser, cand, snap, cur,
                   buf, errors, runs, faults>>

----------------------------------------------------------------------------
(* The run: candidates.                                                    *)

(* can_skip_existing_error.                                                *)
ErrorSkippable(row) == row.error # "failure"

StatFreshAnyParser(i, p) ==                                         \* mutant
    /\ Active(snap[i][p])
    /\ snap[i][p].stat = cand[i][p]
    /\ ErrorSkippable(snap[i][p])

StatFreshDespiteErrors(i, p) ==                                  \* mutant
    /\ Active(snap[i][p])
    /\ snap[i][p].stat = cand[i][p]
    /\ snap[i][p].parser = parser[i]

(* is_stat_fresh, of the row fetched at the start of the run.              *)
StatFresh(i, p) ==
    /\ Active(snap[i][p])
    /\ snap[i][p].stat = cand[i][p]
    /\ snap[i][p].parser = parser[i]
    /\ ErrorSkippable(snap[i][p])

(* skip_unchanged_candidate, once the bytes are read.                      *)
Unchanged(i, p) ==
    /\ ~full[i]
    /\ Active(snap[i][p])
    /\ snap[i][p].parser = parser[i]
    /\ snap[i][p].hash = buf[i]
    /\ ErrorSkippable(snap[i][p])

(* process_candidate up to its first decision: a fresh file is skipped.    *)
SkipFresh(i, p) ==
    /\ pc[i] = "process" /\ p \in left[i]
    /\ ~full[i] /\ StatFresh(i, p)
    /\ left' = [left EXCEPT ![i] = @ \ {p}]
    /\ UNCHANGED <<vault, saves, installed, db, pc, full, parser, cand, snap, cur,
                   buf, errors, runs, faults>>

(* ... of any other the bytes are read; nothing can be read of a file that *)
(* has gone.                                                               *)
ReadBytes(i, p, bytes) ==
    /\ pc[i] = "process" /\ p \in left[i]
    /\ full[i] \/ ~StatFresh(i, p)
    /\ left' = [left EXCEPT ![i] = @ \ {p}]
    /\ cur' = [cur EXCEPT ![i] = p]
    /\ buf' = [buf EXCEPT ![i] = bytes]
    /\ Goto(i, "store")
    /\ UNCHANGED <<vault, saves, installed, db, full, parser, cand, snap, errors,
                   runs>>

Read(i, p) ==
    /\ ReadBytes(i, p, IF Present(p) THEN vault[p].content ELSE Unreadable)
    /\ UNCHANGED faults

(* A transaction on the current candidate ends its turn.                   *)
Store(i) ==
    /\ pc[i] = "store"
    /\ Goto(i, "process")
    /\ cur' = [cur EXCEPT ![i] = NoPath]
    /\ buf' = [buf EXCEPT ![i] = Unreadable]
    /\ UNCHANGED <<vault, saves, installed, full, parser, cand, snap, left, runs,
                   faults>>

(* update_metadata_for_unchanged_file: only the stat, by the row's id.     *)
UpdateMetadata(i) ==
    LET p == cur[i] IN
    /\ Store(i)
    /\ buf[i] # Unreadable /\ Unchanged(i, p)
    /\ rows' = [rows EXCEPT ![p].stat = cand[i][p], ![p].deleted = FALSE]
    /\ UNCHANGED <<derived, errors>>

(* Mutant: the stat is taken when the row is written.                      *)
UpsertRestat(i, hash, error) ==
    rows' = [rows EXCEPT ![cur[i]] =
               [stat |-> IF Present(cur[i]) THEN vault[cur[i]].stat ELSE NoStat,
                hash |-> hash, parser |-> parser[i],
                deleted |-> FALSE, error |-> error]]

(* _upsert_file_metadata: an inserted row and an updated one end alike.    *)
Upsert(i, hash, error) ==
    rows' = [rows EXCEPT ![cur[i]] =
               [stat |-> cand[i][cur[i]], hash |-> hash, parser |-> parser[i],
                deleted |-> FALSE, error |-> error]]

(* record_file_failure: the derived rows stay as they are.                 *)
RecordFailure(i, hash) ==
    /\ Store(i)
    /\ Upsert(i, hash, "failure")
    /\ errors' = [errors EXCEPT ![i] = TRUE]
    /\ UNCHANGED derived

ReadFailed(i) ==
    /\ buf[i] = Unreadable
    /\ RecordFailure(i, IF snap[i][cur[i]] = NoRow THEN NoHash
                                                   ELSE snap[i][cur[i]].hash)

ParseFailed(i) ==
    /\ buf[i] # Unreadable /\ ~Unchanged(i, cur[i])
    /\ Kind[buf[i]] = "undecodable"
    /\ RecordFailure(i, buf[i])

(* replace_file_index.                                                     *)
Replace(i) ==
    /\ Store(i)
    /\ buf[i] # Unreadable /\ ~Unchanged(i, cur[i])
    /\ Kind[buf[i]] \in {"sound", "frontmatter"}
    /\ Upsert(i, buf[i], IF Kind[buf[i]] = "frontmatter" THEN "frontmatter"
                                                         ELSE "none")
    /\ derived' = [derived EXCEPT ![cur[i]] = <<buf[i], parser[i]>>]
    /\ errors' = [errors EXCEPT ![i] = @ \/ Kind[buf[i]] = "frontmatter"]

(* The process ends, and what it knew with it; `status` is what its row in *)
(* index_runs says.                                                        *)
End(i, status) ==
    /\ Goto(i, "idle")
    /\ runs' = [runs EXCEPT ![i] = status]
    /\ full' = [full EXCEPT ![i] = FALSE]
    /\ parser' = [parser EXCEPT ![i] = 1]
    /\ cand' = [cand EXCEPT ![i] = NoCandidates]
    /\ snap' = [snap EXCEPT ![i] = NoRows]
    /\ left' = [left EXCEPT ![i] = {}]
    /\ cur' = [cur EXCEPT ![i] = NoPath]
    /\ buf' = [buf EXCEPT ![i] = Unreadable]
    /\ errors' = [errors EXCEPT ![i] = FALSE]
    /\ UNCHANGED <<vault, saves, installed, db>>

(* _status_for, finish_run.                                                *)
Finish(i) ==
    /\ pc[i] = "process" /\ left[i] = {}
    /\ End(i, IF errors[i] THEN "success_with_errors" ELSE "success")
    /\ UNCHANGED faults

----------------------------------------------------------------------------
(* Failures.  MaxFaults bounds the number of those that come from outside. *)

Fault == faults < MaxFaults /\ faults' = faults + 1

(* An exception that process_candidate does not expect leaves the loop and *)
(* is caught by run_index.                                                 *)
Raise(i) ==
    /\ Goto(i, "failed")
    /\ UNCHANGED <<vault, saves, installed, db, full, parser, cand, snap, left,
                   cur, buf, errors, runs>>

(* Two sections of the note have the same section_key (a text before the   *)
(* first heading and a heading "Root"): the UNIQUE constraint rejects the  *)
(* second, and the transaction is rolled back.                             *)
ReplaceClashes(i) ==
    /\ pc[i] = "store"
    /\ buf[i] # Unreadable /\ ~Unchanged(i, cur[i])
    /\ Kind[buf[i]] = "clashing"
    /\ Raise(i) /\ UNCHANGED faults

(* The database is locked or the disk full.                                *)
StepFails(i) == pc[i] \in {"list", "delete", "process", "store"} /\ Fault /\ Raise(i)

(* record_error, finish_run: the run is recorded as failed.                *)
FinishFailed(i) == pc[i] = "failed" /\ End(i, "failed") /\ UNCHANGED faults

(* ... unless that fails too, which is logged.                             *)
DiagnosticsFail(i) == pc[i] = "failed" /\ Fault /\ End(i, runs[i])

(* fetch_files_by_path fails: the transaction it began stays open, so that *)
(* record_error and finish_run join it, and it is never committed.         *)
FetchFails(i) == pc[i] = "stat" /\ left[i] = {} /\ Fault /\ End(i, runs[i])

(* A directory cannot be listed: its files are taken to be gone.           *)
ListPartly(i, found) ==
    /\ found # {p \in Paths : Present(p)}
    /\ Fault /\ Listed(i, found)

(* The file is there but cannot be read.                                   *)
ReadFails(i, p) == Fault /\ ReadBytes(i, p, Unreadable)

Kill(i) == pc[i] # "idle" /\ Fault /\ End(i, runs[i])

----------------------------------------------------------------------------
(* The user: notes change, and a new version of the program is installed.  *)

Save(p, c) ==
    /\ saves < MaxSaves
    /\ saves' = saves + 1
    /\ vault' = [vault EXCEPT ![p] = [content |-> c, stat |-> saves + 1]]
    /\ UNCHANGED <<installed, db, locals, faults>>

Delete(p) ==
    /\ Present(p)
    /\ vault' = [vault EXCEPT ![p] = NoFile]
    /\ UNCHANGED <<saves, installed, db, locals, faults>>

Upgrade ==
    /\ installed < MaxParser
    /\ installed' = installed + 1
    /\ UNCHANGED <<vault, saves, db, locals, faults>>

----------------------------------------------------------------------------

Request(i) == \E f \in BOOLEAN : Start(i, f)

Progress(i) ==
    \/ List(i)
    \/ \E p \in Paths :
          Stat(i, p) \/ Tombstone(i, p) \/ SkipFresh(i, p) \/ Read(i, p)
    \/ Fetch(i)
    \/ Deleted(i)
    \/ UpdateMetadata(i)
    \/ ReadFailed(i)
    \/ ParseFailed(i)
    \/ Replace(i)
    \/ ReplaceClashes(i)
    \/ Finish(i)
    \/ FinishFailed(i)

Failure(i) ==
    \/ StepFails(i)
    \/ DiagnosticsFail(i)
    \/ FetchFails(i)
    \/ \E found \in SUBSET {p \in Paths : Present(p)} : ListPartly(i, found)
    \/ \E p \in Paths : ReadFails(i, p)
    \/ Kill(i)

User ==
    \/ \E p \in Paths : (\E c \in Contents : Save(p, c)) \/ Delete(p)
    \/ Upgrade

Next ==
    \/ \E i \in Indexers : Request(i) \/ Progress(i) \/ Failure(i)
    \/ User

Spec == Init /\ [][Next]_vars

(* The command is run again and again, and a run that is not killed ends.  *)
FairSpec == Spec /\ \A i \in Indexers : WF_vars(Request(i)) /\ WF_vars(Progress(i))

----------------------------------------------------------------------------
(* What `index status` counts (get_index_status).                          *)

Unindexed == {p \in Paths : Present(p) /\ ~Active(rows[p])}
DeletedIndexed == {p \in Paths : ~Present(p) /\ Active(rows[p])}
Changed ==
    {p \in Paths : Present(p) /\ Active(rows[p]) /\ rows[p].stat # vault[p].stat}
Drift == {p \in Paths : Active(rows[p]) /\ rows[p].parser # installed}
WithErrors == {p \in Paths : Active(rows[p]) /\ rows[p].error # "none"}

----------------------------------------------------------------------------
(* Properties.                                                             *)

TypeOK ==
    /\ vault \in [Paths -> File \cup {NoFile}]
    /\ saves \in 0..MaxSaves
    /\ installed \in Parsers
    /\ rows \in [Paths -> Row \cup {NoRow}]
    /\ derived \in [Paths -> (Contents \X Parsers) \cup {Nothing}]
    /\ pc \in [Indexers -> Steps]
    /\ full \in [Indexers -> BOOLEAN]
    /\ parser \in [Indexers -> Parsers]
    /\ cand \in [Indexers -> [Paths -> Stats \cup {NoStat}]]
    /\ snap \in [Indexers -> [Paths -> Row \cup {NoRow}]]
    /\ left \in [Indexers -> SUBSET Paths]
    /\ cur \in [Indexers -> Paths \cup {NoPath}]
    /\ buf \in [Indexers -> Contents \cup {Unreadable}]
    /\ errors \in [Indexers -> BOOLEAN]
    /\ runs \in [Indexers -> Statuses]
    /\ faults \in 0..MaxFaults

(* A file that would be skipped (by its stat, the parser version and the   *)
(* error of its row) is one whose derived rows were made from its present  *)
(* content.  A note that fails this is served stale by every later         *)
(* incremental run.                                                        *)
SkippedFilesAreCurrent ==
    \A p \in Paths :
        Present(p) /\ Active(rows[p]) /\ rows[p].stat = vault[p].stat
          /\ ErrorSkippable(rows[p])
            => derived[p] = <<vault[p].content, rows[p].parser>>

(* When `index status` counts nothing, search answers from the vault as it *)
(* is: every note with its content, and no other.                          *)
CleanStatusIsTrue ==
    Unindexed \cup DeletedIndexed \cup Changed \cup Drift \cup WithErrors = {}
        => \A p \in Paths :
              derived[p] = IF Present(p) THEN <<vault[p].content, installed>>
                                         ELSE Nothing

(* A run that reports success has left every file it saw indexed, for its  *)
(* own parser and from the content named by the row.                       *)
SuccessCoversCandidates ==
    [][\A i \in Indexers :
          pc[i] = "process" /\ pc'[i] = "idle" /\ runs'[i] = "success" =>
              \A p \in Candidates(i) :
                  /\ Active(rows[p])
                  /\ rows[p].stat = cand[i][p]
                  /\ derived[p] = <<rows[p].hash, parser[i]>>]_vars

(* A note that can be parsed is indexed as it is, one that has gone is not *)
(* found.                                                                  *)
Mirrored(p) ==
    IF Present(p)
    THEN Kind[vault[p].content] \in {"sound", "frontmatter"} =>
            derived[p] = <<vault[p].content, installed>>
    ELSE derived[p] = Nothing

Clash == \E p \in Paths : Present(p) /\ Kind[vault[p].content] = "clashing"

(* Once the vault, the program and the disk come to rest, runs of either   *)
(* mode bring the index to the vault, if no note has clashing sections.    *)
IndexCatchesUp == <>[](Clash \/ \A p \in Paths : Mirrored(p))

(* "The run continues for other files": the index of the other notes       *)
(* catches up whatever one note contains.                                  *)
RunContinuesForOthers == <>[](\A p \in Paths : Mirrored(p))

=============================================================================
