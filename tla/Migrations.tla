----------------------------- MODULE Migrations -----------------------------
(***************************************************************************)
(* The migration of an index database (migrations.py, alembic/).           *)
(*                                                                         *)
(* Every program that opens the index (a server, a command) first calls    *)
(* ensure_index_migrated: it looks at the database, repairs a database     *)
(* that says it is at the head revision and is not, has Alembic upgrade it *)
(* to the head and remembers that it did.  A lock orders the calls of one  *)
(* process; nothing orders the processes.                                  *)
(*                                                                         *)
(* SQLite commits each DDL statement of a revision when it is executed,    *)
(* and Alembic commits the row of alembic_version when all statements of   *)
(* the revision are done: a program that is stopped in between leaves the  *)
(* database anywhere on the way.  An action is one query or one statement. *)
(***************************************************************************)
EXTENDS Naturals, Sequences, FiniteSets, SequencesExt

CONSTANTS
    Programs,   \* processes that open the index
    Alembic,    \* the operator's `alembic downgrade -1`
    Overlap,    \* TRUE: programs may migrate one database at once
    MaxFaults   \* bound: interrupted migrations and downgrades

ASSUME MigrationAssumption ==
    /\ Alembic \notin Programs
    /\ Overlap \in BOOLEAN
    /\ MaxFaults \in Nat

(***************************************************************************)
(* The two revisions: statements, in the order they are executed.  Index i *)
(* of the initial schema is on the table IndexedTables[i].                 *)
(***************************************************************************)
CoreTables == <<"index_runs", "files", "sections", "blocks", "wikilinks",
                "index_errors">>
ProposalTables == <<"proposals", "proposal_events", "proposal_changesets",
                    "proposal_changeset_members",
                    "proposal_changeset_events">>
OtherTables == <<"write_audit", "blocks_fts">>
InitialTables == CoreTables \o ProposalTables \o OtherTables

IndexedTables ==
    <<"files", "sections", "blocks", "blocks", "wikilinks", "wikilinks",
      "index_errors", "index_errors", "proposals", "proposals", "proposals",
      "proposal_events", "proposal_changesets", "proposal_changeset_members",
      "proposal_changeset_members", "proposal_changeset_events">>

Tables == ToSet(InitialTables)
Indexes == DOMAIN IndexedTables
IndexesOn(t) == {i \in Indexes : IndexedTables[i] = t}

Statements(op, args) == [k \in DOMAIN args |-> [op |-> op, arg |-> args[k]]]
ProposalIndexes == <<9, 10, 11, 12, 13, 14, 15, 16>>

InitialUpgrade ==
    Statements("create table", InitialTables)
    \o Statements("create index", [i \in Indexes |-> i])
InitialDowngrade ==
    Statements("drop index", [k \in Indexes |-> Len(IndexedTables) + 1 - k])
    \o Statements("drop table",
           <<"blocks_fts", "write_audit">> \o Reverse(ProposalTables)
           \o <<"wikilinks", "blocks", "sections", "index_errors", "files",
                "index_runs">>)

RemoveProposals == Statements("drop table", Reverse(ProposalTables))
RestoreProposals ==
    Statements("create table", ProposalTables)
    \o Statements("create index", ProposalIndexes)

Lineage == <<"001", "002">>
HeadRevision == Lineage[Len(Lineage)]
Upgrades == <<InitialUpgrade, RemoveProposals>>
Downgrades == <<InitialDowngrade, RestoreProposals>>

HeadRequired == ToSet(CoreTables) \cup {"write_audit"}
HeadForbidden == ToSet(ProposalTables)

VARIABLES
    tables, indexes,   \* the schema on disk
    versioned,         \* is there a table alembic_version?
    revisions,         \* its rows
    pc,                \* where a program is in ensure_index_migrated
    heads,             \* the rows it read when it began to upgrade
    line,              \* the next statement of the revision it executes
    memo,              \* _MIGRATED_INDEX_PATHS holds the index
    faults,            \* interrupted migrations and downgrades so far
    vouched            \* history: see EnsuredIsMigrated

disk == <<tables, indexes, versioned, revisions>>
vars == <<disk, pc, heads, line, memo, faults, vouched>>

All == Programs \cup {Alembic}

(* Databases a program can find: none; one of 0.1.x, without Alembic, with *)
(* or without the later write_audit; one at each revision; one stamped at  *)
(* the head whose schema is older; one of a program that is newer.         *)
IndexesFor(ts) == UNION {IndexesOn(t) : t \in ts}
Database(ts, rows, v) ==
    /\ tables = ts /\ indexes = IndexesFor(ts)
    /\ revisions = rows /\ versioned = v
Current == Tables \ HeadForbidden
Found ==
    \/ Database({}, {}, FALSE)
    \/ Database(Tables, {}, FALSE)
    \/ Database(Tables \ {"write_audit"}, {}, FALSE)
    \/ Database(Tables, {"001"}, TRUE)
    \/ Database(Current, {HeadRevision}, TRUE)
    \/ Database(Tables \ {"write_audit"}, {HeadRevision}, TRUE)
    \/ Database(Current, {"003"}, TRUE)

Init ==
    /\ Found
    /\ pc = [p \in All |-> "idle"]
    /\ heads = [p \in All |-> {}]
    /\ line = [p \in All |-> 1]
    /\ memo = [p \in Programs |-> FALSE]
    /\ faults = 0
    /\ vouched = [p \in Programs |-> FALSE]

-----------------------------------------------------------------------------
(* What the program reads of the database *)

(* Mutant: nobody asks whether the proposals are gone.                     *)
SchemaHasTables == HeadRequired \subseteq tables

SchemaMatchesHead ==
    /\ HeadRequired \subseteq tables
    /\ tables \cap HeadForbidden = {}

Supported == Cardinality(revisions) <= 1   \* _current_revision does not raise
InLineage == revisions \subseteq ToSet(Lineage)
Applied(rows) == IF rows = {} THEN 0
                 ELSE CHOOSE k \in DOMAIN Lineage : rows = {Lineage[k]}

Alone(p) == \A q \in All \ {p} : pc[q] = "idle"
Finished ==
    /\ revisions = {HeadRevision}
    /\ HeadRequired \subseteq tables /\ tables \cap HeadForbidden = {}

(* With Overlap FALSE a program begins on a database that is not at the    *)
(* head only when no other program is at work.                             *)
MayBegin(p) == Overlap \/ Alone(p) \/ (pc[Alembic] = "idle" /\ Finished)

-----------------------------------------------------------------------------
(* ensure_index_migrated *)

Goto(p, label) == pc' = [pc EXCEPT ![p] = label]
Raise(p) == Goto(p, "idle")      \* MigrationError: nothing is remembered

Begin(p) ==
    /\ pc[p] = "idle" /\ ~memo[p] /\ MayBegin(p)
    /\ Goto(p, "detect")
    /\ UNCHANGED <<disk, heads, line, memo, faults, vouched>>

Detect(p) ==
    /\ pc[p] = "detect"
    /\ Goto(p, IF versioned THEN "count versioned" ELSE "count")
    /\ UNCHANGED <<disk, heads, line, memo, faults, vouched>>

CountPending(p) ==
    /\ pc[p] \in {"count", "count versioned"}
    /\ IF ~Supported \/ ~InLineage THEN Raise(p)
       ELSE Goto(p, IF pc[p] = "count" THEN "upgrade" ELSE "compare")
    /\ UNCHANGED <<disk, heads, line, memo, faults, vouched>>

(* Mutant: whatever is at the head is repaired.                            *)
CompareNot(p) ==
    /\ pc[p] = "compare"
    /\ Goto(p, "revision")
    /\ UNCHANGED <<disk, heads, line, memo, faults, vouched>>

Compare(p) ==
    /\ pc[p] = "compare"
    /\ Goto(p, IF SchemaMatchesHead THEN "upgrade" ELSE "revision")
    /\ UNCHANGED <<disk, heads, line, memo, faults, vouched>>

NeedsRepair(p) ==
    /\ pc[p] = "revision"
    /\ IF ~Supported THEN Raise(p)
       ELSE Goto(p, IF revisions = {HeadRevision} THEN "stamp" ELSE "upgrade")
    /\ UNCHANGED <<disk, heads, line, memo, faults, vouched>>

(* `stamp base` reads the rows and then deletes what it read.              *)
ReadStamp(p) ==
    /\ pc[p] = "stamp"
    /\ IF ~Supported \/ ~InLineage THEN Raise(p)
       ELSE Goto(p, IF revisions = {} THEN "count" ELSE "unstamp")
    /\ heads' = [heads EXCEPT ![p] = revisions]
    /\ UNCHANGED <<disk, line, memo, faults, vouched>>

StampBase(p) ==
    /\ pc[p] = "unstamp"
    /\ IF heads[p] \subseteq revisions
       THEN Goto(p, "count") /\ revisions' = revisions \ heads[p]
       ELSE Raise(p) /\ UNCHANGED revisions
    /\ UNCHANGED <<tables, indexes, versioned, heads, line, memo, faults,
                   vouched>>

-----------------------------------------------------------------------------
(* `upgrade head`: the rows are read once; then, revision by revision, the *)
(* statements and the row.                                                 *)

ReadHeads(p) ==
    /\ pc[p] = "upgrade"
    /\ heads' = [heads EXCEPT ![p] = revisions]
    /\ line' = [line EXCEPT ![p] = 1]
    /\ versioned' = (versioned \/ revisions = {})
    /\ vouched' = [vouched EXCEPT ![p] =
                     revisions = {"001"} => HeadRequired \subseteq tables]
    /\ IF ~Supported \/ ~InLineage THEN Raise(p)
       ELSE Goto(p, IF revisions = {HeadRevision} THEN "remember"
                    ELSE "execute")
    /\ UNCHANGED <<tables, indexes, revisions, memo, faults>>

(* The revision p executes: the next one up, or the one to take back.      *)
Script(p) == IF p = Alembic THEN Downgrades[Applied(heads[p])]
             ELSE Upgrades[Applied(heads[p]) + 1]

Effect(s) ==
    CASE s.op = "create table" ->
            tables' = tables \cup {s.arg} /\ UNCHANGED indexes
      [] s.op = "create index" ->
            indexes' = indexes \cup {s.arg} /\ UNCHANGED tables
      [] s.op = "drop table" ->
            /\ tables' = tables \ {s.arg}
            /\ indexes' = indexes \ IndexesOn(s.arg)
      [] s.op = "drop index" ->
            indexes' = indexes \ {s.arg} /\ UNCHANGED tables

(* Mutant: CREATE TABLE without IF NOT EXISTS.                             *)
FailsIfExists(s) ==
    \/ s.op = "create table" /\ s.arg \in tables
    \/ s.op = "create index" /\ IndexedTables[s.arg] \notin tables

(* The only statement that can fail by itself is CREATE INDEX, when its    *)
(* table is gone.                                                          *)
Fails(s) == s.op = "create index" /\ IndexedTables[s.arg] \notin tables

Execute(p) ==
    /\ pc[p] = "execute"
    /\ LET s == Script(p)[line[p]] IN
       IF Fails(s)
       THEN Raise(p) /\ UNCHANGED <<tables, indexes, line>>
       ELSE /\ Effect(s)
            /\ line' = [line EXCEPT ![p] = @ + 1]
            /\ Goto(p, IF line[p] = Len(Script(p)) THEN "record"
                       ELSE "execute")
    /\ UNCHANGED <<versioned, revisions, heads, memo, faults, vouched>>

(* The row: INSERT for the first revision, UPDATE ... WHERE for the next   *)
(* ones; a downgrade UPDATEs back or DELETEs.  Alembic fails if the row it *)
(* read is gone or the one it writes is there.                             *)
Target(p) ==
    LET k == Applied(heads[p]) IN
    IF p # Alembic THEN {Lineage[k + 1]}
    ELSE IF k = 1 THEN {} ELSE {Lineage[k - 1]}

(* Mutant: the next revision begins at the statement the last one ended.   *)
RecordGoesOn(p) ==
    /\ pc[p] = "record"
    /\ IF heads[p] \subseteq revisions /\ Target(p) \cap revisions = {}
       THEN /\ revisions' = (revisions \ heads[p]) \cup Target(p)
            /\ heads' = [heads EXCEPT ![p] = Target(p)]
            /\ Goto(p, IF p = Alembic THEN "idle"
                       ELSE IF Target(p) = {HeadRevision} THEN "remember"
                       ELSE "execute")
       ELSE Raise(p) /\ UNCHANGED <<revisions, heads>>
    /\ UNCHANGED <<tables, indexes, versioned, line, memo, faults,
                   vouched>>

(* Mutant: the next revision is inserted beside the last.                  *)
RecordInserts(p) ==
    /\ pc[p] = "record"
    /\ IF heads[p] \subseteq revisions /\ Target(p) \cap revisions = {}
       THEN /\ revisions' = revisions \cup Target(p)
            /\ heads' = [heads EXCEPT ![p] = Target(p)]
            /\ Goto(p, IF p = Alembic THEN "idle"
                       ELSE IF Target(p) = {HeadRevision} THEN "remember"
                       ELSE "execute")
       ELSE Raise(p) /\ UNCHANGED <<revisions, heads>>
    /\ line' = [line EXCEPT ![p] = 1]
    /\ UNCHANGED <<tables, indexes, versioned, memo, faults, vouched>>

Record(p) ==
    /\ pc[p] = "record"
    /\ IF heads[p] \subseteq revisions /\ Target(p) \cap revisions = {}
       THEN /\ revisions' = (revisions \ heads[p]) \cup Target(p)
            /\ heads' = [heads EXCEPT ![p] = Target(p)]
            /\ Goto(p, IF p = Alembic THEN "idle"
                       ELSE IF Target(p) = {HeadRevision} THEN "remember"
                       ELSE "execute")
       ELSE Raise(p) /\ UNCHANGED <<revisions, heads>>
    /\ line' = [line EXCEPT ![p] = 1]
    /\ UNCHANGED <<tables, indexes, versioned, memo, faults, vouched>>

Remember(p) ==
    /\ pc[p] = "remember"
    /\ memo' = [memo EXCEPT ![p] = TRUE]
    /\ Goto(p, "idle")
    /\ UNCHANGED <<disk, heads, line, faults, vouched>>

-----------------------------------------------------------------------------
(* What happens to programs and databases *)

(* A migration is killed, or a statement of it fails (the database is      *)
(* locked for too long, the disk is full).                                 *)
Interrupt(p) ==
    /\ pc[p] # "idle" /\ faults < MaxFaults
    /\ Raise(p)
    /\ faults' = faults + 1
    /\ UNCHANGED <<disk, heads, line, memo, vouched>>

(* A program ends and is started again: the memo was in its memory.        *)
Restart(p) ==
    /\ pc[p] = "idle" /\ memo[p]
    /\ memo' = [memo EXCEPT ![p] = FALSE]
    /\ UNCHANGED <<disk, pc, heads, line, faults, vouched>>

(* The operator rolls one revision back, while nobody migrates.            *)
Downgrade ==
    /\ \A p \in All : pc[p] = "idle"
    /\ faults < MaxFaults /\ revisions # {} /\ Supported /\ InLineage
    /\ heads' = [heads EXCEPT ![Alembic] = revisions]
    /\ line' = [line EXCEPT ![Alembic] = 1]
    /\ Goto(Alembic, "execute")
    /\ faults' = faults + 1
    /\ vouched' = [p \in Programs |-> FALSE]
    /\ UNCHANGED <<disk, memo>>

Progress(p) ==
    \/ Detect(p) \/ CountPending(p) \/ Compare(p) \/ NeedsRepair(p)
    \/ ReadStamp(p) \/ StampBase(p) \/ ReadHeads(p) \/ Execute(p)
    \/ Record(p) \/ Remember(p)

Next ==
    \/ \E p \in Programs : Begin(p) \/ Progress(p) \/ Restart(p)
    \/ Downgrade \/ Execute(Alembic) \/ Record(Alembic)
    \/ \E p \in All : Interrupt(p)

Spec == Init /\ [][Next]_vars

(* A program that has begun goes on, and programs are used: a client calls *)
(* a tool, a user a command, again.                                        *)
FairSpec ==
    /\ Spec
    /\ \A p \in Programs : WF_vars(Progress(p)) /\ WF_vars(Begin(p))
    /\ WF_vars(Execute(Alembic) \/ Record(Alembic))

-----------------------------------------------------------------------------
(* Properties *)

(* Types; alembic_version exists when it has rows; a program that executes *)
(* a revision is at one of its statements.                                 *)
TypeOK ==
    /\ tables \subseteq Tables /\ indexes \subseteq Indexes
    /\ versioned \in BOOLEAN
    /\ revisions \subseteq {"001", "002", "003"}
    /\ revisions # {} => versioned
    /\ pc \in [All -> {"idle", "detect", "count", "count versioned",
                       "compare", "revision", "stamp", "unstamp", "upgrade",
                       "execute", "record", "remember"}]
    /\ heads \in [All -> SUBSET {"001", "002", "003"}]
    /\ line \in [All -> 1 .. Len(InitialUpgrade) + 1]
    /\ \A p \in All : pc[p] = "execute" => line[p] \in DOMAIN Script(p)
    /\ memo \in [Programs -> BOOLEAN]
    /\ faults \in 0..MaxFaults
    /\ vouched \in [Programs -> BOOLEAN]

(* ensure_index_migrated has returned in a program: the index is at the    *)
(* head, with one row and the whole schema, whoever else migrated it, was  *)
(* stopped or started again since, until the operator rolls it back.  The  *)
(* program vouches for this unless it found the database at revision 001   *)
(* with tables missing: the repair looks only at databases at the head.    *)
EnsuredIsMigrated ==
    \A p \in Programs : memo[p] /\ vouched[p] => Finished

(* alembic_version never has two rows: _current_revision would raise for   *)
(* every program from then on.                                             *)
OneRevision == Supported

(* The steps of programs never drop a table the head needs (the repair     *)
(* keeps the rows of the index and of the audit), and never take a         *)
(* database that is at the head away from it: migrate again is a no-op.    *)
MigratedStaysMigrated ==
    [][pc[Alembic] = "idle" =>
          /\ tables \cap HeadRequired \subseteq tables'
          /\ Finished => Finished']_vars

(* Whatever was interrupted or rolled back: if the revision is one this    *)
(* program knows, every program gets its index again and again.            *)
EventuallyEnsured ==
    InLineage => \A p \in Programs : []<>memo[p]
=============================================================================
