---------------------------- MODULE VaultWrites ----------------------------
(***************************************************************************)
(* The write tools of the server (write_memory, write_note, update_memory, *)
(* update_note) and read_note, as they act on the files of one vault.      *)
(*                                                                         *)
(* A vault has no lock.  Every MCP client starts a server process of its   *)
(* own, a process handles one call at a time, and the user's editor works  *)
(* on the same files.  A call is therefore a sequence of system calls that *)
(* other processes see one by one: this module has one action for each     *)
(* point of a call at which the disk is read or changed.                   *)
(*                                                                         *)
(* Content is abstracted to what the properties tell apart.  A file is the *)
(* text it was given (its body), what frontmatter of its own it still has, *)
(* the note that superseded it (frontmatter superseded_by) and the archive *)
(* files it names (frontmatter supersedes).  A text comes without these    *)
(* two keys.  Merging renders the frontmatter anew, which changes white    *)
(* space and quoting that are not told apart here.  Every text is new: one *)
(* of a call or of the editor is a number, and the number names the call.  *)
(* A hash is the content itself: SHA-256 is taken to be collision free.    *)
(*                                                                         *)
(* A call may name any file of the vault, one in the archive too.          *)
(***************************************************************************)
EXTENDS Naturals, FiniteSets

CONSTANTS
    Servers,      \* server processes
    Notes,        \* vault paths outside the archive
    Names,        \* file names (the last segment of a path)
    NameOf,       \* NameOf[n] is the file name of note n
    Tags,         \* endings an archived file name can have: Plain or uuids
    Plain,        \* the ending of an undisturbed name
    HeadOf,       \* HeadOf[b] is the frontmatter text b comes with
    Scope,        \* Scope[s] is the set of files the client of s names
    EditorFiles,  \* the files the user edits outside the server
    MaxBody,      \* bound: number of texts written after the start
    MaxFaults,    \* bound: number of failing disk operations and kills
    NoNote, NoSlot, NoHash, StaleHash, NoCall, Absent

Slots == Names \X Tags          \* files of the archive directory
Paths == Notes \cup Slots
Calls == 1..MaxBody
Bodies == Notes \cup Names \cup Calls    \* the first two: texts of the start

(* No frontmatter; a YAML mapping; other YAML, such as a list; or text that *)
(* is not YAML or not UTF-8 at all.                                         *)
Heads == {"none", "mapping", "other", "invalid"}

File == [body : Bodies, head : Heads, by : Paths \cup {NoNote},
         refs : SUBSET Slots]

(* An open call as NoteLedger sees it.                                     *)
LedgerCall == [op : {"create", "update"}, place : Paths, text : Calls,
               dest : [Paths -> Slots \cup {NoSlot}], stage : {"accepted", "written"}]

ASSUME VaultAssumption ==
    /\ NameOf \in [Notes -> Names]
    /\ Plain \in Tags
    /\ HeadOf \in [Bodies -> Heads]
    /\ Scope \in [Servers -> SUBSET Paths]
    /\ EditorFiles \subseteq Paths
    /\ MaxBody \in Nat
    /\ MaxFaults \in Nat
    /\ Notes \cap Slots = {}
    /\ NoNote \notin Paths
    /\ NoSlot \notin Slots
    /\ Absent \notin File \cup Bodies
    /\ {NoHash, StaleHash} \cap File = {}
    /\ NoCall \notin LedgerCall

VARIABLES
    files,     \* the vault: Paths -> content or Absent
    temps,     \* temporary files of atomic_write, by the call they belong to
    pc,        \* where each server is in its call
    call,      \* the call it executes
    moved,     \* commit's list of completed moves
    cur,       \* the file being read, or whose archived copy is being stamped
    buf,       \* the text read from a file
    outcome,   \* outcome[b] is how call b ended
    touched,   \* history: the calls that have changed a file of the vault
    named,     \* history: the archive files that calls were given to write or
               \* to supersede, and went on to work on
    audit,     \* rows of write_audit
    nextBody,
    faults

vars == <<files, temps, pc, call, moved, cur, buf, outcome, touched, named,
          audit, nextBody, faults>>

Steps == {"idle", "read", "planned", "replace", "archive", "stamp",
          "stamping", "linking", "audit", "rollback"}

Outcomes == {"open", "ok", "missing", "mismatch", "error", "rolled_back",
             "partial", "killed"}

Hash == File \cup {NoHash, StaleHash}

Call == [op : {"create", "update"}, path : Paths, body : Calls, expect : Hash,
         dest : [Paths -> Slots \cup {NoSlot}]]

Row == [body : Calls, path : Paths, archived : SUBSET Slots]

NoMoves == [n \in Paths |-> NoSlot]

FileName(p) == IF p \in Notes THEN NameOf[p] ELSE p[1]

(* A text as a client or the editor supplies it.                           *)
Text(b) == [body |-> b, head |-> HeadOf[b], by |-> NoNote, refs |-> {}]

(* The superseded files of a call, and the archive files planned for them. *)
Sources(c) == {n \in Paths : c.dest[n] # NoSlot}
ArchivedUnfiltered(c) == {c.dest[n] : n \in Paths}             \* mutant
Archived(c) == {c.dest[n] : n \in Sources(c)}
Pending(s) == Sources(call[s]) \ moved[s]

----------------------------------------------------------------------------
(* Steps shared by the actions.                                            *)

Goto(s, step) == pc' = [pc EXCEPT ![s] = step]

(* The call ends, and its local variables with it.                         *)
Return(s, result) ==
    /\ Goto(s, "idle")
    /\ outcome' = [outcome EXCEPT ![call[s].body] = result]
    /\ call' = [call EXCEPT ![s] = NoCall]
    /\ moved' = [moved EXCEPT ![s] = {}]
    /\ cur' = [cur EXCEPT ![s] = NoNote]
    /\ buf' = [buf EXCEPT ![s] = Absent]

(* A call refused by its first check: an error code and nothing else.      *)
Refuse == UNCHANGED vars

(* A call accepted for execution, with a text of its own.                  *)
Accept(s, op, p, e, d, step) ==
    /\ nextBody <= MaxBody
    /\ nextBody' = nextBody + 1
    /\ call' = [call EXCEPT ![s] = [op |-> op, path |-> p, body |-> nextBody,
                                    expect |-> e, dest |-> d]]
    /\ Goto(s, step)
    /\ temps' = IF step = "replace" THEN temps \cup {nextBody} ELSE temps
    /\ UNCHANGED <<files, moved, cur, buf, outcome, touched, named, audit,
                   faults>>

(* WriteService.update's checks of its target.                             *)
Missing(p) == files[p] = Absent
OutdatedNever(p, e) == FALSE                                    \* mutant
Outdated(p, e) == e # NoHash /\ files[p] # e
Updatable(p, e) == ~Missing(p) /\ ~Outdated(p, e)

(* The hashes a client can pass: none, that of the content as it is, or one *)
(* read_note gave for a version that is no longer there.                    *)
ClientHashes(p) == ({NoHash, StaleHash, files[p]}) \ {Absent}

(* Mutant: the archive is not looked at for a free name.                   *)
DestinationsUnchecked(S) ==
    {d \in [S -> Slots] : \A n \in S : d[n] = <<FileName(n), Plain>>}

(* The name a superseded file would keep.  That of an archive file is      *)
(* taken, by the file itself.                                              *)
Candidate(n) == IF n \in Notes THEN <<NameOf[n], Plain>> ELSE n

(* _unique_destination for every source: its own name while that is free, a *)
(* name with a fresh uuid otherwise, never one planned twice.               *)
Destinations(S) ==
    {d \in [S -> {a \in Slots : Missing(a)}] :
        \A n \in S :
            /\ d[n][1] = FileName(n)
            /\ \A m \in S \ {n} : d[m] # d[n]
            /\ d[n] # Candidate(n) =>
                 /\ d[n][2] # Plain
                 /\ \/ ~Missing(Candidate(n))
                    \/ \E m \in S \ {n} : d[m] = Candidate(n)}

----------------------------------------------------------------------------
(* read_note: the text and the hash come from two reads of the file.       *)

ReadText(s, p) ==
    /\ pc[s] = "idle" /\ ~Missing(p)
    /\ buf' = [buf EXCEPT ![s] = files[p]]
    /\ cur' = [cur EXCEPT ![s] = p]
    /\ Goto(s, "read")
    /\ UNCHANGED <<files, temps, call, moved, outcome, touched, named, audit,
                   nextBody, faults>>

(* The hash is that of the file as it is now; a file that has gone is an   *)
(* error.  Either way the call ends.                                       *)
ReadHash(s) ==
    /\ pc[s] = "read"
    /\ Goto(s, "idle")
    /\ cur' = [cur EXCEPT ![s] = NoNote]
    /\ buf' = [buf EXCEPT ![s] = Absent]
    /\ UNCHANGED <<files, temps, call, moved, outcome, touched, named, audit,
                   nextBody, faults>>

(* write_memory and write_note: WriteService.create up to the rename.      *)
Create(s, p) ==
    /\ pc[s] = "idle"
    /\ \/ ~Missing(p) /\ Refuse                             \* ERR_FILE_EXISTS
       \/ Missing(p) /\ Accept(s, "create", p, NoHash, NoMoves, "replace")

(* update_memory without supersedes and update_note, up to the rename.     *)
Update(s, p, e) ==
    /\ pc[s] = "idle"
    /\ \/ Missing(p) /\ Refuse                              \* ERR_MISSING_FILE
       \/ ~Missing(p) /\ Outdated(p, e) /\ Refuse           \* ERR_HASH_MISMATCH
       \/ Updatable(p, e) /\ Accept(s, "update", p, e, NoMoves, "replace")

(* update_memory with supersedes: SupersessionService.plan.                *)
Plan(s, p, e, S) ==
    /\ pc[s] = "idle" /\ S # {}
    /\ \/ p \in S /\ Refuse                                 \* ERR_INVALID_REQUEST
       \/ (\E n \in S : Missing(n)) /\ Refuse               \* ERR_MISSING_FILE
       \/ /\ p \notin S /\ \A n \in S : ~Missing(n)
          /\ \E d \in Destinations(S) :
               Accept(s, "update", p, e,
                      [n \in Paths |-> IF n \in S THEN d[n] ELSE NoSlot],
                      "planned")

(* ... then WriteService.update with defer_audit, up to the rename.        *)
UpdatePlanned(s) ==
    LET c == call[s] IN
    /\ pc[s] = "planned"
    /\ \/ /\ Missing(c.path)
          /\ Return(s, "missing") /\ UNCHANGED temps
       \/ /\ ~Missing(c.path) /\ Outdated(c.path, c.expect)
          /\ Return(s, "mismatch") /\ UNCHANGED temps
       \/ /\ Updatable(c.path, c.expect)
          /\ Goto(s, "replace")
          /\ temps' = temps \cup {c.body}
          /\ UNCHANGED <<call, moved, cur, buf, outcome>>
    /\ UNCHANGED <<files, touched, named, audit, nextBody, faults>>

(* atomic_write's os.replace puts content at path p and consumes the       *)
(* temporary file.                                                         *)
Put(s, p, content) ==
    /\ files' = [files EXCEPT ![p] = content]
    /\ temps' = temps \ {call[s].body}
    /\ touched' = touched \cup {call[s].body}

(* From here on the call changes the files it names.                       *)
Given(c) == {c.path} \cup Sources(c)
Name(s) == named' = named \cup (Given(call[s]) \cap Slots)

(* Mutant: a supersession's update appends an audit row of its own.        *)
ReplaceAuditing(s) ==
    /\ pc[s] = "replace"
    /\ Put(s, call[s].path, Text(call[s].body))
    /\ Name(s)
    /\ Goto(s, IF Sources(call[s]) = {} THEN "audit" ELSE "archive")
    /\ audit' = audit \cup {[body |-> call[s].body, path |-> call[s].path,
                             archived |-> {}]}
    /\ UNCHANGED <<call, moved, cur, buf, outcome, nextBody, faults>>

(* WriteService._write: the new text replaces whatever the path holds now. *)
Replace(s) ==
    /\ pc[s] = "replace"
    /\ Put(s, call[s].path, Text(call[s].body))
    /\ Name(s)
    /\ Goto(s, IF Sources(call[s]) = {} THEN "audit" ELSE "archive")
    /\ UNCHANGED <<call, moved, cur, buf, outcome, audit, nextBody, faults>>

----------------------------------------------------------------------------
(* SupersessionService.commit.                                             *)

(* Mutant: the exception leaves the staged file behind.                    *)
AbortUncleaned(s) ==
    /\ Goto(s, "rollback")
    /\ UNCHANGED <<temps, call, moved, cur, buf, outcome, named, audit, nextBody>>

(* Any exception inside commit leads to _rollback; a staged temporary file *)
(* is unlinked on the way.                                                 *)
Abort(s) ==
    /\ Goto(s, "rollback")
    /\ temps' = temps \ {call[s].body}
    /\ UNCHANGED <<call, moved, cur, buf, outcome, named, audit, nextBody>>

(* shutil.move: rename, which overwrites the destination.                  *)
MoveSource(s, n) ==
    /\ pc[s] = "archive" /\ n \in Pending(s)
    /\ \/ /\ ~Missing(n)
          /\ files' = [files EXCEPT ![call[s].dest[n]] = files[n],
                                    ![n] = Absent]
          /\ touched' = touched \cup {call[s].body}
          /\ moved' = [moved EXCEPT ![s] = @ \cup {n}]
          /\ cur' = [cur EXCEPT ![s] = n]
          /\ Goto(s, "stamp")
          /\ UNCHANGED <<temps, call, buf, outcome, named, audit, nextBody, faults>>
       \/ Missing(n) /\ Abort(s) /\ UNCHANGED <<files, touched, faults>>

(* The file is there and its frontmatter can be read.                      *)
Mergeable(p) == ~Missing(p) /\ files[p].head # "invalid"

(* _split_frontmatter: only a mapping is kept, other YAML is dropped.      *)
Kept(head) == IF head = "other" THEN "none" ELSE head

(* _merge_frontmatter_file(p), first half: read the text, stage the merged *)
(* one.  A file that cannot be merged ends the commit.                     *)
MergeRead(s, p, next) ==
    \/ /\ Mergeable(p)
       /\ buf' = [buf EXCEPT ![s] = files[p]]
       /\ temps' = temps \cup {call[s].body}
       /\ Goto(s, next)
       /\ UNCHANGED <<files, call, moved, cur, outcome, touched, named, audit,
                      nextBody, faults>>
    \/ ~Mergeable(p) /\ Abort(s) /\ UNCHANGED <<files, touched, faults>>

(* ... second half: replace the file by the merged text.                   *)
MergeReplace(s, p, merged, next) ==
    /\ Put(s, p, merged)
    /\ Goto(s, next)
    /\ UNCHANGED <<call, moved, cur, buf, outcome, named, audit, nextBody, faults>>

Stamped(f, n) == [f EXCEPT !.by = n, !.head = Kept(f.head)]
Linked(f, archived) == [f EXCEPT !.refs = archived, !.head = Kept(f.head)]

StampRead(s) ==
    /\ pc[s] = "stamp"
    /\ MergeRead(s, call[s].dest[cur[s]], "stamping")

StampReplace(s) ==
    /\ pc[s] = "stamping"
    /\ MergeReplace(s, call[s].dest[cur[s]], Stamped(buf[s], call[s].path),
                    "archive")

(* Mutant: the back-reference does not wait for the moves.                 *)
LinkReadEarly(s) ==
    /\ pc[s] = "archive"
    /\ MergeRead(s, call[s].path, "linking")

(* _back_reference_new_note, once every source is archived and stamped.    *)
LinkRead(s) ==
    /\ pc[s] = "archive" /\ Pending(s) = {}
    /\ MergeRead(s, call[s].path, "linking")

(* Mutant: the note refers to the last archived note alone.                *)
LinkReplaceLast(s) ==
    /\ pc[s] = "linking"
    /\ MergeReplace(s, call[s].path, Linked(buf[s], {call[s].dest[cur[s]]}),
                    "audit")

LinkReplace(s) ==
    /\ pc[s] = "linking"
    /\ MergeReplace(s, call[s].path, Linked(buf[s], Archived(call[s])), "audit")

(* Mutant: a move that is not undone is not recorded.                      *)
UnrecoveredUnnoticed(s) == UNCHANGED outcome

(* _rollback: each completed move is undone by a move the other way; one   *)
(* that fails is recorded and the loop goes on.                            *)
Unrecovered(s) == outcome' = [outcome EXCEPT ![call[s].body] = "partial"]

MoveBack(s, n) ==
    LET a == call[s].dest[n] IN
    /\ pc[s] = "rollback" /\ n \in moved[s]
    /\ moved' = [moved EXCEPT ![s] = @ \ {n}]
    /\ \/ /\ ~Missing(a)
          /\ files' = [files EXCEPT ![n] = files[a], ![a] = Absent]
          /\ UNCHANGED outcome
       \/ Missing(a) /\ Unrecovered(s) /\ UNCHANGED files
    /\ UNCHANGED <<temps, pc, call, cur, buf, touched, named, audit, nextBody,
                   faults>>

(* Mutant: the rollback goes on until nothing is left in the archive.      *)
RollbackInsists(s) ==
    /\ pc[s] = "rollback" /\ moved[s] = {}
    /\ outcome[call[s].body] # "partial"
    /\ Return(s, "rolled_back")
    /\ UNCHANGED <<files, temps, touched, named, audit, nextBody, faults>>

RollbackDone(s) ==
    /\ pc[s] = "rollback" /\ moved[s] = {}
    /\ Return(s, IF outcome[call[s].body] = "partial" THEN "partial"
                                                      ELSE "rolled_back")
    /\ UNCHANGED <<files, temps, touched, named, audit, nextBody, faults>>

(* _record_audit and the return of the call.                               *)
Audit(s) ==
    /\ pc[s] = "audit"
    /\ audit' = audit \cup {[body |-> call[s].body, path |-> call[s].path,
                             archived |-> Archived(call[s])]}
    /\ Return(s, "ok")
    /\ UNCHANGED <<files, temps, touched, named, nextBody, faults>>

----------------------------------------------------------------------------
(* Failures.  MaxFaults bounds their number in a behaviour.                *)

Fault == faults < MaxFaults /\ faults' = faults + 1

(* Mutant: the text is written in place, and a failure leaves it there.    *)
WriteFailsInPlace(s) ==
    /\ pc[s] = "replace" /\ Fault
    /\ Return(s, "error")
    /\ Put(s, call[s].path, Text(call[s].body))
    /\ Name(s)
    /\ UNCHANGED <<audit, nextBody>>

(* The temporary file cannot be written or renamed: the exception leaves   *)
(* the tool, and atomic_write's finally unlinks the temporary file.        *)
WriteFails(s) ==
    /\ pc[s] = "replace" /\ Fault
    /\ Return(s, "error")
    /\ temps' = temps \ {call[s].body}
    /\ UNCHANGED <<files, touched, named, audit, nextBody>>

(* A step of commit fails: a full disk, a file held open.                  *)
CommitFails(s) ==
    /\ pc[s] \in {"archive", "stamp", "stamping", "linking"} /\ Fault
    /\ Abort(s) /\ UNCHANGED <<files, touched>>

(* The rename fails, shutil.move copies instead and then cannot delete the *)
(* source: a copy is left in the archive and the move is not completed.    *)
MoveLeavesCopy(s, n) ==
    /\ pc[s] = "archive" /\ n \in Pending(s) /\ ~Missing(n) /\ Fault
    /\ files' = [files EXCEPT ![call[s].dest[n]] = files[n]]
    /\ touched' = touched \cup {call[s].body}
    /\ Abort(s)

(* The same two failures of a move back.                                   *)
MoveBackFails(s, n) ==
    LET a == call[s].dest[n] IN
    /\ pc[s] = "rollback" /\ n \in moved[s] /\ Fault
    /\ moved' = [moved EXCEPT ![s] = @ \ {n}]
    /\ Unrecovered(s)
    /\ \/ UNCHANGED files
       \/ ~Missing(a) /\ files' = [files EXCEPT ![n] = files[a]]
    /\ UNCHANGED <<temps, pc, call, cur, buf, touched, named, audit, nextBody>>

(* The row cannot be appended: the error is printed and the call succeeds. *)
AuditFails(s) ==
    /\ pc[s] = "audit" /\ Fault
    /\ Return(s, "ok")
    /\ UNCHANGED <<files, temps, touched, named, audit, nextBody>>

(* The process is killed in a call, and started again: the call is gone,   *)
(* its files stay as they are.                                             *)
Kill(s) ==
    /\ pc[s] \notin {"idle", "read"} /\ Fault
    /\ Return(s, "killed")
    /\ UNCHANGED <<files, temps, touched, named, audit, nextBody>>

----------------------------------------------------------------------------
(* The user, in an editor.                                                 *)

EditorSaves(n) ==
    /\ nextBody <= MaxBody
    /\ nextBody' = nextBody + 1
    /\ files' = [files EXCEPT ![n] = Text(nextBody)]
    /\ UNCHANGED <<temps, pc, call, moved, cur, buf, outcome, touched, named,
                   audit, faults>>

EditorDeletes(n) ==
    /\ ~Missing(n)
    /\ files' = [files EXCEPT ![n] = Absent]
    /\ UNCHANGED <<temps, pc, call, moved, cur, buf, outcome, touched, named,
                   audit, nextBody, faults>>

----------------------------------------------------------------------------

(* Any notes, and an archive that may already hold a file of any name.     *)
Init ==
    /\ \E N \in SUBSET Notes, A \in SUBSET Names :
          files = [p \in Paths |->
                     IF p \in N THEN Text(p)
                     ELSE IF p \in {<<x, Plain>> : x \in A} THEN Text(p[1])
                     ELSE Absent]
    /\ temps = {}
    /\ pc = [s \in Servers |-> "idle"]
    /\ call = [s \in Servers |-> NoCall]
    /\ moved = [s \in Servers |-> {}]
    /\ cur = [s \in Servers |-> NoNote]
    /\ buf = [s \in Servers |-> Absent]
    /\ outcome = [b \in Calls |-> "open"]
    /\ touched = {}
    /\ named = {}
    /\ audit = {}
    /\ nextBody = 1
    /\ faults = 0

(* What a process does by itself once it has taken a call.                 *)
Progress(s) ==
    \/ ReadHash(s)
    \/ UpdatePlanned(s)
    \/ Replace(s)
    \/ \E n \in Paths : MoveSource(s, n)
    \/ StampRead(s)
    \/ StampReplace(s)
    \/ LinkRead(s)
    \/ LinkReplace(s)
    \/ Audit(s)
    \/ \E n \in Paths : MoveBack(s, n)
    \/ RollbackDone(s)

Request(s) ==
    \E p \in Scope[s] :
        \/ ReadText(s, p)
        \/ Create(s, p)
        \/ \E e \in ClientHashes(p) :
              \/ Update(s, p, e)
              \/ \E S \in SUBSET Scope[s] : Plan(s, p, e, S)

Failure(s) ==
    \/ WriteFails(s)
    \/ CommitFails(s)
    \/ \E n \in Paths : MoveLeavesCopy(s, n)
    \/ \E n \in Paths : MoveBackFails(s, n)
    \/ AuditFails(s)
    \/ Kill(s)

Editor == \E n \in EditorFiles : EditorSaves(n) \/ EditorDeletes(n)

Next ==
    \/ \E s \in Servers : Progress(s) \/ Request(s) \/ Failure(s)
    \/ Editor

Spec == Init /\ [][Next]_vars

FairSpec == Spec /\ \A s \in Servers : WF_vars(Progress(s))

----------------------------------------------------------------------------
(* Properties.                                                             *)

TypeOK ==
    /\ files \in [Paths -> File \cup {Absent}]
    /\ temps \subseteq Calls
    /\ pc \in [Servers -> Steps]
    /\ call \in [Servers -> Call \cup {NoCall}]
    /\ moved \in [Servers -> SUBSET Paths]
    /\ cur \in [Servers -> Paths \cup {NoNote}]
    /\ buf \in [Servers -> File \cup {Absent}]
    /\ outcome \in [Calls -> Outcomes]
    /\ touched \subseteq Calls
    /\ named \subseteq Slots
    /\ audit \subseteq Row
    /\ nextBody \in 1..(MaxBody + 1)
    /\ faults \in 0..MaxFaults

(* A call that ends in an error other than ERR_INTERNAL has changed no     *)
(* file: validation, the precondition, the hash check and the temporary    *)
(* file all come before the first change, for a supersession too.          *)
RefusedCallsChangeNothing ==
    \A b \in touched : outcome[b] \notin {"missing", "mismatch", "error"}

(* The audit log has at most one row for a call, whatever the number of    *)
(* atomic writes it made, and only for a call that succeeded.              *)
AuditTrail ==
    /\ \A r \in audit : outcome[r.body] = "ok"
    /\ \A r1, r2 \in audit : r1.body = r2.body => r1 = r2

(* A temporary file belongs to an atomic_write in progress, or to a call   *)
(* whose process was killed: no return and no error path leaves one.       *)
TempsAccounted ==
    \A b \in temps :
        \/ outcome[b] = "killed"
        \/ \E s \in Servers : /\ pc[s] \in {"replace", "stamping", "linking"}
                              /\ call[s].body = b

(* The clients share no file names, so that no archive file of one is      *)
(* another's, and the user edits no file that a client works on.           *)
Partitioned ==
    /\ \A s, t \in Servers : s # t =>
         \A n \in Scope[s], m \in Scope[t] : FileName(n) # FileName(m)
    /\ \A s \in Servers : \A n \in Scope[s], m \in EditorFiles :
         n # m /\ (m \in Slots => FileName(n) # FileName(m))

(* Archive file a is there and names p as its successor.                   *)
Succeeded(a, p) == ~Missing(a) /\ files[a].by = p

(* Every archive file a live note names in its supersedes list is there    *)
(* and names that note as its successor, at every moment: in the middle of *)
(* a commit or a rollback, after failures and after a kill.  Only a call   *)
(* that is given the archive file itself, to write or to supersede, can    *)
(* change that.                                                            *)
BackRefsResolve ==
    \A n \in Notes : ~Missing(n) =>
        \A a \in files[n].refs \ named : Succeeded(a, n)

(* The archive paths of an audit row stay true until a call is given one   *)
(* of them to write or to supersede.                                       *)
AuditedArchivesStay ==
    \A r \in audit : \A a \in r.archived \ named : Succeeded(a, r.path)

(* When a call reports that it was rolled back (and not that some files    *)
(* remain in the archive), every file it was to archive is in its place.   *)
RolledBackNotesAreLive ==
    [][\A s \in Servers :
          pc[s] = "rollback" /\ outcome'[call[s].body] = "rolled_back"
            => \A n \in Sources(call[s]) : files[n] # Absent]_vars

(* The texts of the vault follow NoteLedger: superseding loses no text and *)
(* overwrites none, a create replaces nothing, an update replaces the text *)
(* at its path and only once, and a rollback puts back what was moved.     *)
TextAt == [p \in Paths |-> IF Missing(p) THEN Absent ELSE files[p].body]
OpenCall(s) ==
    IF pc[s] \in {"idle", "read"} THEN NoCall
    ELSE [op |-> call[s].op, place |-> call[s].path, text |-> call[s].body,
          dest |-> call[s].dest,
          stage |-> IF pc[s] \in {"planned", "replace"} THEN "accepted"
                                                         ELSE "written"]
OpenCalls == [s \in Servers |-> OpenCall(s)]
Ledger == INSTANCE NoteLedger WITH
            Places <- Paths, Archive <- Slots, Texts <- Bodies,
            Writers <- Servers, Users <- EditorFiles, Nothing <- Absent,
            Nowhere <- NoSlot, Idle <- NoCall, text <- TextAt, open <- OpenCalls
KeepsLedger == Ledger!LedgerSpec

(* A call that ends with its audit leaves the text the client wrote and    *)
(* the references to all it archived.  Superseding costs the text          *)
(* frontmatter that is no mapping, and the content_hash the call returns,  *)
(* that of the text as it was given, is the file's hash only if nothing    *)
(* was superseded: the client's next update with it is refused otherwise.  *)
WrittenNoteIsWhole ==
    [][\A s \in Servers : pc[s] = "audit" /\ pc'[s] = "idle" =>
          LET c == call[s]
              f == files[c.path]
              given == HeadOf[c.body]
              superseding == Sources(c) # {} IN
          /\ f.body = c.body /\ f.by = NoNote
          /\ f.refs = {c.dest[n] : n \in Sources(c)}
          /\ f.head = IF superseding THEN Kept(given) ELSE given
          /\ superseding <=> f # Text(c.body)]_vars

(* Every call returns, if its process goes on running.                     *)
CallsReturn == \A s \in Servers : pc[s] # "idle" ~> pc[s] = "idle"

----------------------------------------------------------------------------
(* What the documents say of the tools, and the code does not do when      *)
(* clients share notes or names, or when a step fails.                     *)

(* "... disambiguated with a short UUID suffix, so the archive never       *)
(* overwrites an existing file": moving a superseded file changes no       *)
(* archive file but those that are moved.                                  *)
ArchiveNeverOverwrites ==
    [][\A s \in Servers : pc[s] = "archive" /\ pc'[s] # "archive" =>
          \A a \in Slots \ Sources(call[s]) :
              ~Missing(a) => files'[a] = files[a]]_vars

(* "... if the file changed on disk since then, the write is rejected":    *)
(* an update with expected_hash overwrites no version but that of the hash. *)
UpdatesReplaceWhatTheyHashed ==
    [][\A s \in Servers :
          LET c == call[s] IN
          pc[s] = "replace" /\ pc'[s] \in {"archive", "audit"}
              /\ c.op = "update" /\ c.expect # NoHash /\ ~Missing(c.path)
            => files[c.path] = c.expect]_vars

(* "superseded: true when the note was moved to the archive": no live note *)
(* carries the stamp while no call is running.                             *)
LiveNotesAreNotStamped ==
    (\A s \in Servers : pc[s] = "idle") =>
        \A n \in Notes : ~Missing(n) => files[n].by = NoNote

============================================================================
