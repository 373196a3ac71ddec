---------------------------- MODULE ContextPacks ----------------------------
(***************************************************************************)
(* Context packs: named lists of files that may include each other, loaded *)
(* by get_context_pack (ContextPackLoader, ContextPackResolver,            *)
(* BudgetEnforcer), and the validation of their declarations when the      *)
(* configuration is loaded (find_context_pack_cycle).                      *)
(*                                                                         *)
(* A load looks at the disk and at the index many times: it expands the    *)
(* patterns of a pack, reads the files it found in a pool of threads, goes *)
(* on to the packs included, queries the index, takes stats.  The user and *)
(* the indexer work in between.                                            *)
(*                                                                         *)
(* The text of a file is its frontmatter tags and the sequence of its      *)
(* sections, each a heading and a number of tokens.  Tokens are taken to   *)
(* add up, with Header tokens for the line that names the file.            *)
(***************************************************************************)
EXTENDS Lists

CONSTANTS
    Packs,      \* declared pack names
    Files,      \* vault paths
    FileOrder,  \* the files in lexicographic order
    Setups,     \* configurations to start with
    Texts,      \* texts a file can have
    Header,     \* tokens of "<!-- From: path -->"
    MaxTime,    \* bound: saves and deletions, and one
    Absent, Unread,
    Broken      \* what a file can hold that read_text(encoding="utf-8") refuses:
                \* bytes that are not UTF-8, a file the process may not open

ASSUME PackAssumption ==
    /\ Header \in Nat /\ MaxTime \in Nat \ {0}
    /\ IsList(FileOrder) /\ ToSet(FileOrder) = Files /\ IsInjective(FileOrder)
    /\ {Absent, Unread} \cap (Texts \cup Broken) = {} /\ Absent # Unread
    /\ Texts \cap Broken = {}
    /\ Packs # {}
    /\ \A c \in Setups :
        /\ DOMAIN c.includes = Packs /\ DOMAIN c.paths = Packs
        /\ \A p \in Packs : /\ IsList(c.includes[p]) /\ IsList(c.paths[p])
                            /\ c.budget[p] \in Nat \ {0}
        /\ c.readable \subseteq Files
        /\ c.vaults \subseteq [Files -> Texts \cup Broken \cup {Absent}]
    /\ \A t \in Texts : IsList(t.parts)

(* Sections have numbers of tokens.                                        *)
ASSUME SizeAssumption ==
    \A t \in Texts : \A i \in DOMAIN t.parts : t.parts[i].size \in Nat

(* A configuration declares finitely many packs.                           *)
ASSUME FinitelyManyPacks == IsFiniteSet(Packs)

VARIABLES
    cfg,        \* the configuration in force (read once by a process)
    vault,      \* vault[f] is [text, mtime] or Absent
    indexedAt,  \* the time of f's row in the index, 0 when it has none
    now,
    pc,
    root,       \* the pack asked for
    strict,     \* strict_budget
    checked,    \* the configuration came through validation
    stack,      \* packs being visited, each with the includes still to visit
    visited,    \* find_context_pack_cycle: packs done
    entering,   \* the pack to resolve next
    found,      \* candidates of the pack being resolved
    texts,      \* what the threads have read
    documents,  \* resolved so far, in order: [path, parts, mtime]
    missing,
    stamps,     \* the answer of the index: indexed_at by file
    stale,      \* files with a staleness warning
    emitted,    \* the content: [path, parts] in the order written
    outcome,
    touched     \* history: the files saved or deleted since the request

env == <<cfg, vault, indexedAt, now>>
asked == <<root, strict, checked>>
vars == <<env, pc, asked, stack, visited, entering, found, texts, documents,
          missing, stamps, stale, emitted, outcome, touched>>

Version == [text : Texts \cup Broken, mtime : 1..MaxTime]

Present(f) == vault[f] # Absent

(* Guardrails: the files a read may touch.                                 *)
Readable(f) == f \in cfg.readable

----------------------------------------------------------------------------
(* Selecting files and text.                                               *)

MatchesUnchecked(entry) ==                       \* mutant: no is_file check
    IF entry \in Files THEN Select(<<entry>>, LAMBDA f : Readable(f))
    ELSE Select(FileOrder, LAMBDA f : f \in entry /\ Readable(f) /\ Present(f))

(* One entry of a pack's paths: a file, or a glob (the set of the files it *)
(* matches), whose matches are sorted.                                     *)
Matches(entry) ==
    IF entry \in Files THEN Select(<<entry>>, LAMBDA f : Readable(f) /\ Present(f))
    ELSE Select(FileOrder, LAMBDA f : f \in entry /\ Readable(f) /\ Present(f))

OwnPaths(p) == FlattenSeq([i \in DOMAIN cfg.paths[p] |-> Matches(cfg.paths[p][i])])

OwnMissingAndGlobs(p) ==                         \* mutant: an empty glob, too
    Select(cfg.paths[p], LAMBDA e : Matches(e) = <<>>)

(* Explicit paths with no file; globs never report one.                    *)
OwnMissing(p) ==
    Select(cfg.paths[p], LAMBDA e : e \in Files /\ Readable(e) /\ ~Present(e))

HasTags(p, text) == cfg.tags[p] \subseteq text.tags

(* select_pack_content: the sections asked for, all when none is there.    *)
Selected(p, text) ==
    LET chosen == Select(text.parts, LAMBDA part : part.head \in cfg.sections[p])
    IN  IF chosen = <<>> THEN text.parts ELSE chosen

FirstPlacesAll(docs) == docs                         \* mutant: seen_paths unused

(* The documents with each path at its first place only.                   *)
FirstPlaces(docs) ==
    At(docs, {i \in DOMAIN docs : \A j \in 1..(i - 1) : docs[j].path # docs[i].path})

----------------------------------------------------------------------------
(* The token budget.                                                       *)

SizeOf(parts) ==
    LET sum[i \in 0..Len(parts)] == IF i = 0 THEN 0 ELSE sum[i - 1] + parts[i].size
    IN  sum[Len(parts)]
Tokens(pieces) ==
    LET sum[i \in 0..Len(pieces)] ==
            IF i = 0 THEN 0 ELSE sum[i - 1] + Header + SizeOf(pieces[i].parts)
    IN  sum[Len(pieces)]

Whole(doc) == [path |-> doc.path, parts |-> doc.parts]
Fragment(doc, k) == [path |-> doc.path, parts |-> <<doc.parts[k]>>]
AsContent(docs) == [i \in DOMAIN docs |-> Whole(docs[i])]

FitsBefore(pieces, piece, budget) == Tokens(pieces) <= budget      \* mutant
Fits(pieces, piece, budget) == Tokens(Append(pieces, piece)) <= budget

(* Mutant: a fragment that does not fit is left out, the others are tried. *)
WithLaterFragments(pieces, doc, budget) ==
    FoldLeft(LAMBDA done, part :
                 LET piece == [path |-> doc.path, parts |-> <<part>>] IN
                 IF Fits(done, piece, budget) THEN Append(done, piece) ELSE done,
             pieces, doc.parts)

(* The fragments of a document that does not fit, up to the first that     *)
(* does not fit either.                                                    *)
WithFragments(pieces, doc, budget) ==
    LET First(k) == pieces \o [j \in 1..k |-> Fragment(doc, j)]
        fitting == {k \in 0..Len(doc.parts) : \A j \in 1..k :
                        Fits(First(j - 1), Fragment(doc, j), budget)}
    IN  First(CHOOSE k \in fitting : \A j \in fitting : j <= k)

Added(pieces, doc, budget) ==
    IF Fits(pieces, Whole(doc), budget) THEN Append(pieces, Whole(doc))
    ELSE WithFragments(pieces, doc, budget)

(* _emit_truncated_content.                                                *)
Emit(docs, budget) ==
    LET upTo[i \in 0..Len(docs)] ==
            IF i = 0 THEN <<>> ELSE Added(upTo[i - 1], docs[i], budget)
    IN  upTo[Len(docs)]

(* The orders _rank_for_truncation can give: files the index ranks come    *)
(* first, in any order, the others follow as declared.                     *)
Rankings(docs) ==
    LET indexed == {f \in {docs[i].path : i \in DOMAIN docs} : indexedAt[f] > 0}
        Of(f) == CHOOSE d \in ToSet(docs) : d.path = f
    IN  UNION {{[i \in DOMAIN s |-> Of(s[i])]
                    \o Select(docs, LAMBDA d : d.path \notin ranked)
                : s \in SetToSeqs(ranked)} : ranked \in SUBSET indexed}

----------------------------------------------------------------------------
(* A request.  A server loads a configuration through validation, once; a  *)
(* ProjectConfig that a program builds itself is resolved as it is.        *)

Goto(step) == pc' = step

(* The call ends with a result or an error.                                *)
End(result) ==
    /\ Goto("done")
    /\ outcome' = result
    /\ stack' = <<>> /\ visited' = {} /\ found' = <<>> /\ texts' = <<>>

Request(p, isStrict, isChecked) ==
    /\ pc \in {"idle", "done"}
    /\ root' = p /\ strict' = isStrict /\ checked' = isChecked
    /\ Goto(IF isChecked THEN "validate" ELSE "enter")
    /\ entering' = p
    /\ documents' = <<>> /\ missing' = <<>> /\ emitted' = <<>> /\ stale' = {}
    /\ stamps' = [f \in Files |-> 0]
    /\ outcome' = "open" /\ touched' = {}
    /\ UNCHANGED <<env, stack, visited, found, texts>>

Top == stack[Len(stack)]

(* Mutant: the names of the packs still to visit are on the stack, too.    *)
OnStackOrToCome(p) ==
    \E i \in DOMAIN stack : stack[i].pack = p \/ p \in ToSet(stack[i].todo)

OnStack(p) == \E i \in DOMAIN stack : stack[i].pack = p

Push(p) == Append(stack, [pack |-> p, todo |-> cfg.includes[p]])
TodoDone == [stack EXCEPT ![Len(stack)].todo = Tail(@)]

----------------------------------------------------------------------------
(* _validate_context_pack_references: the unknown names, then              *)
(* find_context_pack_cycle, a depth-first search from every pack.          *)

UnknownIncludes == \E p \in Packs : ~(ToSet(cfg.includes[p]) \subseteq Packs)

ValidateFrom(p) ==
    /\ pc = "validate" /\ stack = <<>> /\ p \notin visited
    /\ stack' = Push(p)
    /\ UNCHANGED <<pc, visited, entering, found, texts, documents, missing,
                   stamps, stale, emitted, outcome>>

(* Mutant: a child visited before stays in the list.                       *)
ValidateChildStays ==
    /\ pc = "validate" /\ stack # <<>> /\ Top.todo # <<>>
    /\ LET child == Head(Top.todo) IN
       \/ /\ OnStack(child)
          /\ End("refused")
       \/ /\ ~OnStack(child) /\ child \notin visited
          /\ stack' = IF child \notin Packs THEN TodoDone
                      ELSE Append(TodoDone, [pack |-> child,
                                             todo |-> cfg.includes[child]])
          /\ UNCHANGED <<pc, outcome, visited, found, texts>>
    /\ UNCHANGED <<entering, documents, missing, stamps, stale, emitted>>

(* visit(child): a cycle when the child is being visited, nothing when it  *)
(* was visited before or is not declared, a search below it otherwise.     *)
ValidateChild ==
    /\ pc = "validate" /\ stack # <<>> /\ Top.todo # <<>>
    /\ LET child == Head(Top.todo) IN
       \/ /\ OnStack(child)
          /\ End("refused")
       \/ /\ ~OnStack(child)
          /\ stack' = IF child \in visited \/ child \notin Packs THEN TodoDone
                      ELSE Append(TodoDone, [pack |-> child,
                                             todo |-> cfg.includes[child]])
          /\ UNCHANGED <<pc, outcome, visited, found, texts>>
    /\ UNCHANGED <<entering, documents, missing, stamps, stale, emitted>>

ValidateLeave ==
    /\ pc = "validate" /\ stack # <<>> /\ Top.todo = <<>>
    /\ stack' = Front(stack) /\ visited' = visited \cup {Top.pack}
    /\ UNCHANGED <<pc, entering, found, texts, documents, missing, stamps,
                   stale, emitted, outcome>>

(* Mutant: the search starts from one pack only.                           *)
ValidateOneTree ==
    /\ pc = "validate" /\ stack = <<>> /\ visited # {}
    /\ \/ UnknownIncludes /\ End("refused")
       \/ /\ ~UnknownIncludes
          /\ Goto("enter") /\ visited' = {}
          /\ UNCHANGED <<stack, found, texts, outcome>>
    /\ UNCHANGED <<entering, documents, missing, stamps, stale, emitted>>

ValidateDone ==
    /\ pc = "validate" /\ stack = <<>> /\ visited = Packs
    /\ \/ UnknownIncludes /\ End("refused")
       \/ /\ ~UnknownIncludes
          /\ Goto("enter") /\ visited' = {}
          /\ UNCHANGED <<stack, found, texts, outcome>>
    /\ UNCHANGED <<entering, documents, missing, stamps, stale, emitted>>

----------------------------------------------------------------------------
(* ContextPackResolver._resolve_pack.                                      *)

(* _pack(name), then the test of the stack, then the expansion of the      *)
(* pack's own paths.                                                       *)
Enter ==
    /\ pc = "enter"
    /\ \/ entering \notin Packs /\ End("unknown") /\ UNCHANGED missing
       \/ /\ entering \in Packs /\ OnStack(entering)
          /\ End("cycle") /\ UNCHANGED missing
       \/ /\ entering \in Packs /\ ~OnStack(entering)
          /\ Goto("read")
          /\ stack' = Push(entering)
          /\ found' = OwnPaths(entering)
          /\ texts' = [i \in DOMAIN OwnPaths(entering) |-> Unread]
          /\ missing' = missing \o OwnMissing(entering)
          /\ UNCHANGED <<visited, outcome>>
    /\ UNCHANGED <<entering, documents, stamps, stale, emitted>>

(* A thread of the pool reads a candidate.                                 *)
Read(i) ==
    /\ pc = "read" /\ i \in DOMAIN found /\ texts[i] = Unread
    /\ texts' = [texts EXCEPT ![i] = vault[found[i]]]
    /\ UNCHANGED <<pc, stack, visited, entering, found, documents, missing,
                   stamps, stale, emitted, outcome>>

Legible(version) == version # Absent /\ version.text \notin Broken

Document(p, i) == [path |-> found[i], mtime |-> texts[i].mtime,
                   parts |-> Selected(p, texts[i].text)]

(* The results in the order of the candidates; an exception of any thread  *)
(* is raised here.                                                         *)
Gather ==
    /\ pc = "read" /\ \A i \in DOMAIN found : texts[i] # Unread
    /\ \/ /\ \E i \in DOMAIN found : ~Legible(texts[i])
          /\ End("failed") /\ UNCHANGED documents
       \/ /\ \A i \in DOMAIN found : Legible(texts[i])
          /\ LET p == Top.pack
                 read == [i \in DOMAIN found |-> Document(p, i)]
             IN documents' = FirstPlaces(documents \o
                     At(read, {i \in DOMAIN found : HasTags(p, texts[i].text)}))
          /\ Goto("include")
          /\ found' = <<>> /\ texts' = <<>>
          /\ UNCHANGED <<stack, visited, outcome>>
    /\ UNCHANGED <<entering, missing, stamps, stale, emitted>>

(* The included packs in turn; when there is none left the pack returns to *)
(* the one that includes it.                                               *)
Include ==
    /\ pc = "include" /\ stack # <<>>
    /\ \/ /\ Top.todo # <<>>
          /\ entering' = Head(Top.todo) /\ stack' = TodoDone /\ Goto("enter")
       \/ /\ Top.todo = <<>>
          /\ stack' = Front(stack) /\ UNCHANGED <<entering, pc>>
    /\ UNCHANGED <<visited, found, texts, documents, missing, stamps, stale,
                   emitted, outcome>>

----------------------------------------------------------------------------
(* _stale_warnings and BudgetEnforcer.enforce.                             *)

(* SqliteIndexQueries.indexed_at, one query for all documents.             *)
Query ==
    /\ pc = "include" /\ stack = <<>>
    /\ stamps' = indexedAt
    /\ Goto("stat")
    /\ UNCHANGED <<stack, visited, entering, found, texts, documents, missing,
                   stale, emitted, outcome>>

Stamped == {d \in ToSet(documents) : stamps[d.path] > 0}

SavedSinceRead(d) == vault[d.path].mtime > d.mtime                 \* mutant
SavedSince(d) == vault[d.path].mtime > stamps[d.path]

(* The stat of every document that has a row: a file that has gone raises. *)
Stat ==
    /\ pc = "stat"
    /\ \/ (\E d \in Stamped : ~Present(d.path)) /\ End("failed") /\ UNCHANGED stale
       \/ /\ \A d \in Stamped : Present(d.path)
          /\ stale' = {d.path : d \in {e \in Stamped : SavedSince(e)}}
          /\ Goto("fit")
          /\ UNCHANGED <<stack, visited, found, texts, outcome>>
    /\ UNCHANGED <<entering, documents, missing, stamps, emitted>>

Budget == cfg.budget[root]
Total == Tokens(AsContent(documents))

Enforce ==
    /\ pc = "fit"
    /\ \/ Total <= Budget /\ emitted' = AsContent(documents) /\ End("whole")
       \/ Total > Budget /\ strict /\ End("over") /\ UNCHANGED emitted
       \/ /\ Total > Budget /\ ~strict
          /\ \E docs \in Rankings(documents) : emitted' = Emit(docs, Budget)
          /\ End("truncated")
    /\ UNCHANGED <<entering, documents, missing, stamps, stale>>

----------------------------------------------------------------------------
(* The user and the indexer, on the files that packs may read.             *)

Tick ==
    /\ now < MaxTime /\ now' = now + 1
    /\ UNCHANGED <<cfg, pc, asked, stack, visited, entering, found, texts,
                   documents, missing, stamps, stale, emitted, outcome>>

Save(f, text) ==
    /\ Tick
    /\ vault' = [vault EXCEPT ![f] = [text |-> text, mtime |-> now']]
    /\ touched' = touched \cup {f} /\ UNCHANGED indexedAt

Delete(f) ==
    /\ Tick /\ Present(f)
    /\ vault' = [vault EXCEPT ![f] = Absent]
    /\ touched' = touched \cup {f} /\ UNCHANGED indexedAt

(* The indexer stores f's row, at a time that may be that of a save.       *)
Index(f) ==
    /\ indexedAt' = [indexedAt EXCEPT ![f] = IF Present(f) THEN now ELSE 0]
    /\ UNCHANGED <<cfg, vault, now, pc, asked, stack, visited, entering, found,
                   texts, documents, missing, stamps, stale, emitted, outcome,
                   touched>>

----------------------------------------------------------------------------

Init ==
    /\ cfg \in Setups
    /\ \E start \in cfg.vaults :
          vault = [f \in Files |-> IF start[f] = Absent THEN Absent
                                  ELSE [text |-> start[f], mtime |-> 1]]
    /\ indexedAt = [f \in Files |-> 0] /\ now = 1
    /\ pc = "idle" /\ outcome = "open" /\ touched = {}
    /\ root = CHOOSE p \in Packs : TRUE
    /\ entering = root /\ strict = FALSE /\ checked = FALSE
    /\ stack = <<>> /\ visited = {} /\ found = <<>> /\ texts = <<>>
    /\ documents = <<>> /\ missing = <<>> /\ emitted = <<>> /\ stale = {}
    /\ stamps = [f \in Files |-> 0]

Resolution == Enter \/ (\E i \in DOMAIN found : Read(i)) \/ Gather \/ Include
Validation == (\E p \in Packs : ValidateFrom(p)) \/ ValidateChild
                 \/ ValidateLeave \/ ValidateDone

(* A step of the call, which changes nothing but its own variables.        *)
Progress ==
    /\ UNCHANGED <<env, asked, touched>>
    /\ Validation \/ Resolution \/ Query \/ Stat \/ Enforce

Next ==
    \/ Progress
    \/ \E p \in Packs, isStrict, isChecked \in BOOLEAN : Request(p, isStrict, isChecked)
    \/ \E f \in cfg.readable :
          \/ \E t \in Texts \cup Broken : Save(f, t)
          \/ Delete(f)
          \/ Index(f)

Spec == Init /\ [][Next]_vars
FairSpec == Spec /\ WF_vars(Progress)

----------------------------------------------------------------------------
(* Properties.                                                             *)

Section == UNION {ToSet(t.parts) : t \in Texts}
Piece == [path : Files, parts : Seq(Section)]
Frame == [pack : Packs, todo : Seq(Packs \cup UNION {UNION {ToSet(c.includes[p])
                                    : p \in Packs} : c \in Setups})]

TypeOK ==
    /\ vault \in [Files -> Version \cup {Absent}]
    /\ indexedAt \in [Files -> 0..MaxTime] /\ now \in 1..MaxTime
    /\ pc \in {"idle", "validate", "enter", "read", "include", "stat", "fit", "done"}
    /\ root \in Packs /\ strict \in BOOLEAN /\ checked \in BOOLEAN
    /\ stack \in Seq(Frame) /\ visited \subseteq Packs
    /\ found \in Seq(Files)
    /\ texts \in Seq(Version \cup {Absent, Unread})
    /\ documents \in Seq([path : Files, parts : Seq(Section), mtime : 1..MaxTime])
    /\ missing \in Seq(Files) /\ stamps \in [Files -> 0..MaxTime]
    /\ stale \subseteq Files /\ emitted \in Seq(Piece)
    /\ outcome \in {"open", "refused", "unknown", "cycle", "failed", "whole", "over",
                    "truncated"}
    /\ touched \subseteq Files

Answered == pc = "done" /\ outcome \in {"whole", "over", "truncated"}

(* The smallest set of packs with p and all that its packs include.        *)
Closed(S) == \A q \in S : ToSet(cfg.includes[q]) \cap Packs \subseteq S
Reachable(p) ==
    {q \in Packs : \A S \in SUBSET Packs : p \in S /\ Closed(S) => q \in S}

InCycle(p) == \E q \in ToSet(cfg.includes[p]) \cap Packs : p \in Reachable(q)

(* Resolution refuses a pack for a cycle exactly if one can be reached from*)
(* it: including a pack twice, or by two ways, is none.                    *)
CyclesAreReported ==
    /\ pc = "done" /\ outcome = "cycle" => \E p \in Reachable(root) : InCycle(p)
    /\ Answered => \A p \in Reachable(root) : ~InCycle(p)

(* find_context_pack_cycle and the test of names accept exactly the        *)
(* configurations in which no pack can fail to resolve.                    *)
ValidationIsExact ==
    pc = "done" /\ checked =>
        /\ outcome = "refused" <=> UnknownIncludes \/ \E p \in Packs : InCycle(p)
        /\ outcome \notin {"cycle", "unknown"}

(* The packs visited, in order; for a root from which no cycle is reached. *)
Visits ==
    LET Below[n \in 0..Cardinality(Packs)] ==
            [q \in Packs |-> <<q>> \o
                IF n = 0 THEN <<>>
                ELSE FlattenSeq([i \in DOMAIN cfg.includes[q] |->
                                    Below[n - 1][cfg.includes[q][i]]])]
    IN  Below[Cardinality(Packs)][root]

(* The pack a file is taken for: the first visited that selects it.        *)
Takes(p, f) == f \in ToSet(OwnPaths(p)) /\ HasTags(p, vault[f].text)
FirstTaker(f) ==
    CHOOSE i \in DOMAIN Visits : /\ Takes(Visits[i], f)
                                 /\ \A j \in 1..(i - 1) : ~Takes(Visits[j], f)

(* In a vault that does not change, a pack is made of the files it and the *)
(* packs it includes declare: its own before those of its includes, each   *)
(* once, at its first place and with the sections of the pack that puts it *)
(* there; explicit paths without a file are reported.                      *)
PackIsItsFiles ==
    Answered /\ touched = {} =>
        LET Place(d) == FirstTaker(d.path)
            Position(d) == CHOOSE k \in DOMAIN OwnPaths(Visits[Place(d)]) :
                /\ OwnPaths(Visits[Place(d)])[k] = d.path
                /\ \A j \in 1..(k - 1) : OwnPaths(Visits[Place(d)])[j] # d.path
        IN
        /\ {d.path : d \in ToSet(documents)} =
              {f \in Files : \E p \in ToSet(Visits) : Takes(p, f)}
        /\ \A d \in ToSet(documents) :
              d.parts = Selected(Visits[Place(d)], vault[d.path].text)
        /\ \A i, j \in DOMAIN documents : i < j =>
              LET d == documents[i]
                  e == documents[j]
              IN  \/ Place(d) < Place(e)
                  \/ Place(d) = Place(e) /\ Position(d) < Position(e)
        /\ ToSet(missing) = UNION {ToSet(OwnMissing(p)) : p \in ToSet(Visits)}

(* The files that a pack names and that it may read.                       *)
Declared(p) ==
    {f \in cfg.readable : \E e \in ToSet(cfg.paths[p]) :
                             f = e \/ (e \notin Files /\ f \in e)}

(* A load fails only because of a file that the packs of its root name and *)
(* may read: one that read_text refuses, or one that was saved or deleted  *)
(* between the steps of the load.  A file that was not there from the      *)
(* start, one the guardrails exclude or one of another pack fails none.    *)
LoadsFailForAFile ==
    pc = "done" /\ outcome = "failed" =>
        \E p \in Reachable(root) : \E f \in Declared(p) :
            f \in touched \/ (Present(f) /\ ~Legible(vault[f]))

(* No content exceeds its budget, whatever order the index ranks files in. *)
BudgetHolds ==
    pc = "done" /\ outcome \in {"whole", "truncated"} => Tokens(emitted) <= Budget

(* A truncated pack keeps of every file a prefix of complete sections, and *)
(* leaves out none that would still fit next.                              *)
TruncatedAtSections ==
    pc = "done" /\ outcome = "truncated" =>
        \A d \in ToSet(documents) :
            LET kept == FlattenSeq([i \in DOMAIN emitted |->
                            IF emitted[i].path = d.path THEN emitted[i].parts
                                                        ELSE <<>>])
            IN  /\ IsPrefix(kept, d.parts)
                /\ kept # d.parts =>
                      ~Fits(emitted, Fragment(d, Len(kept) + 1), Budget)

(* A document whose version was saved after the row of the index is named  *)
(* in a staleness warning, whatever happened since it was read.            *)
SavedSinceIndexingIsWarned ==
    Answered => \A d \in ToSet(documents) :
        stamps[d.path] \in 1..(d.mtime - 1) => d.path \in stale

(* Every load ends, whatever the packs include.                            *)
LoadsEnd == pc \notin {"idle", "done"} ~> pc = "done"
============================================================================
