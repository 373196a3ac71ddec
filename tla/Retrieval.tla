----------------------------- MODULE Retrieval -----------------------------
(***************************************************************************)
(* Reading and searching a vault: the configuration (config/manager.py),   *)
(* the read guardrails (config/_guardrails.py, utils), the index as the    *)
(* parser fills it (module Markdown), search_notes, `debug search`,        *)
(* read_note and read_section.                                             *)
(*                                                                         *)
(* The user edits the configuration and the notes, `mcp-memory index` is a *)
(* process that loads the configuration when it starts, and the server has *)
(* loaded it at its first call and keeps it.  What a search returns thus   *)
(* depends on three configurations and two states of the notes.            *)
(*                                                                         *)
(* A run of the indexer is one step: that it gets there whatever happens   *)
(* to it and around it is what module Indexing shows.  A vault path is a   *)
(* sequence of names; one that begins with ".." is outside of the vault.   *)
(***************************************************************************)
EXTENDS Markdown, FiniteSetsExt

CONSTANTS
    Places,     \* vault paths of markdown files, symbolic links included
    Links,      \* Links[p] is the target of the symbolic link p
    VaultRoot,  \* the absolute path of the vault
    Docs,       \* texts of notes
    Configs,    \* read policies the user may configure
    Requests,   \* paths and headings clients ask for
    Queries,    \* queries of search_notes
    DebugQueries, \* queries of `debug search`
    Setups,     \* vaults at the start, and how many changes follow
    Broken,     \* a configuration that does not pass the validation
    NoConfig, Absent, NoAnswer

(* A text is the lines of the front matter, "---" lines included, the lines*)
(* of the body and the tags.                                               *)
Text(d) == d.front \o d.body

IsNote(d) == IsBody(d.front) /\ IsBody(d.body)

Regular == Places \ DOMAIN Links

(* The scan of the vault enters no linked directory.  A limit is positive, *)
(* and the words of a regular expression are among the terms the full text *)
(* search is asked for.                                                    *)
ASSUME RetrievalAssumption ==
    /\ Broken \notin Configs /\ NoConfig \notin Configs
    /\ IsFiniteSet(Places)
    /\ \A p \in Places :
          /\ IsList(p)
          /\ \A k \in 1 .. Len(p) - 1 : SubSeq(p, 1, k) \notin DOMAIN Links
    /\ \A q \in Queries : q.limit \in Nat \ {0} /\ (q.regex => q.pattern \subseteq q.terms)
    /\ \A d \in Docs : IsNote(d)
    /\ \A setup \in Setups :
          /\ setup.changes \in Nat /\ setup.configs \subseteq Configs \cup {Broken}
          /\ \A v \in setup.vaults :
                /\ v = [p \in Regular |-> v[p]]
                /\ \A p \in Regular : v[p] # Absent => IsNote(v[p])

VARIABLES
    vault,      \* the notes: text or Absent
    changes,    \* bound: changes of notes and configuration left
    disk,       \* the configuration in memory-mcp.yaml
    cached,     \* the configuration the server has loaded
    index,      \* per file: the indexed text and its rows, or Absent
    indexedBy,  \* history: the configuration of the last run of the indexer
    answer      \* of the last call

vars == <<vault, changes, disk, cached, index, indexedBy, answer>>

-----------------------------------------------------------------------------
(* Paths and guardrails *)

(* Symbolic links are followed name by name, unless they lead nowhere.     *)
(* What is no note is a directory, and is there.                           *)
Exists(path) == path \in Regular => vault[path] # Absent
Resolve(path) ==
    LET at[k \in 0..Len(path)] ==
            IF k = 0 THEN <<>>
            ELSE LET p == Append(at[k - 1], path[k])
                 IN  IF p \in DOMAIN Links /\ Exists(Links[p])
                     THEN Links[p] ELSE p
    IN  at[Len(path)]

Escapes(path) == path # <<>> /\ path[1] = ".."

(* The vault path of a request.  One that begins with a slash is absolute, *)
(* and leads to the vault only through the path of the vault.              *)
Parts(request) ==
    LET names == SelectSeq(request, LAMBDA name : name \notin {"", "."})
    IN  IF request = <<>> \/ request[1] # "" THEN names
        ELSE IF IsPrefix(VaultRoot, names)
        THEN SubSeq(names, Len(VaultRoot) + 1, Len(names))
        ELSE <<"..">> \o names
(* A request that is refused for its path alone.                           *)
Refused(request) ==
    \/ Parts(request) = <<>>
    \/ \E k \in DOMAIN request : request[k] = ".."
    \/ Escapes(Resolve(Parts(request)))

(* Globs: * is one name, **/ any number of directories, ** at the end what *)
(* is left.                                                                *)
GlobMatches(pattern, path) ==
    LET from[i \in 1..Len(pattern) + 1, j \in 1..Len(path) + 1] ==
            IF i > Len(pattern) THEN j > Len(path)
            ELSE IF pattern[i] = "**"
            THEN IF i = Len(pattern) THEN j <= Len(path)
                 ELSE \E k \in j..Len(path) + 1 : from[i + 1, k]
            ELSE /\ j <= Len(path) /\ pattern[i] \in {"*", path[j]}
                 /\ from[i + 1, j + 1]
    IN  from[1, 1]

RuleMatches(rule, path) ==
    CASE rule.kind = "directory" -> IsPrefix(rule.parts, path)
      [] rule.kind = "file" -> rule.parts = path
      [] rule.kind = "glob" -> GlobMatches(rule.parts, path)

Allows(config, path) ==
    /\ ~\E r \in config.deny : RuleMatches(r, path)
    /\ \E r \in config.allow : RuleMatches(r, path)

-----------------------------------------------------------------------------
(* The index *)

ContentAt(path) ==
    LET p == Resolve(path) IN IF p \in Regular THEN vault[p] ELSE Absent

Rows(d) == [text |-> d, rows |-> ParseMarkdown(d.body)]
Clashes(d) ==
    LET ss == Sections(d.body) IN
    \E i, j \in DOMAIN ss : i < j /\ SectionKey(ss[i]) = SectionKey(ss[j])

(* Links are indexed by their own names, if they lead to a note of the     *)
(* vault.                                                                  *)
Candidates(config) ==
    {p \in Places : ContentAt(p) # Absent /\ Allows(config, p)}

Sound(config) == {p \in Candidates(config) : ~Clashes(ContentAt(p))}

(* Mutant: only what is gone from the disk leaves the index.               *)
RunIndexKeepsDenied ==
    /\ disk # Broken
    /\ \E done \in SUBSET Sound(disk) :
          index' = [p \in Places |->
                       IF p \in done THEN Rows(ContentAt(p))
                       ELSE IF ContentAt(p) # Absent THEN index[p]
                       ELSE Absent]
    /\ indexedBy' = disk
    /\ answer' = NoAnswer
    /\ UNCHANGED <<vault, changes, disk, cached>>

(* `mcp-memory index`: what is no candidate any more leaves the index, then*)
(* the candidates are stored one by one.  One that cannot be read keeps    *)
(* its rows, and so do those after a note whose sections clash, which ends *)
(* the run.                                                                *)
RunIndex ==
    /\ disk # Broken
    /\ \E done \in SUBSET Sound(disk) :
          index' = [p \in Places |->
                       IF p \in done THEN Rows(ContentAt(p))
                       ELSE IF p \in Candidates(disk) THEN index[p]
                       ELSE Absent]
    /\ indexedBy' = disk
    /\ answer' = NoAnswer
    /\ UNCHANGED <<vault, changes, disk, cached>>

-----------------------------------------------------------------------------
(* Search *)

Pieces(row) == UNION {ToSet(row.units[i]) : i \in DOMAIN row.units}
(* The words of a block: those of the lines that begin in it.              *)
ContentWords(file, row) ==
    {index[file].text.body[piece.line].word :
        piece \in {x \in Pieces(row) : x.from = 0 /\ x.to > 0}}
Columns(file, row) ==
    ContentWords(file, row) \cup ToSet(row.section.path)
    \cup index[file].text.tags

Indexed == {p \in Places : index[p] # Absent}
AllRows == UNION {{[file |-> p, row |-> index[p].rows[i]] :
                      i \in DOMAIN index[p].rows} : p \in Indexed}

(* blocks_fts MATCH: all terms of a plain query, one of those of a regex.  *)
FtsMatches(query, hit) ==
    IF query.regex
    THEN query.terms \cap Columns(hit.file, hit.row) # {}
    ELSE query.terms \subseteq Columns(hit.file, hit.row)

SearchRows(query) ==
    {hit \in AllRows :
        /\ FtsMatches(query, hit)
        /\ query.tags \subseteq index[hit.file].text.tags
        /\ query.paths = {}
              \/ \E g \in query.paths : GlobMatches(g, hit.file)
        /\ ~\E g \in query.exclude : GlobMatches(g, hit.file)}

RegexMatches(query, hit) == query.pattern \subseteq
                            ContentWords(hit.file, hit.row)

Minimum(a, b) == IF a < b THEN a ELSE b
(* The first `limit` rows, in the order of a rank that is SQLite's.        *)
FirstRows(rows, limit) == kSubset(Minimum(limit, Cardinality(rows)), rows)

(* Mutant: the limit is in the SQL of a regex query, too.                  *)
LimitedResults(query) ==
    {{hit \in rows : query.regex => RegexMatches(query, hit)} :
        rows \in FirstRows(SearchRows(query), query.limit)}

Results(query) ==
    IF query.regex
    THEN FirstRows({hit \in SearchRows(query) : RegexMatches(query, hit)},
                   query.limit)
    ELSE FirstRows(SearchRows(query), query.limit)

(* `debug search`: a prefix of the path (of whole names here), one tag, the*)
(* limit in the SQL.                                                       *)
DebugRows(query) ==
    {hit \in AllRows :
        /\ query.terms \subseteq Columns(hit.file, hit.row)
        /\ IsPrefix(query.prefix, hit.file)
        /\ query.tags \subseteq index[hit.file].text.tags}

-----------------------------------------------------------------------------
(* The calls of a server.  The first one loads the configuration; one that *)
(* cannot be loaded is an error, and the next call tries again.            *)

(* Mutant: what was loaded is kept, whatever it is.                        *)
LoadAnything == cached' = IF cached # NoConfig THEN cached ELSE disk

Loaded == IF cached # NoConfig THEN cached ELSE disk
Load == cached' = IF Loaded = Broken THEN NoConfig ELSE Loaded
Error(kind) == [tool |-> "error", kind |-> kind]

SearchNotes(query) ==
    /\ Load
    /\ IF Loaded = Broken THEN answer' = Error("config")
       ELSE \E hits \in Results(query) :
                answer' = [tool |-> "search", query |-> query, hits |-> hits]
    /\ UNCHANGED <<vault, changes, disk, index, indexedBy>>

DebugSearch(query) ==
    /\ IF disk = Broken THEN answer' = Error("config")
       ELSE \E hits \in FirstRows(DebugRows(query), query.limit) :
                answer' = [tool |-> "debug", query |-> query, hits |-> hits]
    /\ UNCHANGED <<vault, changes, disk, cached, index, indexedBy>>

(* read_note and read_section up to the text they read.                    *)
Denial(request) ==
    LET p == Resolve(Parts(request)) IN
    IF Loaded = Broken THEN "config"
    ELSE IF Refused(request) \/ ~Allows(Loaded, p) THEN "guardrail"
    ELSE IF ContentAt(p) = Absent THEN "missing"
    ELSE "none"

ReadNote(request) ==
    /\ Load
    /\ answer' = IF Denial(request) # "none" THEN Error(Denial(request))
                 ELSE [tool |-> "note", file |-> Resolve(Parts(request))]
    /\ UNCHANGED <<vault, changes, disk, index, indexedBy>>

SectionOf(d, name) ==
    ExtractSection(ReaderLines(Text(d)), ReaderEnd(Text(d), Len(d.front)), name)

ReadSection(request, name) ==
    /\ Load
    /\ answer' =
         IF Denial(request) # "none" THEN Error(Denial(request))
         ELSE LET p == Resolve(Parts(request))
                  section == SectionOf(ContentAt(p), name)
              IN  IF ~section.found THEN Error("section")
                  ELSE [tool |-> "section", file |-> p, section |-> section]
    /\ UNCHANGED <<vault, changes, disk, index, indexedBy>>

(* A new server process: nothing is loaded.                                *)
Restart ==
    /\ cached # NoConfig
    /\ cached' = NoConfig
    /\ answer' = NoAnswer
    /\ UNCHANGED <<vault, changes, disk, index, indexedBy>>

-----------------------------------------------------------------------------
(* The user *)

Change ==
    /\ changes > 0
    /\ changes' = changes - 1
    /\ answer' = NoAnswer
    /\ UNCHANGED <<cached, index, indexedBy>>

EditConfig(config) ==
    /\ Change /\ config # disk
    /\ disk' = config
    /\ UNCHANGED vault

(* A note is written, or (d = Absent) removed.                             *)
Save(p, d) ==
    /\ Change /\ d # vault[p]
    /\ vault' = [vault EXCEPT ![p] = d]
    /\ UNCHANGED disk

Init ==
    \E setup \in Setups :
        /\ vault \in setup.vaults
        /\ changes = setup.changes
        /\ disk \in setup.configs
        /\ cached = NoConfig
        /\ index = [p \in Places |-> Absent]
        /\ indexedBy = NoConfig
        /\ answer = NoAnswer

Next ==
    \/ RunIndex \/ Restart
    \/ \E q \in Queries : SearchNotes(q)
    \/ \E q \in DebugQueries : DebugSearch(q)
    \/ \E r \in Requests : ReadNote(r.path) \/ ReadSection(r.path, r.heading)
    \/ \E c \in Configs \cup {Broken} : EditConfig(c)
    \/ \E p \in Regular, d \in Docs \cup {Absent} : Save(p, d)

Spec == Init /\ [][Next]_vars

-----------------------------------------------------------------------------
(* Properties *)

TypeOK ==
    /\ changes \in Nat
    /\ disk \in Configs \cup {Broken}
    /\ cached \in Configs \cup {NoConfig}
    /\ indexedBy \in Configs \cup {NoConfig}
    /\ Indexed # {} => indexedBy # NoConfig
    /\ answer # NoAnswer => answer.tool \in {"error", "search", "debug",
                                             "note", "section"}

Found(tool) == answer # NoAnswer /\ answer.tool = tool
Hits == IF Found("search") \/ Found("debug") THEN answer.hits ELSE {}
Current(p) == index[p] # Absent /\ index[p].text = ContentAt(p)

(* With nothing stale, a file is found or read only under a name the       *)
(* configuration permits, and what read_note refuses is found only under   *)
(* the name of a link: the indexer looks at the name of a link, read_note  *)
(* at where it leads.  Stale is a configuration that was edited since the  *)
(* last run of the indexer, or since the server loaded it.                 *)
DeniedOnlyWhenStale ==
    disk # Broken =>
      /\ indexedBy = disk => \A hit \in Hits :
            /\ Allows(disk, hit.file)
            /\ Allows(disk, Resolve(hit.file)) \/ hit.file \in DOMAIN Links
      /\ cached = disk /\ (Found("note") \/ Found("section")) =>
            Allows(disk, answer.file)

(* Every tool applies the read guardrails: a search answers with no file   *)
(* the configuration that it has loaded for the call forbids.              *)
SearchAppliesGuardrails ==
    Found("search") => \A hit \in Hits : Allows(cached, hit.file)

(* What the user wrote is found: while a note is as it was indexed, every  *)
(* line with the word that was asked for is in a block of the answer,      *)
(* unless the answer is as long as the limit.  A regular expression must   *)
(* match, too, in lines its literal terms do not occur in.                 *)
IndexedTextIsFound ==
    Found("search") /\ answer.query.tags = {} /\ answer.query.paths = {}
      /\ answer.query.exclude = {} /\ Cardinality(Hits) < answer.query.limit =>
        \A p \in Places : Current(p) =>
          \A k \in DOMAIN index[p].text.body \ Headings(index[p].text.body) :
            LET line == index[p].text.body[k]
                wanted == IF answer.query.regex THEN answer.query.pattern
                          ELSE answer.query.terms
            IN  line.size > 0 /\ wanted = {line.word} =>
                  \E hit \in Hits :
                    hit.file = p /\ \E x \in Pieces(hit.row) : x.line = k

(* What search finds under a heading, read_section reads: the section it   *)
(* returns for the heading has every line of the block.  It does not if    *)
(* the name occurs above (the first one is read; a comment of the front    *)
(* matter counts as a heading), if the front matter opens a fence, or if a *)
(* line that only the reader splits is, or is split into, a heading or a   *)
(* fence.                                                                  *)
Marked(line) == line.kind = "heading" \/ IsFence(line)
SplitAlike(line) ==
    line.cut = <<>> \/ (~Marked(line) /\ \A i \in DOMAIN line.cut : ~Marked(line.cut[i]))
FoundSectionsAreReadable ==
    \A hit \in Hits :
        LET d == index[hit.file].text
            n == Len(d.front)
            at == hit.row.section.at
            name == hit.row.section.slug
            section == SectionOf(d, name)
        IN  /\ at > 0 /\ \A k \in 1..n : ~IsFence(d.front[k])
            /\ \A h \in MatchingHeading(Text(d), name) : n + at <= h
            /\ \A k \in DOMAIN Text(d) : SplitAlike(Text(d)[k])
            => /\ section.found /\ section.heading = ReaderEnd(Text(d), n + at)
               /\ \A x \in Pieces(hit.row) :
                     ReaderEnd(Text(d), n + x.line) <= section.end

(* Everything the user wrote below a heading is in the index, once and in  *)
(* order, whatever was joined or cut to make the blocks.                   *)
Told(rows) ==
    LET all == FlattenSeq([i \in DOMAIN rows |-> FlattenSeq(rows[i].units)])
    IN  Select(all, LAMBDA x : Size(x) > 0)
ChunksKeepText ==
    \A p \in Indexed :
        LET body == index[p].text.body
            told == Told(index[p].rows)
        IN  /\ {told[i].line : i \in DOMAIN told} =
                  {k \in DOMAIN body : body[k].size > 0} \ Headings(body)
            /\ \A i \in DOMAIN told :
                  LET x == told[i]
                      previous == i > 1 /\ told[i - 1].line = x.line
                      next == i < Len(told) /\ told[i + 1].line = x.line
                  IN  /\ i > 1 => told[i - 1].line <= x.line
                      /\ x.from = IF previous THEN told[i - 1].to ELSE 0
                      /\ ~next => x.to = body[x.line].size

(* No block is larger than the hard limit.                                 *)
BlocksWithinLimit ==
    \A p \in Indexed : \A i \in DOMAIN index[p].rows :
        UnitTokens(index[p].rows[i].units) <= HardTokens

(* A block below the minimum ends where its section ends, or where the     *)
(* next unit would have made it too large.                                 *)
SmallBlocksOnlyAtLimit ==
    \A p \in Indexed :
        LET rows == index[p].rows IN
        \A i \in 2..Len(rows) :
            rows[i].ordinal > 1 /\ UnitTokens(rows[i - 1].units) < MinTokens
            => UnitTokens(Append(rows[i - 1].units, rows[i].units[1]))
                  > HardTokens

(* A fenced block that fits in a block of the index is in one block.  The  *)
(* chunker takes a fence line with a suffix for the end of a fence, the    *)
(* scan for headings does not: where a section has such a line in a fence, *)
(* its fences may be cut.                                                  *)
Fenced(body) ==   \* first and last lines of the fences
    LET after == FenceStates(body) IN
    {fence \in (DOMAIN body) \X (DOMAIN body) :
        LET k == fence[1]
            j == fence[2]
        IN  /\ k <= j /\ after[k - 1] = NoFence /\ after[k] # NoFence
            /\ \A i \in k .. j - 1 : after[i] # NoFence
            /\ after[j] = NoFence \/ j = Len(body)}
Misread(body, section) ==
    LET after == FenceStates(body) IN
    \E k \in section.first .. section.last :
        after[k - 1] # NoFence /\ after[k] # NoFence
        /\ IsFence(body[k]) /\ body[k].mark = after[k].mark
        /\ body[k].length >= after[k].length
FencesStayWhole ==
    \A p \in Indexed :
        LET body == index[p].text.body
            rows == index[p].rows
            text(k, j) == [i \in 1 .. j - k + 1 |-> Piece(body, k + i - 1)]
        IN  \A fence \in Fenced(body) : \A i, j \in DOMAIN rows :
              /\ LineTokens(text(fence[1], fence[2])) <= HardTokens
              /\ ~Misread(body, rows[i].section)
              /\ \E x \in Pieces(rows[i]) : x.line = fence[1]
              /\ \E x \in Pieces(rows[j]) :
                    x.line \in fence[1]..fence[2] /\ Size(x) > 0
              => i = j

(* Two sections of a note have one key only if one is the text before the  *)
(* first heading and the other has the heading Root.                       *)
KeysClashOnlyForRoot ==
    \A p \in Regular : vault[p] # Absent =>
        LET ss == Sections(vault[p].body) IN
        \A i, j \in DOMAIN ss :
            i < j /\ SectionKey(ss[i]) = SectionKey(ss[j])
            => ss[i].at = 0 /\ ss[j].at > 0 /\ ss[j].slug = Root
=============================================================================
