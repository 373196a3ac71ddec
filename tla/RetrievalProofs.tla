-------------------------- MODULE RetrievalProofs --------------------------
(***************************************************************************)
(* Proofs about Retrieval, for every vault, configuration and query.       *)
(***************************************************************************)
EXTENDS Retrieval, MarkdownProofs

(* The notes are notes, and the index has rows of notes.                   *)
VaultOK ==
    /\ vault = [p \in Regular |-> vault[p]]
    /\ \A p \in Regular : vault[p] # Absent => IsNote(vault[p])

IndexOK ==
    /\ index = [p \in Places |-> index[p]]
    /\ \A p \in Indexed : \E d : IsNote(d) /\ index[p] = Rows(d)

(* What is in the index was permitted when it was indexed, and what was    *)
(* read is permitted by the configuration the server has loaded.           *)
PermittedOK ==
    /\ \A p \in Indexed : Allows(indexedBy, p)
    /\ Found("note") \/ Found("section") => Allows(cached, answer.file)

(* The blocks of the answer are rows of the index as it is.                *)
HitsOK ==
    /\ Found("search") => /\ answer.query \in Queries
                          /\ answer.hits \in Results(answer.query)
    /\ Found("debug") => answer.hits \subseteq AllRows

Inv == TypeOK /\ VaultOK /\ IndexOK /\ PermittedOK /\ HitsOK

-----------------------------------------------------------------------------
(* Rows. *)

LEMMA HitsAreRows == HitsOK => Hits \subseteq AllRows
<1> SUFFICES ASSUME HitsOK PROVE Hits \subseteq AllRows
  OBVIOUS
<1>1. ASSUME NEW rows, NEW limit, NEW hits \in FirstRows(rows, limit)
      PROVE  hits \subseteq rows
  BY <1>1 DEF FirstRows, kSubset
<1>2. ASSUME NEW query, NEW hits \in Results(query) PROVE hits \subseteq AllRows
  <2>1. SearchRows(query) \subseteq AllRows
    BY DEF SearchRows
  <2>2. CASE query.regex
    <3> DEFINE matching == {hit \in SearchRows(query) : RegexMatches(query, hit)}
    <3>1. hits \in FirstRows(matching, query.limit)
      BY <1>2, <2>2 DEF Results
    <3>2. matching \subseteq SearchRows(query)
      OBVIOUS
    <3> HIDE DEF matching
    <3>3. hits \subseteq matching
      BY <1>1, <3>1
    <3> QED BY <2>1, <3>2, <3>3
  <2>3. CASE ~query.regex
    <3>1. hits \in FirstRows(SearchRows(query), query.limit)
      BY <1>2, <2>3 DEF Results
    <3>2. hits \subseteq SearchRows(query)
      BY <1>1, <3>1
    <3> QED BY <2>1, <3>2
  <2> QED BY <2>2, <2>3
<1>3. CASE Found("search")
  <2>1. Hits = answer.hits /\ answer.hits \in Results(answer.query)
    BY <1>3 DEF Hits, HitsOK
  <2> QED BY <1>2, <2>1
<1>4. CASE ~Found("search")
  BY <1>4 DEF Hits, HitsOK
<1> QED BY <1>3, <1>4

LEMMA RowsAreIndexed ==
    ASSUME NEW hit \in AllRows
    PROVE  /\ hit.file \in Indexed
           /\ \E i \in DOMAIN index[hit.file].rows :
                 hit.row = index[hit.file].rows[i]
<1> DEFINE Blocks(p) ==
               {[file |-> p, row |-> index[p].rows[i]] : i \in DOMAIN index[p].rows}
<1>1. AllRows = UNION {Blocks(p) : p \in Indexed}
  BY DEF AllRows
<1>2. PICK p \in Indexed : hit \in Blocks(p)
  BY <1>1
<1> QED BY <1>2

-----------------------------------------------------------------------------
(* The initial state and the steps. *)

LEMMA InitOK == Init => Inv
<1> SUFFICES ASSUME Init PROVE Inv
  OBVIOUS
<1>1. PICK setup \in Setups :
          /\ vault \in setup.vaults
          /\ changes = setup.changes
          /\ disk \in setup.configs
  BY DEF Init
<1>2. /\ cached = NoConfig /\ indexedBy = NoConfig /\ answer = NoAnswer
      /\ index = [p \in Places |-> Absent]
  BY DEF Init
<1>3. Indexed = {}
  BY <1>2 DEF Indexed
<1>4. TypeOK
  BY <1>1, <1>2, <1>3, RetrievalAssumption DEF TypeOK
<1>5. VaultOK
  BY <1>1, RetrievalAssumption DEF VaultOK
<1>6. IndexOK
  BY <1>2, <1>3 DEF IndexOK
<1>7. PermittedOK /\ HitsOK
  BY <1>2, <1>3 DEF PermittedOK, HitsOK, Found
<1> QED BY <1>4, <1>5, <1>6, <1>7 DEF Inv

(* While the index stays as it is, so do its rows.                         *)
LEMMA SameRows ==
    ASSUME index' = index
    PROVE  /\ Indexed' = Indexed /\ AllRows' = AllRows
           /\ \A query : Results(query)' = Results(query)
<1>1. Indexed' = Indexed /\ AllRows' = AllRows
  BY DEF Indexed, AllRows
<1>2. \A query : Results(query)' = Results(query)
  BY <1>1 DEF Results, SearchRows, FtsMatches, RegexMatches, Columns,
     ContentWords
<1> QED BY <1>1, <1>2
-----------------------------------------------------------------------------
(* The steps.  Those of a server change neither the vault nor the index.   *)

(* What a server has loaded after a call.                                  *)
LEMMA LoadOK ==
    ASSUME TypeOK, Load
    PROVE  /\ cached' \in Configs \cup {NoConfig}
           /\ Loaded # Broken => cached' = Loaded
  BY DEF Load, Loaded, TypeOK

LEMMA ServerStep ==
    ASSUME Inv, UNCHANGED <<vault, changes, disk, index, indexedBy>>,
           cached' \in Configs \cup {NoConfig},
           answer' # NoAnswer =>
               answer'.tool \in {"error", "search", "debug", "note", "section"},
           Found("search")' => /\ answer'.query \in Queries
                               /\ answer'.hits \in Results(answer'.query),
           Found("debug")' => answer'.hits \subseteq AllRows,
           (Found("note") \/ Found("section"))' => Allows(cached', answer'.file)
    PROVE  Inv'
<1>1. Indexed' = Indexed /\ AllRows' = AllRows
  BY SameRows
<1>2. TypeOK'
  BY <1>1 DEF Inv, TypeOK
<1>3. VaultOK'
  BY DEF Inv, VaultOK
<1>4. IndexOK'
  BY <1>1 DEF Inv, IndexOK
<1>5. PermittedOK'
  BY <1>1 DEF Inv, PermittedOK
<1>6. HitsOK'
  <2>1. ASSUME Found("search")' PROVE answer'.hits \in Results(answer.query)'
    <3>1. answer'.hits \in Results(answer'.query)
      BY <2>1
    <3>2. \A query : Results(query)' = Results(query)
      BY SameRows
    <3> QED BY <3>1, <3>2
  <2> QED BY <1>1, <2>1 DEF HitsOK
<1> QED BY <1>2, <1>3, <1>4, <1>5, <1>6 DEF Inv

LEMMA SearchNotesOK ==
    ASSUME Inv, NEW q \in Queries, SearchNotes(q)
    PROVE  Inv'
<1>1. cached' \in Configs \cup {NoConfig}
  BY LoadOK DEF SearchNotes, Inv
<1>2. CASE Loaded = Broken
  <2>1. answer' = Error("config")
    BY <1>2 DEF SearchNotes
  <2> QED BY <1>1, <2>1, ServerStep DEF SearchNotes, Error, Found
<1>3. CASE Loaded # Broken
  <2>1. PICK hits \in Results(q) :
            answer' = [tool |-> "search", query |-> q, hits |-> hits]
    BY <1>3 DEF SearchNotes
  <2> QED BY <1>1, <2>1, ServerStep DEF SearchNotes, Found
<1> QED BY <1>2, <1>3

LEMMA DebugSearchOK ==
    ASSUME Inv, NEW q \in DebugQueries, DebugSearch(q)
    PROVE  Inv'
<1>1. cached' \in Configs \cup {NoConfig}
  BY DEF DebugSearch, Inv, TypeOK
<1>2. CASE disk = Broken
  <2>1. answer' = Error("config")
    BY <1>2 DEF DebugSearch
  <2> QED BY <1>1, <2>1, ServerStep DEF DebugSearch, Error, Found
<1>3. CASE disk # Broken
  <2>1. PICK hits \in FirstRows(DebugRows(q), q.limit) :
            answer' = [tool |-> "debug", query |-> q, hits |-> hits]
    BY <1>3 DEF DebugSearch
  <2>2. hits \subseteq AllRows
    BY DEF FirstRows, kSubset, DebugRows
  <2> QED BY <1>1, <2>1, <2>2, ServerStep DEF DebugSearch, Found
<1> QED BY <1>2, <1>3

(* What the guardrails let through is permitted by what was loaded.        *)
LEMMA NoDenial ==
    ASSUME NEW request, Denial(request) = "none"
    PROVE  Loaded # Broken /\ Allows(Loaded, Resolve(Parts(request)))
  BY DEF Denial

LEMMA ReadNoteOK ==
    ASSUME Inv, NEW request, ReadNote(request)
    PROVE  Inv'
<1>1. /\ cached' \in Configs \cup {NoConfig}
      /\ Loaded # Broken => cached' = Loaded
  BY LoadOK DEF ReadNote, Inv
<1>2. CASE Denial(request) # "none"
  <2>1. answer' = Error(Denial(request))
    BY <1>2 DEF ReadNote
  <2> QED BY <1>1, <2>1, ServerStep DEF ReadNote, Error, Found
<1>3. CASE Denial(request) = "none"
  <2>1. answer' = [tool |-> "note", file |-> Resolve(Parts(request))]
    BY <1>3 DEF ReadNote
  <2>2. Allows(cached', answer'.file)
    BY <1>1, <1>3, <2>1, NoDenial
  <2> QED BY <1>1, <2>1, <2>2, ServerStep DEF ReadNote, Found
<1> QED BY <1>2, <1>3

LEMMA ReadSectionOK ==
    ASSUME Inv, NEW request, NEW name, ReadSection(request, name)
    PROVE  Inv'
<1>1. /\ cached' \in Configs \cup {NoConfig}
      /\ Loaded # Broken => cached' = Loaded
  BY LoadOK DEF ReadSection, Inv
<1>2. CASE Denial(request) = "none" /\ answer' # Error("section")
  <2>1. PICK section :
            answer' = [tool |-> "section", file |-> Resolve(Parts(request)),
                       section |-> section]
    BY <1>2 DEF ReadSection
  <2>2. Allows(cached', answer'.file)
    BY <1>1, <1>2, <2>1, NoDenial
  <2> QED BY <1>1, <2>1, <2>2, ServerStep DEF ReadSection, Found
<1>3. CASE Denial(request) # "none" \/ answer' = Error("section")
  <2>1. PICK kind : answer' = Error(kind)
    BY <1>3 DEF ReadSection
  <2> QED BY <1>1, <2>1, ServerStep DEF ReadSection, Error, Found
<1> QED BY <1>2, <1>3

LEMMA RestartOK ==
    ASSUME Inv, Restart
    PROVE  Inv'
  BY ServerStep DEF Restart, Found

(* The user changes neither the index nor what a server has loaded.        *)
LEMMA EditConfigOK ==
    ASSUME Inv, NEW config \in Configs \cup {Broken}, EditConfig(config)
    PROVE  Inv'
<1>1. /\ answer' = NoAnswer /\ index' = index /\ indexedBy' = indexedBy
      /\ cached' = cached /\ vault' = vault /\ changes' = changes - 1
      /\ changes \in Nat \ {0} /\ disk' = config
  BY DEF EditConfig, Change, Inv, TypeOK
<1>2. Indexed' = Indexed
  BY <1>1, SameRows
<1>3. TypeOK'
  BY <1>1, <1>2 DEF Inv, TypeOK
<1>4. VaultOK' /\ IndexOK'
  BY <1>1, <1>2 DEF Inv, VaultOK, IndexOK
<1>5. PermittedOK' /\ HitsOK'
  BY <1>1, <1>2 DEF Inv, PermittedOK, HitsOK, Found
<1> QED BY <1>3, <1>4, <1>5 DEF Inv

LEMMA SaveOK ==
    ASSUME Inv, NEW p \in Regular, NEW d \in Docs \cup {Absent}, Save(p, d)
    PROVE  Inv'
<1>1. /\ answer' = NoAnswer /\ index' = index /\ indexedBy' = indexedBy
      /\ cached' = cached /\ vault' = [vault EXCEPT ![p] = d]
      /\ changes' = changes - 1 /\ changes \in Nat \ {0} /\ disk' = disk
  BY DEF Save, Change, Inv, TypeOK
<1>2. Indexed' = Indexed
  BY <1>1, SameRows
<1>3. TypeOK'
  BY <1>1, <1>2 DEF Inv, TypeOK
<1>4. VaultOK'
  <2>1. vault = [r \in Regular |-> vault[r]]
    BY DEF Inv, VaultOK
  <2>2. \A r \in Regular : vault'[r] = IF r = p THEN d ELSE vault[r]
    BY <1>1, <2>1
  <2>3. vault' = [r \in Regular |-> vault'[r]]
    BY <1>1, <2>1
  <2>4. d # Absent => IsNote(d)
    BY RetrievalAssumption
  <2> QED BY <2>2, <2>3, <2>4 DEF Inv, VaultOK
<1>5. IndexOK'
  BY <1>1, <1>2 DEF Inv, IndexOK
<1>6. PermittedOK' /\ HitsOK'
  BY <1>1, <1>2 DEF Inv, PermittedOK, HitsOK, Found
<1> QED BY <1>3, <1>4, <1>5, <1>6 DEF Inv

LEMMA RunIndexOK ==
    ASSUME Inv, RunIndex
    PROVE  Inv'
<1>1. PICK done \in SUBSET Sound(disk) :
          index' = [p \in Places |->
                       IF p \in done THEN Rows(ContentAt(p))
                       ELSE IF p \in Candidates(disk) THEN index[p]
                       ELSE Absent]
  BY DEF RunIndex
<1>2. /\ disk # Broken /\ indexedBy' = disk /\ answer' = NoAnswer
      /\ UNCHANGED <<vault, changes, disk, cached>>
  BY DEF RunIndex
<1>3. done \subseteq Candidates(disk)
  BY DEF Sound
<1>4. ASSUME NEW p \in Indexed'
      PROVE  /\ p \in Candidates(disk)
             /\ index'[p] = Rows(ContentAt(p)) \/ (p \in Indexed /\ index'[p] = index[p])
  <2>1. p \in Places /\ index'[p] # Absent
    BY DEF Indexed
  <2>2. index'[p] = IF p \in done THEN Rows(ContentAt(p))
                    ELSE IF p \in Candidates(disk) THEN index[p] ELSE Absent
    BY <1>1, <2>1
  <2> QED BY <1>3, <2>1, <2>2 DEF Indexed
<1>5. TypeOK'
  BY <1>2, RetrievalAssumption DEF Inv, TypeOK
<1>6. VaultOK'
  BY <1>2 DEF Inv, VaultOK
<1>7. IndexOK'
  <2>1. index' = [p \in Places |-> index'[p]]
    BY <1>1
  <2>2. ASSUME NEW p \in Indexed' PROVE \E d : IsNote(d) /\ index'[p] = Rows(d)
    <3>1. CASE index'[p] = Rows(ContentAt(p))
      <4>1. ContentAt(p) # Absent
        BY <1>4 DEF Candidates
      <4>2. IsNote(ContentAt(p))
        BY <4>1 DEF ContentAt, Inv, VaultOK
      <4> QED BY <3>1, <4>2
    <3>2. CASE p \in Indexed /\ index'[p] = index[p]
      BY <3>2 DEF Inv, IndexOK
    <3> QED BY <1>4, <3>1, <3>2
  <2> QED BY <2>1, <2>2 DEF IndexOK
<1>8. PermittedOK' /\ HitsOK'
  BY <1>2, <1>4 DEF PermittedOK, HitsOK, Found, Candidates
<1> QED BY <1>5, <1>6, <1>7, <1>8 DEF Inv

LEMMA StepOK == Inv /\ [Next]_vars => Inv'
<1> SUFFICES ASSUME Inv, [Next]_vars PROVE Inv'
  OBVIOUS
<1>1. CASE RunIndex
  BY <1>1, RunIndexOK
<1>2. CASE Restart
  BY <1>2, RestartOK
<1>3. CASE \E q \in Queries : SearchNotes(q)
  BY <1>3, SearchNotesOK
<1>4. CASE \E q \in DebugQueries : DebugSearch(q)
  BY <1>4, DebugSearchOK
<1>5. CASE \E r \in Requests : ReadNote(r.path) \/ ReadSection(r.path, r.heading)
  BY <1>5, ReadNoteOK, ReadSectionOK
<1>6. CASE \E c \in Configs \cup {Broken} : EditConfig(c)
  BY <1>6, EditConfigOK
<1>7. CASE \E p \in Regular, d \in Docs \cup {Absent} : Save(p, d)
  BY <1>7, SaveOK
<1>8. CASE UNCHANGED vars
  <2>1. Indexed' = Indexed /\ AllRows' = AllRows
        /\ \A query : Results(query)' = Results(query)
    BY <1>8, SameRows DEF vars
  <2> QED BY <1>8, <2>1 DEF vars, Inv, TypeOK, VaultOK, IndexOK, PermittedOK,
          HitsOK, Found
<1> QED BY <1>1, <1>2, <1>3, <1>4, <1>5, <1>6, <1>7, <1>8 DEF Next

LEMMA Invariance == Spec => []Inv
  BY InitOK, StepOK, PTL DEF Spec

(***************************************************************************)
(* The configurations, the index and the answers are what the code says    *)
(* they are.                                                               *)
(***************************************************************************)
THEOREM TypeCorrect == Spec => []TypeOK
<1>1. Inv => TypeOK
  BY DEF Inv
<1> QED BY <1>1, Invariance, PTL

(* A file that is not a link is where its name leads.                      *)
LEMMA NamesLead ==
    ASSUME NEW p \in Places, p \notin DOMAIN Links
    PROVE  Resolve(p) = p
<1> DEFINE n == Len(p)
           Follow(q) == IF q \in DOMAIN Links /\ Exists(Links[q]) THEN Links[q] ELSE q
           Steps(f) == f = [k \in 0..n |->
               IF k = 0 THEN <<>> ELSE Follow(Append(f[k - 1], p[k]))]
           g == [k \in 0..n |-> SubSeq(p, 1, k)]
<1>1. /\ IsList(p) /\ n \in Nat
      /\ \A k \in 1 .. n - 1 : SubSeq(p, 1, k) \notin DOMAIN Links
  BY RetrievalAssumption, ListFacts
<1>2. SubSeq(p, 1, n) = p
  BY <1>1 DEF IsList
<1>3. ASSUME NEW k \in 1..n PROVE Append(SubSeq(p, 1, k - 1), p[k]) = SubSeq(p, 1, k)
  BY <1>1 DEF IsList
<1>4. ASSUME NEW k \in 1..n PROVE Follow(SubSeq(p, 1, k)) = SubSeq(p, 1, k)
  <2>1. SubSeq(p, 1, k) \notin DOMAIN Links
    <3>1. CASE k = n
      BY <1>2, <3>1
    <3>2. CASE k # n
      <4>1. k \in 1 .. n - 1
        BY <1>1, <3>2
      <4> QED BY <1>1, <4>1
    <3> QED BY <3>1, <3>2
  <2> QED BY <2>1
<1> HIDE DEF Follow
<1>5. Steps(g)
  <2>1. ASSUME NEW k \in 0..n
        PROVE  g[k] = IF k = 0 THEN <<>> ELSE Follow(Append(g[k - 1], p[k]))
    <3>1. CASE k = 0
      <4>1. SubSeq(p, 1, 0) = <<>>
        BY <1>1 DEF IsList
      <4> QED BY <3>1, <4>1
    <3>2. CASE k # 0
      <4>1. k \in 1..n /\ k - 1 \in 0..n
        BY <1>1, <3>2
      <4>2. g[k] = SubSeq(p, 1, k) /\ g[k - 1] = SubSeq(p, 1, k - 1)
        BY <4>1
      <4> HIDE DEF g
      <4> QED BY <1>3, <1>4, <3>2, <4>1, <4>2
    <3> QED BY <3>1, <3>2
  <2>2. g = [k \in 0..n |-> g[k]]
    OBVIOUS
  <2> HIDE DEF g
  <2> QED BY <2>1, <2>2
<1> DEFINE f == CHOOSE h : Steps(h)
<1>6. Resolve(p) = f[n]
  BY DEF Resolve, Follow
<1> HIDE DEF Steps
<1>7. Steps(f)
  BY <1>5
<1> HIDE DEF f
<1>8. \A k \in 0..n : f[k] = IF k = 0 THEN <<>> ELSE Follow(Append(f[k - 1], p[k]))
  BY <1>7 DEF Steps
<1> DEFINE T == {k \in 0..n : f[k] = SubSeq(p, 1, k)}
<1>9. 0 \in T
  <2>1. SubSeq(p, 1, 0) = <<>> /\ 0 \in 0..n
    BY <1>1 DEF IsList
  <2> QED BY <1>8, <2>1
<1>10. ASSUME NEW k \in 1..n, k - 1 \in T PROVE k \in T
  <2>1. k \in 0..n /\ k # 0
    BY <1>1
  <2> QED BY <1>3, <1>4, <1>8, <1>10, <2>1
<1> HIDE DEF T
<1>11. \A k \in 0..n : k \in T
  BY <1>1, <1>9, <1>10, InductionUpTo
<1>12. f[n] = SubSeq(p, 1, n)
  <2>1. n \in 0..n
    BY <1>1
  <2> QED BY <1>11, <2>1 DEF T
<1> QED BY <1>2, <1>6, <1>12

(***************************************************************************)
(* With nothing stale, a file is found or read only under a name the       *)
(* configuration permits, and what read_note refuses is found only under   *)
(* the name of a link.                                                     *)
(***************************************************************************)
THEOREM DeniedWhenStale == Spec => []DeniedOnlyWhenStale
<1>1. Inv => DeniedOnlyWhenStale
  <2> SUFFICES ASSUME Inv PROVE DeniedOnlyWhenStale
    OBVIOUS
  <2>1. ASSUME NEW hit \in Hits
        PROVE  /\ Allows(indexedBy, hit.file)
               /\ Allows(indexedBy, Resolve(hit.file)) \/ hit.file \in DOMAIN Links
    <3>1. hit.file \in Indexed /\ Allows(indexedBy, hit.file)
      BY HitsAreRows, RowsAreIndexed DEF Inv, PermittedOK
    <3>2. hit.file \notin DOMAIN Links => Resolve(hit.file) = hit.file
      BY <3>1, NamesLead DEF Indexed
    <3> QED BY <3>1, <3>2
  <2> QED BY <2>1 DEF Inv, PermittedOK, DeniedOnlyWhenStale
<1> QED BY <1>1, Invariance, PTL

(***************************************************************************)
(* Two sections of a note have one key only if one is the text before the  *)
(* first heading and the other has the heading Root.                       *)
(***************************************************************************)
THEOREM KeysClashForRoot == Spec => []KeysClashOnlyForRoot
<1>1. Inv => KeysClashOnlyForRoot
  <2> SUFFICES ASSUME Inv, NEW p \in Regular, vault[p] # Absent
               PROVE  LET ss == Sections(vault[p].body) IN
                      \A i, j \in DOMAIN ss :
                          i < j /\ SectionKey(ss[i]) = SectionKey(ss[j])
                          => ss[i].at = 0 /\ ss[j].at > 0 /\ ss[j].slug = Root
    BY DEF KeysClashOnlyForRoot
  <2>1. IsList(vault[p].body)
    BY DEF Inv, VaultOK, IsNote, IsBody
  <2> QED BY <2>1, KeysClash
<1> QED BY <1>1, Invariance, PTL

(***************************************************************************)
(* No block of the index is larger than the hard limit, however it was     *)
(* joined or cut.                                                          *)
(***************************************************************************)
THEOREM BlocksFit == Spec => []BlocksWithinLimit
<1>1. Inv => BlocksWithinLimit
  <2> SUFFICES ASSUME Inv, NEW p \in Indexed, NEW i \in DOMAIN index[p].rows
               PROVE  UnitTokens(index[p].rows[i].units) <= HardTokens
    BY DEF BlocksWithinLimit
  <2>1. PICK d : IsNote(d) /\ index[p] = Rows(d)
    BY DEF Inv, IndexOK
  <2>2. IsBody(d.body) /\ index[p].rows = ParseMarkdown(d.body)
    BY <2>1 DEF IsNote, Rows
  <2> QED BY <2>2, RowsFit
<1> QED BY <1>1, Invariance, PTL

(***************************************************************************)
(* A block below the minimum ends where its section ends, or where the     *)
(* next unit would have made it too large.                                 *)
(***************************************************************************)
THEOREM SmallBlocks == Spec => []SmallBlocksOnlyAtLimit
<1>1. Inv => SmallBlocksOnlyAtLimit
  <2> SUFFICES ASSUME Inv, NEW p \in Indexed, NEW i \in 2..Len(index[p].rows),
                      index[p].rows[i].ordinal > 1,
                      UnitTokens(index[p].rows[i - 1].units) < MinTokens
               PROVE  UnitTokens(Append(index[p].rows[i - 1].units,
                                        index[p].rows[i].units[1])) > HardTokens
    BY DEF SmallBlocksOnlyAtLimit
  <2>1. PICK d : IsNote(d) /\ index[p] = Rows(d)
    BY DEF Inv, IndexOK
  <2>2. IsBody(d.body) /\ index[p].rows = ParseMarkdown(d.body)
    BY <2>1 DEF IsNote, Rows
  <2> QED BY <2>2, SmallRows
<1> QED BY <1>1, Invariance, PTL

(***************************************************************************)
(* Everything the user wrote below a heading is in the index, once and in  *)
(* order, whatever was joined or cut to make the blocks.                   *)
(***************************************************************************)
THEOREM TextKept == Spec => []ChunksKeepText
<1>1. Inv => ChunksKeepText
  <2> SUFFICES ASSUME Inv, NEW p \in Indexed
               PROVE  LET body == index[p].text.body
                          told == Told(index[p].rows)
                      IN  /\ {told[i].line : i \in DOMAIN told} =
                                {k \in DOMAIN body : body[k].size > 0} \ Headings(body)
                          /\ \A i \in DOMAIN told :
                                LET x == told[i]
                                    previous == i > 1 /\ told[i - 1].line = x.line
                                    next == i < Len(told) /\ told[i + 1].line = x.line
                                IN  /\ i > 1 => told[i - 1].line <= x.line
                                    /\ x.from = IF previous THEN told[i - 1].to ELSE 0
                                    /\ ~next => x.to = body[x.line].size
    BY DEF ChunksKeepText
  <2>1. PICK d : IsNote(d) /\ index[p] = Rows(d)
    BY DEF Inv, IndexOK
  <2> DEFINE body == d.body
             told == Words(Texts(ParseMarkdown(body)))
  <2>2. IsBody(body) /\ index[p].text.body = body /\ index[p].rows = ParseMarkdown(body)
    BY <2>1 DEF IsNote, Rows
  <2>3. Told(index[p].rows) = told
    BY <2>2 DEF Told, Select, Words, Kept, Texts
  <2>4. /\ told \in Seq(PieceSet)
        /\ Tells(told, body, {k \in DOMAIN body : body[k].size > 0} \ Headings(body))
    BY <2>2, RowsTell
  <2> HIDE DEF told
  <2>5. DOMAIN told = 1..Len(told)
    BY <2>4, LenProperties
  <2> QED BY <2>2, <2>3, <2>4, <2>5 DEF Tells
<1> QED BY <1>1, Invariance, PTL

-----------------------------------------------------------------------------
(* What is found. *)

(* A row of the index is one of the rows of a note.                        *)
LEMMA RowOfNote ==
    ASSUME Inv, NEW hit \in AllRows
    PROVE  LET d == index[hit.file].text IN
           /\ hit.file \in Indexed /\ IsNote(d)
           /\ \E i \in DOMAIN ParseMarkdown(d.body) : hit.row = ParseMarkdown(d.body)[i]
<1>1. PICK i \in DOMAIN index[hit.file].rows : hit.row = index[hit.file].rows[i]
  BY RowsAreIndexed
<1>2. hit.file \in Indexed
  BY RowsAreIndexed
<1>3. PICK d : IsNote(d) /\ index[hit.file] = Rows(d)
  BY <1>2 DEF Inv, IndexOK
<1>4. index[hit.file].text = d /\ index[hit.file].rows = ParseMarkdown(d.body)
  BY <1>3 DEF Rows
<1> QED BY <1>1, <1>2, <1>3, <1>4

LEMMA ConcatFirst ==
    ASSUME NEW front, IsList(front), NEW body, IsList(body), NEW j \in 1..Len(front)
    PROVE  (front \o body)[j] = front[j]
<1> DEFINE S == ToSet(front) \cup ToSet(body)
<1>1. /\ Len(front) \in Nat /\ Len(body) \in Nat
      /\ front \in [1..Len(front) -> ToSet(front)] /\ body \in [1..Len(body) -> ToSet(body)]
  BY ListFacts, LenProperties
<1>2. front \in [1..Len(front) -> S] /\ body \in [1..Len(body) -> S]
  BY <1>1
<1> HIDE DEF S
<1>3. front \in Seq(S) /\ body \in Seq(S)
  BY <1>1, <1>2, FunctionIsSeq
<1>4. j \in 1 .. Len(front) + Len(body) /\ j <= Len(front)
  BY <1>1
<1> QED BY <1>3, <1>4, ConcatProperties

(* A place in the text is before another for the reader, too.              *)
LEMMA ReaderOrder ==
    ASSUME NEW lines, IsList(lines), HasCuts(lines),
           NEW i \in 0..Len(lines), NEW j \in 0..Len(lines), i <= j
    PROVE  ReaderEnd(lines, i) <= ReaderEnd(lines, j)
<1> DEFINE n == Len(lines)
           end == [k \in 0..n |-> ReaderEnd(lines, k)]
<1>1. n \in Nat
  BY ListFacts
<1>2. end \in [0..n -> Nat] /\ \A k \in 1..n : end[k - 1] < end[k]
  BY ReaderGrows
<1>3. end[i] = ReaderEnd(lines, i) /\ end[j] = ReaderEnd(lines, j)
  OBVIOUS
<1> HIDE DEF end
<1>4. end[i] <= end[j]
  BY <1>1, <1>2, GrowsUpTo
<1> QED BY <1>3, <1>4

(***************************************************************************)
(* What search finds under a heading, read_section reads: the section it   *)
(* returns for the heading has every line of the block, unless the name    *)
(* occurs above, the front matter opens a fence, or a heading or a fence   *)
(* is among the lines only the reader splits.                              *)
(***************************************************************************)
THEOREM FoundIsReadable == Spec => []FoundSectionsAreReadable
<1>1. Inv => FoundSectionsAreReadable
  <2> SUFFICES ASSUME Inv, NEW hit \in Hits,
                      LET d == index[hit.file].text
                          n == Len(d.front)
                          at == hit.row.section.at
                          name == hit.row.section.slug
                      IN  /\ at > 0 /\ \A k \in 1..n : ~IsFence(d.front[k])
                          /\ \A h \in MatchingHeading(Text(d), name) : n + at <= h
                          /\ \A k \in DOMAIN Text(d) : SplitAlike(Text(d)[k])
               PROVE  LET d == index[hit.file].text
                          n == Len(d.front)
                          at == hit.row.section.at
                          section == SectionOf(d, hit.row.section.slug)
                      IN  /\ section.found
                          /\ section.heading = ReaderEnd(Text(d), n + at)
                          /\ \A x \in Pieces(hit.row) :
                                ReaderEnd(Text(d), n + x.line) <= section.end
    BY DEF FoundSectionsAreReadable
  <2>1. hit \in AllRows
    BY HitsAreRows DEF Inv
  <2> DEFINE d == index[hit.file].text
             n == Len(d.front)
             body == d.body
             text == Text(d)
  <2>2. IsNote(d)
    BY <2>1, RowOfNote
  <2>3. PICK i \in DOMAIN ParseMarkdown(body) : hit.row = ParseMarkdown(body)[i]
    BY <2>1, RowOfNote
  <2>a. \A k \in DOMAIN text : SplitAlike(text[k])
    OBVIOUS
  <2> HIDE DEF d
  <2>4. IsList(d.front) /\ IsBody(d.front) /\ IsBody(body) /\ IsList(body)
    BY <2>2 DEF IsNote, IsBody
  <2>5. PICK k \in DOMAIN Sections(body) :
            /\ hit.row.section = Sections(body)[k]
            /\ hit.row.units \in Seq(PartSet(SectionUnits(body, Sections(body)[k])))
    BY <2>3, <2>4, RowParts
  <2> DEFINE s == Sections(body)[k]
             own == ExtractSection(text, n, s.slug)
             section == SectionOf(d, s.slug)
  <2>6. /\ s.at > 0 /\ \A j \in 1..n : ~IsFence(d.front[j])
        /\ \A h \in MatchingHeading(d.front \o body, s.slug) : n + s.at <= h
    BY <2>5 DEF Text, d
  <2>7. /\ own.found /\ own.heading = n + s.at
        /\ own.end \in Int /\ n + s.last <= own.end
    BY <2>4, <2>6, SectionRead DEF Text
  <2>8. ASSUME NEW x \in Pieces(hit.row)
        PROVE  x.line \in First(body, k) .. Final(body, k)
    <3>1. PICK j \in DOMAIN hit.row.units : x \in ToSet(hit.row.units[j])
      BY DEF Pieces
    <3> DEFINE t == hit.row.units[j]
    <3>2. t \in PartSet(SectionUnits(body, Sections(body)[k]))
      BY <2>5, ElementOfSeq, LenProperties
    <3>3. PICK m \in DOMAIN t : x = t[m]
      BY <3>1 DEF ToSet
    <3> HIDE DEF t
    <3>4. t \in Seq(PieceSet)
      BY <3>2 DEF PartSet, FitSet
    <3>5. m \in 1..Len(t)
      BY <3>4, LenProperties
    <3> QED BY <2>4, <3>2, <3>3, <3>5, PartLines
  <2>9. ASSUME NEW x \in Pieces(hit.row)
        PROVE  n + x.line <= own.end /\ n + x.line \in Nat
    <3>1. n \in Nat
      BY <2>4, ListFacts
    <3>2. x.line \in First(body, k) .. Final(body, k) /\ Final(body, k) = s.last
      BY <2>8 DEF Final
    <3>3. s.last \in Int /\ First(body, k) \in Nat
      <4>1. Len(body) \in Nat
        BY <2>4, ListFacts
      <4> QED BY <2>4, <4>1, SectionBounds DEF First
    <3>4. own.end \in Int
      BY <2>7
    <3> HIDE DEF s, own
    <3> QED BY <2>7, <3>1, <3>2, <3>3, <3>4
  (* The same in the lines of the reader.                                  *)
  <2>10. IsList(text) /\ HasCuts(text)
    <3>1. /\ IsList(text) /\ Len(text) = n + Len(body)
          /\ \A j \in 1..Len(body) : text[n + j] = body[j]
      <4> DEFINE front == d.front
      <4>1. IsList(front) /\ IsList(body) /\ \A j \in 1..Len(front) : ~IsFence(front[j])
        BY <2>4, <2>6
      <4>2. text = front \o body /\ n = Len(front)
        BY DEF Text
      <4> HIDE DEF front, body, text, n
      <4>3. /\ IsList(front \o body) /\ Len(front \o body) = Len(front) + Len(body)
            /\ \A j \in 1..Len(body) : (front \o body)[Len(front) + j] = body[j]
        BY <4>1, FenceShift, Zenon
      <4> QED BY <4>2, <4>3
    <3>2. n \in Nat /\ Len(body) \in Nat /\ DOMAIN d.front = 1..n /\ DOMAIN body = 1..Len(body)
      BY <2>4, ListFacts
    <3>3. ASSUME NEW j \in 1..Len(text) PROVE IsList(text[j].cut)
      <4>1. CASE j <= n
        <5>1. j \in 1..n
          BY <3>1, <3>2, <4>1
        <5>2. text[j] = d.front[j]
          BY <2>4, <3>2, <5>1, ConcatFirst DEF Text
        <5> QED BY <2>4, <3>2, <5>1, <5>2 DEF IsBody, IsLine
      <4>2. CASE ~(j <= n)
        <5>1. j - n \in 1..Len(body) /\ n + (j - n) = j
          <6> DEFINE m == Len(body)
          <6>1. j \in 1 .. n + m /\ n \in Nat /\ m \in Nat
            BY <3>1, <3>2
          <6> HIDE DEF n, m
          <6>2. j - n \in 1..m /\ n + (j - n) = j
            BY <4>2, <6>1
          <6> QED BY <6>2 DEF m
        <5>2. text[j] = body[j - n]
          BY <3>1, <5>1
        <5> QED BY <2>4, <3>2, <5>1, <5>2 DEF IsBody, IsLine
      <4> QED BY <4>1, <4>2
    <3> QED BY <3>1, <3>3 DEF HasCuts
  <2>11. Alike(text)
    <3>1. DOMAIN text = 1..Len(text)
      BY <2>10, ListFacts
    <3> HIDE DEF text
    <3> QED BY <2>a, <3>1 DEF Alike, SplitAlike, Marked
  <2>12. /\ section.found /\ own.end \in 0..Len(text)
         /\ section.heading = ReaderEnd(text, own.heading)
         /\ section.end = ReaderEnd(text, own.end)
    <3> HIDE DEF text, s
    <3> QED BY <2>7, <2>10, <2>11, ReadAlike DEF SectionOf, text
  <2>13. ASSUME NEW x \in Pieces(hit.row)
         PROVE  ReaderEnd(text, n + x.line) <= section.end
    <3>1. Len(text) \in Nat
      BY <2>10, ListFacts
    <3> HIDE DEF text, section, own
    <3>2. n + x.line \in 0..Len(text) /\ n + x.line <= own.end
      BY <2>9, <2>12, <3>1
    <3> QED BY <2>10, <2>12, <3>2, ReaderOrder
  <2>14. section.heading = ReaderEnd(text, n + s.at)
    BY <2>7, <2>12
  <2> HIDE DEF section
  <2> QED BY <2>5, <2>12, <2>13, <2>14 DEF d, section
<1> QED BY <1>1, Invariance, PTL

(* A search that finds less than its limit finds every row that matches.   *)
LEMMA AllOfThem ==
    ASSUME NEW rows, IsFiniteSet(rows), NEW limit \in Nat,
           NEW hits \in FirstRows(rows, limit), Cardinality(hits) < limit
    PROVE  hits = rows
<1>1. hits \in SUBSET rows /\ Cardinality(hits) = Minimum(limit, Cardinality(rows))
  BY DEF FirstRows, kSubset
<1>2. Cardinality(rows) \in Nat
  BY FS_CardinalityType
<1>3. Cardinality(rows) = Cardinality(hits)
  BY <1>1, <1>2 DEF Minimum
<1> QED BY <1>1, <1>3, FS_Subset

LEMMA FinitelyManyRows == Inv => IsFiniteSet(AllRows)
<1> SUFFICES ASSUME Inv PROVE IsFiniteSet(AllRows)
  OBVIOUS
<1> DEFINE Blocks(p) ==
               {[file |-> p, row |-> index[p].rows[i]] : i \in DOMAIN index[p].rows}
           all == {Blocks(p) : p \in Indexed}
<1>1. IsFiniteSet(Indexed)
  <2>1. Indexed \subseteq Places
    BY DEF Indexed
  <2> QED BY <2>1, FS_Subset, RetrievalAssumption
<1>2. ASSUME NEW p \in Indexed PROVE IsFiniteSet(Blocks(p))
  <2>1. PICK d : IsNote(d) /\ index[p] = Rows(d)
    BY DEF Inv, IndexOK
  <2> DEFINE rows == index[p].rows
             f == [i \in DOMAIN rows |-> [file |-> p, row |-> rows[i]]]
  <2>2. rows = ParseMarkdown(d.body) /\ IsBody(d.body)
    BY <2>1 DEF Rows, IsNote
  <2>3. rows \in Seq(RowSet(d.body))
    BY <2>2, RowsFollow
  <2>4. Len(rows) \in Nat /\ DOMAIN rows = 1..Len(rows)
    <3> HIDE DEF rows
    <3> QED BY <2>3, LenProperties
  <2>5. IsFiniteSet(DOMAIN rows)
    <3> HIDE DEF rows
    <3> QED BY <2>4, FS_Interval
  <2>6. f \in Surjection(DOMAIN rows, Blocks(p))
    BY DEF Surjection
  <2> HIDE DEF f, rows, Blocks
  <2> QED BY <2>5, <2>6, FS_Surjection
<1>3. IsFiniteSet(all)
  <2> DEFINE f == [p \in Indexed |-> Blocks(p)]
  <2> HIDE DEF Blocks
  <2>1. f \in Surjection(Indexed, all)
    BY DEF Surjection
  <2> HIDE DEF f, all
  <2> QED BY <1>1, <2>1, FS_Surjection
<1>4. \A T \in all : IsFiniteSet(T)
  <2> HIDE DEF Blocks
  <2> QED BY <1>2
<1>5. AllRows = UNION all
  BY DEF AllRows
<1> HIDE DEF all
<1> QED BY <1>3, <1>4, <1>5, FS_UNION

(* Every line below a heading begins in a row.                             *)
LEMMA LineIsInRow ==
    ASSUME NEW lines, IsBody(lines),
           NEW k \in DOMAIN lines \ Headings(lines), lines[k].size > 0
    PROVE  LET rows == ParseMarkdown(lines) IN
           \E i \in DOMAIN rows : \E x \in Pieces(rows[i]) :
              x.line = k /\ x.from = 0 /\ x.to > 0
<1> DEFINE rows == ParseMarkdown(lines)
           ts == Texts(rows)
           text == FlattenSeq(ts)
           told == Words(ts)
<1>1. rows \in Seq(RowSet(lines))
  BY RowsFollow
<1>2. told \in Seq(PieceSet)
      /\ Tells(told, lines, {j \in DOMAIN lines : lines[j].size > 0} \ Headings(lines))
  BY RowsTell
<1> HIDE DEF rows
<1>3. ts \in Seq(Seq(PieceSet)) /\ Len(ts) = Len(rows)
  BY <1>1, TextsFacts
<1> HIDE DEF ts
<1>4. text \in Seq(PieceSet) /\ Concatenates(text, ts, Len(ts))
  BY <1>3, FlattenJoins
<1> HIDE DEF text
<1> DEFINE T == {i \in 1..Len(told) : told[i].line = k}
<1>5. Len(told) \in Nat /\ DOMAIN told = 1..Len(told)
  <2> HIDE DEF told
  <2> QED BY <1>2, LenProperties
<1>6. T # {} /\ T \subseteq Nat
  <2> HIDE DEF told
  <2> DEFINE S == {j \in DOMAIN lines : lines[j].size > 0} \ Headings(lines)
  <2>1. k \in S
    OBVIOUS
  <2> HIDE DEF S
  <2>2. \E i \in 1..Len(told) : told[i].line = k
    BY <1>2, <2>1 DEF Tells, S
  <2> QED BY <1>5, <2>2
<1>7. PICK i \in T : \A j \in T : i <= j
  <2> HIDE DEF T
  <2> QED BY <1>6, LeastNumber
<1>8. told[i].from = 0
  <2> HIDE DEF told
  <2>1. i \in 1..Len(told) /\ told[i].line = k
    OBVIOUS
  <2>2. ~(i > 1 /\ told[i - 1].line = told[i].line)
    <3> SUFFICES ASSUME i > 1, told[i - 1].line = told[i].line PROVE FALSE
      OBVIOUS
    <3>1. i - 1 \in 1..Len(told)
      BY <1>5, <2>1
    <3>2. i - 1 \in T
      BY <2>1, <3>1
    <3>3. i <= i - 1
      BY <1>7, <3>2
    <3> QED BY <2>1, <3>3
  <2> QED BY <1>2, <2>1, <2>2 DEF Tells
<1> DEFINE K == {j \in DOMAIN text : Size(text[j]) > 0}
<1>9. told = At(text, K)
  BY DEF Words, Kept, text
<1>10. PICK j \in K \cap DOMAIN text : told[i] = text[j]
  <2> HIDE DEF told, K
  <2>1. i \in DOMAIN told
    BY <1>5
  <2> QED BY <1>4, <1>9, <2>1, AtElements
<1> DEFINE x == text[j]
<1>11. x.line = k /\ x.from = 0 /\ x.to > 0
  <2>1. x.line = k /\ x.from = 0
    BY <1>7, <1>8, <1>10
  <2>2. Size(x) > 0 /\ x \in PieceSet
    <3>1. j \in 1..Len(text)
      BY <1>4, LenProperties
    <3> QED BY <1>4, <3>1, ElementOfSeq
  <2> HIDE DEF x
  <2> QED BY <2>1, <2>2 DEF Size, PieceSet
<1>12. \E r \in DOMAIN rows : x \in Pieces(rows[r])
  <2>1. j \in 1..Len(text)
    BY <1>4, LenProperties
  <2>2. PICK r \in 1..Len(ts) : \E m \in 1..Len(ts[r]) : x = ts[r][m]
    BY <1>4, <2>1 DEF Concatenates
  <2>3. DOMAIN rows = 1..Len(rows) /\ rows[r] \in RowSet(lines)
    BY <1>1, <1>3, LenProperties, ElementOfSeq
  <2>4. ts[r] = FlattenSeq(rows[r].units)
    BY <1>3, <2>3 DEF ts, Texts
  <2> DEFINE us == rows[r].units
  <2>5. us \in Seq(Seq(PieceSet))
    BY <2>3, FitFacts DEF RowSet, BlockSet
  <2> HIDE DEF us, x
  <2>6. Concatenates(FlattenSeq(us), us, Len(us))
    BY <2>5, FlattenJoins
  <2>7. ts[r] = FlattenSeq(us)
    BY <2>4 DEF us
  <2>8. PICK u \in 1..Len(us) : \E m \in 1..Len(us[u]) : x = us[u][m]
    BY <2>2, <2>6, <2>7 DEF Concatenates
  <2>9. DOMAIN us = 1..Len(us) /\ DOMAIN us[u] = 1..Len(us[u])
    BY <2>5, LenProperties, ElementOfSeq
  <2>10. x \in ToSet(us[u])
    BY <2>8, <2>9 DEF ToSet
  <2>11. x \in Pieces(rows[r])
    BY <2>9, <2>10 DEF Pieces, us
  <2> QED BY <1>3, <2>3, <2>11
<1> HIDE DEF x
<1> QED BY <1>11, <1>12 DEF rows

(***************************************************************************)
(* What the user wrote is found: every line with the word that was asked   *)
(* for is in a block of the answer, unless the answer is as long as the    *)
(* limit.                                                                  *)
(***************************************************************************)
THEOREM TextIsFound == Spec => []IndexedTextIsFound
<1>1. Inv => IndexedTextIsFound
  <2> DEFINE q == answer.query
             wanted == IF q.regex THEN q.pattern ELSE q.terms
  <2> SUFFICES ASSUME Inv, Found("search"), q.tags = {}, q.paths = {}, q.exclude = {},
                      Cardinality(Hits) < q.limit,
                      NEW p \in Places, Current(p),
                      NEW k \in DOMAIN index[p].text.body \ Headings(index[p].text.body),
                      index[p].text.body[k].size > 0,
                      wanted = {index[p].text.body[k].word}
               PROVE  \E hit \in Hits :
                         hit.file = p /\ \E x \in Pieces(hit.row) : x.line = k
    BY DEF IndexedTextIsFound
  <2>1. p \in Indexed
    BY DEF Current, Indexed
  <2>2. PICK d : IsNote(d) /\ index[p] = Rows(d)
    BY <2>1 DEF Inv, IndexOK
  <2> DEFINE body == d.body
             word == body[k].word
  <2>3. /\ IsBody(body) /\ index[p].text = d /\ index[p].rows = ParseMarkdown(body)
    BY <2>2 DEF IsNote, Rows
  <2>4. PICK i \in DOMAIN ParseMarkdown(body) :
            \E x \in Pieces(ParseMarkdown(body)[i]) : x.line = k /\ x.from = 0 /\ x.to > 0
    BY <2>3, LineIsInRow
  <2> DEFINE row == ParseMarkdown(body)[i]
             hit == [file |-> p, row |-> row]
  <2>5. PICK x \in Pieces(row) : x.line = k /\ x.from = 0 /\ x.to > 0
    BY <2>4
  <2>6. hit \in AllRows
    <3>1. hit \in {[file |-> p, row |-> index[p].rows[j]] : j \in DOMAIN index[p].rows}
      BY <2>3
    <3> QED BY <2>1, <3>1 DEF AllRows
  <2> HIDE DEF row
  <2>7. word \in ContentWords(p, row)
    <3>1. x \in {y \in Pieces(row) : y.from = 0 /\ y.to > 0}
      BY <2>5
    <3>2. index[p].text.body[x.line].word \in ContentWords(p, row)
      BY <3>1 DEF ContentWords
    <3> QED BY <2>3, <2>5, <3>2
  <2>8. word \in Columns(p, row)
    BY <2>7 DEF Columns
  <2>9. wanted = {word}
    BY <2>3
  <2>10. /\ q \in Queries /\ Hits \in Results(q) /\ q.limit \in Nat
         /\ q.regex => q.pattern \subseteq q.terms
    BY RetrievalAssumption DEF Inv, HitsOK, Hits
  <2>11. hit.file = p /\ hit.row = row
    OBVIOUS
  <2> HIDE DEF hit, q, word
  <2>12. hit \in SearchRows(q)
    <3>1. FtsMatches(q, hit)
      BY <2>8, <2>9, <2>10, <2>11 DEF FtsMatches
    <3> QED BY <2>6, <3>1 DEF SearchRows, q
  <2>13. IsFiniteSet(SearchRows(q))
    <3>1. SearchRows(q) \subseteq AllRows
      BY DEF SearchRows
    <3> QED BY <3>1, FinitelyManyRows, FS_Subset
  <2>14. hit \in Hits
    <3>1. CASE q.regex
      <4> DEFINE matching == {h \in SearchRows(q) : RegexMatches(q, h)}
      <4>1. Hits \in FirstRows(matching, q.limit)
        BY <2>10, <3>1 DEF Results
      <4>2. matching \subseteq SearchRows(q)
        OBVIOUS
      <4>3. IsFiniteSet(matching)
        <5> HIDE DEF matching
        <5> QED BY <2>13, <4>2, FS_Subset
      <4>4. hit \in matching
        BY <2>7, <2>9, <2>11, <2>12, <3>1 DEF RegexMatches
      <4> HIDE DEF matching
      <4>5. Cardinality(Hits) < q.limit
        BY DEF q
      <4>6. Hits = matching
        BY <2>10, <4>1, <4>3, <4>5, AllOfThem
      <4> QED BY <4>4, <4>6
    <3>2. CASE ~q.regex
      <4>1. Hits \in FirstRows(SearchRows(q), q.limit)
        BY <2>10, <3>2 DEF Results
      <4>2. Cardinality(Hits) < q.limit
        BY DEF q
      <4>3. Hits = SearchRows(q)
        BY <2>10, <2>13, <4>1, <4>2, AllOfThem
      <4> QED BY <2>12, <4>3
    <3> QED BY <3>1, <3>2
  <2> QED BY <2>5, <2>11, <2>14
<1> QED BY <1>1, Invariance, PTL

(* What is not empty in a row is in the text of the rows.                  *)
LEMMA PieceTold ==
    ASSUME NEW lines, NEW rows \in Seq(RowSet(lines)), NEW i \in 1..Len(rows),
           NEW x \in Pieces(rows[i]), Size(x) > 0
    PROVE  \E p \in 1..Len(Words(Texts(rows))) : Words(Texts(rows))[p] = x
<1> DEFINE ts == Texts(rows)
           text == FlattenSeq(ts)
           us == rows[i].units
<1>1. rows[i] \in RowSet(lines) /\ DOMAIN rows = 1..Len(rows)
  BY LenProperties, ElementOfSeq
<1>2. us \in Seq(Seq(PieceSet))
  BY <1>1, FitFacts DEF RowSet, BlockSet
<1>3. PICK u \in DOMAIN us : x \in ToSet(us[u])
  BY DEF Pieces
<1>4. ts \in Seq(Seq(PieceSet)) /\ Len(ts) = Len(rows)
  BY TextsFacts
<1>5. ts[i] = FlattenSeq(us)
  BY <1>1 DEF Texts
<1>6. PICK m \in DOMAIN us[u] : x = us[u][m]
  BY <1>3 DEF ToSet
<1> HIDE DEF us, ts
<1>7. u \in 1..Len(us) /\ m \in 1..Len(us[u])
  <2>1. u \in 1..Len(us)
    BY <1>2, LenProperties
  <2>2. us[u] \in Seq(PieceSet)
    BY <1>2, <2>1, ElementOfSeq
  <2> QED BY <2>1, <2>2, LenProperties
<1>8. Concatenates(FlattenSeq(us), us, Len(us))
  BY <1>2, FlattenJoins
<1>9. PICK o \in 1..Len(ts[i]) : ts[i][o] = x
  <2>1. \E o \in 1..Len(FlattenSeq(us)) : FlattenSeq(us)[o] = us[u][m]
    BY <1>7, <1>8 DEF Concatenates
  <2> QED BY <1>5, <1>6, <2>1
<1>10. text \in Seq(PieceSet) /\ Concatenates(text, ts, Len(ts))
  BY <1>4, FlattenJoins
<1> HIDE DEF text
<1>11. PICK k \in 1..Len(text) : text[k] = x
  BY <1>4, <1>9, <1>10 DEF Concatenates
<1>12. PICK p \in 1..Len(Kept(text)) : Kept(text)[p] = x
  BY <1>10, <1>11, KeptElements
<1>13. Words(ts) = Kept(text)
  BY DEF Words, text
<1> QED BY <1>12, <1>13 DEF ts

(* The text of two rows is in two places of the text of all.               *)
LEMMA Apart ==
    ASSUME NEW lines, NEW rows \in Seq(RowSet(lines)),
           NEW i \in 1..Len(rows), NEW j \in 1..Len(rows), i < j,
           NEW x \in Pieces(rows[i]), Size(x) > 0,
           NEW y \in Pieces(rows[j]), Size(y) > 0
    PROVE  \E p, q \in 1..Len(Words(Texts(rows))) :
              /\ p < q
              /\ Words(Texts(rows))[p] = x /\ Words(Texts(rows))[q] = y
<1> DEFINE n == Len(rows)
           a == [k \in 1..i |-> rows[k]]
           b == [k \in 1 .. n - i |-> rows[i + k]]
           S == RowSet(lines)
<1>1. n \in Nat /\ \A k \in 1..n : rows[k] \in S
  BY LenProperties, ElementOfSeq
<1>2. i \in Nat /\ n - i \in Nat /\ i <= n
  BY <1>1
<1> HIDE DEF S
<1>3. /\ a \in [1..i -> S] /\ b \in [1 .. n - i -> S]
      /\ \A k \in 1..i : a[k] = rows[k]
      /\ \A k \in 1 .. n - i : b[k] = rows[i + k]
  <2>1. \A k \in 1..i : k \in 1..n
    BY <1>1, <1>2
  <2>2. \A k \in 1 .. n - i : i + k \in 1..n
    BY <1>1, <1>2
  <2> QED BY <1>1, <2>1, <2>2
<1> HIDE DEF a, b
<1>4. a \in Seq(S) /\ Len(a) = i /\ b \in Seq(S) /\ Len(b) = n - i
  <2>1. \A m \in Nat : \A f \in [1..m -> S] : f \in Seq(S) /\ Len(f) = m
    BY FunctionIsSeq
  <2> QED BY <1>2, <1>3, <2>1
<1>5. rows = a \o b
  <2> DEFINE c == a \o b
  <2>1. /\ c \in Seq(S) /\ Len(c) = Len(a) + Len(b)
        /\ \A k \in 1 .. Len(a) + Len(b) : c[k] = IF k <= Len(a) THEN a[k] ELSE b[k - Len(a)]
    BY <1>4, ConcatProperties
  <2> HIDE DEF c
  <2>2. Len(a) + Len(b) = n
    BY <1>1, <1>4
  <2>3. ASSUME NEW k \in 1..n PROVE c[k] = rows[k]
    <3>1. CASE k <= i
      <4>1. k \in 1..i
        BY <3>1
      <4> QED BY <1>3, <1>4, <2>1, <2>2, <3>1, <4>1
    <3>2. CASE ~(k <= i)
      <4>1. k - i \in 1 .. n - i /\ i + (k - i) = k
        BY <1>1, <1>2, <3>2
      <4>2. c[k] = b[k - i]
        BY <1>4, <2>1, <2>2, <3>2
      <4> QED BY <1>3, <4>1, <4>2
    <3> QED BY <3>1, <3>2
  <2>4. rows \in Seq(S) /\ Len(rows) = n
    BY DEF S
  <2>5. c = rows
    <3> HIDE DEF n
    <3> QED BY <2>1, <2>2, <2>3, <2>4, SeqEqual
  <2> QED BY <2>5 DEF c
<1>6. /\ Texts(a) \in Seq(Seq(PieceSet)) /\ Texts(b) \in Seq(Seq(PieceSet))
      /\ Texts(rows) = Texts(a) \o Texts(b)
  BY <1>4, <1>5, TextsFacts DEF S
<1> DEFINE v == Words(Texts(a))
           w == Words(Texts(b))
<1>7. v \in Seq(PieceSet) /\ w \in Seq(PieceSet) /\ Words(Texts(rows)) = v \o w
  BY <1>6, WordsFacts
<1>8. PICK p \in 1..Len(v) : v[p] = x
  <2>1. i \in 1..Len(a) /\ a[i] = rows[i]
    BY <1>2, <1>3, <1>4
  <2>2. x \in Pieces(a[i])
    BY <2>1
  <2> QED BY <1>4, <2>1, <2>2, PieceTold DEF S
<1>9. PICK q \in 1..Len(w) : w[q] = y
  <2> DEFINE k == j - i
  <2>1. k \in 1 .. n - i /\ i + k = j
    BY <1>1, <1>2
  <2> HIDE DEF k
  <2>2. k \in 1..Len(b) /\ b[k] = rows[j]
    BY <1>3, <1>4, <2>1
  <2>3. y \in Pieces(b[k])
    BY <2>2
  <2> QED BY <1>4, <2>2, <2>3, PieceTold DEF S
<1> HIDE DEF v, w
<1>10. /\ Len(v) \in Nat /\ Len(w) \in Nat /\ Len(v \o w) = Len(v) + Len(w)
       /\ \A k \in 1 .. Len(v) + Len(w) : (v \o w)[k] = IF k <= Len(v) THEN v[k] ELSE w[k - Len(v)]
  BY <1>7, ConcatProperties, LenProperties
<1>11. /\ p \in 1..Len(v \o w) /\ Len(v) + q \in 1..Len(v \o w) /\ p < Len(v) + q
       /\ p <= Len(v) /\ ~(Len(v) + q <= Len(v)) /\ (Len(v) + q) - Len(v) = q
  BY <1>10
<1>12. (v \o w)[p] = x /\ (v \o w)[Len(v) + q] = y
  BY <1>8, <1>9, <1>10, <1>11
<1> QED BY <1>7, <1>11, <1>12

(* A row with the first line of a fence has all of the fence.              *)
LEMMA RowOfFence ==
    ASSUME NEW lines, IsBody(lines), NEW i \in DOMAIN ParseMarkdown(lines),
           ~Misread(lines, ParseMarkdown(lines)[i].section),
           NEW fence \in Fenced(lines),
           LineTokens(Span(lines, fence[1], fence[2])) <= HardTokens,
           \E x \in Pieces(ParseMarkdown(lines)[i]) : x.line = fence[1]
    PROVE  \A l \in fence[1]..fence[2] : Piece(lines, l) \in Pieces(ParseMarkdown(lines)[i])
<1> DEFINE row == ParseMarkdown(lines)[i]
           after == FenceStates(lines)
           k == fence[1]
           j == fence[2]
<1>1. Len(lines) \in Nat /\ DOMAIN lines = 1..Len(lines)
  BY ListFacts DEF IsBody
<1>2. /\ k \in DOMAIN lines /\ j \in DOMAIN lines /\ k <= j
      /\ after[k - 1] = NoFence /\ after[k] # NoFence
      /\ \A m \in k .. j - 1 : after[m] # NoFence
      /\ after[j] = NoFence \/ j = Len(lines)
  BY DEF Fenced
<1>3. PICK s \in DOMAIN Sections(lines) :
          /\ row.section = Sections(lines)[s]
          /\ row.units \in Seq(PartSet(SectionUnits(lines, Sections(lines)[s])))
  BY RowParts
<1> DEFINE us == SectionUnits(lines, Sections(lines)[s])
           first == First(lines, s)
           last == Final(lines, s)
<1>4. us \in Seq(Seq(WholeSet)) /\ \E st : AreUnits(us, st, lines, first, last)
  BY SectionUnitsAre DEF First, Final
<1>5. PICK st : AreUnits(us, st, lines, first, last)
  BY <1>4
<1>6. WellRead(lines, first, last)
  BY <1>3 DEF Misread, WellRead, First, Final
<1>7. PICK x \in Pieces(row) : x.line = k
  OBVIOUS
<1>8. PICK m \in DOMAIN row.units : x \in ToSet(row.units[m])
  BY <1>7 DEF Pieces
<1> DEFINE t == row.units[m]
<1> HIDE DEF row, us, first, last, k, j
<1>9. m \in 1..Len(row.units) /\ DOMAIN row.units = 1..Len(row.units)
  BY <1>3, <1>8, LenProperties DEF us
<1>10. t \in PartSet(us)
  BY <1>3, <1>9, ElementOfSeq DEF us
<1>11. PICK o \in DOMAIN t : x = t[o]
  BY <1>8 DEF ToSet
<1> HIDE DEF t
<1>12. PICK u \in 1..Len(us) : IsPart(t, us[u])
  BY <1>10 DEF PartSet
<1>13. t \in Seq(PieceSet) /\ us[u] \in Seq(WholeSet) /\ Len(us) \in Nat
  <2>1. t \in FitSet
    BY <1>10 DEF PartSet
  <2> QED BY <1>4, <2>1, ElementOfSeq, LenProperties DEF FitSet
<1>14. \E w \in 1..Len(us[u]) : k = us[u][w].line
  <2>1. o \in 1..Len(t) /\ t[o].line = k
    BY <1>7, <1>11, <1>13, LenProperties
  <2>2. CASE LineTokens(us[u]) <= HardTokens
    BY <1>12, <2>1, <2>2 DEF IsPart
  <2>3. CASE ~(LineTokens(us[u]) <= HardTokens)
    <3>1. \E w \in 1..Len(us[u]) : t[o].line = us[u][w].line
      BY <1>12, <2>1, <2>3 DEF IsPart
    <3> QED BY <2>1, <3>1
  <2> QED BY <2>2, <2>3
<1> DEFINE a == st[u]
           b == UnitEnd(lines, a, last)
<1>15. a \in first..last /\ us[u] = Span(lines, a, b)
  BY <1>5 DEF AreUnits
<1>16. first \in 1 .. Len(lines) + 1 /\ last \in 0..Len(lines)
  BY SectionBounds DEF First, Final, first, last, IsBody
<1>17. a \in 1..last /\ last \in Nat /\ a \in 1..Len(lines)
  <2> HIDE DEF a
  <2> QED BY <1>1, <1>15, <1>16
<1>18. b \in a..last /\ b \in a..Len(lines)
  <2>1. b \in a..last
    BY <1>17, UnitEndFacts
  <2> HIDE DEF a, b
  <2> QED BY <1>1, <1>16, <1>17, <2>1
<1>19. k \in a..b
  <2> HIDE DEF a, b
  <2>1. /\ Len(us[u]) = b - a + 1
        /\ \A w \in 1 .. b - a + 1 : us[u][w] = Piece(lines, a + w - 1)
    BY <1>15, <1>17, <1>18, SpanFacts
  <2>2. PICK w \in 1 .. b - a + 1 : k = us[u][w].line
    BY <1>14, <2>1
  <2>3. k = a + w - 1
    <3>1. us[u][w] = Piece(lines, a + w - 1)
      BY <2>1
    <3>2. Piece(lines, a + w - 1).line = a + w - 1
      BY DEF Piece
    <3> QED BY <2>2, <3>1, <3>2
  <2> QED BY <1>17, <1>18, <2>3
<1>20. us[u] = Span(lines, k, j)
  <2>1. k \in st[u] .. UnitEnd(lines, st[u], last)
    BY <1>19
  <2> HIDE DEF a, b
  <2> QED BY <1>2, <1>5, <1>6, <1>13, <2>1, FenceIsUnit DEF first, last
<1>21. t = us[u]
  <2>1. LineTokens(us[u]) <= HardTokens
    BY <1>20 DEF k, j
  <2> QED BY <1>12, <2>1 DEF IsPart
<1>22. ASSUME NEW l \in k..j PROVE Piece(lines, l) \in ToSet(t)
  <2>1. k \in 1..Len(lines) /\ j \in k..Len(lines)
    BY <1>1, <1>2
  <2>2. /\ Len(t) = j - k + 1
        /\ \A w \in 1 .. j - k + 1 : t[w] = Piece(lines, k + w - 1)
    BY <1>20, <1>21, <2>1, SpanFacts
  <2>3. DOMAIN t = 1..Len(t)
    BY <1>13, LenProperties
  <2>4. l - k + 1 \in 1 .. j - k + 1 /\ k + (l - k + 1) - 1 = l
    BY <2>1
  <2>5. t[l - k + 1] = Piece(lines, l) /\ l - k + 1 \in DOMAIN t
    BY <2>2, <2>3, <2>4
  <2> QED BY <2>5 DEF ToSet
<1>23. \A l \in k..j : Piece(lines, l) \in Pieces(row)
  BY <1>8, <1>22 DEF Pieces, t
<1> QED BY <1>23 DEF row, k, j

(***************************************************************************)
(* A fenced block that fits in a block of the index is in one block, where *)
(* the chunker and the scan for headings agree about its end.              *)
(***************************************************************************)
THEOREM FencesWhole == Spec => []FencesStayWhole
<1>1. ASSUME NEW lines, IsBody(lines),
             NEW fence \in Fenced(lines),
             NEW i \in DOMAIN ParseMarkdown(lines), NEW j \in DOMAIN ParseMarkdown(lines),
             LineTokens(Span(lines, fence[1], fence[2])) <= HardTokens,
             ~Misread(lines, ParseMarkdown(lines)[i].section),
             \E x \in Pieces(ParseMarkdown(lines)[i]) : x.line = fence[1],
             NEW y \in Pieces(ParseMarkdown(lines)[j]),
             y.line \in fence[1]..fence[2], Size(y) > 0
      PROVE  i = j
  <2> DEFINE rows == ParseMarkdown(lines)
             told == Words(Texts(rows))
             l == y.line
             x == Piece(lines, l)
             K == {k \in DOMAIN lines : lines[k].size > 0} \ Headings(lines)
  <2>1. x \in Pieces(rows[i])
    BY <1>1, RowOfFence
  <2>2. rows \in Seq(RowSet(lines))
    BY <1>1, RowsFollow
  <2>3. told \in Seq(PieceSet) /\ Tells(told, lines, K)
    BY <1>1, RowsTell
  <2>4. Len(lines) \in Nat /\ DOMAIN lines = 1..Len(lines)
    BY <1>1, ListFacts DEF IsBody
  <2> HIDE DEF rows, x
  <2>5. i \in 1..Len(rows) /\ j \in 1..Len(rows) /\ Len(rows) \in Nat
    BY <1>1, <2>2, LenProperties DEF rows
  <2>6. y \in Pieces(rows[j])
    BY <1>1 DEF rows
  <2>7. \A p \in 1..Len(told) : Size(told[p]) > 0 /\ told[p].line \in K
    <3> DEFINE ts == Texts(rows)
               text == FlattenSeq(ts)
               F == {k \in DOMAIN text : Size(text[k]) > 0}
    <3>1. ts \in Seq(Seq(PieceSet))
      BY <2>2, TextsFacts
    <3> HIDE DEF ts
    <3>2. text \in Seq(PieceSet)
      BY <3>1, FlattenJoins
    <3>3. told = At(text, F)
      BY DEF Words, Kept, text, ts
    <3> HIDE DEF text
    <3>4. DOMAIN told = 1..Len(told)
      <4> HIDE DEF told
      <4> QED BY <2>3, LenProperties
    <3> SUFFICES ASSUME NEW p \in 1..Len(told) PROVE Size(told[p]) > 0 /\ told[p].line \in K
      OBVIOUS
    <3>5. \E m \in F \cap DOMAIN text : told[p] = text[m]
      <4>1. \A q \in DOMAIN At(text, F) : \E m \in F \cap DOMAIN text : At(text, F)[q] = text[m]
        <5> HIDE DEF F
        <5> QED BY <3>2, AtElements
      <4> HIDE DEF told, F
      <4> QED BY <3>3, <3>4, <4>1
    <3>6. Size(told[p]) > 0
      <4> HIDE DEF told
      <4> QED BY <3>5
    <3>7. told[p].line \in K
      <4> HIDE DEF told, K
      <4> QED BY <2>3 DEF Tells
    <3> QED BY <3>6, <3>7
  <2>8. PICK q \in 1..Len(told) : told[q] = y
    BY <1>1, <2>2, <2>5, <2>6, PieceTold
  <2> HIDE DEF told
  <2>9. l \in DOMAIN lines /\ lines[l].size > 0
    <3> HIDE DEF l
    <3>1. told[q].line = l
      BY <2>8 DEF l
    <3> QED BY <2>7, <3>1
  <2>10. x.line = l /\ x.from = 0 /\ x.to = lines[l].size /\ Size(x) > 0
    <3>1. lines[l].size \in Nat
      BY <1>1, <2>9 DEF IsBody, IsLine
    <3>2. x.line = l /\ x.from = 0 /\ x.to = lines[l].size
      BY DEF Piece, x
    <3> HIDE DEF l
    <3> QED BY <2>9, <3>1, <3>2 DEF Size
  <2>11. ASSUME NEW p \in 1..Len(told), NEW r \in 1..Len(told), told[p] = x, told[r] = y
         PROVE  p = r
    <3>1. K \subseteq Nat
      BY <2>4
    <3>2. /\ told[p].line = told[r].line /\ told[p].from = 0
          /\ told[p].to = lines[told[p].line].size
      BY <2>10, <2>11
    <3>3. \A o \in 1..Len(told) : Size(told[o]) > 0
      BY <2>7
    <3> HIDE DEF K
    <3> QED BY <2>3, <3>1, <3>2, <3>3, ToldOnce
  <2>12. ~(i < j)
    <3> SUFFICES ASSUME i < j PROVE FALSE
      OBVIOUS
    <3>1. PICK p, r \in 1..Len(told) : p < r /\ told[p] = x /\ told[r] = y
      <4> HIDE DEF l
      <4> QED BY <1>1, <2>1, <2>2, <2>5, <2>6, <2>10, Apart DEF told
    <3> QED BY <2>11, <3>1
  <2>13. ~(j < i)
    <3> SUFFICES ASSUME j < i PROVE FALSE
      OBVIOUS
    <3>1. PICK p, r \in 1..Len(told) : p < r /\ told[p] = y /\ told[r] = x
      <4> HIDE DEF l
      <4> QED BY <1>1, <2>1, <2>2, <2>5, <2>6, <2>10, Apart DEF told
    <3> QED BY <2>11, <3>1
  <2> QED BY <2>5, <2>12, <2>13
<1>2. Inv => FencesStayWhole
  <2> SUFFICES ASSUME Inv, NEW p \in Indexed,
                      NEW fence \in Fenced(index[p].text.body),
                      NEW i \in DOMAIN index[p].rows, NEW j \in DOMAIN index[p].rows,
                      LineTokens([m \in 1 .. fence[2] - fence[1] + 1 |->
                                     Piece(index[p].text.body, fence[1] + m - 1)]) <= HardTokens,
                      ~Misread(index[p].text.body, index[p].rows[i].section),
                      \E x \in Pieces(index[p].rows[i]) : x.line = fence[1],
                      \E x \in Pieces(index[p].rows[j]) :
                          x.line \in fence[1]..fence[2] /\ Size(x) > 0
               PROVE  i = j
    BY DEF FencesStayWhole
  <2>1. PICK d : IsNote(d) /\ index[p] = Rows(d)
    BY DEF Inv, IndexOK
  <2>2. IsBody(d.body) /\ index[p].text.body = d.body /\ index[p].rows = ParseMarkdown(d.body)
    BY <2>1 DEF IsNote, Rows
  <2>3. LineTokens(Span(d.body, fence[1], fence[2])) <= HardTokens
    BY <2>2 DEF Span
  <2> QED BY <1>1, <2>2, <2>3
<1> QED BY <1>2, Invariance, PTL
=============================================================================
