--------------------------- MODULE IndexingProofs ---------------------------
(***************************************************************************)
(* Proofs about Indexing.                                                  *)
(***************************************************************************)
EXTENDS Indexing, TLAPS

(* What makes the rows an indexer writes well formed.                      *)
RunOK(i) ==
    /\ \A p \in Paths : snap[i][p] # NoRow => rows[p] # NoRow
    /\ pc[i] = "delete" => \A p \in left[i] : snap[i][p] # NoRow
    /\ pc[i] \in {"process", "store"} => left[i] \subseteq Candidates(i)
    /\ pc[i] = "store" => cur[i] \in Candidates(i)
    /\ pc[i] # "idle" => runs[i] = "running"

TypeInv == TypeOK /\ \A i \in Indexers : RunOK(i)

----------------------------------------------------------------------------
(* Types.                                                                  *)

LEMMA ConstantFacts ==
    /\ MaxSaves \in Nat /\ MaxFaults \in Nat
    /\ MaxParser \in Nat /\ MaxParser >= 1
    /\ 1 \in Parsers
    /\ NoStat \notin Stats /\ NoRow \notin Row /\ NoFile \notin File
    /\ Unreadable \notin Contents
  BY IndexAssumption, NoRowAssumption DEF Parsers

LEMMA InitTyped == Init => TypeInv
  BY ConstantFacts DEF Init, TypeInv, TypeOK, RunOK, Steps, Statuses, NoRows,
     NoCandidates

(* Writing a row over another, or where there was none, forgets no row.    *)
LEMMA RowWrite ==
    ASSUME TypeOK, NEW p \in Paths, NEW r \in Row,
           rows' = [rows EXCEPT ![p] = r]
    PROVE  /\ rows' \in [Paths -> Row \cup {NoRow}]
           /\ rows'[p] = r
           /\ \A q \in Paths : rows[q] # NoRow => rows'[q] # NoRow
           /\ \A q \in Paths \ {p} : rows'[q] = rows[q]
  BY ConstantFacts DEF TypeOK

LEMMA TombstoneTyped ==
    ASSUME TypeInv, NEW i \in Indexers, NEW p \in Paths, Tombstone(i, p)
    PROVE  TypeInv'
<1>1. rows[p] \in Row
  BY DEF TypeInv, TypeOK, RunOK, Tombstone
<1> DEFINE r == [rows[p] EXCEPT !.deleted = TRUE]
<1>2. r \in Row /\ rows' = [rows EXCEPT ![p] = r]
  BY <1>1 DEF Tombstone, Row
<1> HIDE DEF r
<1>3. rows' \in [Paths -> Row \cup {NoRow}]
      /\ \A q \in Paths : rows[q] # NoRow => rows'[q] # NoRow
  BY <1>2, RowWrite DEF TypeInv
<1>4. TypeOK'
  BY <1>3 DEF TypeInv, TypeOK, Tombstone
<1>5. ASSUME NEW j \in Indexers PROVE RunOK(j)'
  BY <1>3 DEF TypeInv, TypeOK, RunOK, Candidates, Tombstone
<1> QED BY <1>4, <1>5 DEF TypeInv

(* A transaction on the current candidate.                                 *)
LEMMA StoreTyped ==
    ASSUME TypeInv, NEW i \in Indexers, Store(i), NEW r \in Row,
           rows' = [rows EXCEPT ![cur[i]] = r],
           derived' \in [Paths -> (Contents \X Parsers) \cup {Nothing}],
           errors' \in [Indexers -> BOOLEAN]
    PROVE  TypeInv'
<1>1. cur[i] \in Paths
  BY DEF TypeInv, RunOK, Store, Candidates
<1>2. rows' \in [Paths -> Row \cup {NoRow}]
      /\ \A q \in Paths : rows[q] # NoRow => rows'[q] # NoRow
  BY <1>1, RowWrite DEF TypeInv
<1>3. TypeOK'
  BY <1>2 DEF TypeInv, TypeOK, Store, Goto, Steps
<1>4. ASSUME NEW j \in Indexers PROVE RunOK(j)'
  BY <1>2 DEF TypeInv, TypeOK, RunOK, Candidates, Store, Goto
<1> QED BY <1>3, <1>4 DEF TypeInv

LEMMA StoreFacts ==
    ASSUME TypeInv, NEW i \in Indexers, pc[i] = "store"
    PROVE  cur[i] \in Paths /\ cand[i][cur[i]] \in Stats
  BY DEF TypeInv, TypeOK, RunOK, Candidates

LEMMA UpdateMetadataTyped ==
    ASSUME TypeInv, NEW i \in Indexers, UpdateMetadata(i)
    PROVE  TypeInv'
<1>1. cur[i] \in Paths /\ cand[i][cur[i]] \in Stats
  BY StoreFacts DEF UpdateMetadata, Store
<1>2. rows[cur[i]] \in Row
  BY <1>1 DEF UpdateMetadata, Unchanged, Active, TypeInv, TypeOK, RunOK
<1> DEFINE r == [rows[cur[i]] EXCEPT !.stat = cand[i][cur[i]],
           !.deleted = FALSE]
<1>3. r \in Row
  BY <1>1, <1>2 DEF Row
<1>4. rows' = [rows EXCEPT ![cur[i]] = r]
  BY <1>1, <1>2 DEF UpdateMetadata, Row, TypeInv, TypeOK
<1> HIDE DEF r
<1> QED BY <1>3, <1>4, StoreTyped DEF UpdateMetadata, TypeInv, TypeOK

(* What Upsert writes is a row.                                            *)
LEMMA UpsertTyped ==
    ASSUME TypeInv, NEW i \in Indexers, pc[i] = "store",
           NEW h \in Contents \cup {NoHash}, NEW e \in {"none", "frontmatter",
           "failure"},
           Upsert(i, h, e)
    PROVE  \E r \in Row : /\ rows' = [rows EXCEPT ![cur[i]] = r]
                          /\ r.stat = cand[i][cur[i]] /\ r.hash = h
                          /\ r.parser = parser[i] /\ ~r.deleted /\ r.error = e
<1>1. cand[i][cur[i]] \in Stats /\ parser[i] \in Parsers
  BY StoreFacts DEF TypeInv, TypeOK
<1> DEFINE r == [stat |-> cand[i][cur[i]], hash |-> h, parser |-> parser[i],
                 deleted |-> FALSE, error |-> e]
<1>2. r \in Row
  BY <1>1 DEF Row
<1> QED BY <1>2 DEF Upsert

LEMMA RecordFailureTyped ==
    ASSUME TypeInv, NEW i \in Indexers, NEW h \in Contents \cup {NoHash},
           RecordFailure(i, h)
    PROVE  TypeInv'
<1>1. pc[i] = "store"
  BY DEF RecordFailure, Store
<1>2. PICK r \in Row : rows' = [rows EXCEPT ![cur[i]] = r]
  BY <1>1, UpsertTyped DEF RecordFailure
<1>3. errors' \in [Indexers -> BOOLEAN]
      /\ derived' \in [Paths -> (Contents \X Parsers) \cup {Nothing}]
  BY DEF RecordFailure, TypeInv, TypeOK
<1> QED BY <1>2, <1>3, StoreTyped DEF RecordFailure

LEMMA ReplaceTyped ==
    ASSUME TypeInv, NEW i \in Indexers, Replace(i)
    PROVE  TypeInv'
<1>1. pc[i] = "store" /\ buf[i] \in Contents /\ parser[i] \in Parsers
  BY DEF Replace, Store, TypeInv, TypeOK
<1>2. PICK r \in Row : rows' = [rows EXCEPT ![cur[i]] = r]
  BY <1>1, UpsertTyped DEF Replace
<1>3. errors' \in [Indexers -> BOOLEAN]
  BY DEF Replace, TypeInv, TypeOK
<1>4. derived' \in [Paths -> (Contents \X Parsers) \cup {Nothing}]
  BY <1>1 DEF Replace, TypeInv, TypeOK
<1> QED BY <1>2, <1>3, <1>4, StoreTyped DEF Replace

LEMMA StartTyped ==
    ASSUME TypeInv, NEW i \in Indexers,
           \E f \in BOOLEAN : Start(i, f)
    PROVE  TypeInv'
<1>1. TypeOK'
  BY ConstantFacts DEF TypeInv, TypeOK, Steps, Statuses, db, Start, Goto
<1>2. ASSUME NEW j \in Indexers PROVE RunOK(j)'
  BY <1>1, ConstantFacts DEF TypeInv, TypeOK, RunOK, Candidates, db, Start, Goto
<1> QED BY <1>1, <1>2 DEF TypeInv

LEMMA ListedTyped ==
    ASSUME TypeInv, NEW i \in Indexers,
           \E found \in SUBSET Paths : Listed(i, found),
           faults' \in 0..MaxFaults
    PROVE  TypeInv'
<1>1. TypeOK'
  BY ConstantFacts DEF TypeInv, TypeOK, Steps, db, Listed, Goto
<1>2. ASSUME NEW j \in Indexers PROVE RunOK(j)'
  BY <1>1, ConstantFacts DEF TypeInv, RunOK, Candidates, db, Listed, Goto
<1> QED BY <1>1, <1>2 DEF TypeInv

LEMMA StatTyped ==
    ASSUME TypeInv, NEW i \in Indexers,
           \E p \in Paths : Stat(i, p)
    PROVE  TypeInv'
<1>1. TypeOK'
  BY ConstantFacts DEF TypeInv, TypeOK, File, Present, db, Stat
<1>2. ASSUME NEW j \in Indexers PROVE RunOK(j)'
  BY <1>1, ConstantFacts DEF TypeInv, TypeOK, RunOK, Candidates, db, Stat
<1> QED BY <1>1, <1>2 DEF TypeInv

LEMMA FetchTyped ==
    ASSUME TypeInv, NEW i \in Indexers,
           Fetch(i)
    PROVE  TypeInv'
<1>1. TypeOK'
  BY ConstantFacts DEF TypeInv, TypeOK, Steps, db, Fetch, Goto, Active
<1>2. ASSUME NEW j \in Indexers PROVE RunOK(j)'
  BY <1>1, ConstantFacts DEF TypeInv, TypeOK, RunOK, Candidates, db, Fetch,
     Goto, Active
<1> QED BY <1>1, <1>2 DEF TypeInv

LEMMA DeletedTyped ==
    ASSUME TypeInv, NEW i \in Indexers,
           Deleted(i)
    PROVE  TypeInv'
<1>1. TypeOK'
  BY ConstantFacts DEF Candidates, TypeInv, TypeOK, Steps, db, Deleted, Goto
<1>2. ASSUME NEW j \in Indexers PROVE RunOK(j)'
  BY <1>1, ConstantFacts DEF TypeInv, TypeOK, RunOK, Candidates, db, Deleted,
     Goto
<1> QED BY <1>1, <1>2 DEF TypeInv

LEMMA SkipFreshTyped ==
    ASSUME TypeInv, NEW i \in Indexers,
           \E p \in Paths : SkipFresh(i, p)
    PROVE  TypeInv'
<1>1. TypeOK'
  BY ConstantFacts DEF TypeInv, TypeOK, Steps, db, SkipFresh
<1>2. ASSUME NEW j \in Indexers PROVE RunOK(j)'
  BY <1>1, ConstantFacts DEF TypeInv, TypeOK, RunOK, Candidates, db, SkipFresh
<1> QED BY <1>1, <1>2 DEF TypeInv

LEMMA ReadBytesTyped ==
    ASSUME TypeInv, NEW i \in Indexers,
           \E p \in Paths, b \in Contents \cup {Unreadable} :
               ReadBytes(i, p, b),
           faults' \in 0..MaxFaults
    PROVE  TypeInv'
<1>1. TypeOK'
  BY ConstantFacts DEF TypeInv, TypeOK, Steps, db, ReadBytes, Goto
<1>2. ASSUME NEW j \in Indexers PROVE RunOK(j)'
  BY <1>1, ConstantFacts DEF TypeInv, TypeOK, RunOK, Candidates, db, ReadBytes,
     Goto
<1> QED BY <1>1, <1>2 DEF TypeInv

LEMMA RaiseTyped ==
    ASSUME TypeInv, NEW i \in Indexers,
           Raise(i), pc[i] # "idle", faults' \in 0..MaxFaults
    PROVE  TypeInv'
<1>1. TypeOK'
  BY ConstantFacts DEF TypeInv, TypeOK, Steps, db, Raise, Goto
<1>2. ASSUME NEW j \in Indexers PROVE RunOK(j)'
  BY <1>1, ConstantFacts DEF TypeInv, RunOK, Candidates, db, Raise, Goto
<1> QED BY <1>1, <1>2 DEF TypeInv

LEMMA EndTyped ==
    ASSUME TypeInv, NEW i \in Indexers,
           \E r \in Statuses : End(i, r) /\ faults' \in 0..MaxFaults
    PROVE  TypeInv'
<1>1. TypeOK'
  BY ConstantFacts DEF TypeInv, TypeOK, Steps, db, End, Goto, NoRows,
     NoCandidates
<1>2. ASSUME NEW j \in Indexers PROVE RunOK(j)'
  BY <1>1, ConstantFacts DEF TypeInv, TypeOK, RunOK, Candidates, db, End, Goto,
     NoRows
<1> QED BY <1>1, <1>2 DEF TypeInv

(* The failing steps count one fault more.                                 *)
LEMMA FaultTyped == TypeOK /\ Fault => faults' \in 0..MaxFaults
  BY ConstantFacts DEF TypeOK, Fault

LEMMA UserTyped == TypeInv /\ User => TypeInv'
<1> SUFFICES ASSUME TypeInv, User PROVE TypeInv'
  OBVIOUS
<1>1. TypeOK'
  <2>1. ASSUME NEW p \in Paths, NEW c \in Contents, Save(p, c) PROVE TypeOK'
    <3>1. saves + 1 \in Stats /\ saves + 1 \in 0..MaxSaves
      BY <2>1, ConstantFacts DEF TypeInv, TypeOK, Save, Stats
    <3>2. [content |-> c, stat |-> saves + 1] \in File
      BY <3>1 DEF File
    <3> QED BY <2>1, <3>1, <3>2 DEF TypeInv, TypeOK, Save, db, locals
  <2>2. ASSUME NEW p \in Paths, Delete(p) PROVE TypeOK'
    BY <2>2 DEF TypeInv, TypeOK, Delete, db, locals
  <2>3. CASE Upgrade
    BY <2>3, ConstantFacts DEF TypeInv, TypeOK, Upgrade, Parsers, db, locals
  <2> QED BY <2>1, <2>2, <2>3 DEF User
<1>2. ASSUME NEW j \in Indexers PROVE RunOK(j)'
  BY DEF TypeInv, RunOK, Candidates, User, Save, Delete, Upgrade, db, locals
<1> QED BY <1>1, <1>2 DEF TypeInv

LEMMA ProgressTyped ==
    ASSUME TypeInv, NEW i \in Indexers, Progress(i)
    PROVE  TypeInv'
<1> USE DEF TypeInv
<1>1. faults \in 0..MaxFaults
  BY DEF TypeOK
<1>2. CASE List(i)
  BY <1>1, <1>2, ListedTyped DEF List
<1>3. CASE \E p \in Paths : Stat(i, p)
  BY <1>3, StatTyped
<1>4. CASE \E p \in Paths : Tombstone(i, p)
  BY <1>4, TombstoneTyped
<1>5. CASE \E p \in Paths : SkipFresh(i, p)
  BY <1>5, SkipFreshTyped
<1>6. ASSUME NEW p \in Paths, Read(i, p) PROVE TypeInv'
  <2>1. (IF Present(p) THEN vault[p].content ELSE Unreadable)
           \in Contents \cup {Unreadable}
    BY DEF TypeOK, Present, File
  <2> QED BY <1>1, <1>6, <2>1, ReadBytesTyped DEF Read
<1>7. CASE Fetch(i)
  BY <1>7, FetchTyped
<1>8. CASE Deleted(i)
  BY <1>8, DeletedTyped
<1>9. CASE UpdateMetadata(i)
  BY <1>9, UpdateMetadataTyped
<1>10. CASE ReadFailed(i)
  <2>1. cur[i] \in Paths
    BY <1>10, StoreFacts DEF ReadFailed, RecordFailure, Store
  <2>2. (IF snap[i][cur[i]] = NoRow THEN NoHash ELSE snap[i][cur[i]].hash)
           \in Contents \cup {NoHash}
    BY <2>1 DEF TypeOK, Row
  <2> QED BY <1>10, <2>2, RecordFailureTyped DEF ReadFailed
<1>11. CASE ParseFailed(i)
  <2>1. buf[i] \in Contents \cup {NoHash}
    BY <1>11 DEF ParseFailed, TypeOK
  <2> QED BY <1>11, <2>1, RecordFailureTyped DEF ParseFailed
<1>12. CASE Replace(i)
  BY <1>12, ReplaceTyped
<1>13. CASE ReplaceClashes(i)
  BY <1>1, <1>13, RaiseTyped DEF ReplaceClashes
<1>14. CASE Finish(i)
  <2>1. (IF errors[i] THEN "success_with_errors" ELSE "success") \in Statuses
    BY DEF Statuses
  <2> QED BY <1>1, <1>14, <2>1, EndTyped DEF Finish
<1>15. CASE FinishFailed(i)
  BY <1>1, <1>15, EndTyped DEF FinishFailed, Statuses
<1> QED BY <1>2, <1>3, <1>4, <1>5, <1>6, <1>7, <1>8, <1>9, <1>10, <1>11, <1>12,
           <1>13, <1>14, <1>15 DEF Progress

LEMMA FailureTyped ==
    ASSUME TypeInv, NEW i \in Indexers, Failure(i)
    PROVE  TypeInv'
<1>1. Fault => faults' \in 0..MaxFaults
  BY FaultTyped DEF TypeInv
<1>2. faults \in 0..MaxFaults /\ runs[i] \in Statuses
  BY DEF TypeInv, TypeOK
<1>3. CASE StepFails(i)
  BY <1>1, <1>3, RaiseTyped DEF StepFails
<1>4. CASE DiagnosticsFail(i)
  BY <1>1, <1>2, <1>4, EndTyped DEF DiagnosticsFail
<1>5. CASE FetchFails(i)
  BY <1>1, <1>2, <1>5, EndTyped DEF FetchFails
<1>6. CASE \E found \in SUBSET {p \in Paths : Present(p)} : ListPartly(i, found)
  BY <1>1, <1>6, ListedTyped DEF ListPartly
<1>7. CASE \E p \in Paths : ReadFails(i, p)
  BY <1>1, <1>7, ReadBytesTyped DEF ReadFails
<1>8. CASE Kill(i)
  BY <1>1, <1>2, <1>8, EndTyped DEF Kill
<1> QED BY <1>3, <1>4, <1>5, <1>6, <1>7, <1>8 DEF Failure

LEMMA StepTyped == TypeInv /\ [Next]_vars => TypeInv'
<1> SUFFICES ASSUME TypeInv, [Next]_vars PROVE TypeInv'
  OBVIOUS
<1>1. ASSUME NEW i \in Indexers, Request(i) PROVE TypeInv'
  BY <1>1, StartTyped DEF Request
<1>2. ASSUME NEW i \in Indexers, Progress(i) PROVE TypeInv'
  BY <1>2, ProgressTyped
<1>3. ASSUME NEW i \in Indexers, Failure(i) PROVE TypeInv'
  BY <1>3, FailureTyped
<1>4. CASE User
  BY <1>4, UserTyped
<1>5. CASE UNCHANGED vars
  BY <1>5 DEF vars, TypeInv, TypeOK, RunOK, Candidates
<1> QED BY <1>1, <1>2, <1>3, <1>4, <1>5 DEF Next

(* The variables keep their types: no row loses its place in `files`, and  *)
(* an indexer's candidate is a file it took the stat of.                   *)
THEOREM TypeCorrect == Spec => []TypeOK
<1>1. Spec => []TypeInv
  BY InitTyped, StepTyped, PTL DEF Spec
<1>2. TypeInv => TypeOK
  BY DEF TypeInv
<1> QED BY <1>1, <1>2, PTL

----------------------------------------------------------------------------
(* One indexer.                                                            *)

(* A database with one writer: at most one run_index at a time.            *)
OneIndexer == \A i, j \in Indexers : i = j

(* What a row says of the derived rows, and of the file it was made from.  *)
RowOK(p) ==
    /\ rows[p] = NoRow \/ rows[p].deleted => derived[p] = Nothing
    /\ Active(rows[p]) /\ ErrorSkippable(rows[p])
          => derived[p] = <<rows[p].hash, rows[p].parser>>
    /\ Active(rows[p]) /\ ErrorSkippable(rows[p]) /\ Present(p)
         /\ rows[p].stat = vault[p].stat
          => rows[p].hash = vault[p].content

(* No stat is of the future.                                               *)
StatsOK ==
    \A p \in Paths :
        /\ Present(p) => vault[p].stat <= saves
        /\ rows[p] # NoRow => rows[p].stat <= saves
        /\ \A i \in Indexers : cand[i][p] # NoStat => cand[i][p] <= saves

(* What the run has still to do was fetched as it is; ...                  *)
Fetched(i) ==
    /\ pc[i] = "delete" =>
          /\ left[i] \cap Candidates(i) = {}
          /\ \A p \in Candidates(i) : snap[i][p] = rows[p]
    /\ pc[i] \in {"process", "store"} =>
          \A p \in left[i] : snap[i][p] = rows[p]

(* ... the bytes at hand belong to the stat at hand, unless that is old;   *)
InHand(i) ==
    pc[i] = "store" =>
        /\ cur[i] \notin left[i]
        /\ snap[i][cur[i]] = rows[cur[i]]
        /\ buf[i] # Unreadable /\ Present(cur[i]) /\ vault[cur[i]].stat = cand[i][cur[i]]
              => buf[i] = vault[cur[i]].content

(* ... and without errors what it has done is done.                        *)
Covered(i, p) ==
    /\ Active(rows[p]) /\ ErrorSkippable(rows[p])
    /\ rows[p].stat = cand[i][p]
    /\ rows[p].parser = parser[i]

Done(i) ==
    pc[i] \in {"process", "store"} /\ ~errors[i] =>
        \A p \in Candidates(i) \ left[i] :
            (pc[i] = "store" /\ p = cur[i]) \/ Covered(i, p)

IInv ==
    /\ \A p \in Paths : RowOK(p)
    /\ StatsOK
    /\ \A i \in Indexers : Fetched(i) /\ InHand(i) /\ Done(i)

LEMMA StartKept ==
    ASSUME OneIndexer, TypeInv, IInv, NEW i \in Indexers,
           \E f \in BOOLEAN : Start(i, f)
    PROVE  IInv'
<1>1. ASSUME NEW q \in Paths PROVE RowOK(q)'
  BY ConstantFacts DEF db, IInv, RowOK, Present, Start
<1>2. StatsOK'
  BY ConstantFacts DEF db, IInv, StatsOK, Present, Start
<1>3. ASSUME NEW j \in Indexers PROVE Fetched(j)'
  BY DEF OneIndexer, Fetched, Start, Goto
<1>4. ASSUME NEW j \in Indexers PROVE InHand(j)'
  BY DEF OneIndexer, InHand, Start, Goto
<1>5. ASSUME NEW j \in Indexers PROVE Done(j)'
  BY DEF OneIndexer, Done, Start, Goto
<1> QED BY <1>1, <1>2, <1>3, <1>4, <1>5 DEF IInv

LEMMA ListedKept ==
    ASSUME OneIndexer, TypeInv, IInv, NEW i \in Indexers,
           \E found \in SUBSET Paths : Listed(i, found)
    PROVE  IInv'
<1>1. ASSUME NEW q \in Paths PROVE RowOK(q)'
  BY ConstantFacts DEF db, IInv, RowOK, Present, Listed
<1>2. StatsOK'
  BY ConstantFacts DEF db, IInv, StatsOK, Present, Listed
<1>3. ASSUME NEW j \in Indexers PROVE Fetched(j)'
  BY DEF OneIndexer, Fetched, Listed, Goto
<1>4. ASSUME NEW j \in Indexers PROVE InHand(j)'
  BY DEF OneIndexer, InHand, Listed, Goto
<1>5. ASSUME NEW j \in Indexers PROVE Done(j)'
  BY DEF OneIndexer, Done, Listed, Goto
<1> QED BY <1>1, <1>2, <1>3, <1>4, <1>5 DEF IInv

LEMMA StatKept ==
    ASSUME OneIndexer, TypeInv, IInv, NEW i \in Indexers,
           \E p \in Paths : Stat(i, p)
    PROVE  IInv'
<1>1. ASSUME NEW q \in Paths PROVE RowOK(q)'
  BY ConstantFacts DEF db, IInv, RowOK, Present, Stat
<1>2. StatsOK'
  BY ConstantFacts DEF db, IInv, StatsOK, Present, Stat
<1>3. ASSUME NEW j \in Indexers PROVE Fetched(j)'
  BY DEF OneIndexer, Fetched, Stat
<1>4. ASSUME NEW j \in Indexers PROVE InHand(j)'
  BY DEF OneIndexer, InHand, Stat
<1>5. ASSUME NEW j \in Indexers PROVE Done(j)'
  BY DEF OneIndexer, Done, Stat
<1> QED BY <1>1, <1>2, <1>3, <1>4, <1>5 DEF IInv

LEMMA FetchKept ==
    ASSUME OneIndexer, TypeInv, IInv, NEW i \in Indexers,
           Fetch(i)
    PROVE  IInv'
<1>1. ASSUME NEW q \in Paths PROVE RowOK(q)'
  BY ConstantFacts DEF db, IInv, RowOK, Present, Fetch
<1>2. StatsOK'
  BY ConstantFacts DEF db, IInv, StatsOK, Present, Fetch
<1>3. ASSUME NEW j \in Indexers PROVE Fetched(j)'
  BY DEF TypeInv, TypeOK, Candidates, db, OneIndexer, Fetched, Fetch
<1>4. ASSUME NEW j \in Indexers PROVE InHand(j)'
  BY DEF OneIndexer, InHand, Fetch, Goto
<1>5. ASSUME NEW j \in Indexers PROVE Done(j)'
  BY DEF OneIndexer, Done, Fetch, Goto
<1> QED BY <1>1, <1>2, <1>3, <1>4, <1>5 DEF IInv

LEMMA TombstoneKept ==
    ASSUME OneIndexer, TypeInv, IInv, NEW i \in Indexers,
           \E p \in Paths : Tombstone(i, p)
    PROVE  IInv'
<1>1. ASSUME NEW q \in Paths PROVE RowOK(q)'
  BY ConstantFacts DEF TypeInv, TypeOK, IInv, RowOK, Active, Present, Tombstone
<1>2. StatsOK'
  BY ConstantFacts DEF TypeInv, RunOK, IInv, StatsOK, Present, Tombstone
<1>3. ASSUME NEW j \in Indexers PROVE Fetched(j)'
  BY DEF Candidates, IInv, OneIndexer, Fetched, Tombstone
<1>4. ASSUME NEW j \in Indexers PROVE InHand(j)'
  BY DEF OneIndexer, InHand, Tombstone
<1>5. ASSUME NEW j \in Indexers PROVE Done(j)'
  BY DEF OneIndexer, Done, Tombstone
<1> QED BY <1>1, <1>2, <1>3, <1>4, <1>5 DEF IInv

LEMMA DeletedKept ==
    ASSUME OneIndexer, TypeInv, IInv, NEW i \in Indexers,
           Deleted(i)
    PROVE  IInv'
<1>1. ASSUME NEW q \in Paths PROVE RowOK(q)'
  BY ConstantFacts DEF db, IInv, RowOK, Present, Deleted
<1>2. StatsOK'
  BY ConstantFacts DEF db, IInv, StatsOK, Present, Deleted
<1>3. ASSUME NEW j \in Indexers PROVE Fetched(j)'
  BY DEF TypeInv, TypeOK, db, IInv, OneIndexer, Fetched, Deleted, Goto
<1>4. ASSUME NEW j \in Indexers PROVE InHand(j)'
  BY DEF OneIndexer, InHand, Deleted, Goto
<1>5. ASSUME NEW j \in Indexers PROVE Done(j)'
  BY DEF TypeInv, TypeOK, Candidates, OneIndexer, Done, Deleted
<1> QED BY <1>1, <1>2, <1>3, <1>4, <1>5 DEF IInv

LEMMA SkipFreshKept ==
    ASSUME OneIndexer, TypeInv, IInv, NEW i \in Indexers,
           \E p \in Paths : SkipFresh(i, p)
    PROVE  IInv'
<1>1. ASSUME NEW q \in Paths PROVE RowOK(q)'
  BY ConstantFacts DEF db, IInv, RowOK, Present, SkipFresh
<1>2. StatsOK'
  BY ConstantFacts DEF db, IInv, StatsOK, Present, SkipFresh
<1>3. ASSUME NEW j \in Indexers PROVE Fetched(j)'
  BY DEF db, IInv, OneIndexer, Fetched, SkipFresh
<1>4. ASSUME NEW j \in Indexers PROVE InHand(j)'
  BY DEF OneIndexer, InHand, SkipFresh
<1>5. ASSUME NEW j \in Indexers PROVE Done(j)'
  BY DEF Candidates, db, IInv, Fetched, Done, Covered, SkipFresh, StatFresh
<1> QED BY <1>1, <1>2, <1>3, <1>4, <1>5 DEF IInv

LEMMA ReadKept ==
    ASSUME OneIndexer, TypeInv, IInv, NEW i \in Indexers,
           \E p \in Paths : Read(i, p)
    PROVE  IInv'
<1>1. ASSUME NEW q \in Paths PROVE RowOK(q)'
  BY ConstantFacts DEF db, IInv, RowOK, Present, Read, ReadBytes
<1>2. StatsOK'
  BY ConstantFacts DEF db, IInv, StatsOK, Present, Read, ReadBytes
<1>3. ASSUME NEW j \in Indexers PROVE Fetched(j)'
  BY DEF db, IInv, OneIndexer, Fetched, Read, ReadBytes, Goto
<1>4. ASSUME NEW j \in Indexers PROVE InHand(j)'
  BY DEF TypeInv, TypeOK, db, IInv, Fetched, InHand, Present, Read, ReadBytes,
     Goto
<1>5. ASSUME NEW j \in Indexers PROVE Done(j)'
  BY DEF TypeInv, TypeOK, Candidates, db, IInv, Done, Covered, Read, ReadBytes,
     Goto
<1> QED BY <1>1, <1>2, <1>3, <1>4, <1>5 DEF IInv

LEMMA ReadFailsKept ==
    ASSUME OneIndexer, TypeInv, IInv, NEW i \in Indexers,
           \E p \in Paths : ReadBytes(i, p, Unreadable)
    PROVE  IInv'
<1>1. ASSUME NEW q \in Paths PROVE RowOK(q)'
  BY ConstantFacts DEF db, IInv, RowOK, Present, ReadBytes
<1>2. StatsOK'
  BY ConstantFacts DEF db, IInv, StatsOK, Present, ReadBytes
<1>3. ASSUME NEW j \in Indexers PROVE Fetched(j)'
  BY DEF db, IInv, OneIndexer, Fetched, ReadBytes, Goto
<1>4. ASSUME NEW j \in Indexers PROVE InHand(j)'
  BY DEF TypeInv, TypeOK, db, IInv, Fetched, InHand, Present, ReadBytes, Goto
<1>5. ASSUME NEW j \in Indexers PROVE Done(j)'
  BY DEF TypeInv, TypeOK, Candidates, db, IInv, Done, Covered, ReadBytes, Goto
<1> QED BY <1>1, <1>2, <1>3, <1>4, <1>5 DEF IInv

(* A transaction on the current candidate: the row it writes has the stat  *)
(* of the candidate, and unless it records a failure it has the hash of    *)
(* the bytes at hand, from which the derived rows are made.                *)
LEMMA StoreKept ==
    ASSUME OneIndexer, TypeInv, IInv, NEW i \in Indexers, Store(i),
           NEW r \in Row, rows' = [rows EXCEPT ![cur[i]] = r],
           r.stat = cand[i][cur[i]], ~r.deleted,
           \A q \in Paths \ {cur[i]} : derived'[q] = derived[q],
           ErrorSkippable(r) =>
              /\ buf[i] # Unreadable /\ r.hash = buf[i] /\ r.parser = parser[i]
              /\ derived'[cur[i]] = <<r.hash, r.parser>>,
           ~errors'[i] => ~errors[i] /\ ErrorSkippable(r)
    PROVE  IInv'
<1> DEFINE p == cur[i]
<1>1. p \in Candidates(i) /\ p \notin left[i] /\ pc[i] = "store"
  BY DEF TypeInv, RunOK, IInv, InHand, Store
<1>2. p \in Paths /\ cand[i][p] # NoStat
  BY <1>1 DEF Candidates
<1>3. /\ r # NoRow /\ rows'[p] = r
      /\ \A q \in Paths \ {p} : rows'[q] = rows[q]
  BY <1>2, RowWrite, ConstantFacts DEF TypeInv
<1>4. UNCHANGED <<vault, saves, installed, cand, snap, left, parser>>
  BY DEF Store
<1>5. ASSUME NEW q \in Paths PROVE RowOK(q)'
  <2>1. CASE q = p
    <3>1. rows'[q] = r /\ r # NoRow /\ ~r.deleted
      BY <1>3, <2>1
    <3>2. ErrorSkippable(r) => derived'[q] = <<r.hash, r.parser>>
      BY <2>1
    <3>3. ErrorSkippable(r) /\ Present(q) /\ r.stat = vault[q].stat
             => r.hash = vault[q].content
      BY <1>1, <2>1 DEF IInv, InHand
    <3> QED BY <1>4, <3>1, <3>2, <3>3 DEF RowOK, Active, Present, ErrorSkippable
  <2>2. CASE q # p
    BY <1>3, <1>4, <2>2 DEF IInv, RowOK, Active, Present, ErrorSkippable
  <2> QED BY <2>1, <2>2
<1>6. StatsOK'
  BY <1>2, <1>3, <1>4 DEF IInv, StatsOK, Present
<1>7. ASSUME NEW j \in Indexers PROVE Fetched(j)'
  <2>1. j = i /\ pc'[i] = "process"
    BY DEF OneIndexer, Store, Goto, TypeInv, TypeOK
  <2> QED BY <1>1, <1>3, <1>4, <2>1 DEF IInv, Fetched, TypeInv, TypeOK
<1>8. ASSUME NEW j \in Indexers PROVE InHand(j)' /\ Done(j)'
  <2>1. j = i /\ pc'[i] = "process"
    BY DEF OneIndexer, Store, Goto, TypeInv, TypeOK
  <2>2. InHand(j)'
    BY <2>1 DEF InHand
  <2>3. ASSUME ~errors'[i], NEW q \in Candidates(i) \ left[i]
        PROVE  Covered(i, q)'
    <3>1. CASE q = p
      BY <1>3, <1>4, <2>3, <3>1 DEF Covered, Active, ErrorSkippable
    <3>2. CASE q # p
      <4>1. Covered(i, q)
        BY <1>1, <2>3, <3>2 DEF IInv, Done
      <4>2. q \in Paths
        BY <2>3 DEF Candidates
      <4> QED BY <1>3, <1>4, <3>2, <4>1, <4>2 DEF Covered, Active,
                 ErrorSkippable
    <3> QED BY <3>1, <3>2
  <2>4. Done(j)'
    BY <1>4, <2>1, <2>3 DEF Done, Candidates
  <2> QED BY <2>2, <2>4
<1> QED BY <1>5, <1>6, <1>7, <1>8 DEF IInv

LEMMA UpdateMetadataKept ==
    ASSUME OneIndexer, TypeInv, IInv, NEW i \in Indexers, UpdateMetadata(i)
    PROVE  IInv'
<1> DEFINE p == cur[i]
           r == [rows[p] EXCEPT !.stat = cand[i][p], !.deleted = FALSE]
<1>1. p \in Paths /\ cand[i][p] \in Stats /\ Store(i) /\ pc[i] = "store"
  BY StoreFacts DEF UpdateMetadata, Store
<1>2. rows[p] = snap[i][p] /\ Active(rows[p]) /\ ErrorSkippable(rows[p])
      /\ rows[p].hash = buf[i] /\ rows[p].parser = parser[i] /\ buf[i] # Unreadable
  BY <1>1 DEF UpdateMetadata, Unchanged, IInv, InHand
<1>3. rows[p] \in Row
  BY <1>1, <1>2 DEF Active, TypeInv, TypeOK
<1>4. /\ r \in Row /\ r.stat = cand[i][p] /\ ~r.deleted
      /\ r.hash = buf[i] /\ r.parser = parser[i] /\ ErrorSkippable(r)
  BY <1>1, <1>2, <1>3 DEF Row, ErrorSkippable
<1>5. rows' = [rows EXCEPT ![p] = r]
  BY <1>1, <1>3 DEF UpdateMetadata, Row, TypeInv, TypeOK
<1>6. derived'[p] = <<r.hash, r.parser>>
  BY <1>1, <1>2, <1>4 DEF UpdateMetadata, IInv, RowOK
<1> HIDE DEF r
<1> QED BY <1>1, <1>2, <1>4, <1>5, <1>6, StoreKept DEF UpdateMetadata

LEMMA RecordFailureKept ==
    ASSUME OneIndexer, TypeInv, IInv, NEW i \in Indexers,
           \E h \in Contents \cup {NoHash} : RecordFailure(i, h)
    PROVE  IInv'
<1>1. PICK h \in Contents \cup {NoHash} : RecordFailure(i, h)
  OBVIOUS
<1>2. Store(i) /\ pc[i] = "store"
  BY <1>1 DEF RecordFailure, Store
<1>3. PICK r \in Row : /\ rows' = [rows EXCEPT ![cur[i]] = r]
                       /\ r.stat = cand[i][cur[i]] /\ ~r.deleted
                       /\ r.error = "failure"
  BY <1>1, <1>2, UpsertTyped DEF RecordFailure
<1>4. errors'[i] /\ derived' = derived
  BY <1>1 DEF RecordFailure, TypeInv, TypeOK
<1> QED BY <1>2, <1>3, <1>4, StoreKept DEF ErrorSkippable

LEMMA ReplaceKept ==
    ASSUME OneIndexer, TypeInv, IInv, NEW i \in Indexers, Replace(i)
    PROVE  IInv'
<1>1. Store(i) /\ pc[i] = "store" /\ buf[i] \in Contents /\ buf[i] # Unreadable
  BY DEF Replace, Store, TypeInv, TypeOK
<1>2. PICK r \in Row : /\ rows' = [rows EXCEPT ![cur[i]] = r]
                       /\ r.stat = cand[i][cur[i]] /\ ~r.deleted
                       /\ r.hash = buf[i] /\ r.parser = parser[i]
                       /\ r.error # "failure"
  BY <1>1, UpsertTyped DEF Replace
<1>3. cur[i] \in Paths
  BY <1>1, StoreFacts
<1>4. derived' = [derived EXCEPT ![cur[i]] = <<buf[i], parser[i]>>]
      /\ (~errors'[i] => ~errors[i])
  BY DEF Replace, TypeInv, TypeOK
<1>5. derived'[cur[i]] = <<buf[i], parser[i]>>
      /\ \A q \in Paths \ {cur[i]} : derived'[q] = derived[q]
  BY <1>3, <1>4 DEF TypeInv, TypeOK
<1> QED BY <1>1, <1>2, <1>4, <1>5, StoreKept DEF ErrorSkippable

LEMMA RaiseKept ==
    ASSUME OneIndexer, TypeInv, IInv, NEW i \in Indexers,
           Raise(i)
    PROVE  IInv'
<1>1. ASSUME NEW q \in Paths PROVE RowOK(q)'
  BY ConstantFacts DEF db, IInv, RowOK, Present, Raise
<1>2. StatsOK'
  BY ConstantFacts DEF db, IInv, StatsOK, Present, Raise
<1>3. ASSUME NEW j \in Indexers PROVE Fetched(j)'
  BY DEF Candidates, db, IInv, Fetched, Raise, Goto
<1>4. ASSUME NEW j \in Indexers PROVE InHand(j)'
  BY DEF db, IInv, InHand, Present, Raise, Goto
<1>5. ASSUME NEW j \in Indexers PROVE Done(j)'
  BY DEF Candidates, db, IInv, Done, Covered, Raise, Goto
<1> QED BY <1>1, <1>2, <1>3, <1>4, <1>5 DEF IInv

LEMMA EndKept ==
    ASSUME OneIndexer, TypeInv, IInv, NEW i \in Indexers,
           \E r \in Statuses : End(i, r)
    PROVE  IInv'
<1>1. ASSUME NEW q \in Paths PROVE RowOK(q)'
  BY ConstantFacts DEF db, IInv, RowOK, Present, End
<1>2. StatsOK'
  BY ConstantFacts DEF db, IInv, StatsOK, Present, End, NoCandidates
<1>3. ASSUME NEW j \in Indexers PROVE Fetched(j)'
  BY DEF TypeInv, TypeOK, OneIndexer, Fetched, End, Goto
<1>4. ASSUME NEW j \in Indexers PROVE InHand(j)'
  BY DEF TypeInv, TypeOK, OneIndexer, InHand, End, Goto
<1>5. ASSUME NEW j \in Indexers PROVE Done(j)'
  BY DEF TypeInv, TypeOK, OneIndexer, Done, End, Goto
<1> QED BY <1>1, <1>2, <1>3, <1>4, <1>5 DEF IInv

LEMMA UserKept ==
    ASSUME TypeInv, IInv, User
    PROVE  IInv'
<1>1. ASSUME NEW p \in Paths, NEW c \in Contents, Save(p, c) PROVE IInv'
  <2>1. /\ saves \in Nat /\ saves' = saves + 1
        /\ vault'[p].stat = saves' /\ Present(p)'
        /\ \A q \in Paths \ {p} : vault'[q] = vault[q]
        /\ UNCHANGED <<db, locals>>
    BY <1>1, ConstantFacts DEF Save, Present, File, Stats, TypeInv, TypeOK
  <2>2. StatsOK'
    <3>1. ASSUME NEW q \in Paths, Present(q)' PROVE vault'[q].stat <= saves'
      <4>1. CASE q = p
        BY <2>1, <4>1
      <4>2. CASE q # p
        <5>1. vault[q] \in File /\ vault[q].stat <= saves
          BY <2>1, <3>1, <4>2 DEF IInv, StatsOK, Present, TypeInv, TypeOK
        <5> QED BY <2>1, <4>2, <5>1 DEF File, Stats
      <4> QED BY <4>1, <4>2
    <3>2. ASSUME NEW q \in Paths,
           (rows[q] # NoRow)' PROVE rows'[q].stat <= saves'
      <4>1. rows[q] \in Row /\ rows[q].stat <= saves
        BY <2>1, <3>2 DEF db, IInv, StatsOK, TypeInv, TypeOK
      <4> QED BY <2>1, <4>1 DEF db, Row, Stats
    <3>3. ASSUME NEW q \in Paths, NEW i \in Indexers, (cand[i][q] # NoStat)'
          PROVE  cand'[i][q] <= saves'
      <4>1. cand[i][q] \in Stats /\ cand[i][q] <= saves
        BY <2>1, <3>3 DEF locals, IInv, StatsOK, TypeInv, TypeOK
      <4> QED BY <2>1, <4>1 DEF locals, Stats
    <3> QED BY <3>1, <3>2, <3>3 DEF StatsOK
  <2>3. ASSUME NEW q \in Paths PROVE RowOK(q)'
    <3>1. CASE q = p
      <4>1. Active(rows[q]) => rows[q].stat \in Nat /\ rows[q].stat <= saves
        BY DEF Active, IInv, StatsOK, TypeInv, TypeOK, Row, Stats
      <4>2. (Active(rows[q]) => rows[q].stat # vault[q].stat)'
        BY <2>1, <3>1, <4>1 DEF Active, db
      <4> QED BY <2>1, <4>2 DEF db, IInv, RowOK, Active, ErrorSkippable
    <3>2. CASE q # p
      BY <2>1, <3>2 DEF db, IInv, RowOK, Active, ErrorSkippable, Present
    <3> QED BY <3>1, <3>2
  <2>4. ASSUME NEW j \in Indexers PROVE InHand(j)'
    <3>1. CASE pc[j] = "store" /\ cur[j] = p
      <4>1. cand[j][p] \in Stats /\ cand[j][p] <= saves
        BY <3>1 DEF TypeInv, TypeOK, RunOK, Candidates, IInv, StatsOK
      <4>2. vault'[p].stat # cand[j][p]
        BY <2>1, <4>1 DEF Stats
      <4> QED BY <2>1, <3>1, <4>2 DEF db, locals, IInv, InHand
    <3>2. CASE pc[j] = "store" /\ cur[j] # p
      <4>1. cur[j] \in Paths
        BY <3>2, StoreFacts
      <4> QED BY <2>1, <3>2, <4>1 DEF db, locals, IInv, InHand, Present
    <3> QED BY <2>1, <3>1, <3>2 DEF locals, InHand
  <2>5. ASSUME NEW j \in Indexers PROVE Fetched(j)' /\ Done(j)'
    BY <2>1 DEF db, locals, IInv, Fetched, Done, Covered, Candidates
  <2> QED BY <2>2, <2>3, <2>4, <2>5 DEF IInv
<1>2. ASSUME NEW p \in Paths, Delete(p) PROVE IInv'
  <2>1. /\ UNCHANGED <<saves, db, locals>>
        /\ \A q \in Paths : Present(q)' => Present(q) /\ vault'[q] = vault[q]
    BY <1>2 DEF Delete, Present, TypeInv, TypeOK
  <2>2. StatsOK'
    BY <2>1 DEF db, locals, IInv, StatsOK
  <2>3. ASSUME NEW q \in Paths PROVE RowOK(q)'
    BY <2>1 DEF db, IInv, RowOK
  <2>4. ASSUME NEW j \in Indexers PROVE Fetched(j)' /\ InHand(j)' /\ Done(j)'
    <3>1. pc[j] = "store" => cur[j] \in Paths
      BY StoreFacts
    <3> QED BY <2>1, <3>1 DEF db, locals, IInv, Fetched, InHand, Done, Covered,
               Candidates
  <2> QED BY <2>2, <2>3, <2>4 DEF IInv
<1>3. CASE Upgrade
  BY <1>3 DEF Upgrade, db, locals, IInv, RowOK, StatsOK, Fetched, InHand, Done,
     Covered, Candidates, Present
<1> QED BY <1>1, <1>2, <1>3 DEF User

LEMMA ProgressKept ==
    ASSUME OneIndexer, TypeInv, IInv, NEW i \in Indexers, Progress(i)
    PROVE  IInv'
<1>1. CASE List(i)
  BY <1>1, ListedKept DEF List
<1>2. CASE \E p \in Paths :
              Stat(i, p) \/ Tombstone(i, p) \/ SkipFresh(i, p) \/ Read(i, p)
  BY <1>2, StatKept, TombstoneKept, SkipFreshKept, ReadKept
<1>3. CASE Fetch(i) \/ Deleted(i) \/ UpdateMetadata(i) \/ Replace(i)
  BY <1>3, FetchKept, DeletedKept, UpdateMetadataKept, ReplaceKept
<1>4. CASE ReadFailed(i)
  <2>1. cur[i] \in Paths
    BY <1>4, StoreFacts DEF ReadFailed, RecordFailure, Store
  <2>2. (IF snap[i][cur[i]] = NoRow THEN NoHash ELSE snap[i][cur[i]].hash)
           \in Contents \cup {NoHash}
    BY <2>1 DEF TypeInv, TypeOK, Row
  <2> QED BY <1>4, <2>2, RecordFailureKept DEF ReadFailed
<1>5. CASE ParseFailed(i)
  <2>1. buf[i] \in Contents \cup {NoHash}
    BY <1>5 DEF ParseFailed, TypeInv, TypeOK
  <2> QED BY <1>5, <2>1, RecordFailureKept DEF ParseFailed
<1>6. CASE ReplaceClashes(i)
  BY <1>6, RaiseKept DEF ReplaceClashes
<1>7. CASE Finish(i)
  <2>1. (IF errors[i] THEN "success_with_errors" ELSE "success") \in Statuses
    BY DEF Statuses
  <2> QED BY <1>7, <2>1, EndKept DEF Finish
<1>8. CASE FinishFailed(i)
  BY <1>8, EndKept DEF FinishFailed, Statuses
<1> QED BY <1>1, <1>2, <1>3, <1>4, <1>5, <1>6, <1>7, <1>8 DEF Progress

LEMMA FailureKept ==
    ASSUME OneIndexer, TypeInv, IInv, NEW i \in Indexers, Failure(i)
    PROVE  IInv'
<1>1. runs[i] \in Statuses
  BY DEF TypeInv, TypeOK
<1>2. CASE StepFails(i)
  BY <1>2, RaiseKept DEF StepFails
<1>3. CASE DiagnosticsFail(i) \/ FetchFails(i) \/ Kill(i)
  BY <1>1, <1>3, EndKept DEF DiagnosticsFail, FetchFails, Kill
<1>4. CASE \E found \in SUBSET {p \in Paths : Present(p)} : ListPartly(i, found)
  BY <1>4, ListedKept DEF ListPartly
<1>5. CASE \E p \in Paths : ReadFails(i, p)
  BY <1>5, ReadFailsKept DEF ReadFails
<1> QED BY <1>2, <1>3, <1>4, <1>5 DEF Failure

LEMMA InitKept == Init => IInv
  BY ConstantFacts DEF Init, IInv, RowOK, StatsOK, Fetched, InHand, Done,
     Active, Present, NoRows, NoCandidates

LEMMA StepKept == OneIndexer /\ TypeInv /\ IInv /\ [Next]_vars => IInv'
<1> SUFFICES ASSUME OneIndexer, TypeInv, IInv, [Next]_vars PROVE IInv'
  OBVIOUS
<1>1. ASSUME NEW i \in Indexers, Request(i) PROVE IInv'
  BY <1>1, StartKept DEF Request
<1>2. ASSUME NEW i \in Indexers, Progress(i) PROVE IInv'
  BY <1>2, ProgressKept
<1>3. ASSUME NEW i \in Indexers, Failure(i) PROVE IInv'
  BY <1>3, FailureKept
<1>4. CASE User
  BY <1>4, UserKept
<1>5. CASE UNCHANGED vars
  BY <1>5 DEF vars, IInv, RowOK, StatsOK, Fetched, InHand, Done, Covered,
     Candidates, Present
<1> QED BY <1>1, <1>2, <1>3, <1>4, <1>5 DEF Next

LEMMA IndexInvariant == ASSUME OneIndexer PROVE Spec => [](TypeInv /\ IInv)
  BY InitTyped, StepTyped, InitKept, StepKept, PTL DEF Spec

----------------------------------------------------------------------------

(* While one run_index runs at a time, whatever notes are saved or deleted *)
(* and whatever fails meanwhile, a file that incremental runs skip by its  *)
(* stat is one whose derived rows were made from its present content.      *)
THEOREM SkippedFilesCurrent ==
    ASSUME OneIndexer PROVE Spec => []SkippedFilesAreCurrent
<1>1. TypeInv /\ IInv => SkippedFilesAreCurrent
  BY DEF IInv, RowOK, SkippedFilesAreCurrent, Active
<1> QED BY <1>1, IndexInvariant, PTL

(* ... and a status that counts nothing means that search answers from the *)
(* vault as it is.                                                         *)
THEOREM CleanStatusTrue ==
    ASSUME OneIndexer PROVE Spec => []CleanStatusIsTrue
<1>1. TypeInv /\ IInv => CleanStatusIsTrue
  <2> SUFFICES ASSUME IInv, NEW p \in Paths,
                      Unindexed \cup DeletedIndexed \cup Changed \cup Drift
                        \cup WithErrors = {}
               PROVE  derived[p] = IF Present(p)
                                   THEN <<vault[p].content, installed>>
                                   ELSE Nothing
    BY DEF CleanStatusIsTrue
  <2>1. CASE Present(p)
    <3>1. Active(rows[p]) /\ rows[p].stat = vault[p].stat
          /\ rows[p].parser = installed /\ rows[p].error = "none"
      BY <2>1 DEF Unindexed, Changed, Drift, WithErrors
    <3> QED BY <2>1, <3>1 DEF IInv, RowOK, ErrorSkippable
  <2>2. CASE ~Present(p)
    <3>1. ~Active(rows[p])
      BY <2>2 DEF DeletedIndexed
    <3> QED BY <2>2, <3>1 DEF IInv, RowOK, Active
  <2> QED BY <2>1, <2>2
<1> QED BY <1>1, IndexInvariant, PTL

(* ... and a run that reports success has indexed every file it saw.       *)
THEOREM SuccessCovers ==
    ASSUME OneIndexer PROVE Spec => SuccessCoversCandidates
<1> DEFINE Covers ==
      \A i \in Indexers :
          pc[i] = "process" /\ pc'[i] = "idle" /\ runs'[i] = "success" =>
              \A p \in Candidates(i) :
                  /\ Active(rows[p])
                  /\ rows[p].stat = cand[i][p]
                  /\ derived[p] = <<rows[p].hash, parser[i]>>
<1>1. TypeInv /\ IInv /\ [Next]_vars => [Covers]_vars
  <2> SUFFICES ASSUME TypeInv, IInv, Next, NEW i \in Indexers,
                      pc[i] = "process", pc'[i] = "idle", runs'[i] = "success",
                      NEW p \in Candidates(i)
               PROVE  /\ Active(rows[p])
                      /\ rows[p].stat = cand[i][p]
                      /\ derived[p] = <<rows[p].hash, parser[i]>>
    OBVIOUS
  <2>1. left[i] = {} /\ ~errors[i]
    <3>1. runs[i] = "running" /\ pc \in [Indexers -> Steps]
      BY DEF TypeInv, TypeOK, RunOK
    <3>2. PICK j \in Indexers : Request(j) \/ Progress(j) \/ Failure(j)
      BY <3>1 DEF Next, User, Save, Delete, Upgrade, locals
    <3>3. j = i
      BY DEF OneIndexer
    <3>4. ~Request(i)
      BY DEF Request, Start
    <3>5. ~Failure(i)
      BY <3>1 DEF Failure, StepFails, DiagnosticsFail, FetchFails, ListPartly,
         Listed, ReadFails, ReadBytes, Kill, End, Raise, TypeInv, TypeOK
    <3>6. Finish(i)
      BY <3>1, <3>2, <3>3, <3>4, <3>5 DEF Progress, List, Listed, Stat,
         Tombstone, SkipFresh, Read, ReadBytes, Fetch, Deleted, UpdateMetadata,
         ReadFailed, ParseFailed, RecordFailure, Replace, Store,
         ReplaceClashes, FinishFailed
    <3> QED BY <3>6 DEF Finish, End, TypeInv, TypeOK
  <2>2. Covered(i, p)
    BY <2>1 DEF IInv, Done
  <2>3. p \in Paths
    BY DEF Candidates
  <2> QED BY <2>2, <2>3 DEF Covered, IInv, RowOK
<1>2. Spec => [][Covers]_vars
  BY <1>1, IndexInvariant, PTL DEF Spec
<1> QED BY <1>2 DEF SuccessCoversCandidates

=============================================================================
