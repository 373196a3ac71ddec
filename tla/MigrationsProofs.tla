-------------------------- MODULE MigrationsProofs --------------------------
(***************************************************************************)
(* Proofs about Migrations, for any number of programs and interruptions.  *)
(***************************************************************************)
EXTENDS Migrations, FiniteSetTheorems, SequenceTheorems, TLAPS

(* A revision that is executed is one Script knows, and has its table.     *)
ScriptOK(p) ==
    pc[p] \in {"execute", "record"} =>
        /\ versioned
        /\ heads[p] \in (IF p = Alembic THEN {{"001"}, {"002"}}
                                        ELSE {{}, {"001"}})

TypeInv == TypeOK /\ \A p \in All : ScriptOK(p)

(* Where programs can be while the database is at the head.                *)
Looking == {"idle", "detect", "count versioned", "compare", "upgrade",
            "remember"}

Turns ==
    /\ \A p, q \in All :
          p # q /\ pc[p] # "idle" /\ pc[q] # "idle" =>
              Finished /\ pc[Alembic] = "idle"
    /\ Finished /\ pc[Alembic] = "idle" => \A p \in Programs : pc[p] \in Looking

(* What the statements executed so far have made of the tables.            *)
ExecutedOK(p) ==
    pc[p] \in {"execute", "record"} =>
        /\ revisions = heads[p]
        /\ pc[p] = "record" => line[p] = Len(Script(p)) + 1
        /\ heads[p] = {} =>
              \A k \in DOMAIN InitialUpgrade :
                  k < line[p] /\ InitialUpgrade[k].op = "create table" =>
                      InitialUpgrade[k].arg \in tables
        /\ heads[p] = {"001"} =>
              /\ vouched[p] => HeadRequired \subseteq tables
              /\ \A k \in DOMAIN RemoveProposals :
                    k < line[p] => RemoveProposals[k].arg \notin tables

ProgramOK(p) ==
    /\ pc[p] = "count" => revisions = {}
    /\ pc[p] \in {"revision", "stamp", "unstamp"} => ~SchemaMatchesHead
    /\ pc[p] = "unstamp" => heads[p] = revisions
    /\ pc[p] = "upgrade" /\ revisions = {HeadRevision} => Finished
    /\ pc[p] = "remember" /\ vouched[p] => Finished
    /\ ExecutedOK(p)
    /\ memo[p] => pc[p] = "idle"
    /\ memo[p] /\ vouched[p] => Finished /\ pc[Alembic] = "idle"

AlembicOK ==
    /\ pc[Alembic] \in {"idle", "execute", "record"}
    /\ pc[Alembic] # "idle" => revisions = heads[Alembic]

MigInv ==
    /\ TypeInv /\ Supported /\ Turns /\ AlembicOK
    /\ \A p \in Programs : ProgramOK(p)

----------------------------------------------------------------------------
(* The two revisions.                                                      *)

LEMMA Concatenation ==
    ASSUME NEW S, NEW m \in Nat, NEW n \in Nat,
           NEW s, s \in [1..m -> S], NEW t, t \in [1..n -> S]
    PROVE  s \o t \in [1..(m + n) -> S]
<1>1. s \in Seq(S) /\ t \in Seq(S) /\ Len(s) = m /\ Len(t) = n
  OBVIOUS
<1>2. s \o t \in Seq(S) /\ Len(s \o t) = m + n
  BY <1>1
<1> QED BY <1>2, LenProperties

LEMMA Elements ==
    ASSUME NEW S, NEW m \in Nat, NEW n \in Nat,
           NEW s, s \in [1..m -> S], NEW t, t \in [1..n -> S]
    PROVE  /\ \A k \in 1..m : (s \o t)[k] = s[k]
           /\ \A k \in 1..n : (s \o t)[k + m] = t[k]
<1>1. s \in Seq(S) /\ t \in Seq(S) /\ Len(s) = m /\ Len(t) = n
  OBVIOUS
<1> QED BY <1>1

TableNames ==
    {"index_runs", "files", "sections", "blocks", "wikilinks", "index_errors",
     "proposals", "proposal_events", "proposal_changesets",
     "proposal_changeset_members", "proposal_changeset_events",
     "write_audit", "blocks_fts"}

LEMMA NameLists ==
    /\ CoreTables \in [1..6 -> TableNames]
    /\ ProposalTables \in [1..5 -> TableNames]
    /\ OtherTables \in [1..2 -> TableNames]
  BY DEF CoreTables, ProposalTables, OtherTables, TableNames

LEMMA InitialList ==
    /\ InitialTables \in [1..13 -> TableNames]
    /\ \A k \in 1..6 : InitialTables[k] = CoreTables[k]
    /\ \A k \in 1..5 : InitialTables[k + 6] = ProposalTables[k]
    /\ \A k \in 1..2 : InitialTables[k + 11] = OtherTables[k]
<1> DEFINE C == CoreTables \o ProposalTables
           six == 6
           five == 5
           eleven == 11
           two == 2
<1>1. InitialTables = C \o OtherTables
  BY DEF InitialTables
<1>2. C \in [1..(6 + 5) -> TableNames]
  BY Concatenation, NameLists
<1>3. /\ six \in Nat /\ five \in Nat /\ eleven \in Nat /\ two \in Nat
      /\ CoreTables \in [1..six -> TableNames]
      /\ ProposalTables \in [1..five -> TableNames]
      /\ C \in [1..eleven -> TableNames]
      /\ OtherTables \in [1..two -> TableNames]
  BY <1>2, NameLists
<1> HIDE DEF six, five, eleven, two
<1>4. /\ \A k \in 1..six : C[k] = CoreTables[k]
      /\ \A k \in 1..five : C[k + six] = ProposalTables[k]
  <2>1. \A k \in 1..six : C[k] = CoreTables[k]
    BY <1>3, Elements
  <2>2. \A k \in 1..five : C[k + six] = ProposalTables[k]
    BY <1>3, Elements
  <2> QED BY <2>1, <2>2
<1> HIDE DEF C
<1>5. C \o OtherTables \in [1..(eleven + two) -> TableNames]
  BY <1>3, Concatenation
<1>6. /\ \A k \in 1..eleven : (C \o OtherTables)[k] = C[k]
      /\ \A k \in 1..two : (C \o OtherTables)[k + eleven] = OtherTables[k]
  BY <1>3, Elements
<1>7. InitialTables \in [1..13 -> TableNames]
  BY <1>1, <1>5 DEF eleven, two
<1>8. /\ \A k \in 1..11 : InitialTables[k] = C[k]
      /\ \A k \in 1..2 : InitialTables[k + 11] = OtherTables[k]
  BY <1>1, <1>6 DEF eleven, two
<1>9. /\ \A k \in 1..6 : C[k] = CoreTables[k]
      /\ \A k \in 1..5 : C[k + 6] = ProposalTables[k]
  BY <1>4 DEF six, five
<1>10. \A k \in 1..6 : InitialTables[k] = CoreTables[k]
  BY <1>8, <1>9
<1>11. \A k \in 1..5 : InitialTables[k + 6] = ProposalTables[k]
  BY <1>8, <1>9
<1> QED BY <1>7, <1>8, <1>10, <1>11

(* The sets the comparison is made with.                                   *)
LEMMA NameSets ==
    /\ Indexes = 1..16 /\ Len(IndexedTables) = 16
    /\ Tables = TableNames
    /\ \A t \in HeadRequired : \E k \in 1..13 : InitialTables[k] = t
    /\ \A k \in 1..5 : ProposalTables[k] \in HeadForbidden
    /\ \A t \in HeadForbidden : \E k \in 1..5 : ProposalTables[k] = t
    /\ HeadRequired \cap HeadForbidden = {}
    /\ HeadRequired \subseteq TableNames /\ HeadForbidden \subseteq TableNames
<1>1. Indexes = 1..16 /\ Len(IndexedTables) = 16
  BY DEF IndexedTables, Indexes
<1>2. DOMAIN ProposalTables = 1..5 /\ DOMAIN CoreTables = 1..6
      /\ DOMAIN InitialTables = 1..13
  BY NameLists, InitialList
<1>3. HeadForbidden = {ProposalTables[k] : k \in 1..5}
  BY <1>2 DEF HeadForbidden, ToSet
<1>4. HeadRequired = {CoreTables[k] : k \in 1..6} \cup {OtherTables[1]}
  BY <1>2 DEF HeadRequired, ToSet, OtherTables
<1>5. Tables = {InitialTables[k] : k \in 1..13}
  BY <1>2 DEF Tables, ToSet
<1>6. \A t \in HeadRequired : \E k \in 1..13 : InitialTables[k] = t
  <2>1. InitialTables[1 + 11] = OtherTables[1]
    BY InitialList
  <2> QED BY <2>1, <1>4, InitialList
<1>7. Tables = TableNames
  <2>1. \A t \in TableNames : \/ \E k \in 1..6 : CoreTables[k] = t
                              \/ \E k \in 1..5 : ProposalTables[k] = t
                              \/ \E k \in 1..2 : OtherTables[k] = t
    BY DEF TableNames, CoreTables, ProposalTables, OtherTables
  <2>2. \A t \in TableNames : \E k \in 1..13 : InitialTables[k] = t
    <3> SUFFICES ASSUME NEW t \in TableNames
                 PROVE  \E k \in 1..13 : InitialTables[k] = t
      OBVIOUS
    <3>1. CASE \E k \in 1..6 : CoreTables[k] = t
      BY <3>1, InitialList
    <3>2. CASE \E k \in 1..5 : ProposalTables[k] = t
      <4>1. PICK k \in 1..5 : ProposalTables[k] = t
        BY <3>2
      <4>2. k + 6 \in 1..13 /\ InitialTables[k + 6] = t
        BY <4>1, InitialList
      <4> QED BY <4>2
    <3>3. CASE \E k \in 1..2 : OtherTables[k] = t
      <4>1. PICK k \in 1..2 : OtherTables[k] = t
        BY <3>3
      <4>2. k + 11 \in 1..13 /\ InitialTables[k + 11] = t
        BY <4>1, InitialList
      <4> QED BY <4>2
    <3> QED BY <2>1, <3>1, <3>2, <3>3
  <2>3. \A k \in 1..13 : InitialTables[k] \in TableNames
    BY InitialList
  <2> QED BY <1>5, <2>2, <2>3
<1>8. HeadRequired \cap HeadForbidden = {}
  BY DEF HeadRequired, HeadForbidden, CoreTables, ProposalTables, ToSet
<1>9. HeadRequired \subseteq TableNames /\ HeadForbidden \subseteq TableNames
  BY <1>3, <1>4, NameLists
<1> QED BY <1>1, <1>3, <1>6, <1>7, <1>8, <1>9

(* The statements.                                                         *)
CreateTable == [op : {"create table"}, arg : TableNames]
CreateIndex == [op : {"create index"}, arg : 1..16]
DropTable == [op : {"drop table"}, arg : TableNames]
DropIndex == [op : {"drop index"}, arg : 1..16]

LEMMA InitialUpgradeFacts ==
    /\ InitialUpgrade \in [1..29 -> CreateTable \cup CreateIndex]
    /\ \A t \in HeadRequired : \E k \in 1..29 :
          InitialUpgrade[k] = [op |-> "create table", arg |-> t]
<1> DEFINE T == Statements("create table", InitialTables)
           N == [i \in Indexes |-> i]
           I == Statements("create index", N)
           S == CreateTable \cup CreateIndex
           m == 13
           n == 16
<1>1. InitialUpgrade = T \o I
  BY DEF InitialUpgrade
<1>2. T = [k \in 1..13 |-> [op |-> "create table", arg |-> InitialTables[k]]]
  BY InitialList DEF Statements
<1>3. I = [k \in 1..16 |-> [op |-> "create index", arg |-> k]]
  BY NameSets DEF Statements
<1> HIDE DEF T, I
<1>4. T \in [1..13 -> S]
  BY <1>2, InitialList DEF CreateTable
<1>5. I \in [1..16 -> S]
  BY <1>3 DEF CreateIndex
<1> HIDE DEF S
<1>6. m \in Nat /\ n \in Nat /\ T \in [1..m -> S] /\ I \in [1..n -> S]
  BY <1>4, <1>5
<1> HIDE DEF m, n
<1>7. T \o I \in [1..(m + n) -> S] /\ \A k \in 1..m : (T \o I)[k] = T[k]
  <2>1. T \o I \in [1..(m + n) -> S]
    BY <1>6, Concatenation
  <2>2. \A k \in 1..m : (T \o I)[k] = T[k]
    BY <1>6, Elements
  <2> QED BY <2>1, <2>2
<1>8. \A k \in 1..13 : InitialUpgrade[k]
                       = [op |-> "create table", arg |-> InitialTables[k]]
  BY <1>1, <1>2, <1>7 DEF m
<1>9. \A t \in HeadRequired : \E k \in 1..29 :
          InitialUpgrade[k] = [op |-> "create table", arg |-> t]
  <2> SUFFICES ASSUME NEW t \in HeadRequired
               PROVE  \E k \in 1..29 : InitialUpgrade[k]
                                       = [op |-> "create table", arg |-> t]
    OBVIOUS
  <2>1. PICK k \in 1..13 : InitialTables[k] = t
    BY NameSets
  <2>2. k \in 1..29 /\ [op |-> "create table", arg |-> InitialTables[k]]
                       = [op |-> "create table", arg |-> t]
    BY <2>1
  <2>3. InitialUpgrade[k] = [op |-> "create table", arg |-> InitialTables[k]]
    BY <1>8
  <2> QED BY <2>2, <2>3
<1> HIDE DEF InitialUpgrade
<1>10. InitialUpgrade \in [1..29 -> S]
  <2>1. m + n = 29
    BY DEF m, n
  <2> QED BY <1>1, <1>7, <2>1
<1> QED BY <1>9, <1>10 DEF S

LEMMA RemoveProposalsFacts ==
    /\ RemoveProposals \in [1..5 -> DropTable]
    /\ \A k \in 1..5 : /\ RemoveProposals[k].op = "drop table"
                       /\ RemoveProposals[k].arg \in HeadForbidden
    /\ \A t \in HeadForbidden : \E k \in 1..5 : RemoveProposals[k].arg = t
<1> DEFINE R == Reverse(ProposalTables)
<1>1. R = [k \in 1..5 |-> ProposalTables[5 - k + 1]]
  <2>1. Len(ProposalTables) = 5
    BY DEF ProposalTables
  <2> QED BY <2>1 DEF Reverse
<1>2. RemoveProposals = Statements("drop table", R)
  BY DEF RemoveProposals
<1> HIDE DEF R
<1>3. R \in [1..5 -> TableNames] /\ \A k \in 1..5 : R[k] \in HeadForbidden
  BY <1>1, NameSets
<1>4. RemoveProposals = [k \in 1..5 |-> [op |-> "drop table", arg |-> R[k]]]
  BY <1>2, <1>3 DEF Statements
<1>5. \A t \in HeadForbidden : \E k \in 1..5 : R[k] = t
  <2> SUFFICES ASSUME NEW t \in HeadForbidden PROVE \E k \in 1..5 : R[k] = t
    OBVIOUS
  <2>1. PICK j \in 1..5 : ProposalTables[j] = t
    BY NameSets
  <2>2. 6 - j \in 1..5 /\ 5 - (6 - j) + 1 = j
    OBVIOUS
  <2> QED BY <1>1, <2>1, <2>2
<1> QED BY <1>3, <1>4, <1>5 DEF DropTable

LEMMA InitialDowngradeFacts ==
    InitialDowngrade \in [1..29 -> DropIndex \cup DropTable]
<1> DEFINE A == <<"blocks_fts", "write_audit">>
           R == Reverse(ProposalTables)
           B == A \o R
           C == <<"wikilinks", "blocks", "sections", "index_errors", "files",
                  "index_runs">>
           D == B \o C
           N == [k \in Indexes |-> Len(IndexedTables) + 1 - k]
           I == Statements("drop index", N)
           T == Statements("drop table", D)
           S == DropIndex \cup DropTable
<1>1. InitialDowngrade = I \o T
  BY DEF InitialDowngrade
<1>2. A \in [1..2 -> TableNames] /\ C \in [1..6 -> TableNames]
  BY DEF TableNames
<1>3. R \in [1..5 -> TableNames]
  <2>1. Len(ProposalTables) = 5
    BY DEF ProposalTables
  <2>2. R = [k \in 1..5 |-> ProposalTables[5 - k + 1]]
    BY <2>1 DEF Reverse
  <2> QED BY <2>2, NameLists
<1>4. N = [k \in 1..16 |-> 17 - k]
  BY NameSets
<1> HIDE DEF A, R, C, N
<1>5. B \in [1..(2 + 5) -> TableNames]
  BY <1>2, <1>3, Concatenation
<1> HIDE DEF B
<1>6. D \in [1..13 -> TableNames]
  <2>1. B \in [1..7 -> TableNames]
    BY <1>5
  <2>2. D \in [1..(7 + 6) -> TableNames]
    BY <1>2, <2>1, Concatenation
  <2> HIDE DEF D
  <2> QED BY <2>2
<1> HIDE DEF D
<1>7. I = [k \in 1..16 |-> [op |-> "drop index", arg |-> 17 - k]]
  BY <1>4 DEF Statements
<1>8. T = [k \in 1..13 |-> [op |-> "drop table", arg |-> D[k]]]
  BY <1>6 DEF Statements
<1> HIDE DEF I, T
<1>9. I \in [1..16 -> S]
  <2>1. \A k \in 1..16 : 17 - k \in 1..16
    OBVIOUS
  <2>2. I \in [1..16 -> DropIndex]
    BY <1>7, <2>1 DEF DropIndex
  <2> QED BY <2>2
<1>10. T \in [1..13 -> S]
  <2>1. T \in [1..13 -> DropTable]
    BY <1>6, <1>8 DEF DropTable
  <2> QED BY <2>1
<1> HIDE DEF S
<1>11. I \o T \in [1..(16 + 13) -> S]
  BY <1>9, <1>10, Concatenation
<1>12. 16 + 13 = 29
  OBVIOUS
<1>13. InitialDowngrade \in [1..29 -> S]
  BY <1>1, <1>11, <1>12
<1> QED BY <1>13 DEF S

LEMMA RestoreProposalsFacts ==
    RestoreProposals \in [1..13 -> CreateTable \cup CreateIndex]
<1> DEFINE T == Statements("create table", ProposalTables)
           I == Statements("create index", ProposalIndexes)
           S == CreateTable \cup CreateIndex
<1>1. RestoreProposals = T \o I
  BY DEF RestoreProposals
<1>2. ProposalIndexes \in [1..8 -> 1..16]
  BY DEF ProposalIndexes
<1>3. T = [k \in 1..5 |-> [op |-> "create table", arg |-> ProposalTables[k]]]
  BY NameLists DEF Statements
<1>4. I = [k \in 1..8 |-> [op |-> "create index", arg |-> ProposalIndexes[k]]]
  BY <1>2 DEF Statements
<1> HIDE DEF T, I
<1>5. T \in [1..5 -> S]
  BY <1>3, NameLists DEF CreateTable
<1>6. I \in [1..8 -> S]
  BY <1>2, <1>4 DEF CreateIndex
<1> HIDE DEF S
<1>7. T \o I \in [1..(5 + 8) -> S]
  BY <1>5, <1>6, Concatenation
<1> QED BY <1>1, <1>7 DEF S

LEMMA LineageFacts ==
    /\ Lineage[1] = "001" /\ Lineage[2] = "002" /\ DOMAIN Lineage = {1, 2}
    /\ HeadRevision = "002" /\ ToSet(Lineage) = {"001", "002"}
  BY DEF Lineage, HeadRevision, ToSet

LEMMA AppliedFacts ==
    Applied({}) = 0 /\ Applied({"001"}) = 1 /\ Applied({"002"}) = 2
<1>1. Applied({}) = 0
  BY DEF Applied
<1>2. Applied({"001"}) = 1
  BY LineageFacts DEF Applied
<1>3. Applied({"002"}) = 2
  BY LineageFacts DEF Applied
<1> QED BY <1>1, <1>2, <1>3

LEMMA KnownRows ==
    ASSUME Supported, InLineage
    PROVE  revisions \in {{}, {"001"}, {"002"}}
<1>1. revisions \subseteq {"001", "002"}
  BY LineageFacts DEF InLineage
<1>2. "001" # "002" /\ IsFiniteSet({"001"})
  BY FS_Singleton
<1>3. Cardinality({"001", "002"}) = 2
  <2>1. Cardinality({"001"} \cup {"002"}) = Cardinality({"001"}) + 1
    BY <1>2, FS_AddElement
  <2>2. Cardinality({"001"}) = 1
    BY FS_Singleton
  <2>3. {"001"} \cup {"002"} = {"001", "002"}
    OBVIOUS
  <2> QED BY <2>1, <2>2, <2>3
<1>4. revisions # {"001", "002"}
  BY <1>3 DEF Supported
<1> QED BY <1>1, <1>4

(* The statements of the revision a program executes.                      *)
Statement == CreateTable \cup CreateIndex \cup DropTable \cup DropIndex

LEMMA ScriptFacts ==
    ASSUME NEW p \in All,
           heads[p] \in (IF p = Alembic THEN {{"001"}, {"002"}}
                                        ELSE {{}, {"001"}})
    PROVE  \E n \in 1..29 : Len(Script(p)) = n /\ Script(p) \in [1..n -> Statement]
<1>1. CASE p = Alembic /\ heads[p] = {"001"}
  <2>1. Script(p) = InitialDowngrade
    BY <1>1, AppliedFacts DEF Script, Downgrades
  <2> QED BY <2>1, InitialDowngradeFacts DEF Statement
<1>2. CASE p = Alembic /\ heads[p] = {"002"}
  <2>1. Script(p) = RestoreProposals
    BY <1>2, AppliedFacts DEF Script, Downgrades
  <2> QED BY <2>1, RestoreProposalsFacts DEF Statement
<1>3. CASE p # Alembic /\ heads[p] = {}
  <2>1. Script(p) = InitialUpgrade
    BY <1>3, AppliedFacts DEF Script, Upgrades
  <2>2. InitialUpgrade \in [1..29 -> Statement]
    BY InitialUpgradeFacts DEF Statement
  <2> QED BY <2>1, <2>2
<1>4. CASE p # Alembic /\ heads[p] = {"001"}
  <2>1. Script(p) = RemoveProposals
    BY <1>4, AppliedFacts DEF Script, Upgrades
  <2>2. RemoveProposals \in [1..5 -> Statement]
    BY RemoveProposalsFacts DEF Statement
  <2> QED BY <2>1, <2>2
<1> QED BY <1>1, <1>2, <1>3, <1>4

LEMMA Length ==
    ASSUME NEW S, NEW n \in Nat, NEW s, s \in [1..n -> S]
    PROVE  Len(s) = n /\ DOMAIN s = 1..n
  OBVIOUS

LEMMA UpgradeLengths ==
    /\ Len(InitialUpgrade) = 29 /\ DOMAIN InitialUpgrade = 1..29
    /\ Len(RemoveProposals) = 5 /\ DOMAIN RemoveProposals = 1..5
<1> DEFINE m == 29
           n == 5
<1>1. /\ m \in Nat /\ InitialUpgrade \in [1..m -> CreateTable \cup CreateIndex]
      /\ n \in Nat /\ RemoveProposals \in [1..n -> DropTable]
  BY InitialUpgradeFacts, RemoveProposalsFacts
<1> HIDE DEF m, n
<1>2. Len(InitialUpgrade) = m /\ DOMAIN InitialUpgrade = 1..m
  BY <1>1, Length
<1>3. Len(RemoveProposals) = n /\ DOMAIN RemoveProposals = 1..n
  BY <1>1, Length
<1> QED BY <1>2, <1>3 DEF m, n

LEMMA UpgradeScripts ==
    ASSUME NEW p \in Programs
    PROVE  /\ heads[p] = {} => Script(p) = InitialUpgrade /\ Target(p) = {"001"}
           /\ heads[p] = {"001"} => Script(p) = RemoveProposals /\ Target(p) = {"002"}
<1>1. p # Alembic
  BY MigrationAssumption
<1>2. CASE heads[p] = {}
  BY <1>1, <1>2, AppliedFacts, LineageFacts DEF Script, Upgrades, Target
<1>3. CASE heads[p] = {"001"}
  BY <1>1, <1>3, AppliedFacts, LineageFacts DEF Script, Upgrades, Target
<1> QED BY <1>2, <1>3

----------------------------------------------------------------------------
(* Types.                                                                  *)

Labels == {"idle", "detect", "count", "count versioned", "compare", "revision",
           "stamp", "unstamp", "upgrade", "execute", "record", "remember"}

LEMMA InitTyped == Init => TypeInv
<1> SUFFICES ASSUME Init PROVE TypeInv
  OBVIOUS
<1>1. /\ tables \subseteq Tables /\ indexes \subseteq Indexes
      /\ versioned \in BOOLEAN /\ revisions \subseteq {"001", "002", "003"}
      /\ revisions # {} => versioned
  BY LineageFacts DEF Init, Found, Database, IndexesFor, IndexesOn, Current
<1>2. Len(InitialUpgrade) = 29
  BY UpgradeLengths
<1> QED BY <1>1, <1>2, MigrationAssumption DEF Init, TypeInv, TypeOK, ScriptOK

(* A step that only moves a program, within the checks or out of the       *)
(* revision it executes.                                                   *)
LEMMA MoveTyped ==
    ASSUME TypeInv, NEW p \in All, NEW l \in Labels \ {"execute", "record"},
           Goto(p, l), UNCHANGED <<tables, indexes, line>>,
           revisions' \subseteq revisions,
           versioned' \in BOOLEAN, versioned => versioned',
           heads' \in [All -> SUBSET {"001", "002", "003"}],
           \A q \in All \ {p} : heads'[q] = heads[q],
           memo' \in [Programs -> BOOLEAN], faults' \in 0..MaxFaults,
           vouched' \in [Programs -> BOOLEAN]
    PROVE  TypeInv'
<1>1. \A q \in All : pc'[q] \in {"execute", "record"} =>
         /\ q # p /\ pc'[q] = pc[q] /\ heads'[q] = heads[q]
  BY DEF Goto, TypeInv, TypeOK
<1>2. TypeOK'
  <2>1. \A q \in All : pc'[q] = "execute" => line'[q] \in DOMAIN Script(q)'
    BY <1>1 DEF TypeInv, TypeOK, Script
  <2> QED BY <2>1 DEF TypeInv, TypeOK, Goto, Labels
<1>3. \A q \in All : ScriptOK(q)'
  BY <1>1 DEF TypeInv, ScriptOK
<1> QED BY <1>2, <1>3 DEF TypeInv

LEMMA ReadHeadsTyped ==
    ASSUME TypeInv, NEW p \in Programs, ReadHeads(p) PROVE TypeInv'
<1>1. p \in All /\ p # Alembic
  BY MigrationAssumption DEF All
<1>2. /\ heads' = [heads EXCEPT ![p] = revisions]
      /\ line' = [line EXCEPT ![p] = 1]
      /\ versioned' = (versioned \/ revisions = {})
  BY DEF ReadHeads
<1>3. PICK l \in Labels : Goto(p, l) /\ (l # "execute" \/ revisions \in {{}, {"001"}})
  BY KnownRows, LineageFacts DEF ReadHeads, Raise, Labels
<1>4. 1 \in 1..(Len(InitialUpgrade) + 1)
  BY UpgradeLengths
<1>5. /\ versioned' \in BOOLEAN /\ revisions # {} => versioned'
      /\ vouched' \in [Programs -> BOOLEAN]
  BY <1>2 DEF ReadHeads, TypeInv, TypeOK
<1>6. \A q \in All : ScriptOK(q)'
  <2> SUFFICES ASSUME NEW q \in All PROVE ScriptOK(q)'
    OBVIOUS
  <2>1. pc'[p] = l /\ heads'[p] = revisions
    BY <1>1, <1>2, <1>3 DEF TypeInv, TypeOK, Goto
  <2>2. CASE q = p
    <3>1. pc'[q] # "record"
      BY <1>1, <2>2, <2>1, KnownRows DEF ReadHeads, Raise, Goto, TypeInv, TypeOK
    <3>2. pc'[q] = "execute" => revisions \in {{}, {"001"}}
      BY <1>3, <2>1, <2>2
    <3>3. versioned' = TRUE
      BY <1>2, <1>5
    <3> QED BY <1>1, <2>1, <2>2, <3>1, <3>2, <3>3 DEF ScriptOK
  <2>3. CASE q # p
    BY <1>1, <1>2, <1>3, <1>5, <2>3 DEF TypeInv, TypeOK, ScriptOK, Goto
  <2> QED BY <2>2, <2>3
<1>7. \A q \in All : pc'[q] = "execute" => line'[q] \in DOMAIN Script(q)'
  <2> SUFFICES ASSUME NEW q \in All, pc'[q] = "execute"
               PROVE  line'[q] \in DOMAIN Script(q)'
    OBVIOUS
  <2>1. CASE q = p
    <3>1. heads'[p] \in {{}, {"001"}}
      BY <1>1, <1>6, <2>1 DEF ScriptOK
    <3>2. Script(p)' \in {InitialUpgrade, RemoveProposals}
      <4>1. Applied(heads'[p]) \in {0, 1}
        BY <3>1, AppliedFacts
      <4> QED BY <1>1, <4>1 DEF Script, Upgrades
    <3>3. line'[p] = 1
      BY <1>1, <1>2 DEF TypeInv, TypeOK
    <3> QED BY <2>1, <3>2, <3>3, UpgradeLengths
  <2>2. CASE q # p
    BY <1>1, <1>2, <1>3, <2>2 DEF TypeInv, TypeOK, Goto, Script
  <2> QED BY <2>1, <2>2
<1> QED BY <1>1, <1>2, <1>3, <1>4, <1>5, <1>6, <1>7
        DEF TypeInv, TypeOK, Goto, ReadHeads, Labels

LEMMA EffectTyped ==
    ASSUME TypeInv, NEW s \in Statement, Effect(s)
    PROVE  tables' \subseteq Tables /\ indexes' \subseteq Indexes
<1>1. tables \subseteq TableNames /\ indexes \subseteq 1..16
  BY NameSets DEF TypeInv, TypeOK
<1>2. CASE s \in CreateTable
  <2>1. s.op = "create table" /\ s.arg \in TableNames
    BY <1>2 DEF CreateTable
  <2>2. tables' = tables \cup {s.arg} /\ indexes' = indexes
    BY <2>1 DEF Effect
  <2> QED BY <1>1, <2>1, <2>2, NameSets
<1>3. CASE s \in CreateIndex
  <2>1. s.op = "create index" /\ s.arg \in 1..16
    BY <1>3 DEF CreateIndex
  <2>2. indexes' = indexes \cup {s.arg} /\ tables' = tables
    BY <2>1 DEF Effect
  <2> QED BY <1>1, <2>1, <2>2, NameSets
<1>4. CASE s \in DropTable
  BY <1>1, <1>4, NameSets DEF DropTable, Effect
<1>5. CASE s \in DropIndex
  BY <1>1, <1>5, NameSets DEF DropIndex, Effect
<1> QED BY <1>2, <1>3, <1>4, <1>5 DEF Statement

LEMMA ExecuteTyped ==
    ASSUME TypeInv, NEW p \in All, Execute(p) PROVE TypeInv'
<1> DEFINE s == Script(p)[line[p]]
<1>0. pc[p] = "execute" /\ ScriptOK(p)
  BY DEF Execute, TypeInv
<1>1. PICK n \in 1..29 : Len(Script(p)) = n /\ Script(p) \in [1..n -> Statement]
  BY <1>0, ScriptFacts DEF ScriptOK
<1>2. line[p] \in 1..n /\ s \in Statement
  BY <1>1 DEF TypeInv, TypeOK, Execute
<1>3. CASE Fails(s)
  BY <1>3, MoveTyped DEF Execute, Raise, Labels, TypeInv, TypeOK, disk
<1>4. CASE ~Fails(s)
  <2> DEFINE l == IF line[p] = Len(Script(p)) THEN "record" ELSE "execute"
  <2>1. /\ Effect(s) /\ Goto(p, l) /\ line' = [line EXCEPT ![p] = @ + 1]
        /\ UNCHANGED <<versioned, revisions, heads, memo, faults, vouched>>
    BY <1>4 DEF Execute
  <2>2. tables' \subseteq Tables /\ indexes' \subseteq Indexes
    BY <1>2, <2>1, EffectTyped
  <2>3. line' \in [All -> 1 .. Len(InitialUpgrade) + 1]
    <3>1. line[p] + 1 \in 1..30 /\ Len(InitialUpgrade) + 1 = 30
      BY <1>2, UpgradeLengths
    <3> QED BY <2>1, <3>1 DEF TypeInv, TypeOK
  <2>4. \A q \in All : pc'[q] = "execute" => line'[q] \in DOMAIN Script(q)'
    <3> SUFFICES ASSUME NEW q \in All, pc'[q] = "execute"
                 PROVE  line'[q] \in DOMAIN Script(q)'
      OBVIOUS
    <3>1. Script(q)' = Script(q)
      BY <2>1 DEF Script
    <3>2. CASE q = p
      <4>1. line'[p] = line[p] + 1 /\ line[p] # n
        BY <1>1, <2>1, <3>2 DEF TypeInv, TypeOK, Goto
      <4> QED BY <1>1, <1>2, <3>1, <3>2, <4>1
    <3>3. CASE q # p
      BY <2>1, <3>1, <3>3 DEF TypeInv, TypeOK, Goto
    <3> QED BY <3>2, <3>3
  <2>5. \A q \in All : ScriptOK(q)'
    <3> SUFFICES ASSUME NEW q \in All PROVE ScriptOK(q)'
      OBVIOUS
    <3>1. pc'[q] \in {"execute", "record"} => pc[q] \in {"execute", "record"}
      BY <1>0, <2>1 DEF TypeInv, TypeOK, Goto
    <3> QED BY <2>1, <3>1 DEF TypeInv, ScriptOK
  <2> QED BY <2>1, <2>2, <2>3, <2>4, <2>5 DEF TypeInv, TypeOK, Goto, Labels
<1> QED BY <1>3, <1>4

LEMMA OneMoreFault ==
    ASSUME TypeInv, faults < MaxFaults, faults' = faults + 1
    PROVE  faults' \in 0..MaxFaults
<1>1. faults \in 0..MaxFaults /\ MaxFaults \in Nat
  BY MigrationAssumption DEF TypeInv, TypeOK
<1> QED BY <1>1

LEMMA RecordTyped ==
    ASSUME TypeInv, NEW p \in All, Record(p) PROVE TypeInv'
<1>0. pc[p] = "record" /\ ScriptOK(p)
  BY DEF Record, TypeInv
<1>1. 1 \in 1..(Len(InitialUpgrade) + 1)
  BY UpgradeLengths
<1>2. line' = [line EXCEPT ![p] = 1]
  BY DEF Record
<1>3. line' \in [All -> 1 .. Len(InitialUpgrade) + 1]
  BY <1>1, <1>2 DEF TypeInv, TypeOK
<1>4. Target(p) \in {{}, {"001"}, {"002"}}
      /\ (p # Alembic => Target(p) \in {{"001"}, {"002"}})
  <2>1. CASE p = Alembic
    BY <1>0, <2>1, AppliedFacts, LineageFacts DEF ScriptOK, Target
  <2>2. CASE p # Alembic
    BY <1>0, <2>2, UpgradeScripts DEF ScriptOK, All
  <2> QED BY <2>1, <2>2
<1>5. \/ Goto(p, "idle") /\ revisions' = revisions /\ heads' = heads
      \/ /\ revisions' = (revisions \ heads[p]) \cup Target(p)
         /\ heads' = [heads EXCEPT ![p] = Target(p)]
         /\ \/ \E l \in {"idle", "remember"} : Goto(p, l)
            \/ p # Alembic /\ Target(p) = {"001"} /\ Goto(p, "execute")
  BY <1>4, LineageFacts DEF Record, Raise
<1>6. revisions' \subseteq {"001", "002", "003"} /\ versioned' = versioned /\ versioned
      /\ heads' \in [All -> SUBSET {"001", "002", "003"}]
  <2>1. versioned' = versioned /\ versioned
    BY <1>0 DEF Record, ScriptOK
  <2>2. revisions' \subseteq {"001", "002", "003"}
    BY <1>4, <1>5 DEF TypeInv, TypeOK
  <2>3. heads' \in [All -> SUBSET {"001", "002", "003"}]
    BY <1>4, <1>5 DEF TypeInv, TypeOK
  <2> QED BY <2>1, <2>2, <2>3
<1>7. PICK l \in {"idle", "remember", "execute"} :
          /\ Goto(p, l)
          /\ l = "execute" => p # Alembic /\ heads'[p] = {"001"}
  BY <1>5 DEF TypeInv, TypeOK
<1>8. \A q \in All \ {p} : /\ pc'[q] = pc[q] /\ heads'[q] = heads[q]
                           /\ line'[q] = line[q]
  BY <1>2, <1>5, <1>7 DEF TypeInv, TypeOK, Goto
<1>9. \A q \in All : pc'[q] = "execute" => line'[q] \in DOMAIN Script(q)'
  <2> SUFFICES ASSUME NEW q \in All, pc'[q] = "execute"
               PROVE  line'[q] \in DOMAIN Script(q)'
    OBVIOUS
  <2>1. CASE q = p
    <3>1. Script(p)' = RemoveProposals
      <4>1. p # Alembic /\ heads'[p] = {"001"}
        BY <1>7, <2>1 DEF TypeInv, TypeOK, Goto
      <4>2. Applied(heads'[p]) = 1
        BY <4>1, AppliedFacts
      <4> QED BY <4>1, <4>2 DEF Script, Upgrades
    <3>2. line'[p] = 1
      BY <1>2 DEF TypeInv, TypeOK
    <3> QED BY <2>1, <3>1, <3>2, UpgradeLengths
  <2>2. CASE q # p
    BY <1>8, <2>2 DEF TypeInv, TypeOK, Script
  <2> QED BY <2>1, <2>2
<1>10. \A q \in All : ScriptOK(q)'
  <2> SUFFICES ASSUME NEW q \in All PROVE ScriptOK(q)'
    OBVIOUS
  <2>1. CASE q = p
    <3>1. pc'[q] = l
      BY <1>7, <2>1 DEF TypeInv, TypeOK, Goto
    <3> QED BY <1>6, <1>7, <2>1, <3>1 DEF ScriptOK
  <2>2. CASE q # p
    BY <1>6, <1>8, <2>2 DEF TypeInv, ScriptOK
  <2> QED BY <2>1, <2>2
<1>11. /\ pc' \in [All -> Labels]
       /\ UNCHANGED <<tables, indexes, memo, faults, vouched>>
  BY <1>7 DEF TypeInv, TypeOK, Labels, Goto, Record
<1> QED BY <1>3, <1>6, <1>9, <1>10, <1>11 DEF TypeInv, TypeOK, Labels

LEMMA DowngradeTyped ==
    ASSUME TypeInv, Downgrade PROVE TypeInv'
<1>1. /\ Alembic \in All /\ heads'[Alembic] = revisions
      /\ revisions \in {{"001"}, {"002"}} /\ versioned
  BY KnownRows DEF Downgrade, TypeInv, TypeOK, All
<1>2. /\ heads' = [heads EXCEPT ![Alembic] = revisions]
      /\ line' = [line EXCEPT ![Alembic] = 1]
      /\ pc' = [pc EXCEPT ![Alembic] = "execute"]
      /\ \A q \in All : pc[q] = "idle"
      /\ faults' = faults + 1 /\ faults < MaxFaults
      /\ vouched' = [p \in Programs |-> FALSE]
      /\ UNCHANGED <<tables, indexes, versioned, revisions, memo>>
  BY DEF Downgrade, Goto, disk
<1>3. \A q \in All : ScriptOK(q)'
  BY <1>1, <1>2 DEF TypeInv, TypeOK, ScriptOK
<1>4. \A q \in All : pc'[q] = "execute" => line'[q] \in DOMAIN Script(q)'
  <2> SUFFICES ASSUME NEW q \in All, pc'[q] = "execute"
               PROVE  line'[q] \in DOMAIN Script(q)'
    OBVIOUS
  <2>1. q = Alembic /\ line'[q] = 1
    BY <1>1, <1>2 DEF TypeInv, TypeOK
  <2>2. PICK n \in 1..29 : Len(Script(q)') = n /\ Script(q)' \in [1..n -> Statement]
    <3>1. CASE revisions = {"001"}
      <4>1. Script(q)' = InitialDowngrade
        BY <1>1, <2>1, <3>1, AppliedFacts DEF Script, Downgrades
      <4> QED BY <4>1, InitialDowngradeFacts DEF Statement
    <3>2. CASE revisions = {"002"}
      <4>1. Script(q)' = RestoreProposals
        BY <1>1, <2>1, <3>2, AppliedFacts DEF Script, Downgrades
      <4> QED BY <4>1, RestoreProposalsFacts DEF Statement
    <3> QED BY <1>1, <3>1, <3>2
  <2> QED BY <2>1, <2>2
<1>5. 1 \in 1..(Len(InitialUpgrade) + 1)
  BY UpgradeLengths
<1>6. faults' \in 0..MaxFaults
  BY <1>2, OneMoreFault
<1> QED BY <1>1, <1>2, <1>3, <1>4, <1>5, <1>6 DEF TypeInv, TypeOK

(* The step of a program or a fault, with its kinds of moves.              *)
LEMMA NextTyped == TypeInv /\ [Next]_vars => TypeInv'
<1> SUFFICES ASSUME TypeInv, [Next]_vars PROVE TypeInv'
  OBVIOUS
<1>1. ASSUME NEW p \in Programs, Begin(p) \/ Progress(p) \/ Restart(p)
      PROVE  TypeInv'
  <2>1. p \in All
    BY DEF All
  <2> USE <2>1 DEF disk
  <2>2. CASE Begin(p)
    BY <2>2, MoveTyped DEF Begin, Labels, TypeInv, TypeOK
  <2>3. CASE Detect(p)
    BY <2>3, MoveTyped DEF Detect, Labels, TypeInv, TypeOK
  <2>4. CASE CountPending(p)
    BY <2>4, MoveTyped DEF CountPending, Raise, Labels, TypeInv, TypeOK
  <2>5. CASE Compare(p)
    BY <2>5, MoveTyped DEF Compare, Labels, TypeInv, TypeOK
  <2>6. CASE NeedsRepair(p)
    BY <2>6, MoveTyped DEF NeedsRepair, Raise, Labels, TypeInv, TypeOK
  <2>7. CASE ReadStamp(p)
    BY <2>7, MoveTyped DEF ReadStamp, Raise, Labels, TypeInv, TypeOK
  <2>8. CASE StampBase(p)
    BY <2>8, MoveTyped DEF StampBase, Raise, Labels, TypeInv, TypeOK
  <2>9. CASE ReadHeads(p)
    BY <2>9, ReadHeadsTyped
  <2>10. CASE Execute(p)
    BY <2>10, ExecuteTyped
  <2>11. CASE Record(p)
    BY <2>11, RecordTyped
  <2>12. CASE Remember(p)
    BY <2>12, MoveTyped DEF Remember, Labels, TypeInv, TypeOK
  <2>13. CASE Restart(p)
    BY <2>13 DEF Restart, TypeInv, TypeOK, ScriptOK, Script
  <2> QED BY <1>1, <2>2, <2>3, <2>4, <2>5, <2>6, <2>7, <2>8, <2>9, <2>10,
             <2>11, <2>12, <2>13 DEF Progress
<1>2. ASSUME NEW p \in All, Interrupt(p) PROVE TypeInv'
  <2>1. faults' \in 0..MaxFaults
    BY <1>2, OneMoreFault DEF Interrupt
  <2> QED BY <1>2, <2>1, MoveTyped DEF Interrupt, Raise, Labels, TypeInv, TypeOK,
             disk
<1>3. CASE Downgrade
  BY <1>3, DowngradeTyped
<1>4. CASE Execute(Alembic) \/ Record(Alembic)
  BY <1>4, ExecuteTyped, RecordTyped DEF All
<1>5. CASE UNCHANGED vars
  BY <1>5 DEF vars, disk, TypeInv, TypeOK, ScriptOK, Script
<1> QED BY <1>1, <1>2, <1>3, <1>4, <1>5 DEF Next

----------------------------------------------------------------------------
(* Migrations that do not overlap.                                         *)

LEMMA FewRows == Cardinality({}) <= 1 /\ \A r : Cardinality({r}) <= 1
  BY FS_EmptySet, FS_Singleton

LEMMA InitMig == Init => MigInv
<1> SUFFICES ASSUME Init PROVE MigInv
  OBVIOUS
<1>1. \/ revisions = {}
      \/ \E r : revisions = {r}
  BY DEF Init, Found, Database
<1>2. Supported
  BY <1>1, FewRows DEF Supported
<1>3. \A q \in All : pc[q] = "idle"
  BY DEF Init
<1>4. Turns /\ AlembicOK
  BY <1>3 DEF Turns, AlembicOK, Looking, All
<1>5. ASSUME NEW q \in Programs PROVE ProgramOK(q)
  <2>1. pc[q] = "idle" /\ memo[q] = FALSE
    BY <1>3 DEF Init, All
  <2> QED BY <2>1 DEF ProgramOK, ExecutedOK
<1> QED BY <1>2, <1>4, <1>5, InitTyped DEF MigInv

(* A step of p that leaves tables and revisions as they are.               *)
LEMMA QuietStep ==
    ASSUME MigInv, TypeInv', NEW p \in All, NEW l \in Labels, Goto(p, l),
           tables' = tables, revisions' = revisions,
           \A q \in All \ {p} : heads'[q] = heads[q] /\ line'[q] = line[q],
           \A q \in Programs \ {p} : memo'[q] = memo[q] /\ vouched'[q] = vouched[q],
           l # "idle" => /\ p # Alembic
                         /\ \/ pc[p] # "idle"
                            \/ Alone(p)
                            \/ pc[Alembic] = "idle" /\ Finished,
           p # Alembic => ProgramOK(p)' /\ (Finished => l \in Looking)
    PROVE  MigInv'
<1>1. /\ pc'[p] = l /\ \A q \in All \ {p} : pc'[q] = pc[q]
      /\ Finished' = Finished /\ SchemaMatchesHead' = SchemaMatchesHead
      /\ Alembic \in All /\ \A q \in Programs : q \in All /\ q # Alembic
  BY MigrationAssumption DEF Goto, MigInv, TypeInv, TypeOK, Finished, SchemaMatchesHead, All
<1>2. Supported'
  BY DEF MigInv, Supported
<1>3. Turns'
  <2>1. ASSUME NEW q \in All, NEW r \in All, q # r, pc'[q] # "idle", pc'[r] # "idle"
        PROVE  Finished' /\ pc'[Alembic] = "idle"
    BY <1>1, <2>1 DEF MigInv, Turns, Alone
  <2>2. ASSUME Finished', pc'[Alembic] = "idle", NEW q \in Programs
        PROVE  pc'[q] \in Looking
    BY <1>1, <2>2 DEF MigInv, Turns, Looking, Alone, All
  <2> QED BY <2>1, <2>2 DEF Turns
<1>4. AlembicOK'
  BY <1>1 DEF MigInv, AlembicOK
<1>5. ASSUME NEW q \in Programs PROVE ProgramOK(q)'
  <2>1. CASE q = p
    BY <1>1, <2>1
  <2>2. CASE q # p
    <3>1. /\ pc'[q] = pc[q] /\ heads'[q] = heads[q] /\ line'[q] = line[q]
          /\ memo'[q] = memo[q] /\ vouched'[q] = vouched[q]
      BY <1>1, <2>2
    <3>2. Script(q)' = Script(q)
      BY <3>1 DEF Script
    <3>3. pc[Alembic] = "idle" => pc'[Alembic] = "idle"
      BY <1>1
    <3>4. ProgramOK(q)
      BY DEF MigInv
    <3>5. ExecutedOK(q)'
      BY <3>1, <3>2, <3>4 DEF ProgramOK, ExecutedOK
    <3> QED BY <1>1, <3>1, <3>3, <3>4, <3>5 DEF ProgramOK
  <2> QED BY <2>1, <2>2
<1> QED BY <1>2, <1>3, <1>4, <1>5 DEF MigInv

(* A step of p that changes the database: p is alone then.                 *)
LEMMA LoneStep ==
    ASSUME MigInv, TypeInv', NEW p \in All, NEW l \in Labels, Goto(p, l),
           pc[p] # "idle", ~(Finished /\ pc[Alembic] = "idle"), Supported',
           memo' = memo, vouched' = vouched,
           p = Alembic => AlembicOK',
           p # Alembic => ProgramOK(p)' /\ (Finished' => l \in Looking)
    PROVE  MigInv'
<1>1. /\ pc'[p] = l /\ \A q \in All \ {p} : pc'[q] = pc[q]
      /\ Alembic \in All /\ \A q \in Programs : q \in All /\ q # Alembic
  BY MigrationAssumption DEF Goto, MigInv, TypeInv, TypeOK, All
<1>2. \A q \in All \ {p} : pc[q] = "idle" /\ pc'[q] = "idle"
  BY <1>1 DEF MigInv, Turns
<1>3. Turns'
  BY <1>1, <1>2 DEF Turns, Looking
<1>4. AlembicOK'
  BY <1>1, <1>2 DEF AlembicOK
<1>5. ASSUME NEW q \in Programs PROVE ProgramOK(q)'
  <2>1. CASE q = p
    BY <1>1, <2>1
  <2>2. CASE q # p
    <3>1. pc'[q] = "idle" /\ ~(memo[q] /\ vouched[q])
      BY <1>1, <1>2, <2>2 DEF MigInv, ProgramOK
    <3> QED BY <3>1 DEF ProgramOK, ExecutedOK
  <2> QED BY <2>1, <2>2
<1> QED BY <1>3, <1>4, <1>5 DEF MigInv

(* The steps that look at the database and decide.                         *)
LEMMA LookKept ==
    ASSUME MigInv, TypeInv', Overlap = FALSE, NEW p \in Programs,
           \/ Begin(p) \/ Detect(p) \/ CountPending(p) \/ Compare(p)
           \/ NeedsRepair(p) \/ ReadStamp(p)
    PROVE  MigInv'
<1>1. p \in All /\ p # Alembic /\ ProgramOK(p) /\ ~memo[p]
      /\ (revisions # {} => versioned)
  BY MigrationAssumption DEF All, MigInv, ProgramOK, TypeInv, TypeOK, Begin,
     Detect, CountPending, Compare, NeedsRepair, ReadStamp
<1>2. /\ UNCHANGED <<tables, revisions, versioned, line, memo, faults, vouched>>
      /\ \A q \in All \ {p} : heads'[q] = heads[q]
      /\ Finished' = Finished /\ SchemaMatchesHead' = SchemaMatchesHead
  <2>1. UNCHANGED <<tables, revisions, versioned, line, memo, faults, vouched>>
    BY DEF Begin, Detect, CountPending, Compare, NeedsRepair, ReadStamp, disk
  <2>2. heads' = heads \/ heads' = [heads EXCEPT ![p] = revisions]
    BY DEF Begin, Detect, CountPending, Compare, NeedsRepair, ReadStamp
  <2> QED BY <2>1, <2>2 DEF MigInv, TypeInv, TypeOK, Finished, SchemaMatchesHead
<1> DEFINE To(l) ==
      /\ l \in Labels \ {"execute", "record", "remember"} /\ Goto(p, l)
      /\ l = "count" => revisions = {}
      /\ l \in {"revision", "stamp", "unstamp"} => ~SchemaMatchesHead
      /\ l = "unstamp" => heads'[p] = revisions
      /\ l = "upgrade" /\ revisions = {HeadRevision} => SchemaMatchesHead
      /\ l # "idle" => \/ pc[p] # "idle"
                       \/ Alone(p)
                       \/ pc[Alembic] = "idle" /\ Finished
<1>3. SUFFICES ASSUME NEW l, To(l) PROVE MigInv'
  <2>1. CASE Begin(p)
    <3>1. To("detect")
      BY <2>1 DEF Begin, MayBegin, Labels
    <3> QED BY <1>3, <3>1
  <2>2. CASE Detect(p)
    <3>1. To("count") \/ To("count versioned")
      BY <1>1, <2>2 DEF Detect, Labels
    <3> QED BY <1>3, <3>1
  <2>3. CASE CountPending(p)
    <3>1. To("idle") \/ To("upgrade") \/ To("compare")
      BY <1>1, <2>3 DEF CountPending, Raise, Labels, ProgramOK, HeadRevision
    <3> QED BY <1>3, <3>1
  <2>4. CASE Compare(p)
    <3>1. To("upgrade") \/ To("revision")
      BY <2>4 DEF Compare, Labels
    <3> QED BY <1>3, <3>1
  <2>5. CASE NeedsRepair(p)
    <3>1. To("idle") \/ To("stamp") \/ To("upgrade")
      BY <1>1, <2>5 DEF NeedsRepair, Raise, Labels, ProgramOK
    <3> QED BY <1>3, <3>1
  <2>6. CASE ReadStamp(p)
    <3>1. heads'[p] = revisions
      BY <1>1, <2>6 DEF ReadStamp, MigInv, TypeInv, TypeOK
    <3>2. To("idle") \/ To("count") \/ To("unstamp")
      BY <1>1, <2>6, <3>1 DEF ReadStamp, Raise, Labels, ProgramOK
    <3> QED BY <1>3, <3>2
  <2> QED BY <2>1, <2>2, <2>3, <2>4, <2>5, <2>6
<1>4. pc'[p] = l
  BY <1>1, <1>3 DEF Goto, MigInv, TypeInv, TypeOK
<1>5. ProgramOK(p)'
  BY <1>1, <1>2, <1>3, <1>4 DEF ProgramOK, ExecutedOK, Finished, SchemaMatchesHead
<1>6. Finished => l \in Looking
  BY <1>3, LineageFacts DEF Labels, Looking, Finished, SchemaMatchesHead
<1> QED BY <1>1, <1>2, <1>3, <1>5, <1>6, QuietStep

LEMMA StampKept ==
    ASSUME MigInv, TypeInv', NEW p \in Programs, StampBase(p)
    PROVE  MigInv'
<1>1. p \in All /\ p # Alembic /\ ProgramOK(p) /\ pc[p] = "unstamp"
  BY MigrationAssumption DEF All, MigInv, StampBase
<1>2. heads[p] = revisions /\ ~SchemaMatchesHead /\ ~memo[p]
  BY <1>1 DEF ProgramOK
<1>3. /\ Goto(p, "count") /\ revisions' = {} /\ memo' = memo /\ vouched' = vouched
  BY <1>2 DEF StampBase
<1>4. ~Finished /\ ~Finished' /\ Supported'
  BY <1>2, <1>3, FewRows, LineageFacts DEF Finished, SchemaMatchesHead, Supported
<1>5. pc'[p] = "count"
  BY <1>1, <1>3 DEF Goto, MigInv, TypeInv, TypeOK
<1>6. ProgramOK(p)'
  BY <1>2, <1>3, <1>5 DEF ProgramOK, ExecutedOK
<1> QED BY <1>1, <1>3, <1>4, <1>6, LoneStep DEF Labels

LEMMA ReadHeadsKept ==
    ASSUME MigInv, TypeInv', NEW p \in Programs, ReadHeads(p)
    PROVE  MigInv'
<1>1. p \in All /\ p # Alembic /\ ProgramOK(p) /\ pc[p] = "upgrade" /\ ~memo[p]
  BY MigrationAssumption DEF All, MigInv, ReadHeads, ProgramOK
<1>2. /\ heads' = [heads EXCEPT ![p] = revisions]
      /\ line' = [line EXCEPT ![p] = 1]
      /\ vouched' = [vouched EXCEPT ![p] =
                        revisions = {"001"} => HeadRequired \subseteq tables]
      /\ UNCHANGED <<tables, indexes, revisions, memo, faults>>
  BY DEF ReadHeads
<1>3. /\ heads'[p] = revisions /\ line'[p] = 1
      /\ vouched'[p] = (revisions = {"001"} => HeadRequired \subseteq tables)
      /\ \A q \in All \ {p} : heads'[q] = heads[q] /\ line'[q] = line[q]
      /\ \A q \in Programs \ {p} : memo'[q] = memo[q] /\ vouched'[q] = vouched[q]
      /\ Finished' = Finished
  BY <1>1, <1>2 DEF MigInv, TypeInv, TypeOK, Finished
<1>4. PICK l \in {"idle", "remember", "execute"} :
         /\ Goto(p, l)
         /\ l = "remember" => revisions = {HeadRevision}
         /\ l = "execute" => revisions \in {{}, {"001"}}
  BY KnownRows, LineageFacts DEF ReadHeads, Raise
<1>5. pc'[p] = l
  BY <1>1, <1>4 DEF Goto, MigInv, TypeInv, TypeOK
<1>6. ExecutedOK(p)'
  <2>1. \A k : k \in 1..29 \/ k \in 1..5 => ~(k < 1)
    OBVIOUS
  <2> QED BY <1>2, <1>3, <1>4, <1>5, <2>1, UpgradeLengths DEF ExecutedOK
<1>7. ProgramOK(p)'
  BY <1>1, <1>2, <1>3, <1>4, <1>5, <1>6 DEF ProgramOK
<1>8. Finished => l \in Looking
  BY <1>4, LineageFacts DEF Looking, Finished
<1> QED BY <1>1, <1>2, <1>3, <1>4, <1>7, <1>8, QuietStep DEF Labels

(* A statement of a revision.                                              *)
LEMMA ExecuteKept ==
    ASSUME MigInv, TypeInv', NEW p \in Programs, Execute(p)
    PROVE  MigInv'
<1> DEFINE s == Script(p)[line[p]]
<1>1. /\ p \in All /\ p # Alembic /\ ProgramOK(p) /\ ExecutedOK(p) /\ ScriptOK(p)
      /\ pc[p] = "execute" /\ ~memo[p] /\ revisions = heads[p]
      /\ revisions \in {{}, {"001"}} /\ line[p] \in DOMAIN Script(p)
  BY MigrationAssumption DEF All, MigInv, Execute, ProgramOK, ExecutedOK,
     TypeInv, TypeOK, ScriptOK
<1>2. ~Finished /\ UNCHANGED <<versioned, revisions, heads, memo, faults, vouched>>
  BY <1>1, LineageFacts DEF Finished, Execute
<1>3. CASE Fails(s)
  <2>1. Goto(p, "idle") /\ tables' = tables /\ line' = line
    BY <1>3 DEF Execute, Raise
  <2>2. pc'[p] = "idle"
    BY <1>1, <2>1 DEF Goto, MigInv, TypeInv, TypeOK
  <2>3. ProgramOK(p)'
    BY <1>1, <1>2, <2>2 DEF ProgramOK, ExecutedOK
  <2> QED BY <1>1, <1>2, <2>1, <2>3, QuietStep DEF Labels
<1>4. CASE ~Fails(s)
  <2> DEFINE l == IF line[p] = Len(Script(p)) THEN "record" ELSE "execute"
  <2>1. Effect(s) /\ Goto(p, l) /\ line' = [line EXCEPT ![p] = @ + 1]
    BY <1>4 DEF Execute
  <2>2. /\ pc'[p] = l /\ line'[p] = line[p] + 1 /\ Script(p)' = Script(p)
        /\ l = "record" => line'[p] = Len(Script(p)) + 1
    BY <1>1, <1>2, <2>1 DEF Goto, MigInv, TypeInv, TypeOK, Script
  <2>3. CASE revisions = {}
    <3>1. line[p] \in 1..29 /\ s = InitialUpgrade[line[p]]
      BY <1>1, <2>3, UpgradeScripts, UpgradeLengths
    <3>2. s \in CreateTable \cup CreateIndex
      BY <3>1, InitialUpgradeFacts
    <3>3. tables \subseteq tables' /\ (s.op = "create table" => s.arg \in tables')
      BY <2>1, <3>2 DEF Effect, CreateTable, CreateIndex
    <3>4. ASSUME NEW k \in 1..29, k < line[p] + 1,
                 InitialUpgrade[k].op = "create table"
          PROVE  InitialUpgrade[k].arg \in tables'
      <4>1. CASE k = line[p]
        BY <3>1, <3>3, <3>4, <4>1
      <4>2. CASE k # line[p]
        <5>1. k < line[p]
          <6>1. \A n \in 1..29 : k < n + 1 /\ k # n => k < n
            OBVIOUS
          <6> QED BY <3>1, <3>4, <4>2, <6>1
        <5> QED BY <1>1, <2>3, <3>3, <3>4, <5>1, UpgradeLengths DEF ExecutedOK
      <4> QED BY <4>1, <4>2
    <3>5. ExecutedOK(p)'
      BY <1>1, <1>2, <2>2, <2>3, <3>4, UpgradeLengths DEF ExecutedOK
    <3> QED BY <3>5, <1>1, <1>2, <2>1, <2>2, <2>3, LoneStep, FewRows, LineageFacts
            DEF ProgramOK, Supported, Labels, Finished
  <2>4. CASE revisions = {"001"}
    <3>1. line[p] \in 1..5 /\ s = RemoveProposals[line[p]]
      BY <1>1, <2>4, UpgradeScripts, UpgradeLengths
    <3>2. s.op = "drop table" /\ s.arg \in HeadForbidden
      BY <3>1, RemoveProposalsFacts
    <3>3. tables' = tables \ {s.arg}
      BY <2>1, <3>2 DEF Effect
    <3>4. ASSUME NEW k \in 1..5, k < line[p] + 1
          PROVE  RemoveProposals[k].arg \notin tables'
      <4>1. CASE k = line[p]
        BY <3>1, <3>3, <4>1
      <4>2. CASE k # line[p]
        <5>1. k < line[p]
          <6>1. \A n \in 1..5 : k < n + 1 /\ k # n => k < n
            OBVIOUS
          <6> QED BY <3>1, <3>4, <4>2, <6>1
        <5> QED BY <1>1, <2>4, <3>3, <5>1, UpgradeLengths DEF ExecutedOK
      <4> QED BY <4>1, <4>2
    <3>5. HeadRequired \subseteq tables => HeadRequired \subseteq tables'
      BY <3>2, <3>3, NameSets, ZenonT(40)
    <3>6. ExecutedOK(p)'
      BY <1>1, <1>2, <2>2, <2>4, <3>4, <3>5, UpgradeLengths DEF ExecutedOK
    <3> QED BY <3>6, <1>1, <1>2, <2>1, <2>2, <2>4, LoneStep, FewRows, LineageFacts
            DEF ProgramOK, Supported, Labels, Finished
  <2> QED BY <1>1, <2>3, <2>4
<1> QED BY <1>3, <1>4

(* The row of a revision.                                                  *)
LEMMA RecordKept ==
    ASSUME MigInv, TypeInv', NEW p \in Programs, Record(p)
    PROVE  MigInv'
<1>1. /\ p \in All /\ p # Alembic /\ ProgramOK(p) /\ ExecutedOK(p) /\ ScriptOK(p)
      /\ pc[p] = "record" /\ ~memo[p] /\ revisions = heads[p]
      /\ revisions \in {{}, {"001"}} /\ line[p] = Len(Script(p)) + 1
  <2>1. p \in All /\ p # Alembic
    BY MigrationAssumption DEF All
  <2>2. ProgramOK(p) /\ ScriptOK(p) /\ pc[p] = "record"
    BY <2>1 DEF MigInv, TypeInv, Record
  <2> QED BY <2>1, <2>2 DEF ProgramOK, ExecutedOK, ScriptOK
<1>2. Target(p) = IF revisions = {} THEN {"001"} ELSE {"002"}
  BY <1>1, UpgradeScripts
<1> DEFINE l == IF Target(p) = {HeadRevision} THEN "remember" ELSE "execute"
<1>3. /\ revisions' = Target(p) /\ Goto(p, l)
      /\ heads' = [heads EXCEPT ![p] = Target(p)]
      /\ line' = [line EXCEPT ![p] = 1]
      /\ UNCHANGED <<tables, indexes, versioned, memo, faults, vouched>>
  BY <1>1, <1>2 DEF Record
<1>4. /\ pc'[p] = l /\ heads'[p] = Target(p) /\ line'[p] = 1
  BY <1>1, <1>3 DEF Goto, MigInv, TypeInv, TypeOK
<1>5. ~Finished
  BY <1>1, LineageFacts DEF Finished
<1>6. CASE revisions = {}
  <2>1. Script(p) = InitialUpgrade /\ line[p] = 30
    <3>1. Script(p) = InitialUpgrade
      BY <1>1, <1>6, UpgradeScripts
    <3>2. line[p] = Len(InitialUpgrade) + 1
      BY <1>1, <3>1
    <3> QED BY <3>1, <3>2, UpgradeLengths
  <2>2. HeadRequired \subseteq tables
    <3> SUFFICES ASSUME NEW t \in HeadRequired PROVE t \in tables
      OBVIOUS
    <3>1. PICK k \in 1..29 : InitialUpgrade[k] = [op |-> "create table", arg |-> t]
      BY InitialUpgradeFacts
    <3>2. k < line[p] /\ k \in DOMAIN InitialUpgrade
      BY <2>1, UpgradeLengths
    <3>3. InitialUpgrade[k].op = "create table" /\ InitialUpgrade[k].arg = t
      <4> DEFINE r == [op |-> "create table", arg |-> t]
      <4>1. r.op = "create table" /\ r.arg = t
        OBVIOUS
      <4> HIDE DEF r
      <4>2. InitialUpgrade[k] = r
        BY <3>1 DEF r
      <4> QED BY <4>1, <4>2
    <3>4. heads[p] = {}
      BY <1>1, <1>6
    <3> QED BY <1>1, <3>2, <3>3, <3>4 DEF ExecutedOK
  <2>3. l = "execute" /\ Target(p) = {"001"} /\ ~Finished'
    BY <1>2, <1>3, <1>6, LineageFacts DEF Finished
  <2>4. ExecutedOK(p)'
    <3>1. \A k \in 1..5 : ~(k < 1)
      OBVIOUS
    <3> QED BY <1>3, <1>4, <2>2, <2>3, <3>1, UpgradeLengths, ZenonT(40) DEF ExecutedOK
  <2> QED BY <1>1, <1>3, <1>4, <1>5, <2>3, <2>4, LoneStep, FewRows
          DEF ProgramOK, Supported, Labels
<1>7. CASE revisions = {"001"}
  <2>1. Script(p) = RemoveProposals /\ line[p] = 6
    <3>1. Script(p) = RemoveProposals
      BY <1>1, <1>7, UpgradeScripts
    <3>2. line[p] = Len(RemoveProposals) + 1
      BY <1>1, <3>1
    <3> QED BY <3>1, <3>2, UpgradeLengths
  <2>2. tables \cap HeadForbidden = {}
    <3> SUFFICES ASSUME NEW t \in HeadForbidden PROVE t \notin tables
      OBVIOUS
    <3>1. PICK k \in 1..5 : RemoveProposals[k].arg = t
      BY RemoveProposalsFacts
    <3>2. k < line[p] /\ k \in DOMAIN RemoveProposals
      BY <2>1, UpgradeLengths
    <3> QED BY <1>1, <1>7, <3>1, <3>2 DEF ExecutedOK
  <2>3. l = "remember" /\ Target(p) = {HeadRevision}
    BY <1>2, <1>7, LineageFacts
  <2>4. vouched[p] => Finished'
    BY <1>1, <1>3, <1>7, <2>2, <2>3 DEF Finished, ExecutedOK
  <2>5. ProgramOK(p)'
    BY <1>1, <1>3, <1>4, <2>3, <2>4 DEF ProgramOK, ExecutedOK
  <2> QED BY <1>1, <1>3, <1>5, <2>3, <2>5, LoneStep, FewRows
          DEF Supported, Labels, Looking
<1> QED BY <1>1, <1>6, <1>7

LEMMA RestKept ==
    ASSUME MigInv, TypeInv', NEW p \in Programs, Remember(p) \/ Restart(p)
    PROVE  MigInv'
<1>1. p \in All /\ p # Alembic /\ ProgramOK(p) /\ Alembic \in All
  BY MigrationAssumption DEF All, MigInv
<1>2. /\ Goto(p, "idle") /\ UNCHANGED <<tables, revisions, heads, line, vouched>>
      /\ \E b \in BOOLEAN : memo' = [memo EXCEPT ![p] = b] /\ (b => Remember(p))
  BY <1>1 DEF Remember, Restart, Goto, MigInv, TypeInv, TypeOK, disk
<1>3. /\ pc'[p] = "idle" /\ pc'[Alembic] = pc[Alembic] /\ Finished' = Finished
      /\ memo'[p] => Remember(p)
      /\ \A q \in Programs \ {p} : memo'[q] = memo[q]
  BY <1>1, <1>2 DEF Goto, MigInv, TypeInv, TypeOK, Finished
<1>4. Remember(p) /\ vouched[p] => Finished /\ pc[Alembic] = "idle"
  BY <1>1 DEF Remember, ProgramOK, MigInv, Turns
<1>5. ProgramOK(p)'
  BY <1>2, <1>3, <1>4 DEF ProgramOK, ExecutedOK
<1> QED BY <1>1, <1>2, <1>3, <1>5, QuietStep DEF Labels, Looking

LEMMA InterruptKept ==
    ASSUME MigInv, TypeInv', NEW p \in All, Interrupt(p)
    PROVE  MigInv'
<1>1. /\ Goto(p, "idle") /\ pc[p] # "idle"
      /\ UNCHANGED <<tables, revisions, heads, line, memo, vouched>>
  BY DEF Interrupt, Raise, disk
<1>2. pc'[p] = "idle"
  BY <1>1 DEF Goto, MigInv, TypeInv, TypeOK
<1>3. p # Alembic => ProgramOK(p)'
  BY <1>1, <1>2 DEF All, MigInv, ProgramOK, ExecutedOK
<1> QED BY <1>1, <1>3, QuietStep DEF Labels, Looking

LEMMA DowngradeKept ==
    ASSUME MigInv, TypeInv', Downgrade PROVE MigInv'
<1>1. /\ \A q \in All : pc[q] = "idle"
      /\ pc' = [pc EXCEPT ![Alembic] = "execute"]
      /\ heads' = [heads EXCEPT ![Alembic] = revisions]
      /\ vouched' = [p \in Programs |-> FALSE]
      /\ UNCHANGED <<tables, revisions, memo>>
  BY DEF Downgrade, Goto, disk
<1>2. /\ Alembic \in All /\ \A q \in Programs : q \in All /\ q # Alembic
  BY MigrationAssumption DEF All
<1>3. /\ pc'[Alembic] = "execute" /\ heads'[Alembic] = revisions
      /\ \A q \in All \ {Alembic} : pc'[q] = "idle"
  BY <1>1, <1>2 DEF MigInv, TypeInv, TypeOK
<1>4. Turns' /\ AlembicOK' /\ Supported'
  BY <1>1, <1>3 DEF Turns, AlembicOK, MigInv, Supported
<1>5. ASSUME NEW q \in Programs PROVE ProgramOK(q)'
  <2>1. pc'[q] = "idle" /\ vouched'[q] = FALSE
    BY <1>1, <1>2, <1>3
  <2> QED BY <2>1 DEF ProgramOK, ExecutedOK
<1> QED BY <1>4, <1>5 DEF MigInv

LEMMA AlembicKept ==
    ASSUME MigInv, TypeInv', Execute(Alembic) \/ Record(Alembic)
    PROVE  MigInv'
<1> DEFINE p == Alembic
<1>1. p \in All /\ pc[p] \in {"execute", "record"} /\ ScriptOK(p)
      /\ revisions = heads[p] /\ memo' = memo /\ vouched' = vouched
  BY DEF All, MigInv, Execute, Record, AlembicOK, TypeInv
<1>2. CASE Execute(p)
  <2>1. /\ UNCHANGED <<revisions, heads>>
        /\ \E l \in {"idle", "execute", "record"} : Goto(p, l)
    BY <1>2 DEF Execute, Raise
  <2>2. AlembicOK' /\ Supported'
    BY <1>1, <2>1 DEF AlembicOK, Supported, MigInv, TypeInv, TypeOK, Goto
  <2> QED BY <1>1, <2>1, <2>2, LoneStep DEF Labels
<1>3. CASE Record(p)
  <2>1. Goto(p, "idle")
    BY <1>3 DEF Record, Raise
  <2>2. pc'[p] = "idle"
    BY <1>1, <2>1 DEF Goto, MigInv, TypeInv, TypeOK
  <2>3. Target(p) \in {{}, {"001"}}
    BY <1>1, AppliedFacts, LineageFacts DEF Target, ScriptOK
  <2>4. revisions' \in {revisions, Target(p)}
    BY <1>1, <1>3 DEF Record
  <2>5. Supported'
    BY <2>3, <2>4, FewRows DEF Supported, MigInv
  <2>6. AlembicOK'
    BY <2>2 DEF AlembicOK
  <2> QED BY <1>1, <2>1, <2>5, <2>6, LoneStep DEF Labels
<1> QED BY <1>2, <1>3

LEMMA NextMig ==
    Overlap = FALSE /\ MigInv /\ [Next]_vars => MigInv'
<1> SUFFICES ASSUME Overlap = FALSE, MigInv, [Next]_vars PROVE MigInv'
  OBVIOUS
<1>1. TypeInv'
  BY NextTyped DEF MigInv
<1>2. ASSUME NEW p \in Programs, Begin(p) \/ Progress(p) \/ Restart(p)
      PROVE  MigInv'
  BY <1>1, <1>2, LookKept, StampKept, ReadHeadsKept, ExecuteKept, RecordKept,
     RestKept DEF Progress
<1>3. ASSUME NEW p \in All, Interrupt(p) PROVE MigInv'
  BY <1>1, <1>3, InterruptKept
<1>4. CASE Downgrade
  BY <1>1, <1>4, DowngradeKept
<1>5. CASE Execute(Alembic) \/ Record(Alembic)
  BY <1>1, <1>5, AlembicKept
<1>6. CASE UNCHANGED vars
  BY <1>1, <1>6 DEF vars, disk, MigInv, Turns, AlembicOK, ProgramOK, ExecutedOK,
     Finished, SchemaMatchesHead, Supported, Script
<1> QED BY <1>2, <1>3, <1>4, <1>5, <1>6 DEF Next

(* A program drops no table the head needs, even where migrations overlap. *)
LEMMA RequiredKept ==
    ASSUME TypeInv, NEW p \in Programs, Execute(p)
    PROVE  tables \cap HeadRequired \subseteq tables'
<1> DEFINE s == Script(p)[line[p]]
<1>1. /\ p \in All /\ p # Alembic /\ ScriptOK(p) /\ pc[p] = "execute"
      /\ line[p] \in DOMAIN Script(p)
  BY MigrationAssumption DEF All, TypeInv, TypeOK, Execute
<1>2. CASE Fails(s)
  BY <1>2 DEF Execute
<1>3. CASE ~Fails(s)
  <2>1. Effect(s)
    BY <1>3 DEF Execute
  <2>2. CASE heads[p] = {}
    <3>1. s \in CreateTable \cup CreateIndex
      BY <1>1, <2>2, UpgradeScripts, UpgradeLengths, InitialUpgradeFacts
    <3> QED BY <2>1, <3>1 DEF Effect, CreateTable, CreateIndex
  <2>3. CASE heads[p] = {"001"}
    <3>1. s.op = "drop table" /\ s.arg \in HeadForbidden
      <4>1. line[p] \in 1..5 /\ s = RemoveProposals[line[p]]
        BY <1>1, <2>3, UpgradeScripts, UpgradeLengths
      <4> QED BY <4>1, RemoveProposalsFacts
    <3>2. tables' = tables \ {s.arg}
      BY <2>1, <3>1 DEF Effect
    <3>3. \A t \in tables \cap HeadRequired : t # s.arg
      BY <3>1, NameSets
    <3> QED BY <3>2, <3>3
  <2> QED BY <1>1, <2>2, <2>3 DEF ScriptOK
<1> QED BY <1>2, <1>3

LEMMA NextStays ==
    ASSUME MigInv, [Next]_vars, pc[Alembic] = "idle"
    PROVE  tables \cap HeadRequired \subseteq tables' /\ (Finished => Finished')
<1>1. CASE \E p \in Programs : Execute(p)
  <2> PICK p \in Programs : Execute(p)
    BY <1>1
  <2>1. ~Finished
    BY DEF MigInv, Turns, Looking, Execute
  <2> QED BY <2>1, RequiredKept DEF MigInv
<1>2. CASE \E p \in Programs : StampBase(p) \/ Record(p)
  <2> PICK p \in Programs : StampBase(p) \/ Record(p)
    BY <1>2
  <2>1. ~Finished /\ tables' = tables
    BY DEF MigInv, Turns, Looking, StampBase, Record
  <2> QED BY <2>1
<1>3. ASSUME NEW p \in Programs,
             \/ Begin(p) \/ Detect(p) \/ CountPending(p) \/ Compare(p)
             \/ NeedsRepair(p) \/ ReadStamp(p) \/ ReadHeads(p) \/ Remember(p)
             \/ Restart(p)
      PROVE  UNCHANGED <<tables, revisions>>
  BY <1>3 DEF Begin, Detect, CountPending, Compare, NeedsRepair, ReadStamp,
     ReadHeads, Remember, Restart, disk
<1>4. ASSUME (\E p \in All : Interrupt(p)) \/ Downgrade \/ UNCHANGED vars
      PROVE  UNCHANGED <<tables, revisions>>
  BY <1>4 DEF Interrupt, Downgrade, vars, disk
<1>5. ~Execute(Alembic) /\ ~Record(Alembic)
  BY DEF Execute, Record
<1>6. UNCHANGED <<tables, revisions>> => Finished' = Finished
  BY DEF Finished
<1> QED BY <1>1, <1>2, <1>3, <1>4, <1>5, <1>6 DEF Next, Progress

----------------------------------------------------------------------------
(* The theorems.                                                           *)

(* The types are kept however many programs migrate at once.               *)
THEOREM TypeCorrect == Spec => []TypeOK
<1>1. TypeInv => TypeOK
  BY DEF TypeInv
<1> QED BY <1>1, InitTyped, NextTyped, PTL DEF Spec

LEMMA MigrationInvariant ==
    ASSUME Overlap = FALSE PROVE Spec => []MigInv
<1>1. MigInv /\ [Next]_vars => MigInv'
  BY NextMig
<1> QED BY <1>1, InitMig, PTL DEF Spec

(* While migrations of a database that is not at the head do not overlap,  *)
(* a program whose ensure_index_migrated has returned works on a finished  *)
(* index, whatever was interrupted, repaired or restarted, by any number   *)
(* of programs, if it has vouched for the database.  It has not when it    *)
(* found it at revision 001 with a table missing that the head needs, as   *)
(* an interrupted downgrade leaves it: it upgrades such a database, and    *)
(* nothing repairs it in that call.  Nor after a downgrade.                *)
THEOREM EnsuredHolds ==
    ASSUME Overlap = FALSE PROVE Spec => []EnsuredIsMigrated
<1>1. MigInv => EnsuredIsMigrated
  BY DEF MigInv, ProgramOK, EnsuredIsMigrated
<1> QED BY <1>1, MigrationInvariant, PTL

(* ... alembic_version has one row at most; ...                            *)
THEOREM OneRow ==
    ASSUME Overlap = FALSE PROVE Spec => []OneRevision
<1>1. MigInv => OneRevision
  BY DEF MigInv, OneRevision
<1> QED BY <1>1, MigrationInvariant, PTL

(* ... and programs neither drop a table the head needs nor take a         *)
(* finished index back: a migration of a migrated index changes nothing.   *)
THEOREM StaysMigrated ==
    ASSUME Overlap = FALSE PROVE Spec => MigratedStaysMigrated
<1> DEFINE Stays == pc[Alembic] = "idle" =>
                       /\ tables \cap HeadRequired \subseteq tables'
                       /\ Finished => Finished'
<1>1. MigInv /\ [Next]_vars => [Stays]_vars
  BY NextStays
<1> QED BY <1>1, MigrationInvariant, PTL DEF Spec, MigratedStaysMigrated

=============================================================================
