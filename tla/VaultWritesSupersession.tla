----------------------- MODULE VaultWritesSupersession -----------------------
(***************************************************************************)
(* Proofs about superseding: while the clients share no file names         *)
(* (Partitioned), references resolve at every moment until a call is given *)
(* the archive file they name, a call that ends well leaves its note whole, *)
(* a rollback restores, and the texts of the vault follow NoteLedger.      *)
(***************************************************************************)
EXTENDS VaultWritesProofs

(* The files a call works on.                                              *)
Footprint(s) == Given(call[s]) \cup Archived(call[s])

(* What a call that ends well has written.                                 *)
Written(c) == IF Sources(c) = {} THEN Text(c.body)
                                 ELSE Linked(Text(c.body), Archived(c))

(* What the files of a call's footprint hold at each of its steps.         *)
TargetOK(s) ==
    LET c == call[s] IN
    /\ pc[s] = "planned" => c.op = "update"
    /\ pc[s] # "planned" => c.path \notin Archived(c)
    /\ pc[s] = "replace" => IF c.op = "create" THEN Missing(c.path)
                                               ELSE Updatable(c.path, c.expect)
    /\ pc[s] \in {"archive", "stamp", "stamping", "linking"} =>
          files[c.path] = Text(c.body) /\ Sources(c) # {}
    /\ pc[s] = "linking" => buf[s] = Text(c.body)
    /\ pc[s] = "audit" => files[c.path] = Written(c)

PendingOK(s) ==
    pc[s] # "rollback" =>
        \A n \in Pending(s) : ~Missing(n) /\ Missing(call[s].dest[n])

MovedOK(s) ==
    \A n \in moved[s] :
        LET a == call[s].dest[n] IN
        /\ Missing(n)
        /\ pc[s] # "rollback" =>
              /\ ~Missing(a)
              /\ \/ n = cur[s] /\ pc[s] \in {"stamp", "stamping"}
                 \/ files[a].by = call[s].path

StampingOK(s) ==
    pc[s] = "stamping" => buf[s] = files[call[s].dest[cur[s]]]

RollbackOK(s) ==
    pc[s] = "rollback" /\ outcome[call[s].body] # "partial" =>
        \A n \in Sources(call[s]) \ moved[s] : ~Missing(n)

CallHolds(s) ==
    InCall(s) => /\ TargetOK(s) /\ PendingOK(s) /\ MovedOK(s)
                 /\ StampingOK(s) /\ RollbackOK(s)

(* An archive file that refers to its successor n, and that nobody is      *)
(* going to touch unless a call is given it.                               *)
Settled(n, a) ==
    \/ a \in named
    \/ /\ Succeeded(a, n) /\ a \notin EditorFiles
       /\ \A t \in Servers :
             InCall(t) /\ pc[t] # "audit" => a \notin Archived(call[t])

(* The references in the file at p, held there for note n.                 *)
RefsSettled(n, p) == ~Missing(p) => \A a \in files[p].refs : Settled(n, a)

SupInv ==
    /\ \A s \in Servers : CallHolds(s)
    /\ \A n \in Notes : RefsSettled(n, n)
    /\ \A s \in Servers : \A n \in moved[s] \cap Notes :
          RefsSettled(n, call[s].dest[n])
    /\ \A s \in Servers : pc[s] = "audit" =>
          \A a \in Archived(call[s]) : Settled(call[s].path, a)
    /\ \A r \in audit : \A a \in r.archived : Settled(r.path, a)

----------------------------------------------------------------------------
(* The files a call writes.                                                *)
LEMMA TextFile ==
    ASSUME NEW b \in Calls
    PROVE  /\ Text(b) \in File /\ Text(b).body = b /\ Text(b).refs = {}
           /\ Text(b).head = HeadOf[b] /\ Text(b).by = NoNote
  BY MergedFiles DEF Text, Bodies

LEMMA LinkedFile ==
    ASSUME NEW b \in Calls, NEW A \in SUBSET Slots
    PROVE  /\ Linked(Text(b), A) \in File
           /\ Linked(Text(b), A).refs = A /\ Linked(Text(b), A).body = b
           /\ Linked(Text(b), A).head = Kept(HeadOf[b])
           /\ Linked(Text(b), A).by = NoNote
<1>1. Linked(Text(b), A) \in File
  BY TextFile, MergedFiles
<1> QED BY <1>1 DEF Linked, Text

LEMMA StampedFile ==
    ASSUME NEW f \in File, NEW n \in Paths
    PROVE  /\ Stamped(f, n) \in File /\ Stamped(f, n).by = n
           /\ Stamped(f, n).refs = f.refs /\ Stamped(f, n).body = f.body
<1>1. Stamped(f, n) \in File
  BY MergedFiles
<1> QED BY <1>1 DEF Stamped, File

(* Two calls never work on the same file.                                  *)
LEMMA FootprintsDisjoint ==
    ASSUME Partitioned, CallInv, NEW s \in Servers, NEW t \in Servers, s # t,
           InCall(s), InCall(t)
    PROVE  Footprint(s) \cap Footprint(t) = {}
<1>1. ASSUME NEW u \in Servers, InCall(u), NEW p \in Footprint(u)
      PROVE  \E n \in Scope[u] : FileName(p) = FileName(n)
  <2>1. CallOK(u)
    BY <1>1, TypedCall
  <2>2. CASE p \in Given(call[u])
    BY <2>1, <2>2 DEF CallOK, Given
  <2>3. CASE p \in Archived(call[u])
    <3>1. PICK n \in Sources(call[u]) : p = call[u].dest[n]
      BY <2>3 DEF Archived
    <3>2. p \in Slots /\ p[1] = FileName(n) /\ n \in Scope[u]
      BY <2>1, <3>1 DEF CallOK
    <3> QED BY <3>2, ConstantFacts
  <2> QED BY <1>1, <2>2, <2>3 DEF Footprint
<1> QED BY <1>1 DEF Partitioned

(* The files of a call that its own steps name.                            *)
LEMMA FootprintFacts ==
    ASSUME CallInv, NEW s \in Servers, InCall(s)
    PROVE  /\ call[s].path \in Footprint(s) /\ call[s].path \in Paths
           /\ \A n \in Sources(call[s]) :
                 /\ n \in Paths /\ n # call[s].path /\ n \in Footprint(s)
                 /\ call[s].dest[n] \in Slots /\ call[s].dest[n] \in Paths
                 /\ call[s].dest[n] \in Archived(call[s])
                 /\ call[s].dest[n] \in Footprint(s)
                 /\ \A m \in Sources(call[s]) :
                       /\ call[s].dest[m] # n
                       /\ m # n => call[s].dest[m] # call[s].dest[n]
           /\ moved[s] \subseteq Sources(call[s])
           /\ Footprint(s) \subseteq Paths
<1>1. CallOK(s) /\ call[s].path \in Paths /\ Archived(call[s]) \subseteq Slots
      /\ Sources(call[s]) \subseteq Paths
  BY TypedCall
<1>2. \A n \in Sources(call[s]) : call[s].dest[n] \in Archived(call[s])
  BY DEF Archived
<1> QED BY <1>1, <1>2 DEF CallOK, Footprint, Given, Paths

(* A call past its plan writes none of its archive files.                  *)
LEMMA TargetApart ==
    ASSUME NEW s \in Servers, InCall(s), CallHolds(s), pc[s] # "planned"
    PROVE  \A n \in Sources(call[s]) : call[s].dest[n] # call[s].path
  BY DEF CallHolds, TargetOK, Archived

(* Between its text and its references, a call leaves its note alone.      *)
LEMMA TargetStays ==
    ASSUME NEW s \in Servers, TargetOK(s), call'[s] = call[s],
           files'[call[s].path] = files[call[s].path],
           pc[s] \in {"archive", "stamp", "stamping"},
           pc'[s] \in {"archive", "stamp", "stamping"}
    PROVE  TargetOK(s)'
<1>1. Archived(call'[s]) = Archived(call[s]) /\ Sources(call'[s]) = Sources(call[s])
  BY DEF Archived, Sources
<1> QED BY <1>1 DEF TargetOK

(* What a call knows of its files stays true while nobody touches them.    *)
LEMMA CallFrame ==
    ASSUME CallInv, NEW t \in Servers, InCall(t), CallHolds(t),
           pc'[t] = pc[t], call'[t] = call[t], moved'[t] = moved[t],
           cur'[t] = cur[t], buf'[t] = buf[t],
           outcome'[call[t].body] = outcome[call[t].body],
           \A p \in Footprint(t) : files'[p] = files[p]
    PROVE  CallHolds(t)'
<1>1. /\ files'[call[t].path] = files[call[t].path]
      /\ \A n \in Sources(call[t]) : /\ files'[n] = files[n]
                                     /\ files'[call[t].dest[n]] = files[call[t].dest[n]]
      /\ moved[t] \subseteq Sources(call[t])
      /\ Sources(call[t])' = Sources(call[t])
      /\ Archived(call[t])' = Archived(call[t])
  BY FootprintFacts DEF Sources, Archived
<1>2. TargetOK(t)'
  BY <1>1 DEF CallHolds, TargetOK, Missing, Updatable, Outdated
<1>3. PendingOK(t)'
  BY <1>1 DEF CallHolds, PendingOK, Pending, Missing
<1>4. MovedOK(t)'
  BY <1>1 DEF CallHolds, MovedOK, Missing
<1>5. StampingOK(t)'
  <2>1. pc[t] = "stamping" => cur[t] \in Sources(call[t])
    BY <1>1, TypedCall DEF CallOK
  <2> QED BY <1>1, <2>1 DEF CallHolds, StampingOK
<1>6. RollbackOK(t)'
  BY <1>1 DEF CallHolds, RollbackOK, Missing
<1> QED BY <1>2, <1>3, <1>4, <1>5, <1>6 DEF CallHolds

(* The other calls know what they knew after a step of server s that       *)
(* changes no file but those of its call.                                  *)
OnlyOwnFiles(s) == \A p \in Paths \ Footprint(s) : files'[p] = files[p]
OnlyOwnOutcome(s) == \A b \in Calls \ {call[s].body} : outcome'[b] = outcome[b]

LEMMA OthersHold ==
    ASSUME Partitioned, CallInv, HistInv, SupInv, NEW s \in Servers,
           OthersKept(s), named \subseteq named',
           \/ InCall(s) /\ OnlyOwnFiles(s) /\ OnlyOwnOutcome(s)
           \/ UNCHANGED <<files, outcome>>,
           NEW t \in Servers \ {s}
    PROVE  CallHolds(t)'
<1>1. CASE ~InCall(t)
  BY <1>1 DEF OthersKept, CallHolds, InCall
<1>2. CASE InCall(t)
  <2>1. CASE InCall(s) /\ OnlyOwnFiles(s) /\ OnlyOwnOutcome(s)
    <3>1. \A p \in Footprint(t) : files'[p] = files[p]
      BY <1>2, <2>1, FootprintsDisjoint, FootprintFacts DEF OnlyOwnFiles
    <3>2. outcome'[call[t].body] = outcome[call[t].body]
      BY <1>2, <2>1, TypedCall DEF OnlyOwnOutcome, HistInv, CallsDiffer
    <3> QED BY <1>2, <3>1, <3>2, CallFrame DEF OthersKept, SupInv
  <2>2. CASE UNCHANGED <<files, outcome>>
    BY <1>2, <2>2, CallFrame DEF OthersKept, SupInv
  <2> QED BY <2>1, <2>2
<1> QED BY <1>1, <1>2

----------------------------------------------------------------------------
(* References.                                                             *)

(* What is settled stays settled.                                          *)
KeepsSettled == \A n \in Paths, a \in Slots : Settled(n, a) => Settled(n, a)'

(* A step within a call touches nothing settled.                           *)
LEMMA OwnStepSettled ==
    ASSUME CallInv, CallInv', NEW s \in Servers, InCall(s), InCall(s)',
           OthersKept(s), named \subseteq named', OnlyOwnFiles(s),
           call'[s] = call[s], pc[s] # "audit",
           files' = files \/ pc'[s] \notin {"planned", "replace"}
    PROVE  KeepsSettled
<1> SUFFICES ASSUME NEW n \in Paths, NEW a \in Slots, Settled(n, a),
                    a \notin named'
             PROVE  Settled(n, a)'
  BY DEF KeepsSettled, Settled
<1>1. /\ Succeeded(a, n) /\ a \notin EditorFiles
      /\ a \notin Archived(call[s]) /\ a \in Paths
  BY DEF Settled, Paths
<1>2. files'[a] = files[a]
  <2>1. CASE files' = files
    BY <2>1
  <2>2. CASE files' # files
    <3>1. Given(call'[s]) \cap Slots \subseteq named'
      BY <2>2 DEF CallInv, LocalOK, CallOK
    <3>2. a \notin Footprint(s)
      BY <1>1, <3>1 DEF Footprint, Given, Sources
    <3> QED BY <1>1, <3>2 DEF OnlyOwnFiles
  <2> QED BY <2>1, <2>2
<1>3. ASSUME NEW t \in Servers, InCall(t)', pc'[t] # "audit"
      PROVE  a \notin Archived(call[t])'
  <2>1. CASE t = s
    BY <1>1, <1>3, <2>1 DEF Archived, Sources
  <2>2. CASE t # s
    BY <1>3, <2>2 DEF Settled, OthersKept, InCall, Archived, Sources
  <2> QED BY <2>1, <2>2
<1> QED BY <1>1, <1>2, <1>3 DEF Settled, Succeeded, Missing

(* After the step, the references in the file at p, held for note n.       *)
RefsNext(n, p) ==
    files'[p] # Absent => \A a \in files'[p].refs : Settled(n, a)'

(* A file that is moved, copied or stamped takes its references along.     *)
LEMMA RefsCarried ==
    ASSUME CallInv, KeepsSettled, NEW n \in Paths, NEW q \in Paths, NEW p,
           RefsSettled(n, q), files[q] # Absent, files'[p].refs = files[q].refs
    PROVE  RefsNext(n, p)
<1>1. files[q].refs \subseteq Slots
  BY DEF CallInv, TypeOK, File
<1> QED BY <1>1 DEF RefsNext, RefsSettled, Missing, KeepsSettled

LEMMA RefsUntouched ==
    ASSUME CallInv, KeepsSettled, NEW n \in Paths, NEW p \in Paths,
           RefsSettled(n, p), files'[p] = files[p]
    PROVE  RefsNext(n, p)
<1>1. CASE files[p] = Absent
  BY <1>1 DEF RefsNext
<1>2. CASE files[p] # Absent
  BY <1>2, RefsCarried
<1> QED BY <1>1, <1>2

(* The rows of the audit log.                                              *)
LEMMA RowsSettled ==
    ASSUME CallInv, SupInv, KeepsSettled, NEW r \in audit, NEW a \in r.archived
    PROVE  Settled(r.path, a)'
<1>1. r.path \in Paths /\ r.archived \subseteq Slots
  BY DEF CallInv, TypeOK, Row
<1> QED BY <1>1 DEF SupInv, KeepsSettled

(* The archive files of a call that is about to end, of another server.    *)
LEMMA LinkedSettled ==
    ASSUME CallInv, SupInv, KeepsSettled, NEW s \in Servers, OthersKept(s),
           NEW t \in Servers \ {s}, pc'[t] = "audit",
           NEW a \in Archived(call'[t])
    PROVE  Settled(call[t].path, a)'
<1>1. pc[t] = "audit" /\ call'[t] = call[t] /\ InCall(t)
  BY DEF OthersKept, InCall
<1>2. /\ a \in Archived(call[t]) /\ a \in Slots
      /\ call[t].path \in Paths
  BY <1>1, TypedCall
<1> QED BY <1>1, <1>2 DEF SupInv, KeepsSettled

(* A step within a call of s: what is left to show is what the files of    *)
(* the call itself hold.                                                   *)
LEMMA OwnStep ==
    ASSUME Partitioned, CallInv, CallInv', HistInv, SupInv, NEW s \in Servers,
           InCall(s), InCall(s)', pc[s] # "audit",
           OthersKept(s), named \subseteq named', call'[s] = call[s],
           audit' = audit, OnlyOwnFiles(s), OnlyOwnOutcome(s), CallHolds(s)',
           files' = files \/ pc'[s] \notin {"planned", "replace"},
           \A n \in Given(call[s]) \cap Notes : KeepsSettled => RefsNext(n, n),
           \A n \in moved'[s] \cap Notes :
              KeepsSettled => RefsNext(n, call[s].dest[n]),
           pc'[s] = "audit" =>
              \A a \in Archived(call[s]) : Settled(call[s].path, a)'
    PROVE  SupInv'
<1>1. KeepsSettled
  BY OwnStepSettled
<1>2. \A t \in Servers : CallHolds(t)'
  BY OthersHold
<1>3. ASSUME NEW n \in Notes PROVE RefsSettled(n, n)'
  <2>1. CASE n \in Given(call[s])
    BY <1>1, <2>1 DEF RefsNext, RefsSettled, Missing
  <2>2. CASE n \notin Given(call[s])
    <3>1. n \in Paths \ Footprint(s)
      BY <2>2, TypedCall, ConstantFacts DEF Footprint, Paths
    <3>2. RefsNext(n, n)
      BY <1>1, <3>1, RefsUntouched DEF OnlyOwnFiles, SupInv
    <3> QED BY <3>2 DEF RefsNext, RefsSettled, Missing
  <2> QED BY <2>1, <2>2
<1>4. ASSUME NEW t \in Servers, NEW n \in moved'[t] \cap Notes
      PROVE  RefsSettled(n, call[t].dest[n])'
  <2>1. CASE t = s
    BY <1>1, <1>4, <2>1 DEF RefsNext, RefsSettled, Missing
  <2>2. CASE t # s
    <3>1. call'[t] = call[t] /\ n \in moved[t] /\ InCall(t)
      BY <1>4, <2>2 DEF OthersKept, CallInv, LocalOK, NoCallOK
    <3>2. /\ n \in Paths /\ call[t].dest[n] \in Footprint(t)
          /\ call[t].dest[n] \in Paths
      BY <3>1, FootprintFacts
    <3>3. files'[call[t].dest[n]] = files[call[t].dest[n]]
      BY <2>2, <3>1, <3>2, FootprintsDisjoint DEF OnlyOwnFiles
    <3>4. RefsNext(n, call[t].dest[n])
      BY <1>1, <1>4, <3>1, <3>2, <3>3, RefsUntouched DEF SupInv
    <3> QED BY <3>1, <3>4 DEF RefsNext, RefsSettled, Missing
  <2> QED BY <2>1, <2>2
<1>5. \A r \in audit' : \A a \in r.archived : Settled(r.path, a)'
  BY <1>1, RowsSettled
<1>6. ASSUME NEW t \in Servers, pc'[t] = "audit", NEW a \in Archived(call[t])'
      PROVE  Settled(call[t].path, a)'
  <2>1. CASE t = s
    BY <1>6, <2>1 DEF Archived, Sources, Settled
  <2>2. CASE t # s
    BY <1>1, <1>6, <2>2, LinkedSettled DEF Archived, Sources
  <2> QED BY <2>1, <2>2
<1> QED BY <1>2, <1>3, <1>4, <1>5, <1>6 DEF SupInv

----------------------------------------------------------------------------
(* Steps that change no file: calls begin, end, or only read.              *)

LEMMA FilesKept ==
    ASSUME CallInv, CallInv', SupInv, NEW s \in Servers,
           OthersKept(s), named \subseteq named',
           files' = files, moved'[s] = {}, CallHolds(s)', pc'[s] # "audit",
           \A t \in Servers \ {s} : CallHolds(t)',
           InCall(s)' => \A a \in Archived(call'[s]) : Missing(a),
           \A r \in audit' \ audit : \A a \in r.archived :
              r.path \in Paths /\ a \in Slots /\ Settled(r.path, a)
    PROVE  SupInv'
<1>1. KeepsSettled
  <2> SUFFICES ASSUME NEW n \in Paths, NEW a \in Slots, Settled(n, a),
                      a \notin named'
               PROVE  Settled(n, a)'
    BY DEF KeepsSettled, Settled
  <2>1. ASSUME NEW t \in Servers, InCall(t)', pc'[t] # "audit"
        PROVE  a \notin Archived(call[t])'
    <3>1. CASE t = s
      BY <2>1, <3>1 DEF Settled, Succeeded, Archived, Sources
    <3>2. CASE t # s
      BY <2>1, <3>2 DEF Settled, OthersKept, InCall, Archived, Sources
    <3> QED BY <3>1, <3>2
  <2> QED BY <2>1 DEF Settled, Succeeded, Missing
<1>2. ASSUME NEW n \in Notes PROVE RefsSettled(n, n)'
  <2>1. RefsNext(n, n)
    BY <1>1, RefsUntouched DEF Paths, SupInv
  <2> QED BY <2>1 DEF RefsNext, RefsSettled, Missing
<1>3. ASSUME NEW t \in Servers, NEW n \in moved'[t] \cap Notes
      PROVE  RefsSettled(n, call[t].dest[n])'
  <2>1. t # s /\ call'[t] = call[t] /\ n \in moved[t] /\ InCall(t)
    BY <1>3 DEF OthersKept, CallInv, LocalOK, NoCallOK
  <2>2. n \in Paths /\ call[t].dest[n] \in Paths
    BY <2>1, FootprintFacts
  <2>3. RefsNext(n, call[t].dest[n])
    BY <1>1, <1>3, <2>1, <2>2, RefsUntouched DEF SupInv
  <2> QED BY <2>1, <2>3 DEF RefsNext, RefsSettled, Missing
<1>4. \A r \in audit' : \A a \in r.archived : Settled(r.path, a)'
  BY <1>1, RowsSettled DEF KeepsSettled
<1>5. ASSUME NEW t \in Servers, pc'[t] = "audit", NEW a \in Archived(call[t])'
      PROVE  Settled(call[t].path, a)'
  BY <1>1, <1>5, LinkedSettled DEF Archived, Sources
<1> QED BY <1>1, <1>2, <1>3, <1>4, <1>5 DEF SupInv

LEMMA EndStep ==
    ASSUME Partitioned, CallInv, CallInv', HistInv, SupInv, NEW s \in Servers,
           InCall(s), NEW r, Return(s, r), files' = files, named' = named,
           \/ audit' = audit
           \/ pc[s] = "audit" /\ audit' = audit \cup
                 {[body |-> call[s].body, path |-> call[s].path,
                   archived |-> Archived(call[s])]}
    PROVE  SupInv'
<1>1. /\ OthersKept(s) /\ ~InCall(s)' /\ moved'[s] = {} /\ pc'[s] = "idle"
      /\ OnlyOwnFiles(s) /\ OnlyOwnOutcome(s)
  BY DEF Return, Goto, OthersKept, InCall, OnlyOwnFiles, OnlyOwnOutcome,
         CallInv, TypeOK
<1>2. /\ CallHolds(s)'
      /\ \A t \in Servers \ {s} : CallHolds(t)'
  BY <1>1, OthersHold DEF CallHolds
<1>3. ASSUME NEW row \in audit' \ audit, NEW a \in row.archived
      PROVE  row.path \in Paths /\ a \in Slots /\ Settled(row.path, a)
  <2>1. /\ pc[s] = "audit" /\ row.path = call[s].path
        /\ a \in Archived(call[s])
    BY <1>3
  <2>2. call[s].path \in Paths /\ Archived(call[s]) \subseteq Slots
    BY TypedCall
  <2> QED BY <2>1, <2>2 DEF SupInv
<1> QED BY <1>1, <1>2, <1>3, FilesKept

LEMMA ReturnsSup ==
    ASSUME Partitioned, CallInv, CallInv', HistInv, SupInv, NEW s \in Servers,
           \/ Audit(s) \/ RollbackDone(s) \/ WriteFails(s) \/ AuditFails(s)
           \/ Kill(s)
    PROVE  SupInv'
<1>1. InCall(s)
  BY DEF InCall, Audit, RollbackDone, WriteFails, AuditFails, Kill
<1>2. PICK r : Return(s, r)
  BY DEF RollbackDone, Audit, WriteFails, AuditFails, Kill
<1>3. files' = files /\ named' = named
  BY DEF RollbackDone, Audit, WriteFails, AuditFails, Kill
<1>4. \/ audit' = audit
      \/ pc[s] = "audit" /\ audit' = audit \cup
            {[body |-> call[s].body, path |-> call[s].path,
              archived |-> Archived(call[s])]}
  BY DEF RollbackDone, Audit, WriteFails, AuditFails, Kill
<1> QED BY <1>1, <1>2, <1>3, <1>4, EndStep

(* read_note.                                                              *)
LEMMA ReadSup ==
    ASSUME Partitioned, CallInv, CallInv', HistInv, SupInv, NEW s \in Servers,
           OthersKept(s), named \subseteq named',
           ReadHash(s) \/ \E p \in Paths : ReadText(s, p)
    PROVE  SupInv'
<1>1. /\ ~InCall(s) /\ ~InCall(s)' /\ moved'[s] = {}
      /\ UNCHANGED <<files, outcome, audit>> /\ pc'[s] # "audit"
  BY DEF ReadHash, ReadText, Goto, InCall, CallInv, TypeOK, LocalOK, NoCallOK
<1>2. CallHolds(s)' /\ \A t \in Servers \ {s} : CallHolds(t)'
  BY <1>1, OthersHold DEF CallHolds
<1> QED BY <1>1, <1>2, FilesKept

(* A call is accepted: what its checks found holds of its files.           *)
LEMMA AcceptSup ==
    ASSUME Partitioned, CallInv, CallInv', HistInv, SupInv, NEW s \in Servers,
           OthersKept(s), named \subseteq named',
           pc[s] = "idle", NEW op, NEW p, NEW e, NEW d,
           NEW step \in {"planned", "replace"}, Accept(s, op, p, e, d, step),
           \A n \in Paths : d[n] # NoSlot => ~Missing(n) /\ Missing(d[n]),
           step = "planned" => op = "update",
           step = "replace" => d = NoMoves,
           step = "replace" => IF op = "create" THEN Missing(p)
                                                ELSE Updatable(p, e)
    PROVE  SupInv'
<1> DEFINE c == call'[s]
<1>1. /\ pc'[s] = step /\ InCall(s)' /\ moved'[s] = {}
      /\ c.op = op /\ c.path = p /\ c.expect = e /\ c.dest = d
      /\ UNCHANGED <<files, outcome, audit>>
  BY DEF Accept, Goto, InCall, CallInv, TypeOK, LocalOK, NoCallOK
<1>2. Sources(c) = {n \in Paths : d[n] # NoSlot}
  BY <1>1 DEF Sources
<1>3. \A a \in Archived(c) : Missing(a)
  BY <1>1, <1>2 DEF Archived
<1>4. CallHolds(s)'
  <2>1. TargetOK(s)'
    BY <1>1, <1>2 DEF TargetOK, Missing, Updatable, Outdated, Archived, NoMoves
  <2>2. PendingOK(s)'
    BY <1>1, <1>2 DEF PendingOK, Pending, Missing
  <2>3. MovedOK(s)' /\ StampingOK(s)' /\ RollbackOK(s)'
    BY <1>1 DEF MovedOK, StampingOK, RollbackOK
  <2> QED BY <2>1, <2>2, <2>3 DEF CallHolds
<1>5. \A t \in Servers \ {s} : CallHolds(t)'
  BY <1>1, OthersHold
<1> QED BY <1>1, <1>3, <1>4, <1>5, FilesKept

LEMMA RequestSup ==
    ASSUME Partitioned, CallInv, CallInv', HistInv, SupInv, NEW s \in Servers,
           OthersKept(s), named \subseteq named',
           Request(s), vars' # vars
    PROVE  SupInv'
<1>1. ASSUME NEW p \in Scope[s], ReadText(s, p) PROVE SupInv'
  BY <1>1, ReadSup, ConstantFacts
<1>2. ASSUME NEW p \in Scope[s], Create(s, p) PROVE SupInv'
  <2>1. \A n \in Paths : NoMoves[n] = NoSlot
    BY DEF NoMoves
  <2> QED BY <1>2, <2>1, AcceptSup DEF Create, Refuse
<1>3. ASSUME NEW p \in Scope[s], NEW e \in ClientHashes(p), Update(s, p, e)
      PROVE  SupInv'
  <2>1. \A n \in Paths : NoMoves[n] = NoSlot
    BY DEF NoMoves
  <2> QED BY <1>3, <2>1, AcceptSup DEF Update, Refuse
<1>4. ASSUME NEW p \in Scope[s], NEW e \in ClientHashes(p), NEW S \in SUBSET Scope[s],
             Plan(s, p, e, S)
      PROVE  SupInv'
  <2>1. PICK d \in Destinations(S) :
          Accept(s, "update", p, e,
                 [n \in Paths |-> IF n \in S THEN d[n] ELSE NoSlot], "planned")
    BY <1>4 DEF Plan, Refuse
  <2> DEFINE D == [n \in Paths |-> IF n \in S THEN d[n] ELSE NoSlot]
  <2>2. \A n \in Paths : D[n] # NoSlot => ~Missing(n) /\ Missing(D[n])
    BY <1>4 DEF Plan, Refuse, Destinations
  <2>3. pc[s] = "idle"
    BY <1>4 DEF Plan
  <2> HIDE DEF D
  <2> QED BY <2>1, <2>2, <2>3, AcceptSup DEF D
<1> QED BY <1>1, <1>2, <1>3, <1>4 DEF Request

----------------------------------------------------------------------------
(* Steps within a call.                                                    *)

(* A step that only reads.                                                 *)
LEMMA QuietStep ==
    ASSUME Partitioned, CallInv, CallInv', HistInv, SupInv, NEW s \in Servers,
           InCall(s), pc[s] # "audit",
           OthersKept(s), named \subseteq named',
           UNCHANGED <<files, call, moved, outcome, audit>>, CallHolds(s)',
           InCall(s)', pc'[s] # "audit"
    PROVE  SupInv'
<1>1. OnlyOwnFiles(s) /\ OnlyOwnOutcome(s)
  BY DEF OnlyOwnFiles, OnlyOwnOutcome
<1>2. \A n \in Given(call[s]) \cap Notes :
         KeepsSettled => RefsNext(n, n)
  BY FootprintFacts, RefsUntouched DEF Paths, Given, SupInv
<1>3. \A n \in moved'[s] \cap Notes : KeepsSettled => RefsNext(n, call[s].dest[n])
  BY FootprintFacts, RefsUntouched DEF Paths, Given, SupInv
<1> QED BY <1>1, <1>2, <1>3, OwnStep

(* commit gives up: what it has not moved is in its place.                 *)
LEMMA AbortHolds ==
    ASSUME CallInv, NEW s \in Servers, InCall(s), CallHolds(s),
           pc[s] \notin {"planned", "rollback"},
           Abort(s), \A n \in Sources(call[s]) : files'[n] = files[n]
    PROVE  CallHolds(s)'
<1>1. /\ pc'[s] = "rollback" /\ call'[s] = call[s] /\ moved'[s] = moved[s]
      /\ Sources(call[s])' = Sources(call[s])
  BY DEF Abort, Goto, CallInv, TypeOK, Sources
<1>2. moved[s] \subseteq Sources(call[s])
  BY FootprintFacts
<1>3. MovedOK(s)'
  BY <1>1, <1>2 DEF MovedOK, CallHolds, Missing
<1>4. RollbackOK(s)'
  BY <1>1, <1>2 DEF RollbackOK, PendingOK, Pending, CallHolds, Missing
<1>5. TargetOK(s)'
  BY <1>1 DEF CallHolds, TargetOK, Archived
<1> QED BY <1>1, <1>3, <1>4, <1>5 DEF CallHolds, PendingOK, StampingOK

LEMMA AbortSup ==
    ASSUME Partitioned, CallInv, CallInv', HistInv, SupInv, NEW s \in Servers,
           OthersKept(s), named \subseteq named',
           Abort(s), files' = files,
           pc[s] \in {"archive", "stamp", "stamping", "linking"}
    PROVE  SupInv'
<1>1. InCall(s)
  BY DEF InCall
<1>2. CallHolds(s)'
  BY <1>1, AbortHolds DEF SupInv
<1>3. InCall(s)' /\ pc'[s] # "audit"
  BY DEF Abort, Goto, InCall, CallInv, TypeOK
<1>4. UNCHANGED <<files, call, moved, outcome, audit>>
  BY DEF Abort
<1> QED BY <1>1, <1>2, <1>3, <1>4, QuietStep

LEMMA UpdatePlannedSup ==
    ASSUME Partitioned, CallInv, CallInv', HistInv, SupInv, NEW s \in Servers,
           OthersKept(s), named \subseteq named',
           UpdatePlanned(s)
    PROVE  SupInv'
<1>1. InCall(s) /\ pc[s] = "planned" /\ UNCHANGED <<files, named, audit>>
  BY DEF UpdatePlanned, InCall
<1>2. CASE \E r : Return(s, r)
  BY <1>1, <1>2, EndStep
<1>3. CASE /\ Updatable(call[s].path, call[s].expect) /\ Goto(s, "replace")
           /\ UNCHANGED <<call, moved, cur, buf, outcome>>
  <2>1. /\ pc'[s] = "replace" /\ InCall(s)'
        /\ UNCHANGED <<files, call, moved, outcome, audit>>
    BY <1>1, <1>3 DEF Goto, InCall, CallInv, TypeOK
  <2>2. moved[s] = {} /\ CallHolds(s) /\ call[s].op = "update"
    BY <1>1, TypedCall DEF CallOK, SupInv, CallHolds, TargetOK
  <2>3. TargetOK(s)'
    <3>1. \A n \in Sources(call[s]) : call[s].dest[n] # call[s].path
      BY <1>1, <1>3, <2>2 DEF CallHolds, PendingOK, Pending, Updatable, Missing
    <3>2. call'[s].path \notin Archived(call'[s])
      BY <2>1, <3>1 DEF Archived, Sources
    <3> QED BY <1>3, <2>1, <2>2, <3>2 DEF TargetOK, Updatable, Outdated, Missing
  <2>4. PendingOK(s)'
    BY <1>1, <2>1, <2>2 DEF CallHolds, PendingOK, Pending, Sources, Missing
  <2>5. MovedOK(s)' /\ StampingOK(s)' /\ RollbackOK(s)'
    BY <2>1, <2>2 DEF MovedOK, StampingOK, RollbackOK
  <2> QED BY <1>1, <2>1, <2>3, <2>4, <2>5, QuietStep DEF CallHolds
<1> QED BY <1>2, <1>3 DEF UpdatePlanned

(* The note is written: what its checks allowed is gone, and the text is   *)
(* that of the call.                                                       *)
LEMMA ReplaceSup ==
    ASSUME Partitioned, CallInv, CallInv', HistInv, SupInv, NEW s \in Servers,
           OthersKept(s), named \subseteq named',
           Replace(s)
    PROVE  SupInv'
<1> DEFINE c == call[s]
           next == IF Sources(c) = {} THEN "audit" ELSE "archive"
<1>1. /\ InCall(s) /\ pc[s] = "replace" /\ CallHolds(s) /\ moved[s] = {}
      /\ c.body \in Calls
  BY TypedCall DEF Replace, InCall, SupInv, CallOK
<1>2. /\ pc'[s] = next /\ call' = call /\ moved' = moved /\ outcome' = outcome
      /\ audit' = audit /\ files' = [files EXCEPT ![c.path] = Text(c.body)]
      /\ InCall(s)'
  BY DEF Replace, Put, Goto, InCall, CallInv, TypeOK
<1>3. /\ files'[c.path] = Text(c.body)
      /\ \A p \in Paths \ {c.path} : files'[p] = files[p]
  BY <1>1, <1>2, FootprintFacts DEF Paths, CallInv, TypeOK
<1>4. \A n \in Sources(c) : /\ n \in Paths /\ files'[n] = files[n]
                              /\ files'[c.dest[n]] = files[c.dest[n]]
  BY <1>1, <1>3, FootprintFacts, TargetApart
<1>5. CallHolds(s)'
  <2>1. TargetOK(s)'
    <3>1. c.path \notin Archived(c)
      BY <1>1 DEF CallHolds, TargetOK
    <3>2. Archived(call'[s]) = Archived(c) /\ Sources(call'[s]) = Sources(c)
      BY <1>2 DEF Archived, Sources
    <3> QED BY <1>2, <1>3, <3>1, <3>2 DEF TargetOK, Written
  <2>2. PendingOK(s)'
    BY <1>1, <1>2, <1>4 DEF CallHolds, PendingOK, Pending, Sources, Missing
  <2>3. MovedOK(s)' /\ StampingOK(s)' /\ RollbackOK(s)'
    BY <1>1, <1>2 DEF MovedOK, StampingOK, RollbackOK
  <2> QED BY <2>1, <2>2, <2>3 DEF CallHolds
<1>6. OnlyOwnFiles(s) /\ OnlyOwnOutcome(s)
  BY <1>2, <1>3 DEF OnlyOwnFiles, OnlyOwnOutcome, Footprint, Given
<1>7. ASSUME KeepsSettled, NEW n \in Given(c) \cap Notes
      PROVE  RefsNext(n, n)
  <2>1. CASE n = c.path
    BY <1>1, <1>3, <2>1, TextFile DEF RefsNext
  <2>2. CASE n # c.path
    BY <1>4, <1>7, <2>2, RefsUntouched DEF Given, SupInv
  <2> QED BY <2>1, <2>2
<1>8. next = "audit" => Archived(c) = {}
  BY DEF Archived
<1> QED BY <1>1, <1>2, <1>5, <1>6, <1>7, <1>8, OwnStep

(* A source is moved: it takes its references along.                       *)
LEMMA MoveSourceSup ==
    ASSUME Partitioned, CallInv, CallInv', HistInv, SupInv, NEW s \in Servers,
           OthersKept(s), named \subseteq named',
           NEW n \in Paths, MoveSource(s, n)
    PROVE  SupInv'
<1> DEFINE c == call[s]
           a == c.dest[n]
<1>1. /\ InCall(s) /\ pc[s] = "archive" /\ CallHolds(s)
      /\ n \in Sources(c) /\ n \notin moved[s] /\ ~Missing(n) /\ Missing(a)
  BY DEF MoveSource, InCall, SupInv, CallHolds, PendingOK, Pending
<1>2. /\ pc'[s] = "stamp" /\ InCall(s)'
      /\ call' = call /\ outcome' = outcome /\ audit' = audit
      /\ moved'[s] = moved[s] \cup {n} /\ cur'[s] = n
      /\ files' = [files EXCEPT ![a] = files[n], ![n] = Absent]
  BY <1>1 DEF MoveSource, Goto, InCall, CallInv, TypeOK
<1>3. /\ n # a /\ n \in Paths /\ a \in Paths /\ n # c.path /\ a # c.path
      /\ c.path \in Paths
      /\ \A m \in Sources(c) \ {n} : /\ m \in Paths \ {n, a}
                                     /\ c.dest[m] \in Paths \ {n, a}
  BY <1>1, FootprintFacts, TargetApart
<1>4. /\ files'[a] = files[n] /\ files'[n] = Absent
      /\ \A p \in Paths \ {n, a} : files'[p] = files[p]
  BY <1>2, <1>3 DEF CallInv, TypeOK
<1>5. moved[s] \subseteq Sources(c) \ {n}
  BY <1>1, FootprintFacts
<1>6. CallHolds(s)'
  <2>1. TargetOK(s)'
    <3>1. TargetOK(s) /\ call'[s] = call[s] /\ pc'[s] = "stamp"
      BY <1>1, <1>2 DEF CallHolds
    <3>2. files'[c.path] = files[c.path]
      BY <1>3, <1>4
    <3> QED BY <1>1, <3>1, <3>2, TargetStays
  <2>2. PendingOK(s)'
    <3>1. Pending(s)' = Pending(s) \ {n}
      BY <1>2 DEF Pending, Sources
    <3>2. \A m \in Pending(s) \ {n} : /\ files'[m] = files[m]
                                      /\ files'[c.dest[m]] = files[c.dest[m]]
      BY <1>3, <1>4 DEF Pending
    <3> QED BY <1>1, <1>2, <3>1, <3>2 DEF CallHolds, PendingOK, Missing
  <2>3. MovedOK(s)'
    <3> SUFFICES ASSUME NEW m \in moved'[s]
                 PROVE  /\ files'[m] = Absent /\ files'[c.dest[m]] # Absent
                        /\ m = n \/ files'[c.dest[m]].by = c.path
      BY <1>2 DEF MovedOK, Missing
    <3>1. CASE m = n
      BY <1>1, <1>4, <3>1 DEF Missing
    <3>2. CASE m # n
      <4>1. m \in moved[s]
        BY <1>2, <3>2
      <4> QED BY <1>1, <1>3, <1>4, <1>5, <4>1 DEF CallHolds, MovedOK, Missing
    <3> QED BY <3>1, <3>2
  <2> QED BY <1>2, <2>1, <2>2, <2>3 DEF CallHolds, StampingOK, RollbackOK
<1>7. OnlyOwnFiles(s) /\ OnlyOwnOutcome(s)
  <2>1. n \in Footprint(s) /\ a \in Footprint(s)
    BY <1>1, FootprintFacts
  <2> QED BY <1>2, <1>4, <2>1 DEF OnlyOwnFiles, OnlyOwnOutcome
<1>8. ASSUME KeepsSettled, NEW m \in Given(c) \cap Notes
      PROVE  RefsNext(m, m)
  <2>1. CASE m = n
    BY <1>4, <2>1 DEF RefsNext
  <2>2. CASE m # n
    <3>1. m \in Paths /\ files'[m] = files[m]
      BY <1>3, <1>4, <2>2 DEF Given
    <3> QED BY <1>8, <3>1, RefsUntouched DEF SupInv
  <2> QED BY <2>1, <2>2
<1>9. ASSUME KeepsSettled, NEW m \in moved'[s] \cap Notes
      PROVE  RefsNext(m, c.dest[m])
  <2>1. CASE m = n
    <3>1. RefsSettled(n, n) /\ files[n] # Absent
      BY <1>1, <1>9, <2>1 DEF SupInv, Missing
    <3> QED BY <1>3, <1>4, <1>9, <2>1, <3>1, RefsCarried
  <2>2. CASE m # n
    <3>1. /\ m \in moved[s] /\ m \in Paths /\ c.dest[m] \in Paths
          /\ files'[c.dest[m]] = files[c.dest[m]]
      BY <1>1, <1>2, <1>3, <1>4, <1>5, <1>9, <2>2
    <3> QED BY <1>9, <3>1, RefsUntouched DEF SupInv
  <2> QED BY <2>1, <2>2
<1> QED BY <1>1, <1>2, <1>6, <1>7, <1>8, <1>9, OwnStep

LEMMA ReadsSup ==
    ASSUME Partitioned, CallInv, CallInv', HistInv, SupInv, NEW s \in Servers,
           OthersKept(s), named \subseteq named',
           StampRead(s) \/ LinkRead(s)
    PROVE  SupInv'
<1> DEFINE c == call[s]
           p == IF pc[s] = "stamp" THEN c.dest[cur[s]] ELSE c.path
           next == IF pc[s] = "stamp" THEN "stamping" ELSE "linking"
<1>1. /\ InCall(s) /\ pc[s] \in {"stamp", "archive"} /\ CallHolds(s)
      /\ pc[s] = "archive" => Pending(s) = {}
      /\ MergeRead(s, p, next)
  BY DEF StampRead, LinkRead, InCall, SupInv
<1>2. CASE ~Mergeable(p)
  BY <1>1, <1>2, AbortSup DEF MergeRead
<1>3. CASE Mergeable(p)
  <2>1. /\ pc'[s] = next /\ buf'[s] = files[p] /\ cur' = cur /\ InCall(s)'
        /\ UNCHANGED <<files, call, moved, outcome, audit>>
    BY <1>1, <1>3 DEF MergeRead, Goto, InCall, CallInv, TypeOK
  <2>2. TargetOK(s)'
    BY <1>1, <2>1 DEF CallHolds, TargetOK, Archived, Sources
  <2>3. PendingOK(s)'
    BY <1>1, <2>1 DEF CallHolds, PendingOK, Pending, Sources, Missing
  <2>4. MovedOK(s)'
    BY <1>1, <2>1 DEF CallHolds, MovedOK, Missing
  <2>5. StampingOK(s)' /\ RollbackOK(s)'
    BY <1>1, <2>1 DEF StampingOK, RollbackOK
  <2> QED BY <1>1, <2>1, <2>2, <2>3, <2>4, <2>5, QuietStep DEF CallHolds
<1> QED BY <1>2, <1>3

(* The archived copy is stamped with its successor, and nothing else of it *)
(* changes.                                                                *)
LEMMA StampReplaceSup ==
    ASSUME Partitioned, CallInv, CallInv', HistInv, SupInv, NEW s \in Servers,
           OthersKept(s), named \subseteq named',
           StampReplace(s)
    PROVE  SupInv'
<1> DEFINE c == call[s]
           n == cur[s]
           a == c.dest[n]
<1>1. /\ InCall(s) /\ pc[s] = "stamping" /\ CallHolds(s)
      /\ n \in moved[s] /\ buf[s] \in File /\ buf[s] = files[a]
  BY TypedCall DEF StampReplace, InCall, SupInv, CallOK, CallHolds, StampingOK
<1>2. /\ n \in Sources(c) /\ n \in Paths /\ a \in Paths /\ c.path \in Paths
      /\ a # c.path /\ a \notin Notes /\ a \in Footprint(s)
      /\ moved[s] \subseteq Sources(c)
      /\ \A m \in Sources(c) : m # a /\ m \in Paths
      /\ \A m \in Sources(c) \ {n} : c.dest[m] # a /\ c.dest[m] \in Paths
  BY <1>1, FootprintFacts, TargetApart, ConstantFacts
<1>3. /\ pc'[s] = "archive" /\ InCall(s)'
      /\ UNCHANGED <<call, moved, cur, outcome, audit>>
      /\ files' = [files EXCEPT ![a] = Stamped(buf[s], c.path)]
  BY DEF StampReplace, MergeReplace, Put, Goto, InCall, CallInv, TypeOK
<1>4. /\ files'[a] \in File /\ files'[a] # Absent
      /\ files'[a].by = c.path /\ files'[a].refs = files[a].refs
      /\ files[a] # Absent
      /\ \A p \in Paths \ {a} : files'[p] = files[p]
  <2>1. PICK f : f = Stamped(buf[s], c.path)
    OBVIOUS
  <2>2. f \in File /\ f.by = c.path /\ f.refs = buf[s].refs
    <3> HIDE DEF c
    <3> QED BY <1>1, <1>2, <2>1, StampedFile, ZenonT(30)
  <2>3. files'[a] = f /\ \A p \in Paths \ {a} : files'[p] = files[p]
    BY <1>2, <1>3, <2>1 DEF CallInv, TypeOK
  <2> QED BY <1>1, <2>2, <2>3, ConstantFacts
<1>5. CallHolds(s)'
  <2>1. TargetOK(s)'
    <3>1. TargetOK(s) /\ call'[s] = call[s] /\ pc'[s] = "archive"
      BY <1>1, <1>3 DEF CallHolds
    <3>2. files'[c.path] = files[c.path]
      BY <1>2, <1>4
    <3> QED BY <1>1, <3>1, <3>2, TargetStays
  <2>2. PendingOK(s)'
    <3>1. Pending(s)' = Pending(s)
      BY <1>3 DEF Pending, Sources
    <3>2. \A m \in Pending(s) : /\ files'[m] = files[m]
                                /\ files'[c.dest[m]] = files[c.dest[m]]
      BY <1>1, <1>2, <1>4 DEF Pending
    <3> QED BY <1>1, <1>3, <3>1, <3>2 DEF CallHolds, PendingOK, Missing
  <2>3. MovedOK(s)'
    <3> SUFFICES ASSUME NEW m \in moved[s]
                 PROVE  /\ files'[m] = Absent /\ files'[c.dest[m]] # Absent
                        /\ files'[c.dest[m]].by = c.path
      BY <1>3 DEF MovedOK, Missing
    <3>1. CASE m = n
      BY <1>1, <1>2, <1>4, <3>1 DEF CallHolds, MovedOK, Missing
    <3>2. CASE m # n
      <4>1. /\ files'[m] = files[m] /\ files'[c.dest[m]] = files[c.dest[m]]
        BY <1>2, <1>4, <3>2
      <4> QED BY <1>1, <3>2, <4>1 DEF CallHolds, MovedOK, Missing
    <3> QED BY <3>1, <3>2
  <2> QED BY <1>3, <2>1, <2>2, <2>3 DEF CallHolds, StampingOK, RollbackOK
<1>6. OnlyOwnFiles(s) /\ OnlyOwnOutcome(s)
  BY <1>2, <1>3, <1>4 DEF OnlyOwnFiles, OnlyOwnOutcome
<1>7. ASSUME KeepsSettled, NEW m \in Given(c) \cap Notes
      PROVE  RefsNext(m, m)
  <2>1. m \in Paths /\ files'[m] = files[m]
    BY <1>2, <1>4, <1>7 DEF Paths
  <2> QED BY <1>7, <2>1, RefsUntouched DEF SupInv
<1>8. ASSUME KeepsSettled, NEW m \in moved'[s] \cap Notes
      PROVE  RefsNext(m, c.dest[m])
  <2>0. m \in moved[s] /\ m \in Paths /\ RefsSettled(m, c.dest[m])
    BY <1>2, <1>3, <1>8 DEF SupInv
  <2>1. CASE m = n
    BY <1>2, <1>4, <1>8, <2>0, <2>1, RefsCarried
  <2>2. CASE m # n
    BY <1>2, <1>4, <1>8, <2>0, <2>2, RefsUntouched
  <2> QED BY <2>1, <2>2
<1> QED BY <1>1, <1>3, <1>5, <1>6, <1>7, <1>8, OwnStep

(* The note names all it archived, and each of these names it.             *)
LEMMA LinkReplaceSup ==
    ASSUME Partitioned, CallInv, CallInv', HistInv, SupInv, NEW s \in Servers,
           OthersKept(s), named \subseteq named',
           LinkReplace(s)
    PROVE  SupInv'
<1> DEFINE c == call[s]
<1>1. /\ InCall(s) /\ pc[s] = "linking" /\ CallHolds(s)
      /\ moved[s] = Sources(c) /\ c.body \in Calls
      /\ buf[s] = Text(c.body) /\ Archived(c) \subseteq Slots
      /\ Sources(c) # {} /\ c.path \notin Archived(c)
  BY TypedCall DEF LinkReplace, InCall, SupInv, CallOK, CallHolds, TargetOK
<1>2. /\ pc'[s] = "audit" /\ InCall(s)'
      /\ UNCHANGED <<call, moved, cur, outcome, audit>>
      /\ files' = [files EXCEPT ![c.path] = Linked(Text(c.body), Archived(c))]
  BY <1>1 DEF LinkReplace, MergeReplace, Put, Goto, InCall, CallInv, TypeOK
<1>3. /\ c.path \in Paths /\ c.path \in Footprint(s)
      /\ \A m \in Sources(c) : /\ m \in Paths \ {c.path}
                               /\ c.dest[m] \in Paths \ {c.path}
  BY <1>1, FootprintFacts, TargetApart
<1>4. /\ files'[c.path] = Linked(Text(c.body), Archived(c))
      /\ files'[c.path].refs = Archived(c)
      /\ \A p \in Paths \ {c.path} : files'[p] = files[p]
  BY <1>1, <1>2, <1>3, LinkedFile DEF CallInv, TypeOK
<1>5. CallHolds(s)'
  <2>1. TargetOK(s)'
    BY <1>1, <1>2, <1>4 DEF TargetOK, Written, Archived, Sources
  <2>2. PendingOK(s)'
    BY <1>1, <1>2 DEF PendingOK, Pending, Sources
  <2>3. MovedOK(s)'
    BY <1>1, <1>2, <1>3, <1>4 DEF CallHolds, MovedOK, Missing
  <2> QED BY <1>2, <2>1, <2>2, <2>3 DEF CallHolds, StampingOK, RollbackOK
<1>6. OnlyOwnFiles(s) /\ OnlyOwnOutcome(s)
  BY <1>2, <1>3, <1>4 DEF OnlyOwnFiles, OnlyOwnOutcome
<1>7. ASSUME NEW a \in Archived(c) PROVE Settled(c.path, a)'
  <2>1. PICK n \in moved[s] : a = c.dest[n]
    BY <1>1 DEF Archived
  <2>2. files'[a] = files[a] /\ files[a] # Absent /\ files[a].by = c.path
    BY <1>1, <1>3, <1>4, <2>1 DEF CallHolds, MovedOK, Missing
  <2>3. ASSUME NEW t \in Servers, InCall(t)', pc'[t] # "audit"
        PROVE  a \notin Archived(call[t])'
    <3>1. t # s /\ InCall(t) /\ call'[t] = call[t]
      BY <1>2, <2>3 DEF OthersKept, InCall
    <3>2. a \in Footprint(s) /\ Footprint(s) \cap Footprint(t) = {}
      BY <1>1, <3>1, FootprintsDisjoint DEF Footprint
    <3> QED BY <3>1, <3>2 DEF Footprint, Archived, Sources
  <2>4. a \notin EditorFiles
    <3>1. n \in Scope[s] /\ a \in Slots /\ a[1] = FileName(n)
      BY <1>1, <2>1, TypedCall DEF CallOK
    <3> QED BY <3>1, ConstantFacts DEF Partitioned
  <2> QED BY <1>2, <2>2, <2>3, <2>4 DEF Settled, Succeeded, Missing
<1>8. ASSUME KeepsSettled, NEW m \in Given(c) \cap Notes
      PROVE  RefsNext(m, m)
  <2>1. CASE m = c.path
    BY <1>2, <1>4, <1>7, <2>1 DEF RefsNext, Settled, Succeeded, Missing
  <2>2. CASE m # c.path
    <3>1. m \in Paths /\ files'[m] = files[m]
      BY <1>4, <1>8, <2>2 DEF Paths
    <3> QED BY <1>8, <3>1, RefsUntouched DEF SupInv
  <2> QED BY <2>1, <2>2
<1>9. ASSUME KeepsSettled, NEW m \in moved'[s] \cap Notes
      PROVE  RefsNext(m, c.dest[m])
  <2>1. /\ m \in moved[s] /\ m \in Paths /\ RefsSettled(m, c.dest[m])
        /\ c.dest[m] \in Paths /\ files'[c.dest[m]] = files[c.dest[m]]
    BY <1>1, <1>2, <1>3, <1>4, <1>9 DEF SupInv
  <2> QED BY <1>9, <2>1, RefsUntouched
<1> QED BY <1>1, <1>2, <1>5, <1>6, <1>7, <1>8, <1>9, OwnStep

(* A move that leaves a copy: only a file that was not there changes.      *)
LEMMA MoveLeavesCopySup ==
    ASSUME Partitioned, CallInv, CallInv', HistInv, SupInv, NEW s \in Servers,
           OthersKept(s), named \subseteq named',
           NEW n \in Paths, MoveLeavesCopy(s, n)
    PROVE  SupInv'
<1> DEFINE c == call[s]
           a == c.dest[n]
<1>1. /\ InCall(s) /\ pc[s] = "archive" /\ CallHolds(s) /\ Abort(s)
      /\ n \in Sources(c) /\ n \notin moved[s]
      /\ files' = [files EXCEPT ![a] = files[n]]
  BY DEF MoveLeavesCopy, InCall, SupInv, Pending
<1>2. /\ a \in Slots /\ a \in Paths /\ a \in Footprint(s)
      /\ c.path \in Paths \ {a} /\ moved[s] \subseteq Sources(c) \ {n}
      /\ \A m \in Sources(c) : m \in Paths \ {a}
      /\ \A m \in Sources(c) \ {n} : c.dest[m] \in Paths \ {a}
  BY <1>1, FootprintFacts, TargetApart
<1>3. \A p \in Paths \ {a} : files'[p] = files[p]
  BY <1>1, <1>2 DEF CallInv, TypeOK
<1>4. CallHolds(s)'
  BY <1>1, <1>2, <1>3, AbortHolds
<1>5. OnlyOwnFiles(s) /\ OnlyOwnOutcome(s)
  BY <1>1, <1>2, <1>3 DEF Abort, OnlyOwnFiles, OnlyOwnOutcome
<1>6. \A m \in Given(c) \cap Notes : KeepsSettled => RefsNext(m, m)
  BY <1>2, <1>3, RefsUntouched, ConstantFacts DEF SupInv, Paths
<1>7. ASSUME KeepsSettled, NEW m \in moved'[s] \cap Notes
      PROVE  RefsNext(m, c.dest[m])
  <2>1. m \in moved[s]
    BY <1>1 DEF Abort
  <2>2. /\ m \in Paths /\ RefsSettled(m, c.dest[m])
        /\ c.dest[m] \in Paths /\ files'[c.dest[m]] = files[c.dest[m]]
    BY <1>2, <1>3, <1>7, <2>1 DEF SupInv
  <2> QED BY <1>7, <2>2, RefsUntouched
<1>8. pc'[s] = "rollback" /\ InCall(s)'
  BY <1>1 DEF Abort, Goto, InCall, CallInv, TypeOK
<1> QED BY <1>1, <1>4, <1>5, <1>6, <1>7, <1>8, OwnStep DEF Abort

(* A step of the rollback, whether it restores the note, copies it back,   *)
(* or fails.                                                               *)
LEMMA UndoSup ==
    ASSUME Partitioned, CallInv, CallInv', HistInv, SupInv, NEW s \in Servers,
           OthersKept(s), named \subseteq named',
           NEW n \in Paths, MoveBack(s, n) \/ MoveBackFails(s, n)
    PROVE  SupInv'
<1> DEFINE c == call[s]
           a == c.dest[n]
           b == c.body
<1>1. /\ InCall(s) /\ pc[s] = "rollback" /\ CallHolds(s) /\ n \in moved[s]
      /\ UNCHANGED <<pc, call, cur, audit>>
      /\ moved'[s] = moved[s] \ {n} /\ b \in Calls
      /\ outcome[b] \in {"open", "partial"}
  BY TypedCall DEF MoveBack, MoveBackFails, InCall, SupInv, CallInv, TypeOK,
     HistInv, CallOpen
<1>2. /\ n \in Sources(c) /\ n \in Paths /\ a \in Paths /\ n # a
      /\ n # c.path /\ n \in Footprint(s) /\ a \in Footprint(s)
      /\ a \notin Notes /\ c.path \in Paths \ {n, a}
      /\ moved[s] \subseteq Sources(c)
      /\ \A m \in Sources(c) \ {n} : /\ m \in Paths \ {n, a}
                                     /\ c.dest[m] \in Paths \ {n, a}
  BY <1>1, FootprintFacts, TargetApart, ConstantFacts
<1>3. /\ OnlyOwnOutcome(s)
      /\ \/ files' = files /\ outcome'[b] = "partial"
         \/ /\ ~Missing(a) /\ files'[n] = files[a]
            /\ outcome' = outcome \/ outcome'[b] = "partial"
            /\ \A p \in Paths \ {n, a} : files'[p] = files[p]
  BY <1>1, <1>2 DEF MoveBack, MoveBackFails, Unrecovered, OnlyOwnOutcome,
                    CallInv, TypeOK
<1>4. \A p \in Paths \ {n, a} : files'[p] = files[p]
  BY <1>3
<1>5. CallHolds(s)'
  <2>1. MovedOK(s)'
    BY <1>1, <1>2, <1>4 DEF CallHolds, MovedOK, Missing
  <2>2. RollbackOK(s)'
    <3> SUFFICES ASSUME outcome'[b] # "partial",
                        NEW m \in Sources(c) \ (moved[s] \ {n})
                 PROVE  files'[m] # Absent
      BY <1>1 DEF RollbackOK, Missing, Sources
    <3>1. CASE m = n
      BY <1>3, <3>1 DEF Missing
    <3>2. CASE m # n
      BY <1>1, <1>2, <1>3, <3>2 DEF CallHolds, RollbackOK, Missing
    <3> QED BY <3>1, <3>2
  <2> QED BY <1>1, <2>1, <2>2 DEF CallHolds, TargetOK, PendingOK, StampingOK,
                                  Archived, Sources
<1>6. OnlyOwnFiles(s)
  BY <1>2, <1>4 DEF OnlyOwnFiles
<1>7. ASSUME KeepsSettled, NEW m \in Given(c) \cap Notes
      PROVE  RefsNext(m, m)
  <2>1. CASE m = n
    <3>1. CASE files' = files
      BY <1>2, <1>7, <2>1, <3>1, RefsUntouched DEF SupInv
    <3>2. CASE ~Missing(a) /\ files'[n] = files[a]
      <4>1. RefsSettled(n, a) /\ files[a] # Absent
        BY <1>1, <1>7, <2>1, <3>2 DEF SupInv, Missing
      <4> QED BY <1>2, <1>7, <2>1, <3>2, <4>1, RefsCarried
    <3> QED BY <1>3, <3>1, <3>2
  <2>2. CASE m # n
    <3>1. m \in Paths /\ files'[m] = files[m]
      BY <1>2, <1>4, <1>7, <2>2 DEF Paths
    <3> QED BY <1>7, <3>1, RefsUntouched DEF SupInv
  <2> QED BY <2>1, <2>2
<1>8. ASSUME KeepsSettled, NEW m \in moved'[s] \cap Notes
      PROVE  RefsNext(m, c.dest[m])
  <2>1. /\ m \in Paths /\ RefsSettled(m, c.dest[m])
        /\ c.dest[m] \in Paths /\ files'[c.dest[m]] = files[c.dest[m]]
    BY <1>1, <1>2, <1>4, <1>8 DEF SupInv
  <2> QED BY <1>8, <2>1, RefsUntouched
<1>9. InCall(s)' /\ pc'[s] = "rollback"
  BY <1>1 DEF InCall
<1> QED BY <1>1, <1>3, <1>5, <1>6, <1>7, <1>8, <1>9, OwnStep

----------------------------------------------------------------------------
(* The user, the start, and any step.                                      *)

(* The user edits files that no client works on.                           *)
LEMMA EditorSup ==
    ASSUME Partitioned, CallInv, CallInv', HistInv, SupInv, Editor
    PROVE  SupInv'
<1>1. PICK n \in EditorFiles : EditorSaves(n) \/ EditorDeletes(n)
  BY DEF Editor
<1>2. /\ UNCHANGED <<pc, call, moved, cur, buf, outcome, named, audit>>
      /\ \A p \in Paths \ {n} : files'[p] = files[p]
      /\ files'[n] = Absent \/ files'[n].refs = {}
      /\ n \in Paths
  <2>1. n \in Paths
    BY VaultAssumption
  <2>2. EditorSaves(n) => files'[n].refs = {}
    BY <2>1 DEF EditorSaves, Text, CallInv, TypeOK
  <2> QED BY <1>1, <2>1, <2>2 DEF EditorSaves, EditorDeletes, CallInv, TypeOK
<1>3. ASSUME NEW t \in Servers, InCall(t) PROVE n \notin Footprint(t)
  <2>1. CallOK(t)
    BY <1>3, TypedCall
  <2>2. n \notin Given(call[t])
    BY <2>1 DEF Partitioned, CallOK, Given
  <2>3. n \notin Archived(call[t])
    <3> SUFFICES ASSUME NEW m \in Sources(call[t]), n = call[t].dest[m]
                 PROVE  FALSE
      BY DEF Archived
    <3>1. n \in Slots /\ n[1] = FileName(m) /\ m \in Scope[t]
      BY <2>1 DEF CallOK
    <3> QED BY <3>1, ConstantFacts DEF Partitioned
  <2> QED BY <2>2, <2>3 DEF Footprint
<1>4. ASSUME NEW t \in Servers PROVE CallHolds(t)'
  <2>1. CASE ~InCall(t)
    BY <1>2, <2>1 DEF CallHolds, InCall
  <2>2. CASE InCall(t)
    <3>1. \A p \in Footprint(t) : files'[p] = files[p]
      BY <1>2, <1>3, <2>2, FootprintFacts
    <3> QED BY <1>2, <2>2, <3>1, CallFrame DEF SupInv
  <2> QED BY <2>1, <2>2
<1>5. KeepsSettled
  BY <1>2 DEF KeepsSettled, Settled, Succeeded, Missing, InCall, Archived,
              Sources, Paths
<1>6. ASSUME NEW m \in Notes PROVE RefsSettled(m, m)'
  <2>1. CASE m = n
    BY <1>2, <2>1 DEF RefsSettled, Missing
  <2>2. CASE m # n
    <3>1. RefsNext(m, m)
      BY <1>2, <1>5, <2>2, RefsUntouched DEF SupInv, Paths
    <3> QED BY <3>1 DEF RefsNext, RefsSettled, Missing
  <2> QED BY <2>1, <2>2
<1>7. ASSUME NEW t \in Servers, NEW m \in moved'[t] \cap Notes
      PROVE  RefsSettled(m, call[t].dest[m])'
  <2>1. m \in moved[t] /\ InCall(t)
    BY <1>2, <1>7 DEF CallInv, LocalOK, NoCallOK
  <2>2. /\ m \in Paths /\ call[t].dest[m] \in Footprint(t)
        /\ call[t].dest[m] \in Paths
    BY <2>1, FootprintFacts
  <2>3. RefsNext(m, call[t].dest[m])
    BY <1>2, <1>3, <1>5, <1>7, <2>1, <2>2, RefsUntouched DEF SupInv
  <2> QED BY <1>2, <2>3 DEF RefsNext, RefsSettled, Missing
<1>8. \A r \in audit' : \A a \in r.archived : Settled(r.path, a)'
  BY <1>2, <1>5, RowsSettled
<1>9. ASSUME NEW t \in Servers, pc'[t] = "audit", NEW a \in Archived(call[t])'
      PROVE  Settled(call[t].path, a)'
  <2>1. /\ pc[t] = "audit" /\ call'[t] = call[t]
        /\ a \in Archived(call[t]) /\ InCall(t)
    BY <1>2, <1>9 DEF Archived, Sources, InCall
  <2>2. a \in Slots /\ call[t].path \in Paths
    BY <2>1, TypedCall
  <2> QED BY <1>5, <2>1, <2>2 DEF SupInv, KeepsSettled
<1> QED BY <1>4, <1>6, <1>7, <1>8, <1>9 DEF SupInv

LEMMA InitSup == Init => SupInv
<1> SUFFICES ASSUME Init PROVE SupInv
  OBVIOUS
<1>1. \A n \in Notes : ~Missing(n) => files[n].refs = {}
  <2>1. PICK N \in SUBSET Notes, A \in SUBSET Names :
          files = [p \in Paths |->
                     IF p \in N THEN Text(p)
                     ELSE IF p \in {<<x, Plain>> : x \in A} THEN Text(p[1])
                     ELSE Absent]
    BY DEF Init
  <2> QED BY <2>1 DEF Text, Missing, Paths
<1>2. \A s \in Servers : CallHolds(s) /\ moved[s] = {} /\ pc[s] # "audit"
  BY DEF Init, CallHolds, InCall
<1>3. audit = {}
  BY DEF Init
<1> QED BY <1>1, <1>2, <1>3 DEF SupInv, RefsSettled

(* The steps of a server inside a call that are not its end.               *)
LEMMA CommitSup ==
    ASSUME Partitioned, CallInv, CallInv', HistInv, SupInv, NEW s \in Servers,
           OthersKept(s), named \subseteq named',
           \/ Replace(s) \/ StampRead(s) \/ StampReplace(s) \/ LinkRead(s)
           \/ LinkReplace(s) \/ CommitFails(s)
           \/ \E n \in Paths : MoveSource(s, n) \/ MoveLeavesCopy(s, n)
    PROVE  SupInv'
<1>1. CASE CommitFails(s)
  BY <1>1, AbortSup DEF CommitFails
<1> QED BY <1>1, ReplaceSup, ReadsSup, StampReplaceSup, LinkReplaceSup,
           MoveSourceSup, MoveLeavesCopySup

LEMMA NextSup ==
    ASSUME Partitioned, CallInv, CallInv', HistInv, SupInv, [Next]_vars
    PROVE  SupInv'
<1>1. CASE vars' = vars
  <2>1. UNCHANGED <<files, pc, call, moved, cur, buf, outcome, named, audit>>
    BY <1>1 DEF vars
  <2>2. \A t \in Servers : CallHolds(t)'
    BY <2>1, CallFrame DEF SupInv, CallHolds, InCall
  <2>3. \A n, a : Settled(n, a) => Settled(n, a)'
    BY <2>1 DEF Settled, Succeeded, Missing, InCall, Archived, Sources
  <2> QED BY <2>1, <2>2, <2>3 DEF SupInv, RefsSettled, Missing, Archived, Sources
<1>2. ASSUME NEW s \in Servers, Progress(s) \/ Request(s) \/ Failure(s),
             vars' # vars
      PROVE  SupInv'
  <2>1. OthersKept(s) /\ named \subseteq named'
    BY <1>2, ServerStepKeeps DEF StepKeeps
  <2>2. CASE Request(s)
    BY <1>2, <2>1, <2>2, RequestSup
  <2>3. CASE ReadHash(s)
    BY <2>1, <2>3, ReadSup
  <2>4. CASE UpdatePlanned(s)
    BY <2>1, <2>4, UpdatePlannedSup
  <2>5. CASE \/ Replace(s) \/ StampRead(s) \/ StampReplace(s) \/ LinkRead(s)
             \/ LinkReplace(s) \/ CommitFails(s)
             \/ \E n \in Paths : MoveSource(s, n) \/ MoveLeavesCopy(s, n)
    BY <2>1, <2>5, CommitSup
  <2>6. CASE \E n \in Paths : MoveBack(s, n) \/ MoveBackFails(s, n)
    BY <2>1, <2>6, UndoSup
  <2>7. CASE \/ Audit(s) \/ RollbackDone(s) \/ WriteFails(s) \/ AuditFails(s)
             \/ Kill(s)
    BY <2>7, ReturnsSup
  <2> QED BY <1>2, <2>2, <2>3, <2>4, <2>5, <2>6, <2>7 DEF Progress, Failure
<1>3. CASE Editor
  BY <1>3, EditorSup
<1> QED BY <1>1, <1>2, <1>3 DEF Next

(* The inductive invariant of the whole.                                   *)
VaultInv == CallInv /\ HistInv /\ SupInv

LEMMA SupersessionInvariant ==
    ASSUME Partitioned PROVE Spec => []VaultInv
<1>1. Init => VaultInv
  BY InitCallInv, InitHistory, InitSup DEF VaultInv
<1>2. VaultInv /\ [Next]_vars => VaultInv'
  BY NextCallInv, NextHistory, NextSup DEF VaultInv
<1> QED BY <1>1, <1>2, PTL DEF Spec

(* While clients and user keep to files and file names of their own: every *)
(* archive file that a live note names is there and names that note, in    *)
(* the middle of a commit or rollback and after failures and kills, until  *)
(* a call is given that archive file to write or to supersede; ...         *)
THEOREM ReferencesResolve ==
    ASSUME Partitioned PROVE Spec => []BackRefsResolve
<1>1. VaultInv => BackRefsResolve
  BY DEF VaultInv, SupInv, RefsSettled, Settled, BackRefsResolve
<1> QED BY <1>1, SupersessionInvariant, PTL

(* ... so do the archive paths of every audit row; ...                     *)
THEOREM AuditStaysTrue ==
    ASSUME Partitioned PROVE Spec => []AuditedArchivesStay
<1>1. VaultInv => AuditedArchivesStay
  BY DEF VaultInv, SupInv, Settled, AuditedArchivesStay
<1> QED BY <1>1, SupersessionInvariant, PTL

(* ... and a call that ends with its audit leaves the text it was given    *)
(* and the references to all it archived, loses of the frontmatter only    *)
(* what is no mapping, and returns the hash of the file exactly if it      *)
(* superseded nothing.                                                     *)
THEOREM WrittenWhole ==
    ASSUME Partitioned PROVE Spec => WrittenNoteIsWhole
<1> DEFINE Whole ==
      \A s \in Servers : pc[s] = "audit" /\ pc'[s] = "idle" =>
          LET c == call[s]
              f == files[c.path]
              given == HeadOf[c.body]
              superseding == Sources(c) # {} IN
          /\ f.body = c.body /\ f.by = NoNote
          /\ f.refs = {c.dest[n] : n \in Sources(c)}
          /\ f.head = IF superseding THEN Kept(given) ELSE given
          /\ superseding <=> f # Text(c.body)
<1>1. VaultInv => Whole
  <2> SUFFICES ASSUME VaultInv, NEW s \in Servers, pc[s] = "audit" PROVE
          LET c == call[s]
              f == files[c.path]
              given == HeadOf[c.body]
              superseding == Sources(c) # {} IN
          /\ f.body = c.body /\ f.by = NoNote
          /\ f.refs = Archived(c)
          /\ f.head = IF superseding THEN Kept(given) ELSE given
          /\ superseding <=> f # Text(c.body)
    BY DEF Archived
  <2>1. /\ files[call[s].path] = Written(call[s]) /\ call[s].body \in Calls
        /\ Archived(call[s]) \subseteq Slots
    BY TypedCall DEF VaultInv, SupInv, CallHolds, InCall, TargetOK
  <2>2. CASE Sources(call[s]) = {}
    BY <2>1, <2>2, TextFile DEF Written, Archived
  <2>3. CASE Sources(call[s]) # {}
    <3>1. Archived(call[s]) # {}
      BY <2>3 DEF Archived
    <3> QED BY <2>1, <2>3, <3>1, TextFile, LinkedFile DEF Written
  <2> QED BY <2>2, <2>3
<1>2. VaultInv /\ [Next]_vars => [Whole]_vars
  BY <1>1
<1> QED BY <1>2, SupersessionInvariant, PTL DEF Spec, WrittenNoteIsWhole

-----------------------------------------------------------------------------
(***************************************************************************)
(* The write tools keep the ledger of a vault's texts.                     *)
(***************************************************************************)

(* What a step does to the ledger's variables.                             *)
LedgerStill == TextAt' = TextAt /\ OpenCalls' = OpenCalls
LedgerStep == Ledger!LedgerNext \/ LedgerStill

(* The text at p after the step.                                           *)
NextText(p) == IF files'[p] = Absent THEN Absent ELSE files'[p].body

LEMMA TextAfter ==
    ASSUME NEW g, g = [p \in Paths |-> g[p]], \A p \in Paths : NextText(p) = g[p]
    PROVE  TextAt' = g
  BY DEF TextAt, NextText, Missing

LEMMA SameTexts ==
    ASSUME \A p \in Paths : files'[p] = files[p]
    PROVE  TextAt' = TextAt
  BY DEF TextAt, Missing

(* One file changes.                                                       *)
LEMMA OneText ==
    ASSUME NEW n \in Paths, \A p \in Paths \ {n} : files'[p] = files[p]
    PROVE  TextAt' = [TextAt EXCEPT ![n] = NextText(n)]
<1> DEFINE g == [TextAt EXCEPT ![n] = NextText(n)]
<1>1. g = [p \in Paths |-> g[p]]
  BY DEF TextAt
<1>2. \A p \in Paths \ {n} : NextText(p) = g[p]
  BY DEF TextAt, NextText, Missing
<1>3. NextText(n) = g[n]
  BY DEF TextAt
<1> HIDE DEF g
<1>4. TextAt' = g
  BY <1>1, <1>2, <1>3, TextAfter
<1> QED BY <1>4 DEF g

(* The open calls change with the call of one server.                      *)
LEMMA OpenAfter ==
    ASSUME NEW s \in Servers, OthersKept(s)
    PROVE  /\ OpenCalls' = [OpenCalls EXCEPT ![s] = OpenCall(s)']
           /\ OpenCall(s)' = OpenCall(s) => OpenCalls' = OpenCalls
<1>1. \A t \in Servers \ {s} : OpenCall(t)' = OpenCall(t)
  BY DEF OthersKept, OpenCall
<1> QED BY <1>1 DEF OpenCalls

LEMMA OpenNow ==
    ASSUME CallInv, NEW s \in Servers, InCall(s)
    PROVE  /\ OpenCalls[s] = OpenCall(s)
           /\ OpenCall(s).op = call[s].op /\ OpenCall(s).place = call[s].path
           /\ OpenCall(s).text = call[s].body /\ OpenCall(s).dest = call[s].dest
           /\ OpenCall(s).stage = IF pc[s] \in {"planned", "replace"}
                                  THEN "accepted" ELSE "written"
           /\ OpenCall(s) \in LedgerCall /\ OpenCall(s) # NoCall
<1>1. OpenCall(s) = [op |-> call[s].op, place |-> call[s].path,
                     text |-> call[s].body, dest |-> call[s].dest,
                     stage |-> IF pc[s] \in {"planned", "replace"}
                               THEN "accepted" ELSE "written"]
  BY DEF OpenCall, InCall
<1>2. OpenCall(s) \in LedgerCall
  BY <1>1, TypedCall DEF LedgerCall, Call
<1>3. OpenCall(s) # NoCall
  BY <1>2, VaultAssumption
<1> QED BY <1>1, <1>2, <1>3 DEF OpenCalls

(* A call is accepted, goes on, or ends, and no file changes.              *)
LEMMA CallLedger ==
    ASSUME CallInv, CallInv', NEW s \in Servers, OthersKept(s), files' = files,
           InCall(s) /\ InCall(s)' =>
              /\ call'[s] = call[s]
              /\ pc[s] \in {"planned", "replace"} <=> pc'[s] \in {"planned", "replace"},
           ~InCall(s) /\ InCall(s)' => pc'[s] \in {"planned", "replace"}
    PROVE  LedgerStep
<1>1. TextAt' = TextAt
  BY SameTexts
<1>2. OpenCalls' = [OpenCalls EXCEPT ![s] = OpenCall(s)']
  BY OpenAfter
<1>3. ASSUME NEW t \in Servers, ~InCall(t) PROVE OpenCalls[t] = NoCall
  BY <1>3 DEF OpenCalls, OpenCall, InCall
<1>4. CASE InCall(s) /\ InCall(s)'
  <2>1. OpenCall(s)' = OpenCall(s)
    BY <1>4 DEF OpenCall, InCall
  <2> QED BY <1>1, <2>1, OpenAfter DEF LedgerStep, LedgerStill
<1>5. CASE ~InCall(s) /\ ~InCall(s)'
  <2>1. OpenCall(s)' = OpenCall(s)
    BY <1>5 DEF OpenCall, InCall
  <2> QED BY <1>1, <2>1, OpenAfter DEF LedgerStep, LedgerStill
<1>6. CASE InCall(s) /\ ~InCall(s)'
  <2>1. OpenCall(s)' = NoCall
    BY <1>6 DEF OpenCall, InCall
  <2>2. OpenCalls[s] # NoCall
    BY <1>6, OpenNow
  <2>3. Ledger!End(s)
    BY <1>1, <1>2, <2>1, <2>2 DEF Ledger!End
  <2> QED BY <2>3 DEF LedgerStep, Ledger!LedgerNext
<1>7. CASE ~InCall(s) /\ InCall(s)'
  <2>1. OpenCalls'[s] = OpenCall(s)'
    BY DEF OpenCalls
  <2>2. /\ OpenCall(s)' = [op |-> call'[s].op, place |-> call'[s].path,
                           text |-> call'[s].body, dest |-> call'[s].dest,
                           stage |-> "accepted"]
        /\ call'[s] \in Call
    BY <1>7 DEF OpenCall, InCall, CallInv, LocalOK, CallOK
  <2>3. OpenCall(s)' \in Ledger!Request /\ OpenCall(s)'.stage = "accepted"
    BY <2>2 DEF Ledger!Request, Call, Bodies
  <2>4. Ledger!Begin(s)
    BY <1>1, <1>2, <1>3, <1>7, <2>1, <2>3 DEF Ledger!Begin
  <2> QED BY <2>4 DEF LedgerStep, Ledger!LedgerNext
<1> QED BY <1>4, <1>5, <1>6, <1>7

(* The text of the call replaces what its checks allowed.                  *)
LEMMA ReplaceLedger ==
    ASSUME VaultInv, VaultInv', NEW s \in Servers, OthersKept(s), Replace(s)
    PROVE  LedgerStep
<1> DEFINE c == call[s]
<1>1. /\ InCall(s) /\ c.path \in Paths /\ c.body \in Calls
      /\ pc[s] = "replace" /\ TargetOK(s)
      /\ c \in Call
  BY TypedCall DEF Replace, InCall, VaultInv, SupInv, CallHolds
<1>2. /\ files' = [files EXCEPT ![c.path] = Text(c.body)]
      /\ call' = call /\ pc'[s] \in {"archive", "audit"}
  BY DEF Replace, Put, Goto, VaultInv, CallInv, TypeOK
<1>3. NextText(c.path) = c.body
  BY <1>1, <1>2, TextFile, ConstantFacts
     DEF NextText, VaultInv, CallInv, TypeOK
<1>4. TextAt' = [TextAt EXCEPT ![c.path] = c.body]
  <2>1. \A p \in Paths \ {c.path} : files'[p] = files[p]
    BY <1>1, <1>2 DEF VaultInv, CallInv, TypeOK
  <2>2. TextAt' = [TextAt EXCEPT ![c.path] = NextText(c.path)]
    BY <1>1, <2>1, OneText
  <2> QED BY <1>3, <2>2
<1>5. c.op = "create" <=> TextAt[c.path] = Absent
  <2>1. TextAt[c.path] = Absent <=> Missing(c.path)
    BY <1>1, ConstantFacts DEF TextAt, Missing, VaultInv, CallInv, TypeOK, File
  <2>2. c.op = "create" <=> Missing(c.path)
    BY <1>1 DEF TargetOK, Updatable
  <2> QED BY <2>1, <2>2
<1>6. OpenCalls' = [OpenCalls EXCEPT ![s].stage = "written"]
  <2>1. OpenCall(s) = [op |-> c.op, place |-> c.path, text |-> c.body,
                       dest |-> c.dest, stage |-> "accepted"]
    BY <1>1 DEF OpenCall
  <2>2. OpenCall(s)' = [op |-> c.op, place |-> c.path, text |-> c.body,
                        dest |-> c.dest, stage |-> "written"]
    BY <1>2 DEF OpenCall
  <2>3. OpenCall(s)' = [OpenCall(s) EXCEPT !.stage = "written"]
    BY <2>1, <2>2
  <2>4. OpenCalls[s] = OpenCall(s)
    BY DEF OpenCalls
  <2> QED BY <2>3, <2>4, OpenAfter
<1>7. Ledger!Write(s)
  BY <1>1, <1>4, <1>5, <1>6, OpenNow DEF Ledger!Write, Ledger!Empty, VaultInv
<1> QED BY <1>7 DEF LedgerStep, Ledger!LedgerNext

(* A superseded text goes to its archive place, or comes back.             *)
LEMMA TransferLedger ==
    ASSUME CallInv, NEW s \in Servers, OthersKept(s), InCall(s),
           pc[s] \notin {"planned", "replace"}, OpenCall(s)' = OpenCall(s),
           NEW n \in Sources(call[s]), NEW p \in Paths, NEW q \in Paths, p # q,
           \/ p = n /\ q = call[s].dest[n]
           \/ p = call[s].dest[n] /\ q = n,
           ~Missing(p), Missing(q), files'[q] = files[p],
           files'[p] \in {files[p], Absent},
           \A r \in Paths \ {p, q} : files'[r] = files[r]
    PROVE  LedgerStep
<1>1. TextAt[p] # Absent /\ TextAt[q] = Absent /\ TextAt[p] = files[p].body
  BY ConstantFacts DEF TextAt, Missing, CallInv, TypeOK, File
<1>2. Ledger!Transfer(p, q)
  <2>1. OpenCalls' = OpenCalls
    BY OpenAfter
  <2>2. CASE files'[p] = files[p]
    <3>1. TextAt' = [TextAt EXCEPT ![q] = TextAt[p]]
      BY <1>1, <2>2, TextAfter DEF TextAt, NextText, Missing
    <3> QED BY <1>1, <2>1, <3>1 DEF Ledger!Transfer, Ledger!Empty
  <2>3. CASE files'[p] = Absent
    <3>1. TextAt' = [TextAt EXCEPT ![p] = Absent, ![q] = TextAt[p]]
      BY <1>1, <2>3, TextAfter DEF TextAt, NextText, Missing
    <3> QED BY <1>1, <2>1, <3>1 DEF Ledger!Transfer, Ledger!Empty
  <2> QED BY <2>2, <2>3
<1>3. /\ OpenCalls[s].dest = call[s].dest /\ OpenCalls[s].stage = "written"
      /\ OpenCalls[s] # NoCall
  BY OpenNow
<1>4. n \in Ledger!Superseded(s)
  BY <1>3 DEF Ledger!Superseded, Sources
<1>5. Ledger!Supersede(s)
  BY <1>2, <1>3, <1>4 DEF Ledger!Supersede, Ledger!Working
<1> QED BY <1>5 DEF LedgerStep, Ledger!LedgerNext

LEMMA MoveSourceLedger ==
    ASSUME VaultInv, NEW s \in Servers, OthersKept(s), NEW n \in Paths,
           MoveSource(s, n) \/ MoveLeavesCopy(s, n)
    PROVE  LedgerStep
<1> DEFINE a == call[s].dest[n]
<1>1. /\ InCall(s) /\ n \in Sources(call[s]) /\ ~Missing(n) /\ Missing(a)
      /\ n \in Pending(s) /\ pc[s] = "archive"
  BY DEF MoveSource, MoveLeavesCopy, InCall, VaultInv, SupInv, CallHolds,
         PendingOK, Pending
<1>2. a \in Paths /\ n # a
  BY <1>1, FootprintFacts DEF VaultInv
<1>3. \/ files' = [files EXCEPT ![a] = files[n], ![n] = Absent]
      \/ files' = [files EXCEPT ![a] = files[n]]
  BY <1>1 DEF MoveSource, MoveLeavesCopy
<1>4. /\ files'[a] = files[n] /\ files'[n] \in {files[n], Absent}
      /\ \A r \in Paths \ {n, a} : files'[r] = files[r]
  BY <1>2, <1>3 DEF VaultInv, CallInv, TypeOK
<1>5. call' = call /\ pc'[s] \in {"stamp", "rollback"}
  BY <1>1 DEF MoveSource, MoveLeavesCopy, Abort, Goto, VaultInv, CallInv, TypeOK
<1>6. OpenCall(s)' = OpenCall(s)
  BY <1>1, <1>5 DEF OpenCall
<1> QED BY <1>1, <1>2, <1>4, <1>6, TransferLedger DEF VaultInv

LEMMA UndoLedger ==
    ASSUME VaultInv, VaultInv', NEW s \in Servers, OthersKept(s), NEW n \in Paths,
           MoveBack(s, n) \/ MoveBackFails(s, n)
    PROVE  LedgerStep
<1> DEFINE a == call[s].dest[n]
<1>1. /\ InCall(s) /\ n \in moved[s] /\ Missing(n) /\ pc[s] = "rollback"
      /\ UNCHANGED <<pc, call>>
  BY DEF MoveBack, MoveBackFails, InCall, VaultInv, SupInv, CallHolds, MovedOK
<1>2. a \in Paths /\ n # a /\ n \in Sources(call[s])
  BY <1>1, FootprintFacts DEF VaultInv
<1>3. OpenCall(s)' = OpenCall(s)
  BY <1>1 DEF OpenCall
<1>4. CASE files' = files
  BY <1>1, <1>3, <1>4, SameTexts, OpenAfter DEF LedgerStep, LedgerStill
<1>5. CASE /\ ~Missing(a)
           /\ \/ files' = [files EXCEPT ![n] = files[a], ![a] = Absent]
              \/ files' = [files EXCEPT ![n] = files[a]]
  <2>1. /\ files'[n] = files[a] /\ files'[a] \in {files[a], Absent}
        /\ \A r \in Paths \ {n, a} : files'[r] = files[r]
    BY <1>2, <1>5 DEF VaultInv, CallInv, TypeOK
  <2> QED BY <1>1, <1>2, <1>3, <1>5, <2>1, TransferLedger DEF VaultInv
<1> QED BY <1>4, <1>5 DEF MoveBack, MoveBackFails

(* Merging frontmatter changes no text.                                    *)
LEMMA MergeLedger ==
    ASSUME VaultInv, NEW s \in Servers, OthersKept(s),
           StampReplace(s) \/ LinkReplace(s)
    PROVE  LedgerStep
<1> DEFINE c == call[s]
<1>1. /\ InCall(s) /\ CallHolds(s) /\ CallOK(s) /\ c.path \in Paths
      /\ c.body \in Calls /\ Archived(c) \subseteq Slots
  BY TypedCall DEF StampReplace, LinkReplace, InCall, VaultInv, SupInv
<1>2. OpenCalls' = OpenCalls
  <2>1. /\ pc[s] \in {"stamping", "linking"} /\ pc'[s] \in {"archive", "audit"}
        /\ call' = call
    BY DEF StampReplace, LinkReplace, MergeReplace, Goto, VaultInv, CallInv, TypeOK
  <2>2. OpenCall(s)' = OpenCall(s)
    BY <2>1 DEF OpenCall
  <2> QED BY <2>2, OpenAfter
<1>3. CASE StampReplace(s)
  <2> DEFINE a == c.dest[cur[s]]
  <2>1. a \in Paths /\ buf[s] \in File /\ buf[s] = files[a]
    BY <1>1, <1>3 DEF StampReplace, CallOK, CallHolds, StampingOK, Paths
  <2>2. files' = [files EXCEPT ![a] = Stamped(buf[s], c.path)]
    BY <1>3 DEF StampReplace, MergeReplace, Put
  <2>3. /\ files'[a] = Stamped(buf[s], c.path)
        /\ \A p \in Paths \ {a} : files'[p] = files[p]
    BY <2>1, <2>2 DEF VaultInv, CallInv, TypeOK
  <2>4. files[a] # Absent /\ files'[a] # Absent /\ files'[a].body = files[a].body
    BY <1>1, <2>1, <2>3, StampedFile, ConstantFacts
  <2>5. TextAt' = TextAt
    BY <2>3, <2>4 DEF TextAt, Missing
  <2> QED BY <1>2, <2>5 DEF LedgerStep, LedgerStill
<1>4. CASE LinkReplace(s)
  <2>1. files[c.path] = Text(c.body) /\ buf[s] = Text(c.body)
    BY <1>1, <1>4 DEF LinkReplace, CallHolds, TargetOK
  <2>2. files' = [files EXCEPT ![c.path] = Linked(Text(c.body), Archived(c))]
    BY <1>4, <2>1 DEF LinkReplace, MergeReplace, Put
  <2>3. /\ files'[c.path] = Linked(Text(c.body), Archived(c))
        /\ \A p \in Paths \ {c.path} : files'[p] = files[p]
    BY <1>1, <2>2 DEF VaultInv, CallInv, TypeOK
  <2>4. /\ files[c.path] # Absent /\ files'[c.path] # Absent
        /\ files'[c.path].body = files[c.path].body
    BY <1>1, <2>1, <2>3, TextFile, LinkedFile, ConstantFacts
  <2>5. TextAt' = TextAt
    BY <2>3, <2>4 DEF TextAt, Missing
  <2> QED BY <1>2, <2>5 DEF LedgerStep, LedgerStill
<1> QED BY <1>3, <1>4

LEMMA EditorLedger ==
    ASSUME VaultInv, Editor
    PROVE  LedgerStep
<1>1. PICK n \in EditorFiles : EditorSaves(n) \/ EditorDeletes(n)
  BY DEF Editor
<1>2. n \in Paths
  BY VaultAssumption
<1>3. OpenCalls' = OpenCalls
  BY <1>1 DEF EditorSaves, EditorDeletes, OpenCalls, OpenCall
<1>4. \A p \in Paths \ {n} : files'[p] = files[p]
  BY <1>1 DEF EditorSaves, EditorDeletes, VaultInv, CallInv, TypeOK
<1>5. TextAt' = [TextAt EXCEPT ![n] = NextText(n)]
  BY <1>2, <1>4, OneText
<1>6. NextText(n) \in Bodies \cup {Absent}
  <2>1. CASE EditorSaves(n)
    <3>1. nextBody \in Calls
      BY <2>1, ConstantFacts DEF EditorSaves, VaultInv, CallInv, TypeOK, Calls
    <3>2. files'[n] = Text(nextBody)
      BY <1>2, <2>1 DEF EditorSaves, VaultInv, CallInv, TypeOK
    <3> QED BY <3>1, <3>2, TextFile DEF NextText, Bodies
  <2>2. CASE EditorDeletes(n)
    BY <1>2, <2>2 DEF EditorDeletes, NextText, VaultInv, CallInv, TypeOK
  <2> QED BY <1>1, <2>1, <2>2
<1>7. Ledger!Edit(n)
  BY <1>3, <1>5, <1>6 DEF Ledger!Edit
<1> QED BY <1>7 DEF LedgerStep, Ledger!LedgerNext

(* The steps of a server that change no file.                              *)
LEMMA QuietLedger ==
    ASSUME VaultInv, VaultInv', NEW s \in Servers, OthersKept(s),
           \/ Request(s) \/ ReadHash(s) \/ UpdatePlanned(s) \/ StampRead(s)
           \/ LinkRead(s) \/ Audit(s) \/ RollbackDone(s) \/ WriteFails(s)
           \/ CommitFails(s) \/ AuditFails(s) \/ Kill(s)
           \/ \E n \in Paths : MoveSource(s, n) /\ Missing(n)
    PROVE  LedgerStep
<1> USE DEF VaultInv
<1>1. CASE Request(s)
  <2>1. files' = files /\ ~InCall(s)
    BY <1>1 DEF Request, ReadText, Create, Update, Plan, Accept, Refuse, vars,
                InCall
  <2>2. InCall(s)' => pc'[s] \in {"planned", "replace"}
    BY <1>1 DEF Request, ReadText, Create, Update, Plan, Accept, Refuse, vars,
                InCall, Goto, CallInv, TypeOK
  <2> QED BY <2>1, <2>2, CallLedger
<1>2. CASE ReadHash(s)
  <2>1. files' = files /\ ~InCall(s) /\ ~InCall(s)'
    BY <1>2 DEF ReadHash, Goto, InCall, CallInv, TypeOK
  <2> QED BY <2>1, CallLedger
<1>3. CASE UpdatePlanned(s)
  <2>1. /\ files' = files /\ InCall(s) /\ pc[s] = "planned"
        /\ InCall(s)' => call' = call /\ pc'[s] = "replace"
    BY <1>3 DEF UpdatePlanned, Return, Goto, InCall, CallInv, TypeOK
  <2> QED BY <2>1, CallLedger
<1>4. CASE StampRead(s) \/ LinkRead(s) \/ CommitFails(s)
  <2>1. /\ files' = files /\ InCall(s) /\ call' = call
        /\ pc[s] \notin {"planned", "replace"}
        /\ pc'[s] \notin {"planned", "replace"}
    BY <1>4 DEF StampRead, LinkRead, CommitFails, MergeRead, Abort, Goto, InCall,
                CallInv, TypeOK
  <2> QED BY <2>1, CallLedger
<1>5. CASE \/ Audit(s) \/ RollbackDone(s) \/ WriteFails(s) \/ AuditFails(s)
           \/ Kill(s)
  <2>1. files' = files /\ InCall(s)
    BY <1>5 DEF Audit, RollbackDone, WriteFails, AuditFails, Kill, InCall
  <2>2. PICK r : Return(s, r)
    BY <1>5 DEF Audit, RollbackDone, WriteFails, AuditFails, Kill
  <2>3. ~InCall(s)'
    BY <2>2 DEF Return, Goto, InCall, CallInv, TypeOK
  <2> QED BY <2>1, <2>3, CallLedger
<1>6. ASSUME NEW n \in Paths, MoveSource(s, n), Missing(n) PROVE LedgerStep
  BY <1>6, MoveSourceLedger
<1> QED BY <1>1, <1>2, <1>3, <1>4, <1>5, <1>6

LEMMA NextLedger ==
    ASSUME VaultInv, VaultInv', [Next]_vars
    PROVE  LedgerStep
<1>1. CASE vars' = vars
  <2>1. TextAt' = TextAt /\ OpenCalls' = OpenCalls
    BY <1>1, SameTexts DEF vars, OpenCalls, OpenCall
  <2> QED BY <2>1 DEF LedgerStep, LedgerStill
<1>2. ASSUME NEW s \in Servers, Progress(s) \/ Request(s) \/ Failure(s),
             vars' # vars
      PROVE  LedgerStep
  <2>1. OthersKept(s)
    BY <1>2, ServerStepKeeps DEF StepKeeps, VaultInv
  <2> QED BY <1>2, <2>1, QuietLedger, ReplaceLedger, MoveSourceLedger, MergeLedger,
             UndoLedger DEF Progress, Failure
<1> QED BY <1>1, <1>2, EditorLedger DEF Next

LEMMA InitLedger == Init => Ledger!LedgerInit
<1> SUFFICES ASSUME Init PROVE Ledger!LedgerInit
  OBVIOUS
<1>1. files \in [Paths -> File \cup {Absent}]
  BY InitCallInv DEF CallInv, TypeOK
<1>2. TextAt \in [Paths -> Bodies \cup {Absent}]
  BY <1>1 DEF TextAt, Missing, File
<1>3. OpenCalls = [s \in Servers |-> NoCall]
  BY DEF Init, OpenCalls, OpenCall
<1> QED BY <1>2, <1>3 DEF Ledger!LedgerInit

(* The write tools implement the ledger: a text is written over only by an *)
(* update of its place; superseding takes a text only to the empty archive *)
(* place planned for it, and a rollback takes it only back from there.     *)
THEOREM LedgerKept ==
    ASSUME Partitioned PROVE Spec => KeepsLedger
<1>1. VaultInv /\ VaultInv' /\ [Next]_vars
         => [Ledger!LedgerNext]_<<TextAt, OpenCalls>>
  BY NextLedger DEF LedgerStep, LedgerStill
<1>2. Init => Ledger!LedgerInit
  BY InitLedger
<1> QED BY <1>1, <1>2, SupersessionInvariant, PTL
        DEF Spec, KeepsLedger, Ledger!LedgerSpec

(* A text at p that a step may remove from the vault: that of a place an   *)
(* update is about to write, or of one the user edits.                     *)
Replaceable(p) ==
    \/ p \in EditorFiles
    \/ \E s \in Servers : /\ pc[s] \in {"planned", "replace"}
                          /\ call[s].op = "update" /\ call[s].path = p

(* Superseding loses no text: what a file holds is after every step still  *)
(* in some file of the vault, unless an update was given that very file or *)
(* the user edits it.  This holds of every step of every commit, rollback, *)
(* failure and kill, and of a create.                                      *)
THEOREM TextsSurvive ==
    ASSUME Partitioned
    PROVE  Spec => [][\A p \in Paths : TextAt[p] # Absent /\ ~Replaceable(p) =>
                         \E q \in Paths : TextAt'[q] = TextAt[p]]_vars
<1> DEFINE Survive == \A p \in Paths : TextAt[p] # Absent /\ ~Replaceable(p) =>
                         \E q \in Paths : TextAt'[q] = TextAt[p]
<1>1. VaultInv /\ VaultInv' /\ [Next]_vars => [Survive]_vars
  <2> SUFFICES ASSUME VaultInv, VaultInv', [Next]_vars, NEW p \in Paths,
                      TextAt[p] # Absent, ~Replaceable(p)
               PROVE  \E q \in Paths : TextAt'[q] = TextAt[p]
    OBVIOUS
  <2>1. TextAt = [q \in Paths |-> TextAt[q]]
    BY DEF TextAt
  <2>2. CASE TextAt' = TextAt
    BY <2>2
  <2>3. ASSUME NEW n \in EditorFiles, Ledger!Edit(n)
        PROVE  TextAt'[p] = TextAt[p]
    <3>1. p # n
      BY DEF Replaceable
    <3> QED BY <2>1, <2>3, <3>1 DEF Ledger!Edit
  <2>4. ASSUME NEW s \in Servers, Ledger!Write(s)
        PROVE  TextAt'[p] = TextAt[p]
    <3>1. /\ OpenCalls[s] # NoCall /\ OpenCalls[s].stage = "accepted"
          /\ OpenCalls[s].op = "create" <=> TextAt[OpenCalls[s].place] = Absent
          /\ TextAt' = [TextAt EXCEPT ![OpenCalls[s].place] = OpenCalls[s].text]
      BY <2>4 DEF Ledger!Write, Ledger!Empty
    <3>2. InCall(s)
      BY <3>1 DEF OpenCalls, OpenCall, InCall
    <3>3. /\ call[s].op \in {"create", "update"} /\ call[s].path \in Paths
          /\ pc[s] \in {"planned", "replace"}
          /\ call[s].op = "create" <=> TextAt[call[s].path] = Absent
          /\ TextAt' = [TextAt EXCEPT ![call[s].path] = OpenCalls[s].text]
      BY <3>1, <3>2, OpenNow, TypedCall DEF Call, VaultInv
    <3>4. p # call[s].path
      BY <3>3 DEF Replaceable
    <3> QED BY <2>1, <3>3, <3>4
  <2>5. ASSUME NEW s \in Servers, Ledger!Supersede(s)
        PROVE  \E q \in Paths : TextAt'[q] = TextAt[p]
    <3>1. PICK n \in Ledger!Superseded(s) :
             \/ Ledger!Transfer(n, OpenCalls[s].dest[n])
             \/ Ledger!Transfer(OpenCalls[s].dest[n], n)
      BY <2>5 DEF Ledger!Supersede
    <3>2. InCall(s)
      BY <2>5 DEF Ledger!Supersede, Ledger!Working, OpenCalls, OpenCall, InCall
    <3>3. n \in Paths /\ OpenCalls[s].dest[n] \in Paths
      BY <3>2, OpenNow, TypedCall DEF Ledger!Superseded, VaultInv, Paths
    <3>4. ASSUME NEW m \in Paths, NEW q \in Paths, Ledger!Transfer(m, q)
          PROVE  \E r \in Paths : TextAt'[r] = TextAt[p]
      <4>1. TextAt[q] = Absent /\ TextAt[m] # Absent
        BY <3>4 DEF Ledger!Transfer, Ledger!Empty
      <4>2. p # q /\ m # q
        BY <4>1
      <4>3. TextAt'[q] = TextAt[m] /\ (p # m => TextAt'[p] = TextAt[p])
        BY <2>1, <3>4, <4>2 DEF Ledger!Transfer
      <4> QED BY <4>3
    <3> QED BY <3>1, <3>3, <3>4
  <2>6. ASSUME NEW s \in Servers, Ledger!Begin(s) \/ Ledger!End(s)
        PROVE  TextAt' = TextAt
    BY <2>6 DEF Ledger!Begin, Ledger!End
  <2> QED BY <2>2, <2>3, <2>4, <2>5, <2>6, NextLedger
          DEF LedgerStep, LedgerStill, Ledger!LedgerNext
<1> QED BY <1>1, SupersessionInvariant, PTL DEF Spec

----------------------------------------------------------------------------
(* What follows of the archive and of the rollback.                        *)

(* The archive never overwrites a file: what docs/vault-setup.md promises  *)
(* holds while clients share no file names (one run shows that it does not *)
(* hold when they do).                                                     *)
THEOREM ArchiveKept ==
    ASSUME Partitioned PROVE Spec => ArchiveNeverOverwrites
<1> DEFINE Untouched ==
      \A s \in Servers : pc[s] = "archive" /\ pc'[s] # "archive" =>
          \A a \in Slots \ Sources(call[s]) :
              ~Missing(a) => files'[a] = files[a]
<1>1. VaultInv /\ [Next]_vars => [Untouched]_vars
  <2> SUFFICES ASSUME VaultInv, Next, vars' # vars, NEW s \in Servers,
                      pc[s] = "archive", pc'[s] # "archive",
                      NEW a \in Slots \ Sources(call[s]), ~Missing(a)
               PROVE  files'[a] = files[a]
    OBVIOUS
  <2>1. ~Editor
    BY DEF Editor, EditorSaves, EditorDeletes
  <2>2. PICK t \in Servers : Progress(t) \/ Request(t) \/ Failure(t)
    BY <2>1 DEF Next
  <2>3. t = s
    BY <2>2, ServerStepKeeps DEF StepKeeps, OthersKept, VaultInv
  <2>4. ASSUME NEW n \in Paths, MoveSource(s, n) \/ MoveLeavesCopy(s, n)
        PROVE  files'[a] = files[a]
    <3>1. /\ n \in Sources(call[s]) /\ n \in Pending(s)
          /\ call[s].dest[n] \in Paths
      BY <2>4, FootprintFacts DEF MoveSource, MoveLeavesCopy, Pending, InCall, VaultInv
    <3>2. Missing(call[s].dest[n])
      BY <3>1 DEF VaultInv, SupInv, CallHolds, PendingOK, InCall
    <3>3. a # n /\ a # call[s].dest[n] /\ a \in Paths
      BY <3>1, <3>2 DEF Paths
    <3> QED BY <2>4, <3>3
            DEF MoveSource, MoveLeavesCopy, VaultInv, CallInv, TypeOK
  <2>5. CASE ~\E n \in Paths : MoveSource(s, n) \/ MoveLeavesCopy(s, n)
    <3>1. files' = files
      BY <2>2, <2>3, <2>5
         DEF Progress, Request, Failure, ReadHash, UpdatePlanned, Replace,
             StampRead, StampReplace, LinkRead, MergeRead, LinkReplace, Audit,
             MoveBack, RollbackDone, ReadText, Create, Update, Plan, WriteFails,
             CommitFails, MoveBackFails, AuditFails, Kill
    <3> QED BY <3>1
  <2> QED BY <2>4, <2>5
<1> QED BY <1>1, SupersessionInvariant, PTL DEF Spec, ArchiveNeverOverwrites

(* The steps of a server that can end a rollback.                          *)
LEMMA RollbackOutcome ==
    ASSUME VaultInv, NEW s \in Servers, pc[s] = "rollback",
           Progress(s) \/ Request(s) \/ Failure(s),
           outcome'[call[s].body] = "rolled_back"
    PROVE  outcome[call[s].body] # "partial" /\ moved[s] = {}
<1>1. call[s].body \in Calls /\ outcome[call[s].body] \in {"open", "partial"}
  BY TypedCall DEF InCall, VaultInv, HistInv, CallOpen
<1>2. ~Request(s)
  BY <1>1 DEF Request, ReadText, Create, Update, Plan
<1>3. CASE RollbackDone(s)
  BY <1>1, <1>3 DEF RollbackDone, Return, VaultInv, CallInv, TypeOK
<1>4. CASE Kill(s)
  BY <1>1, <1>4 DEF Kill, Return, VaultInv, CallInv, TypeOK
<1>5. ASSUME NEW n \in Paths, MoveBack(s, n) \/ MoveBackFails(s, n)
      PROVE  FALSE
  BY <1>1, <1>5 DEF MoveBack, MoveBackFails, Unrecovered, VaultInv, CallInv, TypeOK
<1>6. ~ \/ ReadHash(s) \/ UpdatePlanned(s) \/ Replace(s) \/ StampRead(s)
        \/ StampReplace(s) \/ LinkRead(s) \/ LinkReplace(s) \/ Audit(s)
        \/ WriteFails(s) \/ CommitFails(s) \/ AuditFails(s)
        \/ \E n \in Paths : MoveSource(s, n) \/ MoveLeavesCopy(s, n)
  BY DEF ReadHash, UpdatePlanned, Replace, StampRead, StampReplace, LinkRead,
         LinkReplace, Audit, WriteFails, CommitFails, AuditFails, MoveSource,
         MoveLeavesCopy
<1> QED BY <1>2, <1>3, <1>4, <1>5, <1>6 DEF Progress, Failure

(* No other step says how the call of s ended.                             *)
LEMMA OthersOutcome ==
    ASSUME VaultInv, NEW s \in Servers, InCall(s), NEW t \in Servers \ {s},
           Progress(t) \/ Request(t) \/ Failure(t)
    PROVE  outcome'[call[s].body] = outcome[call[s].body]
<1> DEFINE b == call[s].body
<1>1. b \in Calls /\ (InCall(t) => call[t].body # b)
  BY TypedCall DEF VaultInv, HistInv, CallsDiffer
<1>2. CASE ~InCall(t)
  BY <1>2 DEF InCall, Progress, Request, Failure, ReadText, Create, Update, Plan,
     Accept, Refuse, vars, ReadHash, UpdatePlanned, Replace, MoveSource,
     StampRead, StampReplace, LinkRead, LinkReplace, Audit, MoveBack,
     RollbackDone, WriteFails, CommitFails, MoveLeavesCopy, MoveBackFails,
     AuditFails, Kill
<1>3. CASE InCall(t)
  <2>1. CASE \E r : Return(t, r)
    BY <1>1, <1>3, <2>1 DEF Return, VaultInv, CallInv, TypeOK
  <2>2. CASE Unrecovered(t)
    BY <1>1, <1>3, <2>2 DEF Unrecovered, VaultInv, CallInv, TypeOK
  <2>3. CASE outcome' = outcome
    BY <2>3
  <2>4. \/ \E r : Return(t, r)
        \/ Unrecovered(t)
        \/ outcome' = outcome
    <3>1. CASE Request(t)
      BY <3>1 DEF Request, ReadText, Create, Update, Plan, Accept, Refuse, vars
    <3>2. CASE Progress(t)
      BY <3>2 DEF Progress, ReadHash, UpdatePlanned, Replace, MoveSource, Abort,
         StampRead, StampReplace, LinkRead, LinkReplace, MergeRead, MergeReplace,
         Audit, MoveBack, RollbackDone
    <3>3. CASE Failure(t)
      BY <3>3 DEF Failure, WriteFails, CommitFails, Abort, MoveLeavesCopy,
         MoveBackFails, AuditFails, Kill
    <3> QED BY <3>1, <3>2, <3>3
  <2> QED BY <2>1, <2>2, <2>3, <2>4
<1> QED BY <1>2, <1>3

(* When a call reports that it was rolled back, every note it was to       *)
(* archive is in its place.                                                *)
THEOREM RollbackRestores ==
    ASSUME Partitioned PROVE Spec => RolledBackNotesAreLive
<1> DEFINE Restored ==
      \A s \in Servers :
          pc[s] = "rollback" /\ outcome'[call[s].body] = "rolled_back"
            => \A n \in Sources(call[s]) : files[n] # Absent
<1>1. VaultInv /\ [Next]_vars => [Restored]_vars
  <2> SUFFICES ASSUME VaultInv, Next, NEW s \in Servers, pc[s] = "rollback",
                      outcome'[call[s].body] = "rolled_back"
               PROVE  \A n \in Sources(call[s]) : files[n] # Absent
    OBVIOUS
  <2>1. /\ InCall(s) /\ call[s].body \in Calls
        /\ outcome[call[s].body] \in {"open", "partial"}
    BY TypedCall DEF InCall, VaultInv, HistInv, CallOpen
  <2>2. ~Editor
    BY <2>1 DEF Editor, EditorSaves, EditorDeletes
  <2>3. PICK t \in Servers : Progress(t) \/ Request(t) \/ Failure(t)
    BY <2>2 DEF Next
  <2>4. t = s
    BY <2>1, <2>3, OthersOutcome
  <2>5. outcome[call[s].body] # "partial" /\ moved[s] = {}
    BY <2>3, <2>4, RollbackOutcome
  <2> QED BY <2>1, <2>5 DEF VaultInv, SupInv, CallHolds, RollbackOK, Missing
<1> QED BY <1>1, SupersessionInvariant, PTL DEF Spec, RolledBackNotesAreLive

============================================================================
