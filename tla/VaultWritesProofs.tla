------------------------- MODULE VaultWritesProofs -------------------------
(***************************************************************************)
(* Proofs about VaultWrites.                                               *)
(***************************************************************************)
EXTENDS VaultWrites, TLAPS

(* What a server knows while it executes a call.                           *)
InCall(s) == pc[s] \notin {"idle", "read"}

CallOK(s) ==
    LET c == call[s] IN
    /\ c \in Call
    /\ c.path \in Scope[s]
    /\ c.path \notin Sources(c)
    /\ Sources(c) \subseteq Scope[s]
    /\ \A n \in Sources(c) : c.dest[n] \in Slots /\ c.dest[n][1] = FileName(n)
    /\ \A m, n \in Sources(c) : m # n => c.dest[m] # c.dest[n]
    /\ \A m, n \in Sources(c) : c.dest[m] # n
    /\ pc[s] \notin {"planned", "replace"} => Given(c) \cap Slots \subseteq named
    /\ moved[s] \subseteq Sources(c)
    /\ pc[s] \in {"planned", "replace"} => moved[s] = {}
    /\ pc[s] \in {"stamp", "stamping"} => cur[s] \in moved[s]
    /\ pc[s] \in {"stamping", "linking"} => buf[s] \in File
    /\ pc[s] \in {"linking", "audit"} => moved[s] = Sources(c)

NoCallOK(s) ==
    /\ moved[s] = {}
    /\ pc[s] = "read" => cur[s] \in Paths

LocalOK(s) == IF InCall(s) THEN CallOK(s) ELSE NoCallOK(s)

CallInv == TypeOK /\ \A s \in Servers : LocalOK(s)

----------------------------------------------------------------------------
(* Types.                                                                  *)

(* Merging frontmatter yields a file again.                                *)
LEMMA MergedFiles ==
    /\ \A b \in Bodies : Text(b) \in File
    /\ \A f \in File, n \in Paths : Stamped(f, n) \in File
    /\ \A f \in File, A \in SUBSET Slots : Linked(f, A) \in File
<1>1. \A h \in Heads : Kept(h) \in Heads
  BY DEF Kept, Heads
<1>2. \A b \in Bodies : HeadOf[b] \in Heads
  BY VaultAssumption
<1> QED BY <1>1, <1>2 DEF Text, Stamped, Linked, File

(* A server's own state is not disturbed by a step that leaves it alone.   *)
LEMMA LocalFrame ==
    ASSUME NEW t \in Servers, LocalOK(t),
           pc'[t] = pc[t], call'[t] = call[t], moved'[t] = moved[t],
           cur'[t] = cur[t], buf'[t] = buf[t], named \subseteq named'
    PROVE  LocalOK(t)'
  BY DEF LocalOK, InCall, CallOK, NoCallOK, Sources, Given

(* The state of the servers other than s.                                  *)
OthersKept(s) ==
    \A t \in Servers \ {s} :
        /\ pc'[t] = pc[t] /\ call'[t] = call[t] /\ moved'[t] = moved[t]
        /\ cur'[t] = cur[t] /\ buf'[t] = buf[t]

(* What one step of server s does to CallInv.                              *)
StepKeeps(s) ==
    TypeOK' /\ OthersKept(s) /\ LocalOK(s)' /\ named \subseteq named'

(* The parts of the assumption the proofs use.                             *)
LEMMA ConstantFacts ==
    /\ MaxBody \in Nat /\ MaxFaults \in Nat
    /\ \A s \in Servers : Scope[s] \subseteq Paths
    /\ \A a \in Slots : FileName(a) = a[1]
    /\ Notes \cap Slots = {}
    /\ Absent \notin File /\ Absent \notin Bodies
    /\ NoHash \notin File /\ NoSlot \notin Slots
  BY VaultAssumption DEF FileName

LEMMA TypedCall ==
    ASSUME CallInv, NEW s \in Servers, InCall(s)
    PROVE  /\ call[s] \in Call
           /\ call[s].path \in Paths
           /\ call[s].body \in Calls
           /\ call[s].dest \in [Paths -> Slots \cup {NoSlot}]
           /\ Sources(call[s]) \subseteq Paths
           /\ Archived(call[s]) \subseteq Slots
           /\ CallOK(s)
  BY DEF CallInv, LocalOK, CallOK, InCall, Call, Sources, Archived

LEMMA AcceptKeeps ==
    ASSUME CallInv, NEW s \in Servers, pc[s] = "idle",
           NEW op \in {"create", "update"}, NEW p \in Scope[s], NEW e \in Hash,
           NEW d \in [Paths -> Slots \cup {NoSlot}],
           NEW step \in {"planned", "replace"},
           \A n \in Paths :
              d[n] # NoSlot => n \in Scope[s] \ {p} /\ d[n][1] = FileName(n),
           \A m, n \in Paths : d[n] # NoSlot /\ m # n => d[m] # d[n],
           \A m, n \in Paths : d[m] # NoSlot /\ d[n] # NoSlot => d[m] # n,
           Accept(s, op, p, e, d, step)
    PROVE  StepKeeps(s)
<1> DEFINE c == [op |-> op, path |-> p, body |-> nextBody, expect |-> e,
                 dest |-> d]
<1>1. /\ p \in Paths
      /\ nextBody \in Calls
      /\ nextBody' \in 1..(MaxBody + 1)
  <2>1. p \in Paths
    BY ConstantFacts
  <2>2. nextBody \in 1..(MaxBody + 1) /\ nextBody <= MaxBody
        /\ nextBody' = nextBody + 1
    BY DEF CallInv, TypeOK, Accept
  <2> QED BY <2>1, <2>2, ConstantFacts DEF Calls
<1>2. c \in Call
  BY <1>1 DEF Call
<1>3. /\ pc' = [pc EXCEPT ![s] = step]
      /\ call' = [call EXCEPT ![s] = c]
      /\ UNCHANGED <<files, moved, cur, buf, outcome, touched, named, audit, faults>>
  BY DEF Accept, Goto
<1>4. temps' \subseteq Calls
  BY <1>1 DEF Accept, CallInv, TypeOK
<1>5. TypeOK'
  BY <1>1, <1>2, <1>3, <1>4 DEF CallInv, TypeOK, Steps
<1>6. OthersKept(s)
  BY <1>3 DEF CallInv, TypeOK, OthersKept
<1>7. LocalOK(s)'
  <2>1. pc'[s] = step /\ call'[s] = c /\ moved'[s] = {} 
    BY <1>3 DEF CallInv, TypeOK, LocalOK, NoCallOK, InCall
  <2>2. Sources(c) = {n \in Paths : d[n] # NoSlot}
    BY DEF Sources
  <2>3. CallOK(s)'
    BY <2>1, <2>2, <1>2 DEF CallOK, Sources
  <2> QED BY <2>1, <2>3 DEF LocalOK, InCall
<1> QED BY <1>3, <1>5, <1>6, <1>7 DEF StepKeeps

LEMMA ReturnKeeps ==
    ASSUME CallInv, NEW s \in Servers, InCall(s), NEW r \in Outcomes,
           Return(s, r), temps' \subseteq temps, audit' \subseteq Row,
           faults' \in 0..MaxFaults, UNCHANGED <<files, touched, named, nextBody>>
    PROVE  StepKeeps(s)
<1>1. TypeOK'
  BY TypedCall DEF CallInv, TypeOK, Return, Goto, Steps
<1>2. OthersKept(s)
  BY DEF CallInv, TypeOK, Return, Goto, OthersKept
<1>3. LocalOK(s)'
  BY DEF CallInv, TypeOK, Return, Goto, LocalOK, NoCallOK, InCall
<1> QED BY <1>1, <1>2, <1>3 DEF StepKeeps

(* A step within a call: the program counter moves on, the list of moves,  *)
(* the note at work and the text read may change.                          *)
LEMMA WithinCallKeeps ==
    ASSUME CallInv, NEW s \in Servers, InCall(s),
           NEW step \in Steps \ {"idle", "read"},
           NEW m \in SUBSET Sources(call[s]), NEW k \in Paths \cup {NoNote},
           NEW f \in File \cup {Absent},
           pc' = [pc EXCEPT ![s] = step],
           moved' = [moved EXCEPT ![s] = m],
           cur' = [cur EXCEPT ![s] = k],
           buf' = [buf EXCEPT ![s] = f],
           step \in {"planned", "replace"} => m = {},
           step \in {"stamp", "stamping"} => k \in m,
           step \in {"stamping", "linking"} => f \in File,
           step \in {"linking", "audit"} => m = Sources(call[s]),
           files' \in [Paths -> File \cup {Absent}],
           temps' \subseteq Calls, touched' \subseteq Calls,
           outcome' \in [Calls -> Outcomes], faults' \in 0..MaxFaults,
           UNCHANGED <<call, audit, nextBody>>,
           \/ named' = named /\ (pc[s] \in {"planned", "replace"} => step = "replace")
           \/ Name(s)
    PROVE  StepKeeps(s)
<1>0. /\ named' \subseteq Slots /\ named \subseteq named'
      /\ step \notin {"planned", "replace"} => Given(call[s]) \cap Slots \subseteq named'
  BY TypedCall DEF Name, CallInv, TypeOK, CallOK
<1>1. TypeOK'
  BY <1>0, TypedCall DEF CallInv, TypeOK
<1>2. OthersKept(s)
  BY DEF CallInv, TypeOK, OthersKept
<1>3. LocalOK(s)'
  <2>1. /\ pc'[s] = step /\ call'[s] = call[s] /\ moved'[s] = m
        /\ cur'[s] = k /\ buf'[s] = f
    BY DEF CallInv, TypeOK
  <2>2. Given(call[s])' = Given(call[s])
    BY <2>1 DEF Given, Sources
  <2>3. CallOK(s)'
    BY <1>0, <2>1, <2>2, TypedCall DEF CallOK, Sources
  <2> QED BY <2>1, <2>3 DEF LocalOK, InCall
<1> QED BY <1>0, <1>1, <1>2, <1>3 DEF StepKeeps

----------------------------------------------------------------------------
(* The actions, one by one.                                                *)

LEMMA RequestKeeps ==
    ASSUME CallInv, NEW s \in Servers, Request(s), vars' # vars
    PROVE  StepKeeps(s)
<1>1. PICK p \in Scope[s] :
        \/ ReadText(s, p)
        \/ Create(s, p)
        \/ \E e \in ClientHashes(p) :
              \/ Update(s, p, e)
              \/ \E S \in SUBSET Scope[s] : Plan(s, p, e, S)
  BY DEF Request
<1> p \in Paths
  BY ConstantFacts
<1>2. CASE ReadText(s, p)
  <2>1. TypeOK'
    BY <1>2 DEF CallInv, TypeOK, ReadText, Goto, Steps
  <2>2. OthersKept(s) /\ LocalOK(s)'
    BY <1>2 DEF CallInv, TypeOK, ReadText, Goto, OthersKept, LocalOK, NoCallOK,
                InCall
  <2> QED BY <1>2, <2>1, <2>2 DEF StepKeeps, ReadText
<1>3. CASE Create(s, p)
  <2>1. Accept(s, "create", p, NoHash, NoMoves, "replace")
    BY <1>3 DEF Create, Refuse
  <2>2. /\ NoMoves \in [Paths -> Slots \cup {NoSlot}]
        /\ \A n \in Paths : NoMoves[n] = NoSlot
    BY DEF NoMoves
  <2> QED BY <2>1, <2>2, <1>3, AcceptKeeps DEF Create, Hash
<1>4. ASSUME NEW e \in ClientHashes(p), Update(s, p, e)
      PROVE  StepKeeps(s)
  <2>1. Accept(s, "update", p, e, NoMoves, "replace")
    BY <1>4 DEF Update, Refuse
  <2>2. /\ NoMoves \in [Paths -> Slots \cup {NoSlot}]
        /\ \A n \in Paths : NoMoves[n] = NoSlot
    BY DEF NoMoves
  <2>3. e \in Hash
    BY <1>4 DEF ClientHashes, Hash, CallInv, TypeOK
  <2> QED BY <2>1, <2>2, <2>3, <1>4, AcceptKeeps DEF Update
<1>5. ASSUME NEW e \in ClientHashes(p), NEW S \in SUBSET Scope[s],
             Plan(s, p, e, S)
      PROVE  StepKeeps(s)
  <2>1. PICK d \in Destinations(S) :
          Accept(s, "update", p, e,
                 [n \in Paths |-> IF n \in S THEN d[n] ELSE NoSlot], "planned")
    BY <1>5 DEF Plan, Refuse
  <2> DEFINE D == [n \in Paths |-> IF n \in S THEN d[n] ELSE NoSlot]
  <2>2. /\ d \in [S -> Slots]
        /\ \A n \in S : d[n][1] = FileName(n) /\ files[d[n]] = Absent
        /\ \A n \in S : \A m \in S \ {n} : d[m] # d[n]
    BY DEF Destinations, Missing
  <2>3. S \subseteq Paths /\ D \in [Paths -> Slots \cup {NoSlot}]
    BY <2>2, ConstantFacts
  <2>4. /\ p \notin S /\ pc[s] = "idle"
        /\ \A n \in S : files[n] # Absent
    BY <1>5 DEF Plan, Refuse, Missing
  <2>5. \A n \in Paths :
          D[n] # NoSlot => n \in Scope[s] \ {p} /\ D[n][1] = FileName(n)
    BY <2>2, <2>4
  <2>6. \A m, n \in Paths : D[n] # NoSlot /\ m # n => D[m] # D[n]
    BY <2>2, ConstantFacts
  <2>7. e \in Hash
    BY <1>5 DEF ClientHashes, Hash, CallInv, TypeOK
  <2>8. \A m, n \in Paths : D[m] # NoSlot /\ D[n] # NoSlot => D[m] # n
    BY <2>2, <2>4
  <2> HIDE DEF D
  <2> QED BY <2>1, <2>3, <2>4, <2>5, <2>6, <2>7, <2>8, AcceptKeeps DEF D
<1> QED BY <1>1, <1>2, <1>3, <1>4, <1>5

LEMMA ReadHashKeeps ==
    ASSUME CallInv, NEW s \in Servers, ReadHash(s)
    PROVE  StepKeeps(s)
<1>1. TypeOK'
  BY DEF CallInv, TypeOK, ReadHash, Goto, Steps
<1>2. OthersKept(s) /\ LocalOK(s)'
  BY DEF CallInv, TypeOK, ReadHash, Goto, OthersKept, LocalOK, NoCallOK, InCall
<1> QED BY <1>1, <1>2 DEF StepKeeps, ReadHash

LEMMA UpdatePlannedKeeps ==
    ASSUME CallInv, NEW s \in Servers, UpdatePlanned(s)
    PROVE  StepKeeps(s)
<1>1. InCall(s)
  BY DEF UpdatePlanned, InCall
<1>2. faults' \in 0..MaxFaults /\ audit' \subseteq Row
  BY DEF UpdatePlanned, CallInv, TypeOK
<1>3. CASE \E r \in {"missing", "mismatch"} : Return(s, r) /\ UNCHANGED temps
  BY <1>1, <1>2, <1>3, ReturnKeeps DEF UpdatePlanned, Outcomes
<1>4. CASE /\ Goto(s, "replace")
           /\ temps' = temps \cup {call[s].body}
           /\ UNCHANGED <<call, moved, cur, buf, outcome>>
  <2>1. moved[s] = {}
    BY <1>1, TypedCall DEF UpdatePlanned, CallOK
  <2>2. /\ pc' = [pc EXCEPT ![s] = "replace"]
        /\ moved' = [moved EXCEPT ![s] = {}]
        /\ cur' = [cur EXCEPT ![s] = cur[s]]
        /\ buf' = [buf EXCEPT ![s] = buf[s]]
    BY <2>1, <1>4 DEF Goto, CallInv, TypeOK
  <2>3. cur[s] \in Paths \cup {NoNote} /\ buf[s] \in File \cup {Absent}
    BY DEF CallInv, TypeOK
  <2>4. temps' \subseteq Calls
    BY <1>1, <1>4, TypedCall DEF CallInv, TypeOK
  <2> QED BY <2>2, <2>3, <2>4, <1>1, <1>2, <1>4, WithinCallKeeps, TypedCall
          DEF UpdatePlanned, CallInv, TypeOK, Steps
<1> QED BY <1>3, <1>4 DEF UpdatePlanned

(* A step within a call that replaces a file by atomic_write.              *)
LEMMA PutKeeps ==
    ASSUME CallInv, NEW s \in Servers, InCall(s), NEW p \in Paths,
           NEW f \in File, Put(s, p, f),
           NEW step \in {"archive", "audit"}, Goto(s, step),
           step = "audit" => moved[s] = Sources(call[s]),
           Name(s) \/ (named' = named /\ pc[s] # "planned" /\ pc[s] # "replace"),
           UNCHANGED <<call, moved, cur, buf, outcome, audit, nextBody, faults>>
    PROVE  StepKeeps(s)
<1>1. /\ pc' = [pc EXCEPT ![s] = step]
      /\ moved' = [moved EXCEPT ![s] = moved[s]]
      /\ cur' = [cur EXCEPT ![s] = cur[s]]
      /\ buf' = [buf EXCEPT ![s] = buf[s]]
  BY DEF Goto, CallInv, TypeOK
<1>2. /\ files' \in [Paths -> File \cup {Absent}]
      /\ temps' \subseteq Calls /\ touched' \subseteq Calls
  BY TypedCall DEF Put, CallInv, TypeOK
<1>3. /\ moved[s] \in SUBSET Sources(call[s])
      /\ cur[s] \in Paths \cup {NoNote} /\ buf[s] \in File \cup {Absent}
  BY TypedCall DEF CallInv, TypeOK, CallOK
<1>4. \/ named' = named /\ (pc[s] \in {"planned", "replace"} => step = "replace")
      \/ Name(s)
  OBVIOUS
<1>5. outcome' \in [Calls -> Outcomes] /\ faults' \in 0..MaxFaults
  BY DEF CallInv, TypeOK
<1> QED BY <1>1, <1>2, <1>3, <1>4, <1>5, WithinCallKeeps DEF Steps

LEMMA ReplaceKeeps ==
    ASSUME CallInv, NEW s \in Servers, Replace(s)
    PROVE  StepKeeps(s)
<1>1. InCall(s) /\ moved[s] = {}
  BY TypedCall DEF Replace, InCall, CallOK
<1>2. call[s].path \in Paths /\ Text(call[s].body) \in File
  BY <1>1, TypedCall, MergedFiles DEF Bodies
<1> QED BY <1>1, <1>2, PutKeeps DEF Replace

LEMMA AbortKeeps ==
    ASSUME CallInv, NEW s \in Servers, InCall(s), Abort(s),
           files' \in [Paths -> File \cup {Absent}],
           touched' \subseteq Calls, faults' \in 0..MaxFaults,
           pc[s] \notin {"planned", "replace"}
    PROVE  StepKeeps(s)
<1>1. /\ pc' = [pc EXCEPT ![s] = "rollback"]
      /\ moved' = [moved EXCEPT ![s] = moved[s]]
      /\ cur' = [cur EXCEPT ![s] = cur[s]]
      /\ buf' = [buf EXCEPT ![s] = buf[s]]
  BY DEF Abort, Goto, CallInv, TypeOK
<1>2. /\ moved[s] \in SUBSET Sources(call[s])
      /\ cur[s] \in Paths \cup {NoNote} /\ buf[s] \in File \cup {Absent}
      /\ temps' \subseteq Calls
  BY TypedCall DEF Abort, CallInv, TypeOK, CallOK
<1>3. named' = named /\ UNCHANGED <<call, audit, nextBody>>
  BY DEF Abort
<1>4. outcome' \in [Calls -> Outcomes]
  BY DEF Abort, CallInv, TypeOK
<1> QED BY <1>1, <1>2, <1>3, <1>4, WithinCallKeeps DEF Steps

LEMMA MoveSourceKeeps ==
    ASSUME CallInv, NEW s \in Servers, NEW n \in Paths, MoveSource(s, n)
    PROVE  StepKeeps(s)
<1>1. InCall(s) /\ n \in Sources(call[s])
  BY DEF MoveSource, InCall, Pending
<1>2. call[s].dest[n] \in Slots /\ moved[s] \subseteq Sources(call[s])
  BY <1>1, TypedCall DEF CallOK
<1>3. CASE ~Missing(n)
  <2>1. /\ pc' = [pc EXCEPT ![s] = "stamp"]
        /\ moved' = [moved EXCEPT ![s] = moved[s] \cup {n}]
        /\ cur' = [cur EXCEPT ![s] = n]
        /\ buf' = [buf EXCEPT ![s] = buf[s]]
    BY <1>3 DEF MoveSource, Goto, CallInv, TypeOK
  <2>2. files' \in [Paths -> File \cup {Absent}]
    BY <1>2, <1>3 DEF MoveSource, CallInv, TypeOK, Paths
  <2>3. touched' \subseteq Calls /\ temps' \subseteq Calls
    BY <1>1, <1>3, TypedCall DEF MoveSource, CallInv, TypeOK
  <2>4. UNCHANGED <<outcome, faults, call, audit, nextBody>>
        /\ named' = named /\ pc[s] = "archive"
    BY <1>3 DEF MoveSource
  <2>5. moved[s] \cup {n} \in SUBSET Sources(call[s]) /\ buf[s] \in File \cup {Absent}
    BY <1>1, <1>2 DEF CallInv, TypeOK
  <2>6. outcome' \in [Calls -> Outcomes] /\ faults' \in 0..MaxFaults
    BY <2>4 DEF CallInv, TypeOK
  <2> QED BY <1>1, <2>1, <2>2, <2>3, <2>4, <2>5, <2>6, WithinCallKeeps DEF Steps
<1>4. CASE Missing(n)
  BY <1>1, <1>4, AbortKeeps DEF MoveSource, CallInv, TypeOK
<1> QED BY <1>3, <1>4

LEMMA MergeReadKeeps ==
    ASSUME CallInv, NEW s \in Servers, InCall(s), NEW p \in Paths,
           NEW next \in {"stamping", "linking"}, MergeRead(s, p, next),
           pc[s] \in {"archive", "stamp"},
           next = "stamping" => cur[s] \in moved[s],
           next = "linking" => moved[s] = Sources(call[s])
    PROVE  StepKeeps(s)
<1>1. CASE Mergeable(p)
  <2>1. /\ pc' = [pc EXCEPT ![s] = next]
        /\ moved' = [moved EXCEPT ![s] = moved[s]]
        /\ cur' = [cur EXCEPT ![s] = cur[s]]
        /\ buf' = [buf EXCEPT ![s] = files[p]]
        /\ files[p] \in File
    BY <1>1 DEF MergeRead, Mergeable, Goto, CallInv, TypeOK, Missing
  <2>2. /\ moved[s] \in SUBSET Sources(call[s])
        /\ cur[s] \in Paths \cup {NoNote}
        /\ temps' \subseteq Calls
    BY <1>1, TypedCall DEF MergeRead, CallInv, TypeOK, CallOK
  <2>3. UNCHANGED <<files, call, outcome, touched, named, audit, nextBody, faults>>
    BY <1>1 DEF MergeRead
  <2> QED BY <2>1, <2>2, <2>3, WithinCallKeeps DEF CallInv, TypeOK, Steps
<1>2. CASE ~Mergeable(p)
  BY <1>2, AbortKeeps DEF MergeRead, CallInv, TypeOK
<1> QED BY <1>1, <1>2

LEMMA CommitStepsKeep ==
    ASSUME CallInv, NEW s \in Servers,
           StampRead(s) \/ StampReplace(s) \/ LinkRead(s) \/ LinkReplace(s)
    PROVE  StepKeeps(s)
<1>1. InCall(s) /\ CallOK(s)
  BY TypedCall DEF InCall, StampRead, StampReplace, LinkRead, LinkReplace
<1>2. call[s].path \in Paths
  BY <1>1, TypedCall
<1>3. pc[s] \in {"stamp", "stamping"} =>
        cur[s] \in moved[s] /\ call[s].dest[cur[s]] \in Paths
  BY <1>1 DEF CallOK, Paths
<1>4. CASE StampRead(s)
  BY <1>1, <1>3, <1>4, MergeReadKeeps DEF StampRead
<1>5. CASE StampReplace(s)
  <2>1. Stamped(buf[s], call[s].path) \in File
    BY <1>1, <1>2, <1>5, MergedFiles DEF CallOK, StampReplace
  <2> QED BY <1>1, <1>3, <1>5, <2>1, PutKeeps DEF StampReplace, MergeReplace
<1>6. CASE LinkRead(s)
  <2>1. moved[s] = Sources(call[s])
    BY <1>1, <1>6 DEF LinkRead, Pending, CallOK
  <2> QED BY <1>1, <1>2, <1>6, <2>1, MergeReadKeeps DEF LinkRead
<1>7. CASE LinkReplace(s)
  <2>1. Linked(buf[s], Archived(call[s])) \in File
    BY <1>1, <1>7, TypedCall, MergedFiles DEF CallOK, LinkReplace
  <2> QED BY <1>1, <1>2, <1>7, <2>1, PutKeeps DEF LinkReplace, MergeReplace, CallOK
<1> QED BY <1>4, <1>5, <1>6, <1>7

(* A step of _rollback takes one note off the list of moves.               *)
LEMMA UndoKeeps ==
    ASSUME CallInv, NEW s \in Servers, pc[s] = "rollback", NEW n \in Paths,
           moved' = [moved EXCEPT ![s] = @ \ {n}],
           files' \in [Paths -> File \cup {Absent}],
           outcome' \in [Calls -> Outcomes], faults' \in 0..MaxFaults,
           UNCHANGED <<temps, pc, call, cur, buf, touched, named, audit, nextBody>>
    PROVE  StepKeeps(s)
<1>1. InCall(s) /\ moved[s] \subseteq Sources(call[s])
  BY TypedCall DEF InCall, CallOK
<1>2. /\ pc' = [pc EXCEPT ![s] = "rollback"]
      /\ moved' = [moved EXCEPT ![s] = moved[s] \ {n}]
      /\ cur' = [cur EXCEPT ![s] = cur[s]]
      /\ buf' = [buf EXCEPT ![s] = buf[s]]
  BY DEF CallInv, TypeOK
<1>3. /\ moved[s] \ {n} \in SUBSET Sources(call[s])
      /\ cur[s] \in Paths \cup {NoNote} /\ buf[s] \in File \cup {Absent}
      /\ temps' \subseteq Calls /\ touched' \subseteq Calls
  BY <1>1 DEF CallInv, TypeOK
<1>4. UNCHANGED <<call, audit, nextBody>>
  OBVIOUS
<1>5. "rollback" \in Steps \ {"idle", "read"}
  BY DEF Steps
<1> QED BY <1>1, <1>2, <1>3, <1>4, <1>5, WithinCallKeeps, ZenonT(40)

LEMMA MoveBackKeeps ==
    ASSUME CallInv, NEW s \in Servers, NEW n \in Paths,
           MoveBack(s, n) \/ MoveBackFails(s, n)
    PROVE  StepKeeps(s)
<1>1. /\ pc[s] = "rollback" /\ n \in moved[s]
      /\ moved' = [moved EXCEPT ![s] = @ \ {n}]
      /\ UNCHANGED <<temps, pc, call, cur, buf, touched, named, audit, nextBody>>
  BY DEF MoveBack, MoveBackFails
<1>2. call[s].dest[n] \in Paths /\ n \in Paths /\ call[s].body \in Calls
  BY <1>1, TypedCall DEF InCall, CallOK, Paths
<1>3. files' \in [Paths -> File \cup {Absent}]
  BY <1>2 DEF MoveBack, MoveBackFails, CallInv, TypeOK
<1>4. outcome' \in [Calls -> Outcomes]
  BY <1>2 DEF MoveBack, MoveBackFails, Unrecovered, CallInv, TypeOK, Outcomes
<1>5. faults' \in 0..MaxFaults
  BY ConstantFacts DEF MoveBack, MoveBackFails, Fault, CallInv, TypeOK
<1> QED BY <1>1, <1>3, <1>4, <1>5, UndoKeeps

LEMMA ReturnsKeep ==
    ASSUME CallInv, NEW s \in Servers,
           \/ RollbackDone(s) \/ Audit(s) \/ WriteFails(s) \/ AuditFails(s)
           \/ Kill(s)
    PROVE  StepKeeps(s)
<1>1. InCall(s)
  BY DEF InCall, RollbackDone, Audit, WriteFails, AuditFails, Kill
<1>2. PICK r \in {"rolled_back", "partial", "ok", "error", "killed"} : Return(s, r)
  BY DEF RollbackDone, Audit, WriteFails, AuditFails, Kill
<1>3. temps' \subseteq temps /\ UNCHANGED <<files, touched, named, nextBody>>
  BY DEF RollbackDone, Audit, WriteFails, AuditFails, Kill
<1>4. audit' \subseteq Row
  BY <1>1, TypedCall DEF RollbackDone, Audit, WriteFails, AuditFails, Kill, Row,
                         CallInv, TypeOK
<1>5. faults' \in 0..MaxFaults
  BY ConstantFacts DEF RollbackDone, Audit, WriteFails, AuditFails, Kill, Fault,
                       CallInv, TypeOK
<1> QED BY <1>1, <1>2, <1>3, <1>4, <1>5, ReturnKeeps DEF Outcomes

LEMMA CommitFailuresKeep ==
    ASSUME CallInv, NEW s \in Servers,
           CommitFails(s) \/ \E n \in Paths : MoveLeavesCopy(s, n)
    PROVE  StepKeeps(s)
<1>1. InCall(s) /\ Abort(s) /\ Fault /\ pc[s] \notin {"planned", "replace"}
  BY DEF InCall, CommitFails, MoveLeavesCopy
<1>2. faults' \in 0..MaxFaults
  BY <1>1, ConstantFacts DEF Fault, CallInv, TypeOK
<1>3. CASE CommitFails(s)
  BY <1>1, <1>2, <1>3, AbortKeeps DEF CommitFails, CallInv, TypeOK
<1>4. ASSUME NEW n \in Paths, MoveLeavesCopy(s, n)
      PROVE  StepKeeps(s)
  <2>1. call[s].dest[n] \in Paths /\ n \in Paths
    BY <1>1, <1>4, TypedCall DEF MoveLeavesCopy, Pending, CallOK, Paths
  <2>2. files' \in [Paths -> File \cup {Absent}] /\ touched' \subseteq Calls
    BY <1>1, <1>4, <2>1, TypedCall DEF MoveLeavesCopy, CallInv, TypeOK
  <2> QED BY <1>1, <1>2, <2>2, AbortKeeps
<1> QED BY <1>3, <1>4

LEMMA ServerStepKeeps ==
    ASSUME CallInv, NEW s \in Servers, Progress(s) \/ Request(s) \/ Failure(s),
           vars' # vars
    PROVE  StepKeeps(s)
<1>1. CASE Request(s)
  BY <1>1, RequestKeeps
<1>2. CASE Progress(s)
  BY <1>2, ReadHashKeeps, UpdatePlannedKeeps, ReplaceKeeps, MoveSourceKeeps,
     CommitStepsKeep, MoveBackKeeps, ReturnsKeep DEF Progress
<1>3. CASE Failure(s)
  BY <1>3, ReturnsKeep, CommitFailuresKeep, MoveBackKeeps DEF Failure
<1> QED BY <1>1, <1>2, <1>3

LEMMA EditorKeeps ==
    ASSUME CallInv, Editor
    PROVE  CallInv'
<1>1. PICK n \in EditorFiles : EditorSaves(n) \/ EditorDeletes(n)
  BY DEF Editor
<1>2. n \in Paths
  BY VaultAssumption
<1>3. UNCHANGED <<temps, pc, call, moved, cur, buf, outcome, touched, named,
                  audit, faults>>
  BY <1>1 DEF EditorSaves, EditorDeletes
<1>4. /\ nextBody' \in 1..(MaxBody + 1)
      /\ EditorSaves(n) => nextBody \in Calls
  BY <1>1, ConstantFacts DEF EditorSaves, EditorDeletes, CallInv, TypeOK, Calls
<1>5. files' \in [Paths -> File \cup {Absent}]
  BY <1>1, <1>2, <1>4, MergedFiles DEF EditorSaves, EditorDeletes, CallInv, TypeOK, Bodies
<1>6. TypeOK'
  BY <1>3, <1>4, <1>5 DEF CallInv, TypeOK
<1>7. \A t \in Servers : LocalOK(t)'
  BY <1>3, LocalFrame DEF CallInv
<1> QED BY <1>6, <1>7 DEF CallInv

LEMMA InitCallInv == Init => CallInv
<1> SUFFICES ASSUME Init PROVE CallInv
  OBVIOUS
<1>1. files \in [Paths -> File \cup {Absent}]
  <2>1. PICK N \in SUBSET Notes, A \in SUBSET Names :
          files = [p \in Paths |->
                     IF p \in N THEN Text(p)
                     ELSE IF p \in {<<x, Plain>> : x \in A} THEN Text(p[1])
                     ELSE Absent]
    BY DEF Init
  <2>2. \A p \in N : Text(p) \in File
    BY MergedFiles DEF Bodies
  <2>3. \A p \in {<<x, Plain>> : x \in A} : Text(p[1]) \in File
    BY MergedFiles DEF Bodies
  <2> QED BY <2>1, <2>2, <2>3
<1>2. TypeOK
  BY <1>1, ConstantFacts DEF Init, TypeOK, Steps, Outcomes
<1>3. \A s \in Servers : LocalOK(s)
  BY DEF Init, LocalOK, InCall, NoCallOK
<1> QED BY <1>2, <1>3 DEF CallInv

LEMMA NextCallInv == CallInv /\ [Next]_vars => CallInv'
<1> SUFFICES ASSUME CallInv, [Next]_vars PROVE CallInv'
  OBVIOUS
<1>1. CASE vars' = vars
  BY <1>1 DEF vars, CallInv, TypeOK, LocalOK, InCall, CallOK, NoCallOK, Sources,
              Given
<1>2. ASSUME NEW s \in Servers, Progress(s) \/ Request(s) \/ Failure(s),
             vars' # vars
      PROVE  CallInv'
  <2>1. StepKeeps(s)
    BY <1>2, ServerStepKeeps
  <2>2. \A t \in Servers \ {s} : LocalOK(t)'
    BY <2>1, LocalFrame DEF StepKeeps, OthersKept, CallInv
  <2> QED BY <2>1, <2>2 DEF StepKeeps, CallInv
<1>3. CASE Editor
  BY <1>3, EditorKeeps
<1> QED BY <1>1, <1>2, <1>3 DEF Next

(* Every variable keeps its type, whatever the servers and the user do: in *)
(* particular a call's local variables are those of a call throughout it.  *)
THEOREM TypeCorrect == Spec => []TypeOK
<1>1. CallInv => TypeOK
  BY DEF CallInv
<1> QED BY <1>1, InitCallInv, NextCallInv, PTL DEF Spec
-----------------------------------------------------------------------------
(***************************************************************************)
(* The history of the calls: what the audit log, the temporary files and   *)
(* the changed files say of how a call ended, whatever other servers and   *)
(* the user do.                                                            *)
(***************************************************************************)
Staging == {"replace", "stamping", "linking"}

(* The call a server executes has not ended; until its first write it has  *)
(* changed nothing; it has a temporary file only while it is writing.      *)
CallOpen(s) ==
    InCall(s) =>
        LET b == call[s].body IN
        /\ b < nextBody
        /\ outcome[b] \in {"open", "partial"}
        /\ pc[s] \in {"planned", "replace"} => b \notin touched
        /\ b \in temps => pc[s] \in Staging

(* Two servers execute different calls.                                    *)
CallsDiffer ==
    \A s, t \in Servers :
        s # t /\ InCall(s) /\ InCall(t) => call[s].body # call[t].body

(* A call that has not begun has left no trace.                            *)
FutureBlank ==
    \A b \in Calls : b >= nextBody =>
        b \notin temps \cup touched /\ outcome[b] = "open"

HistInv ==
    /\ AuditTrail /\ RefusedCallsChangeNothing /\ TempsAccounted
    /\ \A s \in Servers : CallOpen(s)
    /\ CallsDiffer
    /\ FutureBlank

(* What a step of server s may do to the history.                          *)
TracesOf(b) ==
    /\ temps' \subseteq temps \cup {b}
    /\ temps \ {b} \subseteq temps'
    /\ touched' \subseteq touched \cup {b}
    /\ touched \subseteq touched'
    /\ \A d \in Calls \ {b} : outcome'[d] = outcome[d]

----------------------------------------------------------------------------

(* A step within a call.                                                   *)
LEMMA WithinCallHistory ==
    ASSUME CallInv, CallInv', HistInv, NEW s \in Servers, InCall(s), InCall(s)',
           OthersKept(s), UNCHANGED <<call, audit, nextBody>>,
           TracesOf(call[s].body),
           outcome'[call[s].body] \in {"open", "partial"},
           pc'[s] \in {"planned", "replace"} => call[s].body \notin touched',
           call[s].body \in temps' => pc'[s] \in Staging
    PROVE  HistInv'
<1> DEFINE b == call[s].body
<1>1. b \in Calls /\ b < nextBody /\ outcome[b] \in {"open", "partial"}
  BY TypedCall DEF HistInv, CallOpen
<1>2. \A t \in Servers \ {s} : InCall(t)' = InCall(t)
  BY DEF OthersKept, InCall
<1>3. \A t \in Servers \ {s} : InCall(t) => call[t].body \in Calls \ {b}
  BY TypedCall DEF HistInv, CallsDiffer
<1>4. AuditTrail'
  BY <1>1 DEF HistInv, AuditTrail, TracesOf, CallInv, TypeOK, Row
<1>5. RefusedCallsChangeNothing'
  BY <1>1 DEF HistInv, RefusedCallsChangeNothing, TracesOf, CallInv, TypeOK
<1>6. TempsAccounted'
  <2> SUFFICES ASSUME NEW d \in temps'
               PROVE  (\/ outcome[d] = "killed"
                       \/ \E t \in Servers :
                             pc[t] \in Staging /\ call[t].body = d)'
    BY DEF TempsAccounted, Staging
  <2>1. CASE d = b
    BY <2>1
  <2>2. CASE d # b
    <3>1. d \in temps /\ d \in Calls
      BY <2>2 DEF TracesOf, CallInv, TypeOK
    <3>2. CASE outcome[d] = "killed"
      BY <2>2, <3>1, <3>2 DEF TracesOf
    <3>3. CASE \E t \in Servers : pc[t] \in Staging /\ call[t].body = d
      BY <2>2, <3>3 DEF OthersKept
    <3> QED BY <3>1, <3>2, <3>3 DEF HistInv, TempsAccounted, Staging
  <2> QED BY <2>1, <2>2
<1>7. ASSUME NEW t \in Servers PROVE CallOpen(t)'
  <2>1. CASE t = s
    BY <1>1, <2>1 DEF CallOpen
  <2>2. CASE t # s
    BY <1>2, <1>3, <2>2 DEF HistInv, CallOpen, OthersKept, TracesOf
  <2> QED BY <2>1, <2>2
<1>8. CallsDiffer'
  BY <1>2 DEF HistInv, CallsDiffer
<1>9. FutureBlank'
  <2>1. \A d \in Calls : d >= nextBody => d # b
    BY <1>1, ConstantFacts DEF CallInv, TypeOK, Calls
  <2> QED BY <2>1 DEF HistInv, FutureBlank, TracesOf
<1> QED BY <1>4, <1>5, <1>6, <1>7, <1>8, <1>9 DEF HistInv

(* The end of a call.                                                      *)
LEMMA ReturnHistory ==
    ASSUME CallInv, CallInv', HistInv, NEW s \in Servers, InCall(s),
           NEW r \in Outcomes \ {"open"}, Return(s, r),
           UNCHANGED <<touched, nextBody>>,
           temps' \subseteq temps, temps \ {call[s].body} \subseteq temps',
           r = "killed" \/ call[s].body \notin temps',
           r \in {"missing", "mismatch", "error"} => call[s].body \notin touched,
           \/ audit' = audit
           \/ \E row \in Row : /\ row.body = call[s].body /\ r = "ok"
                               /\ audit' = audit \cup {row}
    PROVE  HistInv'
<1> DEFINE b == call[s].body
<1>1. b \in Calls /\ b < nextBody /\ outcome[b] \in {"open", "partial"}
  BY TypedCall DEF HistInv, CallOpen
<1>2. /\ ~InCall(s)' /\ outcome'[b] = r
      /\ \A d \in Calls \ {b} : outcome'[d] = outcome[d]
      /\ \A t \in Servers \ {s} : pc'[t] = pc[t] /\ call'[t] = call[t]
  BY <1>1 DEF Return, Goto, InCall, CallInv, TypeOK
<1>3. \A t \in Servers \ {s} : /\ InCall(t)' = InCall(t)
                              /\ InCall(t) => call[t].body \in Calls \ {b}
  BY <1>2, TypedCall DEF InCall, HistInv, CallsDiffer
<1>4. AuditTrail'
  <2>1. \A row \in audit : row.body \in Calls \ {b}
    BY <1>1 DEF HistInv, AuditTrail, CallInv, TypeOK, Row
  <2> QED BY <1>2, <2>1 DEF HistInv, AuditTrail
<1>5. RefusedCallsChangeNothing'
  BY <1>1, <1>2 DEF HistInv, RefusedCallsChangeNothing, CallInv, TypeOK
<1>6. TempsAccounted'
  <2> SUFFICES ASSUME NEW d \in temps'
               PROVE  (\/ outcome[d] = "killed"
                       \/ \E t \in Servers :
                             pc[t] \in Staging /\ call[t].body = d)'
    BY DEF TempsAccounted, Staging
  <2>1. CASE d = b
    BY <1>2, <2>1
  <2>2. CASE d # b
    <3>1. d \in temps /\ d \in Calls
      BY DEF CallInv, TypeOK
    <3>2. CASE outcome[d] = "killed"
      BY <1>2, <2>2, <3>1, <3>2
    <3>3. CASE \E t \in Servers : pc[t] \in Staging /\ call[t].body = d
      BY <1>2, <2>2, <3>3
    <3> QED BY <3>1, <3>2, <3>3 DEF HistInv, TempsAccounted, Staging
  <2> QED BY <2>1, <2>2
<1>7. ASSUME NEW t \in Servers PROVE CallOpen(t)'
  <2>1. CASE t = s
    BY <1>2, <2>1 DEF CallOpen
  <2>2. CASE t # s
    BY <1>2, <1>3, <2>2 DEF InCall, HistInv, CallOpen
  <2> QED BY <2>1, <2>2
<1>8. CallsDiffer'
  BY <1>2, <1>3 DEF InCall, HistInv, CallsDiffer
<1>9. FutureBlank'
  <2>1. \A d \in Calls : d >= nextBody => d # b
    BY <1>1, ConstantFacts DEF CallInv, TypeOK, Calls
  <2> QED BY <1>2, <2>1 DEF HistInv, FutureBlank
<1> QED BY <1>4, <1>5, <1>6, <1>7, <1>8, <1>9 DEF HistInv

(* A call is accepted under a number that has left no trace.               *)
LEMMA AcceptHistory ==
    ASSUME CallInv, CallInv', HistInv, NEW s \in Servers, pc[s] = "idle",
           NEW op, NEW p, NEW e, NEW d, NEW step \in {"planned", "replace"},
           Accept(s, op, p, e, d, step)
    PROVE  HistInv'
<1> DEFINE b == nextBody
<1>1. /\ b \in Calls /\ b \in Nat /\ nextBody' = b + 1
      /\ b \notin temps \cup touched /\ outcome[b] = "open"
  BY ConstantFacts DEF Accept, CallInv, TypeOK, Calls, HistInv, FutureBlank
<1>2. /\ InCall(s)' /\ pc'[s] = step /\ call'[s].body = b
      /\ \A t \in Servers \ {s} : pc'[t] = pc[t] /\ call'[t] = call[t]
      /\ UNCHANGED <<touched, named, audit, outcome>>
      /\ temps' = IF step = "replace" THEN temps \cup {b} ELSE temps
  BY DEF Accept, Goto, InCall, CallInv, TypeOK
<1>3. \A t \in Servers \ {s} :
         /\ InCall(t)' = InCall(t)
         /\ InCall(t) => call[t].body \in Calls /\ call[t].body < b
  BY <1>2, TypedCall DEF InCall, HistInv, CallOpen
<1>4. AuditTrail' /\ RefusedCallsChangeNothing'
  BY <1>2 DEF HistInv, AuditTrail, RefusedCallsChangeNothing
<1>5. TempsAccounted'
  <2>1. ~(pc[s] \in Staging)
    BY DEF Staging
  <2> QED BY <1>2, <2>1 DEF HistInv, TempsAccounted, Staging
<1>6. ASSUME NEW t \in Servers PROVE CallOpen(t)'
  <2>1. CASE t = s
    BY <1>1, <1>2, <2>1 DEF CallOpen, Staging
  <2>2. CASE t # s
    BY <1>1, <1>2, <1>3, <2>2 DEF HistInv, CallOpen, Calls
  <2> QED BY <2>1, <2>2
<1>7. CallsDiffer'
  BY <1>1, <1>2, <1>3 DEF HistInv, CallsDiffer, Calls
<1>8. FutureBlank'
  BY <1>1, <1>2 DEF HistInv, FutureBlank, Calls
<1> QED BY <1>4, <1>5, <1>6, <1>7, <1>8 DEF HistInv

----------------------------------------------------------------------------
(* The actions.                                                            *)

LEMMA OutsideHistory ==
    ASSUME HistInv, CallInv, NEW s \in Servers, ~InCall(s), ~InCall(s)',
           OthersKept(s), UNCHANGED <<temps, outcome, touched, named, audit, nextBody>>
    PROVE  HistInv'
<1>1. \A t \in Servers \ {s} : /\ InCall(t)' = InCall(t)
                              /\ pc'[t] = pc[t] /\ call'[t] = call[t]
  BY DEF OthersKept, InCall
<1>2. TempsAccounted'
  <2>1. ~(pc[s] \in Staging)
    BY DEF InCall, Staging
  <2> QED BY <1>1, <2>1 DEF HistInv, TempsAccounted, Staging
<1>3. \A t \in Servers : CallOpen(t)'
  BY <1>1 DEF HistInv, CallOpen
<1>4. CallsDiffer'
  BY <1>1 DEF HistInv, CallsDiffer
<1> QED BY <1>2, <1>3, <1>4 DEF HistInv, AuditTrail, RefusedCallsChangeNothing,
                                FutureBlank

LEMMA RequestHistory ==
    ASSUME CallInv, CallInv', HistInv, NEW s \in Servers, Request(s), vars' # vars,
           OthersKept(s)
    PROVE  HistInv'
<1>1. ASSUME NEW p \in Scope[s], ReadText(s, p) PROVE HistInv'
  <2>1. ~InCall(s) /\ ~InCall(s)'
    BY <1>1 DEF ReadText, Goto, InCall, CallInv, TypeOK
  <2> QED BY <1>1, <2>1, OutsideHistory DEF ReadText
<1>2. ASSUME NEW p \in Scope[s], Create(s, p) PROVE HistInv'
  BY <1>2, AcceptHistory DEF Create, Refuse
<1>3. ASSUME NEW p \in Scope[s], NEW e \in ClientHashes(p), Update(s, p, e)
      PROVE  HistInv'
  BY <1>3, AcceptHistory DEF Update, Refuse
<1>4. ASSUME NEW p \in Scope[s], NEW e \in ClientHashes(p), NEW S \in SUBSET Scope[s],
             Plan(s, p, e, S)
      PROVE  HistInv'
  BY <1>4, AcceptHistory DEF Plan, Refuse
<1> QED BY <1>1, <1>2, <1>3, <1>4 DEF Request

LEMMA UpdatePlannedHistory ==
    ASSUME CallInv, CallInv', HistInv, NEW s \in Servers, UpdatePlanned(s),
           OthersKept(s)
    PROVE  HistInv'
<1>1. /\ pc[s] = "planned" /\ InCall(s)
      /\ call[s].body \notin touched /\ call[s].body \notin temps
      /\ outcome[call[s].body] \in {"open", "partial"}
  BY DEF UpdatePlanned, InCall, HistInv, CallOpen, Staging
<1>2. CASE Return(s, "missing") /\ UNCHANGED temps
  BY <1>1, <1>2, ReturnHistory DEF UpdatePlanned, Outcomes
<1>3. CASE Return(s, "mismatch") /\ UNCHANGED temps
  BY <1>1, <1>3, ReturnHistory DEF UpdatePlanned, Outcomes
<1>4. CASE /\ Goto(s, "replace") /\ temps' = temps \cup {call[s].body}
           /\ UNCHANGED <<call, moved, cur, buf, outcome>>
  <2>1. pc'[s] = "replace" /\ InCall(s)' /\ TracesOf(call[s].body)
    BY <1>4 DEF UpdatePlanned, Goto, InCall, TracesOf, CallInv, TypeOK
  <2> QED BY <1>1, <1>4, <2>1, WithinCallHistory DEF UpdatePlanned, Staging
<1> QED BY <1>2, <1>3, <1>4 DEF UpdatePlanned

(* The steps that write, and those of commit.                              *)
LEMMA WritingHistory ==
    ASSUME CallInv, CallInv', HistInv, NEW s \in Servers, InCall(s),
           OthersKept(s), UNCHANGED <<call, outcome, audit, nextBody>>,
           NEW step \in {"archive", "stamp", "stamping", "linking", "audit",
                         "rollback"},
           Goto(s, step), touched \subseteq touched',
           touched' \subseteq touched \cup {call[s].body},
           \/ temps' = temps \ {call[s].body}
           \/ temps' = temps /\ call[s].body \notin temps
           \/ temps' = temps \cup {call[s].body} /\ step \in Staging
    PROVE  HistInv'
<1>1. pc'[s] = step /\ InCall(s)' /\ TracesOf(call[s].body)
  BY DEF Goto, InCall, TracesOf, CallInv, TypeOK
<1>2. outcome[call[s].body] \in {"open", "partial"}
  BY DEF HistInv, CallOpen
<1> QED BY <1>1, <1>2, WithinCallHistory

LEMMA CommitHistory ==
    ASSUME CallInv, CallInv', HistInv, NEW s \in Servers, OthersKept(s),
           \/ Replace(s) \/ StampRead(s) \/ StampReplace(s) \/ LinkRead(s)
           \/ LinkReplace(s) \/ CommitFails(s)
           \/ \E n \in Paths : MoveSource(s, n) \/ MoveLeavesCopy(s, n)
    PROVE  HistInv'
<1>1. InCall(s)
  BY DEF InCall, Replace, StampRead, StampReplace, LinkRead, LinkReplace,
         CommitFails, MoveSource, MoveLeavesCopy
<1>2. pc[s] \notin Staging => call[s].body \notin temps
  BY <1>1 DEF HistInv, CallOpen
<1>3. CASE Replace(s)
  <2>1. (IF Sources(call[s]) = {} THEN "audit" ELSE "archive")
           \in {"archive", "audit"}
    OBVIOUS
  <2> QED BY <1>1, <1>3, <2>1, WritingHistory DEF Replace, Put
<1>4. ASSUME NEW n \in Paths, MoveSource(s, n) PROVE HistInv'
  BY <1>1, <1>2, <1>4, WritingHistory DEF MoveSource, Abort, Staging
<1>5. CASE StampRead(s)
  BY <1>1, <1>2, <1>5, WritingHistory DEF StampRead, MergeRead, Abort, Staging
<1>6. CASE StampReplace(s)
  BY <1>1, <1>6, WritingHistory DEF StampReplace, MergeReplace, Put
<1>7. CASE LinkRead(s)
  BY <1>1, <1>2, <1>7, WritingHistory DEF LinkRead, MergeRead, Abort, Staging
<1>8. CASE LinkReplace(s)
  BY <1>1, <1>8, WritingHistory DEF LinkReplace, MergeReplace, Put
<1>9. CASE CommitFails(s)
  BY <1>1, <1>9, WritingHistory DEF CommitFails, Abort
<1>10. ASSUME NEW n \in Paths, MoveLeavesCopy(s, n) PROVE HistInv'
  BY <1>1, <1>10, WritingHistory DEF MoveLeavesCopy, Abort
<1> QED BY <1>3, <1>4, <1>5, <1>6, <1>7, <1>8, <1>9, <1>10

LEMMA RollbackHistory ==
    ASSUME CallInv, CallInv', HistInv, NEW s \in Servers, OthersKept(s),
           NEW n \in Paths, MoveBack(s, n) \/ MoveBackFails(s, n)
    PROVE  HistInv'
<1> DEFINE b == call[s].body
<1>1. /\ pc[s] = "rollback" /\ InCall(s) /\ InCall(s)' /\ pc'[s] = "rollback"
      /\ UNCHANGED <<call, audit, nextBody, temps, touched>>
  BY DEF MoveBack, MoveBackFails, InCall
<1>2. /\ b \in Calls /\ outcome[b] \in {"open", "partial"} /\ b \notin temps
  BY <1>1, TypedCall DEF HistInv, CallOpen, Staging
<1>3. /\ outcome'[b] \in {"open", "partial"}
      /\ \A d \in Calls \ {b} : outcome'[d] = outcome[d]
  BY <1>2 DEF MoveBack, MoveBackFails, Unrecovered, CallInv, TypeOK
<1>4. TracesOf(b)
  BY <1>1, <1>3 DEF TracesOf
<1> QED BY <1>1, <1>2, <1>3, <1>4, WithinCallHistory

LEMMA ReturnsHistory ==
    ASSUME CallInv, CallInv', HistInv, NEW s \in Servers,
           \/ Audit(s) \/ RollbackDone(s) \/ WriteFails(s) \/ AuditFails(s)
           \/ Kill(s)
    PROVE  HistInv'
<1>1. InCall(s)
  BY DEF InCall, Audit, RollbackDone, WriteFails, AuditFails, Kill
<1>2. /\ pc[s] \notin Staging => call[s].body \notin temps
      /\ pc[s] = "replace" => call[s].body \notin touched
  BY <1>1 DEF HistInv, CallOpen
<1>3. CASE Audit(s)
  <2> DEFINE row == [body |-> call[s].body, path |-> call[s].path,
                     archived |-> Archived(call[s])]
  <2>1. row \in Row /\ row.body = call[s].body
    BY <1>1, TypedCall DEF Row
  <2> QED BY <1>1, <1>2, <1>3, <2>1, ReturnHistory DEF Audit, Staging, Outcomes
<1>4. CASE RollbackDone(s)
  <2>1. PICK r \in {"partial", "rolled_back"} : Return(s, r)
    BY <1>4 DEF RollbackDone
  <2> QED BY <1>1, <1>2, <1>4, <2>1, ReturnHistory
          DEF RollbackDone, Staging, Outcomes
<1>5. CASE WriteFails(s)
  BY <1>1, <1>2, <1>5, ReturnHistory DEF WriteFails, Outcomes
<1>6. CASE AuditFails(s)
  BY <1>1, <1>2, <1>6, ReturnHistory DEF AuditFails, Staging, Outcomes
<1>7. CASE Kill(s)
  BY <1>1, <1>7, ReturnHistory DEF Kill, Outcomes
<1> QED BY <1>3, <1>4, <1>5, <1>6, <1>7

LEMMA EditorHistory ==
    ASSUME CallInv, HistInv, Editor
    PROVE  HistInv'
<1>1. /\ UNCHANGED <<temps, pc, call, outcome, touched, named, audit>>
      /\ nextBody' \in {nextBody, nextBody + 1}
  BY DEF Editor, EditorSaves, EditorDeletes
<1>2. \A t \in Servers : CallOpen(t)'
  BY <1>1, TypedCall DEF HistInv, CallOpen, InCall, CallInv, TypeOK, Calls
<1>3. FutureBlank'
  BY <1>1, ConstantFacts DEF HistInv, FutureBlank, CallInv, TypeOK, Calls
<1> QED BY <1>1, <1>2, <1>3 DEF HistInv, AuditTrail, RefusedCallsChangeNothing,
           TempsAccounted, CallsDiffer, InCall

LEMMA InitHistory == Init => HistInv
  BY DEF Init, HistInv, AuditTrail, RefusedCallsChangeNothing, TempsAccounted,
         CallOpen, CallsDiffer, FutureBlank, InCall

LEMMA NextHistory == CallInv /\ CallInv' /\ HistInv /\ [Next]_vars => HistInv'
<1> SUFFICES ASSUME CallInv, CallInv', HistInv, [Next]_vars PROVE HistInv'
  OBVIOUS
<1>1. CASE vars' = vars
  BY <1>1 DEF vars, HistInv, AuditTrail, RefusedCallsChangeNothing,
              TempsAccounted, CallOpen, CallsDiffer, FutureBlank, InCall
<1>2. ASSUME NEW s \in Servers, Progress(s) \/ Request(s) \/ Failure(s),
             vars' # vars
      PROVE  HistInv'
  <2>1. OthersKept(s)
    BY <1>2, ServerStepKeeps DEF StepKeeps
  <2>2. CASE Request(s)
    BY <1>2, <2>1, <2>2, RequestHistory
  <2>3. CASE ReadHash(s)
    <3>1. /\ ~InCall(s) /\ ~InCall(s)'
          /\ UNCHANGED <<temps, outcome, touched, named, audit, nextBody>>
      BY <2>3 DEF ReadHash, Goto, InCall, CallInv, TypeOK
    <3> QED BY <2>1, <3>1, OutsideHistory
  <2>4. CASE UpdatePlanned(s)
    BY <2>1, <2>4, UpdatePlannedHistory
  <2>5. CASE \/ Replace(s) \/ StampRead(s) \/ StampReplace(s) \/ LinkRead(s)
             \/ LinkReplace(s) \/ CommitFails(s)
             \/ \E n \in Paths : MoveSource(s, n) \/ MoveLeavesCopy(s, n)
    BY <2>1, <2>5, CommitHistory
  <2>6. CASE \E n \in Paths : MoveBack(s, n) \/ MoveBackFails(s, n)
    BY <2>1, <2>6, RollbackHistory
  <2>7. CASE \/ Audit(s) \/ RollbackDone(s) \/ WriteFails(s) \/ AuditFails(s)
             \/ Kill(s)
    BY <2>7, ReturnsHistory
  <2> QED BY <1>2, <2>2, <2>3, <2>4, <2>5, <2>6, <2>7 DEF Progress, Failure
<1>3. CASE Editor
  BY <1>3, EditorHistory
<1> QED BY <1>1, <1>2, <1>3 DEF Next

LEMMA HistoryInvariant == Spec => []HistInv
<1>1. Init => CallInv /\ HistInv
  BY InitCallInv, InitHistory
<1>2. (CallInv /\ HistInv) /\ [Next]_vars => (CallInv /\ HistInv)'
  BY NextCallInv, NextHistory
<1> QED BY <1>1, <1>2, PTL DEF Spec

(* With any number of servers and whatever else changes the vault: the     *)
(* audit log has at most one row for a call, and only for one that         *)
(* succeeded; ...                                                          *)
THEOREM AuditTrailHolds == Spec => []AuditTrail
<1>1. HistInv => AuditTrail
  BY DEF HistInv
<1> QED BY <1>1, HistoryInvariant, PTL

(* ... a call that was refused, or failed before its rename, has changed   *)
(* no file; ...                                                            *)
THEOREM RefusalsChangeNothing == Spec => []RefusedCallsChangeNothing
<1>1. HistInv => RefusedCallsChangeNothing
  BY DEF HistInv
<1> QED BY <1>1, HistoryInvariant, PTL

(* ... and no return and no error path leaves a temporary file.            *)
THEOREM NoTempsLeft == Spec => []TempsAccounted
<1>1. HistInv => TempsAccounted
  BY DEF HistInv
<1> QED BY <1>1, HistoryInvariant, PTL

=============================================================================
