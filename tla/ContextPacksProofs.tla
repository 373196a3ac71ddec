------------------------- MODULE ContextPacksProofs -------------------------
(***************************************************************************)
(* Theorems about ContextPacks, for every set of packs and files, every    *)
(* graph of includes, every vault, and a user and an indexer that work at  *)
(* any moment of a load: the type invariant, the budget, the staleness     *)
(* warnings, what makes a load fail, that resolution and validation report *)
(* exactly the cycles, what a truncated pack keeps, and which files a pack *)
(* is made of.                                                             *)
(***************************************************************************)
EXTENDS ContextPacks, ListsProofs

-----------------------------------------------------------------------------
(* What the configuration and the helpers of the model give.               *)

USE PackAssumption

Name == Packs \cup UNION {UNION {ToSet(c.includes[p]) : p \in Packs} : c \in Setups}

LEMMA SetupFacts ==
    ASSUME NEW c \in Setups, NEW p \in Packs
    PROVE  /\ c.includes[p] \in Seq(Name) /\ IsList(c.paths[p])
           /\ ToSet(c.includes[p]) \subseteq Name
           /\ c.budget[p] \in Nat \ {0}
<1>1. IsList(c.includes[p]) /\ IsList(c.paths[p]) /\ c.budget[p] \in Nat \ {0}
  OBVIOUS
<1>2. ToSet(c.includes[p]) \subseteq Name
  BY DEF Name
<1>3. c.includes[p] \in Seq(ToSet(c.includes[p]))
  BY <1>1 DEF IsList
<1> QED BY <1>1, <1>2, <1>3, SeqMonotonic

(* A sequence selected from another one has elements that pass the test.   *)
LEMMA MatchesNamed ==
    ASSUME NEW entry
    PROVE  Matches(entry) \in Seq({f \in Files :
               /\ Readable(f) /\ Present(f)
               /\ f = entry \/ (entry \notin Files /\ f \in entry)})
<1> DEFINE F == {f \in Files : /\ Readable(f) /\ Present(f)
                               /\ f = entry \/ (entry \notin Files /\ f \in entry)}
<1>1. CASE entry \in Files
  <2> DEFINE s == <<entry>>
             K == {i \in DOMAIN s : Readable(s[i]) /\ Present(s[i])}
  <2>1. s \in Seq(Files) /\ DOMAIN s = {1} /\ s[1] = entry
    BY <1>1
  <2>2. Matches(entry) = At(s, K)
    BY <1>1 DEF Matches, Select
  <2>3. {s[i] : i \in K \cap DOMAIN s} \subseteq F
    BY <1>1, <2>1
  <2> HIDE DEF s, K, F
  <2>4. At(s, K) \in Seq({s[i] : i \in K \cap DOMAIN s})
    BY <2>1, SelectElements
  <2>5. At(s, K) \in Seq(F)
    BY <2>3, <2>4, SeqMonotonic
  <2> QED BY <2>2, <2>5 DEF F
<1>2. CASE entry \notin Files
  <2> DEFINE s == FileOrder
             K == {i \in DOMAIN s : s[i] \in entry /\ Readable(s[i]) /\ Present(s[i])}
  <2>1. s \in Seq(Files) /\ DOMAIN s = 1..Len(s) /\ \A i \in DOMAIN s : s[i] \in Files
    BY ListFacts
  <2>2. Matches(entry) = At(s, K)
    BY <1>2 DEF Matches, Select
  <2>3. {s[i] : i \in K \cap DOMAIN s} \subseteq F
    BY <1>2, <2>1
  <2> HIDE DEF s, K, F
  <2>4. At(s, K) \in Seq({s[i] : i \in K \cap DOMAIN s})
    BY <2>1, SelectElements
  <2>5. At(s, K) \in Seq(F)
    BY <2>3, <2>4, SeqMonotonic
  <2> QED BY <2>2, <2>5 DEF F
<1> QED BY <1>1, <1>2

(* What a pack finds are files that it names, may read and that are there. *)
LEMMA OwnPathsNamed ==
    ASSUME cfg \in Setups, NEW p \in Packs
    PROVE  OwnPaths(p) \in Seq({f \in Files : f \in Declared(p) /\ Readable(f) /\ Present(f)})
<1> DEFINE F == {f \in Files : f \in Declared(p) /\ Readable(f) /\ Present(f)}
           paths == cfg.paths[p]
           ss == [i \in DOMAIN paths |-> Matches(paths[i])]
<1>1. Len(paths) \in Nat /\ DOMAIN paths = 1..Len(paths)
  <2>1. IsList(paths)
    BY SetupFacts
  <2> QED BY <2>1, ListFacts
<1>2. ASSUME NEW i \in DOMAIN paths PROVE Matches(paths[i]) \in Seq(F)
  <2> DEFINE M == {f \in Files :
               /\ Readable(f) /\ Present(f)
               /\ f = paths[i] \/ (paths[i] \notin Files /\ f \in paths[i])}
  <2>1. paths[i] \in ToSet(paths)
    BY DEF ToSet
  <2>2. M \subseteq F
    BY <2>1 DEF Declared, Readable
  <2>3. Matches(paths[i]) \in Seq(M)
    BY MatchesNamed
  <2> HIDE DEF M, F, paths
  <2> QED BY <2>2, <2>3, SeqMonotonic
<1>3. OwnPaths(p) = FlattenSeq(ss)
  BY DEF OwnPaths
<1> HIDE DEF F, paths
<1>4. ss \in [1..Len(paths) -> Seq(F)]
  BY <1>1, <1>2
<1> HIDE DEF ss
<1>5. ss \in Seq(Seq(F))
  BY <1>1, <1>4, FunctionIsSeq
<1>6. FlattenSeq(ss) \in Seq(F)
  BY <1>5, FlattenJoins
<1> QED BY <1>3, <1>6 DEF F

LEMMA OwnPathsFound ==
    ASSUME cfg \in Setups, NEW p \in Packs
    PROVE  OwnPaths(p) \in Seq({f \in Files : Readable(f) /\ Present(f)})
<1> DEFINE F == {f \in Files : f \in Declared(p) /\ Readable(f) /\ Present(f)}
           G == {f \in Files : Readable(f) /\ Present(f)}
<1>1. OwnPaths(p) \in Seq(F) /\ F \subseteq G
  BY OwnPathsNamed
<1> HIDE DEF F, G
<1>2. OwnPaths(p) \in Seq(G)
  BY <1>1, SeqMonotonic
<1> QED BY <1>2 DEF G

LEMMA OwnMissingFiles ==
    ASSUME cfg \in Setups, NEW p \in Packs
    PROVE  OwnMissing(p) \in Seq(Files)
<1> DEFINE s == cfg.paths[p]
           K == {i \in DOMAIN s : s[i] \in Files /\ Readable(s[i]) /\ ~Present(s[i])}
<1>1. s \in Seq(ToSet(s))
  <2>1. IsList(s)
    BY SetupFacts
  <2> QED BY <2>1, ListFacts
<1>2. OwnMissing(p) = At(s, K)
  BY DEF OwnMissing, Select
<1>3. {s[i] : i \in K \cap DOMAIN s} \subseteq Files
  OBVIOUS
<1> HIDE DEF s, K
<1>4. At(s, K) \in Seq({s[i] : i \in K \cap DOMAIN s})
  BY <1>1, SelectElements
<1> QED BY <1>2, <1>3, <1>4, SeqMonotonic

LEMMA SelectedSections ==
    ASSUME NEW p, NEW t \in Texts
    PROVE  Selected(p, t) \in Seq(Section)
<1> DEFINE s == t.parts
           K == {i \in DOMAIN s : s[i].head \in cfg.sections[p]}
<1>1. s \in Seq(ToSet(s)) /\ ToSet(s) \subseteq Section
  <2>1. IsList(s)
    OBVIOUS
  <2>2. ToSet(s) \subseteq Section
    BY DEF Section
  <2> QED BY <2>1, <2>2, ListFacts
<1>2. s \in Seq(Section)
  BY <1>1, SeqMonotonic
<1>3. Selected(p, t) = IF At(s, K) = <<>> THEN s ELSE At(s, K)
  BY DEF Selected, Select
<1> HIDE DEF s, K
<1>4. At(s, K) \in Seq(Section)
  BY <1>2, AtElements
<1> QED BY <1>2, <1>3, <1>4

LEMMA FirstPlacesElements ==
    ASSUME NEW S, NEW docs \in Seq(S)
    PROVE  /\ FirstPlaces(docs) \in Seq(S)
           /\ ToSet(FirstPlaces(docs)) \subseteq ToSet(docs)
<1> DEFINE K == {i \in DOMAIN docs : \A j \in 1..(i - 1) : docs[j].path # docs[i].path}
<1>1. FirstPlaces(docs) = At(docs, K)
  BY DEF FirstPlaces
<1> HIDE DEF K
<1>2. At(docs, K) \in Seq(S)
  BY AtElements
<1>3. \A k \in DOMAIN At(docs, K) : \E i \in K \cap DOMAIN docs : At(docs, K)[k] = docs[i]
  BY AtElements
<1> QED BY <1>1, <1>2, <1>3 DEF ToSet

-----------------------------------------------------------------------------
(* The content that is written: its type and its tokens.                   *)

Doc == [path : Files, parts : Seq(Section), mtime : 1..MaxTime]

LEMMA NoTokens == Tokens(<<>>) = 0
<1> DEFINE Is(f) == f = [i \in 0..Len(<<>>) |-> IF i = 0 THEN 0
                          ELSE f[i - 1] + Header + SizeOf(<<>>[i].parts)]
           g == [i \in 0..0 |-> 0]
<1>1. Len(<<>>) = 0
  BY EmptySeq
<1>2. Is(g)
  <2>1. g = [i \in 0..0 |-> IF i = 0 THEN 0 ELSE g[i - 1] + Header + SizeOf(<<>>[i].parts)]
    OBVIOUS
  <2> QED BY <1>1, <2>1
<1>3. Is(CHOOSE f : Is(f))
  <2> HIDE DEF Is, g
  <2> QED BY <1>2
<1>4. Tokens(<<>>) = (CHOOSE f : Is(f))[Len(<<>>)]
  BY Zenon DEF Tokens
<1>5. ASSUME NEW f, Is(f) PROVE f[Len(<<>>)] = 0
  BY <1>1, <1>5
<1> HIDE DEF Is
<1> QED BY <1>3, <1>4, <1>5

LEMMA DocPieces ==
    ASSUME NEW doc \in Doc
    PROVE  /\ doc.path \in Files /\ doc.parts \in Seq(Section) /\ doc.mtime \in 1..MaxTime
           /\ Len(doc.parts) \in Nat
           /\ Whole(doc) \in Piece
           /\ \A k \in 1..Len(doc.parts) : Fragment(doc, k) \in Piece
<1>1. doc.path \in Files /\ doc.parts \in Seq(Section) /\ doc.mtime \in 1..MaxTime
  BY DEF Doc
<1>2. Len(doc.parts) \in Nat
  BY <1>1, LenProperties
<1>3. Whole(doc) \in Piece
  BY <1>1 DEF Whole, Piece
<1>4. ASSUME NEW k \in 1..Len(doc.parts) PROVE Fragment(doc, k) \in Piece
  <2>1. doc.parts[k] \in Section
    BY <1>1, ElementOfSeq
  <2>2. <<doc.parts[k]>> \in Seq(Section)
    BY <2>1
  <2> QED BY <1>1, <2>2 DEF Fragment, Piece
<1> QED BY <1>1, <1>2, <1>3, <1>4

(* The fragments put into the pieces are a prefix of the document that     *)
(* fits, and the next one does not fit.                                    *)
FragmentsUpTo(pieces, doc, k) == pieces \o [j \in 1..k |-> Fragment(doc, j)]

LEMMA FragmentsFit ==
    ASSUME NEW pieces \in Seq(Piece), NEW doc \in Doc, NEW budget
    PROVE  \E k \in 0..Len(doc.parts) :
              /\ WithFragments(pieces, doc, budget) = FragmentsUpTo(pieces, doc, k)
              /\ \A j \in 1..k : Fits(FragmentsUpTo(pieces, doc, j - 1),
                                      Fragment(doc, j), budget)
              /\ k < Len(doc.parts) =>
                    ~Fits(FragmentsUpTo(pieces, doc, k), Fragment(doc, k + 1), budget)
<1> DEFINE n == Len(doc.parts)
           F(j) == Fits(FragmentsUpTo(pieces, doc, j - 1), Fragment(doc, j), budget)
           T == {k \in 0..n : \A j \in 1..k : F(j)}
           k == CHOOSE k \in T : \A j \in T : j <= k
<1>1. n \in Nat
  BY DocPieces
<1>2. 0 \in T
  BY <1>1
<1>3. \E l \in T : \A j \in T : j <= l
  <2>1. T \subseteq 0..n
    OBVIOUS
  <2> HIDE DEF T, n
  <2> QED BY <1>1, <1>2, <2>1, GreatestNumber
<1>4. k \in T /\ \A j \in T : j <= k
  <2> HIDE DEF T
  <2> QED BY <1>3
<1>5. WithFragments(pieces, doc, budget) = FragmentsUpTo(pieces, doc, k)
  BY DEF WithFragments, FragmentsUpTo
<1> HIDE DEF k
<1>6. ASSUME k < n PROVE ~F(k + 1)
  <2> SUFFICES ASSUME F(k + 1) PROVE FALSE
    OBVIOUS
  <2>1. k \in Nat /\ k + 1 \in 0..n /\ ~(k + 1 <= k)
    BY <1>1, <1>4, <1>6
  <2>2. ASSUME NEW j \in 1..k + 1 PROVE F(j)
    <3>1. j = k + 1 \/ j \in 1..k
      BY <2>1
    <3> HIDE DEF F
    <3> QED BY <1>4, <3>1
  <2>3. k + 1 \in T
    <3> HIDE DEF F
    <3> QED BY <2>1, <2>2
  <2> QED BY <1>4, <2>1, <2>3
<1>7. k \in Nat /\ (k + 1) - 1 = k
  BY <1>4
<1>8. k \in 0..n /\ \A j \in 1..k : F(j)
  BY <1>4
<1> QED BY <1>5, <1>6, <1>7, <1>8

LEMMA FragmentsType ==
    ASSUME NEW pieces \in Seq(Piece), NEW doc \in Doc, NEW k \in 0..Len(doc.parts)
    PROVE  /\ FragmentsUpTo(pieces, doc, k) \in Seq(Piece)
           /\ Len(FragmentsUpTo(pieces, doc, k)) = Len(pieces) + k
           /\ \A i \in 1..Len(pieces) : FragmentsUpTo(pieces, doc, k)[i] = pieces[i]
           /\ \A i \in 1..k : FragmentsUpTo(pieces, doc, k)[Len(pieces) + i] = Fragment(doc, i)
<1> DEFINE new == [j \in 1..k |-> Fragment(doc, j)]
<1>1. k \in Nat /\ 1..k \subseteq 1..Len(doc.parts) /\ Len(pieces) \in Nat
  BY DocPieces, LenProperties
<1>2. \A j \in 1..k : Fragment(doc, j) \in Piece
  BY <1>1, DocPieces
<1>3. new \in [1..k -> Piece] /\ \A j \in 1..k : new[j] = Fragment(doc, j)
  BY <1>2
<1>4. FragmentsUpTo(pieces, doc, k) = pieces \o new
  BY DEF FragmentsUpTo
<1> HIDE DEF new
<1>5. new \in Seq(Piece) /\ Len(new) = k
  BY <1>1, <1>3, FunctionIsSeq
<1>6. /\ pieces \o new \in Seq(Piece)
      /\ Len(pieces \o new) = Len(pieces) + k
      /\ \A i \in 1..Len(pieces) + k : (pieces \o new)[i] =
            IF i <= Len(pieces) THEN pieces[i] ELSE new[i - Len(pieces)]
  <2> HIDE PackAssumption
  <2>1. pieces \o new \in Seq(Piece)
    BY <1>5, ConcatProperties, SMTT(20)
  <2>2. Len(pieces \o new) = Len(pieces) + Len(new)
    BY <1>5, ConcatProperties, Zenon
  <2>3. \A i \in 1..Len(pieces) + Len(new) : (pieces \o new)[i] =
              IF i <= Len(pieces) THEN pieces[i] ELSE new[i - Len(pieces)]
    <3> SUFFICES ASSUME NEW i \in 1..Len(pieces) + Len(new)
                 PROVE  (pieces \o new)[i] =
                            IF i <= Len(pieces) THEN pieces[i] ELSE new[i - Len(pieces)]
      OBVIOUS
    <3> QED BY <1>5, ConcatProperties, SMTT(20)
  <2> QED BY <1>5, <2>1, <2>2, <2>3
<1>7. ASSUME NEW i \in 1..Len(pieces) PROVE (pieces \o new)[i] = pieces[i]
  <2>1. i \in 1..Len(pieces) + k /\ i <= Len(pieces)
    BY <1>1
  <2> QED BY <1>6, <2>1
<1>8. ASSUME NEW i \in 1..k PROVE (pieces \o new)[Len(pieces) + i] = Fragment(doc, i)
  <2>1. /\ Len(pieces) + i \in 1..Len(pieces) + k /\ ~(Len(pieces) + i <= Len(pieces))
        /\ (Len(pieces) + i) - Len(pieces) = i
    BY <1>1
  <2>2. (pieces \o new)[Len(pieces) + i] = new[(Len(pieces) + i) - Len(pieces)]
    BY <1>6, <2>1
  <2> QED BY <1>3, <2>1, <2>2
<1> QED BY <1>4, <1>6, <1>7, <1>8

(* One fragment more is one piece appended.                                *)
LEMMA NextFragment ==
    ASSUME NEW pieces \in Seq(Piece), NEW doc \in Doc, NEW k \in 1..Len(doc.parts)
    PROVE  FragmentsUpTo(pieces, doc, k) =
               Append(FragmentsUpTo(pieces, doc, k - 1), Fragment(doc, k))
<1> DEFINE s == FragmentsUpTo(pieces, doc, k)
           t == FragmentsUpTo(pieces, doc, k - 1)
           u == Append(t, Fragment(doc, k))
           l == Len(pieces)
<1>1. /\ l \in Nat /\ k \in Nat /\ k \in 0..Len(doc.parts) /\ k - 1 \in 0..Len(doc.parts)
      /\ Fragment(doc, k) \in Piece
  BY DocPieces, LenProperties
<1>2. /\ s \in Seq(Piece) /\ Len(s) = l + k
      /\ \A i \in 1..l : s[i] = pieces[i]
      /\ \A i \in 1..k : s[l + i] = Fragment(doc, i)
  BY <1>1, FragmentsType
<1>3. /\ t \in Seq(Piece) /\ Len(t) = l + (k - 1)
      /\ \A i \in 1..l : t[i] = pieces[i]
      /\ \A i \in 1..k - 1 : t[l + i] = Fragment(doc, i)
  <2>1. k - 1 \in 0..Len(doc.parts)
    BY <1>1
  <2> HIDE PackAssumption
  <2>2. ASSUME NEW m \in 0..Len(doc.parts)
        PROVE  /\ FragmentsUpTo(pieces, doc, m) \in Seq(Piece)
               /\ Len(FragmentsUpTo(pieces, doc, m)) = Len(pieces) + m
               /\ \A i \in 1..Len(pieces) : FragmentsUpTo(pieces, doc, m)[i] = pieces[i]
               /\ \A i \in 1..m :
                     FragmentsUpTo(pieces, doc, m)[Len(pieces) + i] = Fragment(doc, i)
    BY FragmentsType, Zenon
  <2> QED BY <2>1, <2>2
<1> HIDE DEF s, t
<1>4. /\ u \in Seq(Piece) /\ Len(u) = Len(t) + 1
      /\ \A i \in 1..Len(t) : u[i] = t[i]
      /\ u[Len(t) + 1] = Fragment(doc, k)
  BY <1>1, <1>3, AppendProperties
<1> HIDE DEF u, l
<1>5. Len(u) = l + k /\ Len(t) + 1 = l + k
  BY <1>1, <1>3, <1>4
<1>6. ASSUME NEW i \in 1..l + k PROVE s[i] = u[i]
  <2>1. CASE i = l + k
    <3>1. u[l + k] = Fragment(doc, k)
      BY <1>4, <1>5
    <3> QED BY <1>1, <1>2, <2>1, <3>1
  <2>2. CASE i \in 1..l
    <3>1. i \in 1..Len(t)
      BY <1>1, <1>3, <2>2
    <3> QED BY <1>2, <1>3, <1>4, <2>2, <3>1
  <2>3. CASE i # l + k /\ i \notin 1..l
    <3> DEFINE j == i - l
    <3>1. j \in 1..k - 1 /\ j \in 1..k /\ i = l + j /\ i \in 1..Len(t)
      BY <1>1, <1>3, <2>3
    <3> HIDE DEF j
    <3>2. u[i] = t[i]
      BY <1>4, <3>1
    <3> QED BY <1>2, <1>3, <3>1, <3>2
  <2> QED BY <2>1, <2>2, <2>3
<1>7. s = u
  BY <1>2, <1>4, <1>5, <1>6, SeqEqual
<1> QED BY <1>7 DEF s, t, u

LEMMA AddedFits ==
    ASSUME NEW pieces \in Seq(Piece), NEW doc \in Doc, NEW budget,
           Tokens(pieces) <= budget
    PROVE  /\ Added(pieces, doc, budget) \in Seq(Piece)
           /\ Tokens(Added(pieces, doc, budget)) <= budget
<1>1. Whole(doc) \in Piece
  BY DocPieces
<1>2. CASE Fits(pieces, Whole(doc), budget)
  <2>1. Added(pieces, doc, budget) = Append(pieces, Whole(doc))
    BY <1>2 DEF Added
  <2>2. Append(pieces, Whole(doc)) \in Seq(Piece)
    BY <1>1, AppendProperties
  <2> QED BY <1>2, <2>1, <2>2 DEF Fits
<1>3. CASE ~Fits(pieces, Whole(doc), budget)
  <2>1. Added(pieces, doc, budget) = WithFragments(pieces, doc, budget)
    BY <1>3 DEF Added
  <2>2. PICK k \in 0..Len(doc.parts) :
           /\ WithFragments(pieces, doc, budget) = FragmentsUpTo(pieces, doc, k)
           /\ \A j \in 1..k : Fits(FragmentsUpTo(pieces, doc, j - 1),
                                   Fragment(doc, j), budget)
    BY FragmentsFit
  <2>3. FragmentsUpTo(pieces, doc, k) \in Seq(Piece)
    BY FragmentsType
  <2>4. CASE k = 0
    <3>1. FragmentsUpTo(pieces, doc, 0) = pieces
      <4>1. [j \in 1..0 |-> Fragment(doc, j)] = <<>>
        OBVIOUS
      <4> QED BY <4>1, ConcatEmptySeq DEF FragmentsUpTo
    <3> QED BY <2>1, <2>2, <2>4, <3>1
  <2>5. CASE k # 0
    <3>1. k \in 1..Len(doc.parts) /\ k \in 1..k
      BY <2>5, DocPieces
    <3>2. FragmentsUpTo(pieces, doc, k) =
             Append(FragmentsUpTo(pieces, doc, k - 1), Fragment(doc, k))
      BY <3>1, NextFragment
    <3>3. Fits(FragmentsUpTo(pieces, doc, k - 1), Fragment(doc, k), budget)
      BY <2>2, <3>1
    <3>4. Tokens(FragmentsUpTo(pieces, doc, k)) <= budget
      BY <3>2, <3>3 DEF Fits
    <3> QED BY <2>1, <2>2, <2>3, <3>4
  <2> QED BY <2>4, <2>5
<1> QED BY <1>2, <1>3

(* The content emitted for the documents, one after the other.             *)
EmitSteps(f, docs, budget, n) ==
    f = [i \in 0..n |-> IF i = 0 THEN <<>> ELSE Added(f[i - 1], docs[i], budget)]

LEMMA EmitRecursion ==
    ASSUME NEW docs, NEW budget, Len(docs) \in Nat
    PROVE  \E f : /\ f[0] = <<>>
                  /\ \A i \in 1..Len(docs) : f[i] = Added(f[i - 1], docs[i], budget)
                  /\ Emit(docs, budget) = f[Len(docs)]
<1> DEFINE T == {n \in Nat : \E f : EmitSteps(f, docs, budget, n)}
<1>1. 0 \in T
  <2> DEFINE g == [i \in 0..0 |-> <<>>]
  <2>1. g = [i \in 0..0 |-> IF i = 0 THEN <<>> ELSE Added(g[i - 1], docs[i], budget)]
    OBVIOUS
  <2> HIDE DEF g
  <2>2. EmitSteps(g, docs, budget, 0)
    BY <2>1 DEF EmitSteps
  <2> QED BY <2>2
<1>2. ASSUME NEW n \in Nat, n \in T PROVE n + 1 \in T
  <2>1. PICK g : EmitSteps(g, docs, budget, n)
    BY <1>2
  <2> DEFINE last == Added(g[n], docs[n + 1], budget)
             h == [i \in 0..n + 1 |-> IF i = n + 1 THEN last ELSE g[i]]
  <2> HIDE DEF last
  <2>2. \A i \in 0..n : h[i] = g[i]
    OBVIOUS
  <2>3. h[n + 1] = last
    OBVIOUS
  <2>4. \A i \in 0..n : g[i] = IF i = 0 THEN <<>> ELSE Added(g[i - 1], docs[i], budget)
    BY <2>1 DEF EmitSteps
  <2>5. ASSUME NEW i \in 0..n + 1
        PROVE  h[i] = IF i = 0 THEN <<>> ELSE Added(h[i - 1], docs[i], budget)
    <3>1. CASE i = n + 1
      <4>1. i - 1 = n /\ n \in 0..n /\ i # 0
        BY <3>1
      <4> HIDE DEF h
      <4> QED BY <3>1, <4>1, <2>2, <2>3 DEF last
    <3>2. CASE i = 0
      <4>1. i \in 0..n
        BY <3>2
      <4> HIDE DEF h
      <4> QED BY <3>2, <4>1, <2>2, <2>4
    <3>3. CASE i # n + 1 /\ i # 0
      <4>1. i \in 0..n /\ i - 1 \in 0..n
        BY <3>3
      <4> HIDE DEF h
      <4> QED BY <3>3, <4>1, <2>2, <2>4
    <3> QED BY <3>1, <3>2, <3>3
  <2>6. h = [i \in 0..n + 1 |-> IF i = 0 THEN <<>> ELSE Added(h[i - 1], docs[i], budget)]
    <3>1. h = [i \in 0..n + 1 |-> h[i]]
      OBVIOUS
    <3> HIDE DEF h
    <3> QED BY <3>1, <2>5
  <2> HIDE DEF h
  <2>7. EmitSteps(h, docs, budget, n + 1)
    BY <2>6 DEF EmitSteps
  <2> QED BY <2>7
<1>3. \E f : EmitSteps(f, docs, budget, Len(docs))
  <2>1. \A n \in Nat : n \in T
    <3> HIDE DEF T
    <3> QED BY <1>1, <1>2, Induction
  <2> QED BY <2>1
<1> DEFINE f == CHOOSE f : EmitSteps(f, docs, budget, Len(docs))
<1>4. Emit(docs, budget) = f[Len(docs)]
  BY Zenon DEF Emit, EmitSteps
<1>5. EmitSteps(f, docs, budget, Len(docs))
  BY <1>3
<1> HIDE DEF f
<1>6. \A i \in 0..Len(docs) : f[i] = IF i = 0 THEN <<>>
                                     ELSE Added(f[i - 1], docs[i], budget)
  BY <1>5 DEF EmitSteps
<1>7. f[0] = <<>> /\ \A i \in 1..Len(docs) : f[i] = Added(f[i - 1], docs[i], budget)
  <2>1. 0 \in 0..Len(docs) /\ \A i \in 1..Len(docs) : i \in 0..Len(docs) /\ i # 0
    OBVIOUS
  <2> QED BY <1>6, <2>1
<1> QED BY <1>4, <1>7

LEMMA EmitFits ==
    ASSUME NEW docs \in Seq(Doc), NEW budget \in Nat
    PROVE  Emit(docs, budget) \in Seq(Piece) /\ Tokens(Emit(docs, budget)) <= budget
<1>1. Len(docs) \in Nat /\ \A i \in 1..Len(docs) : docs[i] \in Doc
  BY LenProperties, ElementOfSeq
<1>2. PICK f : /\ f[0] = <<>>
               /\ \A i \in 1..Len(docs) : f[i] = Added(f[i - 1], docs[i], budget)
               /\ Emit(docs, budget) = f[Len(docs)]
  BY <1>1, EmitRecursion
<1> DEFINE T == {n \in 0..Len(docs) : f[n] \in Seq(Piece) /\ Tokens(f[n]) <= budget}
<1>3. 0 \in T
  <2>1. 0 <= budget /\ 0 \in 0..Len(docs)
    BY <1>1
  <2>2. <<>> \in Seq(Piece)
    BY EmptySeq
  <2> QED BY <1>2, <2>1, <2>2, NoTokens
<1>4. ASSUME NEW i \in 1..Len(docs), i - 1 \in T PROVE i \in T
  <2>1. f[i - 1] \in Seq(Piece) /\ Tokens(f[i - 1]) <= budget /\ docs[i] \in Doc
    BY <1>1, <1>4
  <2>2. /\ Added(f[i - 1], docs[i], budget) \in Seq(Piece)
        /\ Tokens(Added(f[i - 1], docs[i], budget)) <= budget
    BY <2>1, AddedFits
  <2>3. i \in 0..Len(docs)
    BY <1>1
  <2> QED BY <1>2, <2>2, <2>3
<1>5. Len(docs) \in T
  <2>1. \A i \in 0..Len(docs) : i \in T
    <3> HIDE DEF T
    <3> QED BY <1>1, <1>3, <1>4, InductionUpTo
  <2> QED BY <1>1, <2>1
<1> QED BY <1>2, <1>5

LEMMA FilesFinite == IsFiniteSet(Files)
<1> DEFINE n == Len(FileOrder)
           g == [i \in 1..n |-> FileOrder[i]]
<1>1. n \in Nat /\ DOMAIN FileOrder = 1..n /\ ToSet(FileOrder) = Files
  BY ListFacts
<1>2. \A i \in 1..n : FileOrder[i] \in Files
  BY <1>1, ListFacts
<1>3. \A f \in Files : \E i \in 1..n : FileOrder[i] = f
  BY <1>1 DEF ToSet
<1>4. g \in Surjection(1..n, Files)
  BY <1>2, <1>3 DEF Surjection
<1>5. IsFiniteSet(1..n)
  <2>1. 1..n \in SUBSET Nat /\ \A i \in 1..n : i <= n
    BY <1>1
  <2> HIDE DEF n
  <2> QED BY <1>1, <2>1, FS_BoundedSetOfNaturals
<1> QED BY <1>4, <1>5, FS_Surjection

LEMMA RankingsType ==
    ASSUME NEW docs \in Seq(Doc)
    PROVE  Rankings(docs) \subseteq Seq(Doc)
<1> DEFINE indexed == {f \in {docs[i].path : i \in DOMAIN docs} : indexedAt[f] > 0}
           Of(f) == CHOOSE d \in ToSet(docs) : d.path = f
           Rest(ranked) == Select(docs, LAMBDA d : d.path \notin ranked)
           Front1(s) == [i \in DOMAIN s |-> Of(s[i])]
<1>1. /\ DOMAIN docs = 1..Len(docs)
      /\ \A i \in DOMAIN docs : docs[i] \in Doc /\ docs[i].path \in Files
  BY LenProperties, ElementOfSeq, DocPieces
<1>2. ASSUME NEW f \in indexed PROVE Of(f) \in Doc
  <2>1. PICK i \in DOMAIN docs : docs[i].path = f
    OBVIOUS
  <2>2. docs[i] \in ToSet(docs)
    BY DEF ToSet
  <2>3. \E d \in ToSet(docs) : d.path = f
    BY <2>1, <2>2
  <2>4. Of(f) \in ToSet(docs)
    BY <2>3
  <2>5. ToSet(docs) \subseteq Doc
    BY <1>1 DEF ToSet
  <2> QED BY <2>4, <2>5
<1>3. indexed \subseteq Files
  BY <1>1
<1>4. ASSUME NEW ranked \in SUBSET indexed, NEW s \in SetToSeqs(ranked)
      PROVE  Front1(s) \o Rest(ranked) \in Seq(Doc)
  <2>1. IsFiniteSet(ranked)
    BY <1>3, FilesFinite, FS_Subset
  <2>2. Cardinality(ranked) \in Nat
    BY <2>1, FS_CardinalityType
  <2>3. s \in [1..Cardinality(ranked) -> ranked]
    BY DEF SetToSeqs
  <2>4. DOMAIN s = 1..Cardinality(ranked) /\ \A i \in DOMAIN s : s[i] \in indexed
    BY <2>3
  <2>5. \A i \in DOMAIN s : Of(s[i]) \in Doc
    <3> HIDE DEF Of, indexed
    <3> QED BY <1>2, <2>4
  <2>6. Front1(s) \in [1..Cardinality(ranked) -> Doc]
    <3> HIDE DEF Of, indexed
    <3> QED BY <2>4, <2>5
  <2>7. Front1(s) \in Seq(Doc)
    <3> HIDE DEF Front1
    <3> QED BY <2>2, <2>6, FunctionIsSeq
  <2>8. Rest(ranked) \in Seq(Doc)
    <3>1. Rest(ranked) = At(docs, {i \in DOMAIN docs : docs[i].path \notin ranked})
      BY DEF Select
    <3> HIDE DEF Rest
    <3> QED BY <3>1, AtElements
  <2> HIDE DEF Front1, Rest
  <2> QED BY <2>7, <2>8, ConcatProperties
<1>5. Rankings(docs) = UNION {{Front1(s) \o Rest(ranked) : s \in SetToSeqs(ranked)}
                              : ranked \in SUBSET indexed}
  BY DEF Rankings
<1> HIDE DEF Front1, Rest, indexed
<1>6. ASSUME NEW ranked \in SUBSET indexed
      PROVE  {Front1(s) \o Rest(ranked) : s \in SetToSeqs(ranked)} \subseteq Seq(Doc)
  <2> SUFFICES ASSUME NEW s \in SetToSeqs(ranked) PROVE Front1(s) \o Rest(ranked) \in Seq(Doc)
    OBVIOUS
  <2> QED BY <1>4
<1> DEFINE Orders(ranked) == {Front1(s) \o Rest(ranked) : s \in SetToSeqs(ranked)}
<1>7. Rankings(docs) = UNION {Orders(ranked) : ranked \in SUBSET indexed}
  BY <1>5
<1>8. \A ranked \in SUBSET indexed : Orders(ranked) \subseteq Seq(Doc)
  BY <1>6
<1> HIDE DEF Orders
<1> QED BY <1>7, <1>8

-----------------------------------------------------------------------------
(* Type correctness.                                                       *)

Outcomes == {"open", "refused", "unknown", "cycle", "failed", "whole", "over",
             "truncated"}

EnvTypes ==
    /\ cfg \in Setups
    /\ vault \in [Files -> Version \cup {Absent}]
    /\ indexedAt \in [Files -> 0..MaxTime] /\ now \in 1..MaxTime
AskedTypes == root \in Packs /\ strict \in BOOLEAN /\ checked \in BOOLEAN
SearchTypes ==
    /\ pc \in {"idle", "validate", "enter", "read", "include", "stat", "fit", "done"}
    /\ outcome \in Outcomes
    /\ stack \in Seq(Frame) /\ visited \subseteq Packs
ReadTypes ==
    /\ found \in Seq(Files) /\ texts \in Seq(Version \cup {Absent, Unread})
    /\ pc = "read" => stack # <<>> /\ Len(texts) = Len(found)
ResultTypes ==
    /\ documents \in Seq(Doc) /\ missing \in Seq(Files)
    /\ stamps \in [Files -> 0..MaxTime]
    /\ stale \subseteq Files /\ emitted \in Seq(Piece)
Types == EnvTypes /\ AskedTypes /\ SearchTypes /\ ReadTypes /\ ResultTypes
           /\ touched \subseteq Files

LEMMA TypesGiveTypeOK == Types => TypeOK
BY DEF Types, EnvTypes, AskedTypes, SearchTypes, ReadTypes, ResultTypes, TypeOK,
       Outcomes, Doc

LEMMA FrameFacts ==
    /\ \A p \in Packs, todo \in Seq(Name) : [pack |-> p, todo |-> todo] \in Frame
    /\ \A f \in Frame : f.pack \in Packs /\ f.todo \in Seq(Name)
BY DEF Frame, Name

LEMMA TopFacts ==
    ASSUME stack \in Seq(Frame), stack # <<>>
    PROVE  /\ Len(stack) \in Nat /\ Len(stack) \in 1..Len(stack)
           /\ Top \in Frame /\ Top.pack \in Packs /\ Top.todo \in Seq(Name)
<1>1. Len(stack) \in Nat \ {0}
  BY EmptySeq
<1>2. Len(stack) \in 1..Len(stack)
  BY <1>1
<1>3. Top \in Frame
  BY <1>2, ElementOfSeq DEF Top
<1> QED BY <1>1, <1>2, <1>3, FrameFacts

LEMMA PushTypes ==
    ASSUME cfg \in Setups, stack \in Seq(Frame), NEW p \in Packs
    PROVE  Push(p) \in Seq(Frame) /\ Push(p) # <<>>
<1>1. [pack |-> p, todo |-> cfg.includes[p]] \in Frame
  BY SetupFacts, FrameFacts
<1> QED BY <1>1, AppendProperties DEF Push

(* The stack once the next include of its top is taken.                    *)
LEMMA TodoDoneFacts ==
    ASSUME stack \in Seq(Frame), stack # <<>>, Top.todo # <<>>
    PROVE  /\ TodoDone \in Seq(Frame) /\ Len(TodoDone) = Len(stack)
           /\ \A i \in 1..Len(stack) : TodoDone[i].pack = stack[i].pack
           /\ \A i \in 1..Len(stack) : i # Len(stack) => TodoDone[i] = stack[i]
           /\ TodoDone[Len(stack)].todo = Tail(Top.todo)
           /\ Head(Top.todo) \in Name
           /\ ToSet(Top.todo) = ToSet(Tail(Top.todo)) \cup {Head(Top.todo)}
<1>1. /\ Len(stack) \in Nat /\ Len(stack) \in 1..Len(stack)
      /\ Top \in Frame /\ Top.pack \in Packs /\ Top.todo \in Seq(Name)
  BY TopFacts
<1>2. /\ Head(Top.todo) \in Name /\ Tail(Top.todo) \in Seq(Name)
      /\ Len(Tail(Top.todo)) = Len(Top.todo) - 1
      /\ \A i \in 1..Len(Tail(Top.todo)) : Tail(Top.todo)[i] = Top.todo[i + 1]
  BY <1>1, HeadTailProperties
<1> DEFINE frame == [Top EXCEPT !.todo = Tail(@)]
<1>3. frame \in Frame /\ frame.pack = Top.pack /\ frame.todo = Tail(Top.todo)
  BY <1>1, <1>2 DEF Frame, Name
<1>4. TodoDone = [stack EXCEPT ![Len(stack)] = frame]
  BY DEF TodoDone, Top
<1> HIDE DEF frame
<1>5. /\ TodoDone \in Seq(Frame) /\ Len(TodoDone) = Len(stack)
      /\ \A i \in 1..Len(stack) : TodoDone[i] = IF i = Len(stack) THEN frame ELSE stack[i]
  BY <1>1, <1>3, <1>4, ExceptSeq
<1>6. \A i \in 1..Len(stack) : TodoDone[i].pack = stack[i].pack
  BY <1>3, <1>5 DEF Top
<1>7. ToSet(Top.todo) = ToSet(Tail(Top.todo)) \cup {Head(Top.todo)}
  <2> DEFINE s == Top.todo
             t == Tail(s)
  <2>1. /\ Len(s) \in Nat /\ Len(s) # 0 /\ DOMAIN s = 1..Len(s) /\ DOMAIN t = 1..Len(t)
        /\ Head(s) = s[1]
    BY <1>1, <1>2, EmptySeq, LenProperties
  <2>2. Len(t) = Len(s) - 1 /\ \A i \in 1..Len(t) : t[i] = s[i + 1]
    BY <1>2
  <2> HIDE DEF s, t
  <2>3. ASSUME NEW i \in 1..Len(s) PROVE s[i] = s[1] \/ \E j \in 1..Len(t) : s[i] = t[j]
    <3>1. CASE i = 1
      BY <3>1
    <3>2. CASE i # 1
      <4>1. i - 1 \in 1..Len(t) /\ (i - 1) + 1 = i
        BY <2>1, <2>2, <3>2
      <4> QED BY <2>2, <4>1
    <3> QED BY <3>1, <3>2
  <2>4. ASSUME NEW j \in 1..Len(t) PROVE \E i \in 1..Len(s) : t[j] = s[i]
    <3>1. j + 1 \in 1..Len(s)
      BY <2>1, <2>2
    <3> QED BY <2>2, <3>1
  <2>5. 1 \in 1..Len(s)
    BY <2>1
  <2>6. ToSet(s) = {s[i] : i \in 1..Len(s)} /\ ToSet(t) = {t[i] : i \in 1..Len(t)}
    BY <2>1 DEF ToSet
  <2>7. ToSet(s) = ToSet(t) \cup {Head(s)}
    BY <2>1, <2>3, <2>4, <2>5, <2>6
  <2> QED BY <2>7 DEF s, t
<1> QED BY <1>2, <1>3, <1>5, <1>6, <1>7, <1>1

(* The stack without its top.                                              *)
LEMMA FrontFacts ==
    ASSUME stack \in Seq(Frame), stack # <<>>
    PROVE  /\ Front(stack) \in Seq(Frame) /\ Len(Front(stack)) = Len(stack) - 1
           /\ \A i \in 1..Len(stack) - 1 : Front(stack)[i] = stack[i]
<1> DEFINE n == Len(stack) - 1
           m == 1
<1>1. Len(stack) \in Nat \ {0}
  BY EmptySeq
<1>2. \A i \in m..n : stack[i] \in Frame
  BY <1>1, ElementOfSeq
<1>3. m \in Int /\ n \in Int /\ (IF m <= n THEN n - m + 1 ELSE 0) = n
  <2>1. PICK l \in Nat \ {0} : l = Len(stack)
    BY <1>1
  <2>2. l - 1 \in Int /\ (IF 1 <= l - 1 THEN (l - 1) - 1 + 1 ELSE 0) = l - 1
    <3> HIDE PackAssumption
    <3> QED OBVIOUS
  <2> QED BY <2>1, <2>2
<1>4. Front(stack) = SubSeq(stack, m, n)
  BY DEF Front
<1>5. \A i \in 1..n : i \in 1..n - m + 1 /\ m + i - 1 = i
  BY <1>1
<1> HIDE DEF m, n
<1>6. /\ SubSeq(stack, m, n) \in Seq(Frame)
      /\ Len(SubSeq(stack, m, n)) = IF m <= n THEN n - m + 1 ELSE 0
      /\ \A i \in 1..n - m + 1 : SubSeq(stack, m, n)[i] = stack[m + i - 1]
  BY <1>2, <1>3, SubSeqProperties
<1>7. \A i \in 1..n : SubSeq(stack, m, n)[i] = stack[i]
  BY <1>5, <1>6
<1> QED BY <1>3, <1>4, <1>6, <1>7 DEF n

(* A step of the call changes neither the world nor the request.           *)
Quiet == UNCHANGED <<env, asked, touched>>

LEMMA QuietTypes ==
    ASSUME Types, Quiet
    PROVE  EnvTypes' /\ AskedTypes' /\ touched' \subseteq Files
BY DEF Types, Quiet, env, asked, EnvTypes, AskedTypes, Version

LEMMA EndTypes ==
    ASSUME Types, NEW result \in Outcomes, End(result)
    PROVE  SearchTypes' /\ ReadTypes'
<1>1. <<>> \in Seq(Frame) /\ <<>> \in Seq(Files) /\ <<>> \in Seq(Version \cup {Absent, Unread})
  BY EmptySeq
<1>2. /\ pc' = "done" /\ outcome' = result /\ stack' = <<>> /\ visited' = {}
      /\ found' = <<>> /\ texts' = <<>>
  BY DEF End, Goto
<1>3. SearchTypes'
  BY <1>1, <1>2 DEF SearchTypes
<1>4. ReadTypes'
  BY <1>1, <1>2 DEF ReadTypes, Version
<1> QED BY <1>3, <1>4

LEMMA ResultsKept ==
    ASSUME Types, UNCHANGED <<documents, missing, stamps, stale, emitted>>
    PROVE  ResultTypes'
BY DEF Types, ResultTypes

LEMMA ReadingKept ==
    ASSUME Types, UNCHANGED <<found, texts>>, pc' # "read"
    PROVE  ReadTypes'
BY DEF Types, ReadTypes, Version

LEMMA ValidateFromTypes ==
    ASSUME Types, Quiet, NEW p \in Packs, ValidateFrom(p)
    PROVE  Types'
<1>1. stack' \in Seq(Frame)
  BY PushTypes DEF Types, EnvTypes, SearchTypes, ValidateFrom
<1>2. SearchTypes'
  BY <1>1 DEF Types, SearchTypes, ValidateFrom
<1>3. ReadTypes'
  BY ReadingKept DEF ValidateFrom
<1> QED BY <1>2, <1>3, QuietTypes, ResultsKept DEF Types, ValidateFrom

LEMMA ValidateChildTypes ==
    ASSUME Types, Quiet, ValidateChild
    PROVE  Types'
<1> DEFINE child == Head(Top.todo)
<1>1. stack \in Seq(Frame) /\ stack # <<>> /\ Top.todo # <<>> /\ cfg \in Setups
  BY DEF Types, EnvTypes, SearchTypes, ValidateChild
<1>2. ResultTypes'
  BY ResultsKept DEF ValidateChild
<1>3. CASE End("refused")
  BY <1>2, <1>3, EndTypes, QuietTypes DEF Types, Outcomes
<1>4. CASE /\ stack' = IF child \in visited \/ child \notin Packs THEN TodoDone
                       ELSE Append(TodoDone, [pack |-> child, todo |-> cfg.includes[child]])
           /\ UNCHANGED <<pc, outcome, visited, found, texts>>
  <2>1. TodoDone \in Seq(Frame)
    BY <1>1, TodoDoneFacts
  <2>2. ASSUME child \in Packs
        PROVE  Append(TodoDone, [pack |-> child, todo |-> cfg.includes[child]]) \in Seq(Frame)
    <3>1. [pack |-> child, todo |-> cfg.includes[child]] \in Frame
      BY <1>1, <2>2, SetupFacts, FrameFacts
    <3> QED BY <2>1, <3>1, AppendProperties
  <2>3. stack' \in Seq(Frame)
    BY <1>4, <2>1, <2>2
  <2>4. SearchTypes'
    BY <1>4, <2>3 DEF Types, SearchTypes
  <2>5. ReadTypes'
    BY <1>4, ReadingKept DEF ValidateChild
  <2> QED BY <1>2, <2>4, <2>5, QuietTypes DEF Types
<1> QED BY <1>3, <1>4 DEF ValidateChild

LEMMA ValidateLeaveTypes ==
    ASSUME Types, Quiet, ValidateLeave
    PROVE  Types'
<1>1. stack \in Seq(Frame) /\ stack # <<>>
  BY DEF Types, SearchTypes, ValidateLeave
<1>2. Front(stack) \in Seq(Frame) /\ Top.pack \in Packs
  BY <1>1, FrontFacts, TopFacts
<1>3. SearchTypes'
  BY <1>2 DEF Types, SearchTypes, ValidateLeave
<1>4. ReadTypes'
  BY ReadingKept DEF ValidateLeave
<1> QED BY <1>3, <1>4, QuietTypes, ResultsKept DEF Types, ValidateLeave

LEMMA ValidateDoneTypes ==
    ASSUME Types, Quiet, ValidateDone
    PROVE  Types'
<1>1. ResultTypes'
  BY ResultsKept DEF ValidateDone
<1>2. CASE End("refused")
  BY <1>1, <1>2, EndTypes, QuietTypes DEF Types, Outcomes
<1>3. CASE Goto("enter") /\ visited' = {} /\ UNCHANGED <<stack, found, texts, outcome>>
  <2>1. SearchTypes'
    BY <1>3 DEF Types, SearchTypes, Goto
  <2>2. ReadTypes'
    BY <1>3, ReadingKept DEF Goto
  <2> QED BY <1>1, <2>1, <2>2, QuietTypes DEF Types
<1> QED BY <1>2, <1>3 DEF ValidateDone

LEMMA EnterTypes ==
    ASSUME Types, Quiet, Enter
    PROVE  Types'
<1>1. CASE \E result \in {"unknown", "cycle"} :
              End(result) /\ UNCHANGED <<documents, missing, stamps, stale, emitted>>
  <2>1. PICK result \in Outcomes : End(result)
    BY <1>1 DEF Outcomes
  <2> QED BY <1>1, <2>1, EndTypes, QuietTypes, ResultsKept DEF Types
<1>2. CASE /\ entering \in Packs
           /\ Goto("read")
           /\ stack' = Push(entering)
           /\ found' = OwnPaths(entering)
           /\ texts' = [i \in DOMAIN OwnPaths(entering) |-> Unread]
           /\ missing' = missing \o OwnMissing(entering)
           /\ UNCHANGED <<visited, outcome>>
           /\ UNCHANGED <<documents, stamps, stale, emitted>>
  <2>1. cfg \in Setups /\ stack \in Seq(Frame)
    BY DEF Types, EnvTypes, SearchTypes
  <2>2. stack' \in Seq(Frame) /\ stack' # <<>>
    BY <1>2, <2>1, PushTypes
  <2>3. SearchTypes'
    BY <1>2, <2>2 DEF Types, SearchTypes, Goto
  <2>4. found' \in Seq(Files)
    <3>1. OwnPaths(entering) \in Seq({f \in Files : Readable(f) /\ Present(f)})
      BY <1>2, <2>1, OwnPathsFound
    <3> QED BY <1>2, <3>1, SeqMonotonic
  <2>5. texts' \in Seq(Version \cup {Absent, Unread}) /\ Len(texts') = Len(found')
    <3> DEFINE V == Version \cup {Absent, Unread}
               none == [i \in 1..Len(found') |-> Unread]
    <3>1. Len(found') \in Nat /\ DOMAIN found' = 1..Len(found')
      BY <2>4, LenProperties
    <3>2. texts' = none
      BY <1>2, <3>1
    <3>3. Unread \in V
      OBVIOUS
    <3> HIDE DEF V
    <3>4. none \in [1..Len(found') -> V]
      BY <3>3
    <3> HIDE DEF none
    <3>5. none \in Seq(V) /\ Len(none) = Len(found')
      BY <3>1, <3>4, FunctionIsSeq
    <3> QED BY <3>2, <3>5 DEF V
  <2>6. ReadTypes'
    BY <2>2, <2>4, <2>5 DEF ReadTypes, Version
  <2>7. missing' \in Seq(Files)
    <3>1. OwnMissing(entering) \in Seq(Files)
      BY <1>2, <2>1, OwnMissingFiles
    <3>2. missing \in Seq(Files)
      BY DEF Types, ResultTypes
    <3> QED BY <1>2, <3>1, <3>2, ConcatProperties
  <2>8. ResultTypes'
    BY <1>2, <2>7 DEF Types, ResultTypes
  <2> QED BY <2>3, <2>6, <2>8, QuietTypes DEF Types
<1> QED BY <1>1, <1>2 DEF Enter

LEMMA ReadStepTypes ==
    ASSUME Types, Quiet, NEW i \in DOMAIN found, Read(i)
    PROVE  Types'
<1> DEFINE V == Version \cup {Absent, Unread}
<1>1. pc = "read" /\ texts' = [texts EXCEPT ![i] = vault[found[i]]]
  BY DEF Read
<1>2. texts \in Seq(V) /\ Len(texts) = Len(found) /\ i \in 1..Len(texts)
  BY <1>1, LenProperties DEF Types, ReadTypes
<1>3. vault[found[i]] \in V
  <2>1. found[i] \in Files
    BY <1>2, ElementOfSeq DEF Types, ReadTypes
  <2> QED BY <2>1 DEF Types, EnvTypes
<1> HIDE DEF V
<1>4. texts' \in Seq(V) /\ Len(texts') = Len(texts)
  BY <1>1, <1>2, <1>3, ExceptSeq
<1>5. ReadTypes'
  <2>1. V' = V
    BY DEF V, Version
  <2> QED BY <1>2, <1>4, <2>1 DEF Types, ReadTypes, Read, V
<1>6. SearchTypes'
  BY DEF Types, SearchTypes, Read
<1> QED BY <1>5, <1>6, QuietTypes, ResultsKept DEF Types, Read

(* What a thread has read, once it is legible.                             *)
LEMMA LegibleDocument ==
    ASSUME Types, NEW i \in DOMAIN found, DOMAIN texts = DOMAIN found,
           texts[i] # Unread, Legible(texts[i]), NEW p
    PROVE  Document(p, i) \in Doc
<1>1. i \in 1..Len(found) /\ found[i] \in Files /\ i \in 1..Len(texts)
  BY LenProperties, ElementOfSeq DEF Types, ReadTypes
<1>2. texts[i] \in Version
  <2> DEFINE V == Version \cup {Absent, Unread}
  <2>1. texts \in Seq(V)
    BY DEF Types, ReadTypes
  <2> HIDE DEF V
  <2>2. texts[i] \in V
    BY <1>1, <2>1, ElementOfSeq
  <2> QED BY <2>2 DEF V, Legible
<1>3. texts[i].mtime \in 1..MaxTime /\ texts[i].text \in Texts
  BY <1>2 DEF Version, Legible
<1>4. Selected(p, texts[i].text) \in Seq(Section)
  BY <1>3, SelectedSections
<1> QED BY <1>1, <1>3, <1>4 DEF Document, Doc

(* The documents read of a pack: those whose tags match.                   *)
ReadDocuments(p) ==
    At([i \in DOMAIN found |-> Document(p, i)],
       {i \in DOMAIN found : HasTags(p, texts[i].text)})

LEMMA GatherCases ==
    ASSUME Types, Gather
    PROVE  \/ /\ \E i \in DOMAIN found : ~Legible(texts[i])
              /\ End("failed") /\ UNCHANGED documents
           \/ /\ \A i \in DOMAIN found : texts[i] # Unread /\ Legible(texts[i])
              /\ documents' = FirstPlaces(documents \o ReadDocuments(Top.pack))
              /\ Goto("include") /\ found' = <<>> /\ texts' = <<>>
              /\ UNCHANGED <<stack, visited, outcome>>
BY DEF Gather, ReadDocuments

LEMMA ReadDocumentsType ==
    ASSUME Types, pc = "read", NEW p,
           \A i \in DOMAIN found : texts[i] # Unread /\ Legible(texts[i])
    PROVE  /\ ReadDocuments(p) \in Seq(Doc)
           /\ \A d \in ToSet(ReadDocuments(p)) :
                 \E i \in DOMAIN found : d = Document(p, i)
<1> DEFINE n == Len(found)
           read == [i \in DOMAIN found |-> Document(p, i)]
           K == {i \in DOMAIN found : HasTags(p, texts[i].text)}
<1>1. n \in Nat /\ DOMAIN found = 1..n /\ DOMAIN texts = DOMAIN found
  BY LenProperties DEF Types, ReadTypes
<1>2. \A i \in DOMAIN found : Document(p, i) \in Doc
  BY <1>1, LegibleDocument
<1>3. read \in [1..n -> Doc] /\ DOMAIN read = DOMAIN found
  BY <1>1, <1>2
<1>4. \A i \in DOMAIN read : read[i] = Document(p, i)
  OBVIOUS
<1>5. ReadDocuments(p) = At(read, K)
  BY DEF ReadDocuments
<1> HIDE DEF n, read, K
<1>6. read \in Seq(Doc)
  BY <1>1, <1>3, FunctionIsSeq
<1>7. /\ At(read, K) \in Seq(Doc)
      /\ \A k \in DOMAIN At(read, K) : \E i \in K \cap DOMAIN read : At(read, K)[k] = read[i]
  BY <1>6, AtElements
<1> QED BY <1>3, <1>4, <1>5, <1>7 DEF ToSet

LEMMA GatherTypes ==
    ASSUME Types, Quiet, Gather
    PROVE  Types'
<1>1. CASE End("failed") /\ UNCHANGED documents
  <2>1. ResultTypes'
    BY <1>1, ResultsKept DEF Gather
  <2> QED BY <1>1, <2>1, EndTypes, QuietTypes DEF Types, Outcomes
<1>2. CASE /\ \A i \in DOMAIN found : texts[i] # Unread /\ Legible(texts[i])
           /\ documents' = FirstPlaces(documents \o ReadDocuments(Top.pack))
           /\ Goto("include") /\ found' = <<>> /\ texts' = <<>>
           /\ UNCHANGED <<stack, visited, outcome>>
  <2>1. ReadDocuments(Top.pack) \in Seq(Doc)
    BY <1>2, ReadDocumentsType DEF Gather
  <2>2. documents \in Seq(Doc)
    BY DEF Types, ResultTypes
  <2>3. documents' \in Seq(Doc)
    <3>1. documents \o ReadDocuments(Top.pack) \in Seq(Doc)
      BY <2>1, <2>2, ConcatProperties
    <3> QED BY <1>2, <3>1, FirstPlacesElements
  <2>4. SearchTypes'
    BY <1>2 DEF Types, SearchTypes, Goto
  <2>5. <<>> \in Seq(Files) /\ <<>> \in Seq(Version \cup {Absent, Unread})
    BY EmptySeq
  <2>6. ReadTypes'
    BY <1>2, <2>5 DEF ReadTypes, Goto, Version
  <2>7. ResultTypes'
    BY <2>3 DEF Types, ResultTypes, Gather
  <2> QED BY <2>4, <2>6, <2>7, QuietTypes DEF Types
<1> QED BY <1>1, <1>2, GatherCases

LEMMA IncludeTypes ==
    ASSUME Types, Quiet, Include
    PROVE  Types'
<1>1. stack \in Seq(Frame) /\ stack # <<>> /\ pc' # "read"
  BY DEF Types, SearchTypes, Include, Goto
<1>2. stack' \in Seq(Frame)
  BY <1>1, TodoDoneFacts, FrontFacts DEF Include
<1>3. SearchTypes'
  BY <1>2 DEF Types, SearchTypes, Include, Goto
<1>4. ReadTypes'
  BY <1>1, ReadingKept DEF Include
<1> QED BY <1>3, <1>4, QuietTypes, ResultsKept DEF Types, Include

LEMMA QueryTypes ==
    ASSUME Types, Quiet, Query
    PROVE  Types'
<1>1. SearchTypes'
  BY DEF Types, SearchTypes, Query, Goto
<1>2. ReadTypes'
  BY ReadingKept DEF Query, Goto
<1>3. ResultTypes'
  BY DEF Types, EnvTypes, ResultTypes, Query
<1> QED BY <1>1, <1>2, <1>3, QuietTypes DEF Types

LEMMA StampedDocuments ==
    ASSUME Types
    PROVE  Stamped \subseteq Doc /\ Stamped \subseteq ToSet(documents)
<1>1. documents \in Seq(Doc)
  BY DEF Types, ResultTypes
<1>2. ToSet(documents) \subseteq Doc
  BY <1>1, LenProperties, ElementOfSeq DEF ToSet
<1> QED BY <1>2 DEF Stamped

LEMMA StatTypes ==
    ASSUME Types, Quiet, Stat
    PROVE  Types'
<1>1. CASE End("failed") /\ UNCHANGED stale
  <2>1. ResultTypes'
    BY <1>1, ResultsKept DEF Stat
  <2> QED BY <1>1, <2>1, EndTypes, QuietTypes DEF Types, Outcomes
<1>2. CASE /\ stale' = {d.path : d \in {e \in Stamped : SavedSince(e)}}
           /\ Goto("fit")
           /\ UNCHANGED <<stack, visited, found, texts, outcome>>
  <2>1. stale' \subseteq Files
    BY <1>2, StampedDocuments, DocPieces
  <2>2. SearchTypes'
    BY <1>2 DEF Types, SearchTypes, Goto
  <2>3. ReadTypes'
    BY <1>2, ReadingKept DEF Goto
  <2>4. ResultTypes'
    BY <2>1 DEF Types, ResultTypes, Stat
  <2> QED BY <2>2, <2>3, <2>4, QuietTypes DEF Types
<1> QED BY <1>1, <1>2 DEF Stat

LEMMA ContentType ==
    ASSUME Types
    PROVE  AsContent(documents) \in Seq(Piece)
<1>1. documents \in Seq(Doc)
  BY DEF Types, ResultTypes
<1>2. Len(documents) \in Nat /\ DOMAIN documents = 1..Len(documents)
  BY <1>1, LenProperties
<1>3. \A i \in DOMAIN documents : Whole(documents[i]) \in Piece
  BY <1>1, <1>2, ElementOfSeq, DocPieces
<1>4. [i \in DOMAIN documents |-> Whole(documents[i])] \in [1..Len(documents) -> Piece]
  BY <1>2, <1>3
<1> QED BY <1>2, <1>4, FunctionIsSeq DEF AsContent

LEMMA EnforceTypes ==
    ASSUME Types, Quiet, Enforce
    PROVE  Types' /\ (outcome' \in {"whole", "truncated"} => Tokens(emitted') <= Budget)
<1>1. documents \in Seq(Doc) /\ Budget \in Nat
  BY SetupFacts DEF Types, EnvTypes, AskedTypes, ResultTypes, Budget
<1>2. CASE Total <= Budget /\ emitted' = AsContent(documents) /\ End("whole")
  <2>1. emitted' \in Seq(Piece)
    BY <1>2, ContentType
  <2>2. Tokens(emitted') <= Budget
    BY <1>2 DEF Total
  <2>3. ResultTypes'
    BY <2>1 DEF Types, ResultTypes, Enforce
  <2> QED BY <1>2, <2>2, <2>3, EndTypes, QuietTypes DEF Types, Outcomes
<1>3. CASE End("over") /\ UNCHANGED emitted
  <2>1. ResultTypes'
    BY <1>3, ResultsKept DEF Enforce
  <2>2. outcome' = "over"
    BY <1>3 DEF End
  <2> QED BY <1>3, <2>1, <2>2, EndTypes, QuietTypes DEF Types, Outcomes
<1>4. CASE /\ \E docs \in Rankings(documents) : emitted' = Emit(docs, Budget)
           /\ End("truncated")
  <2>1. PICK docs \in Rankings(documents) : emitted' = Emit(docs, Budget)
    BY <1>4
  <2>2. docs \in Seq(Doc)
    BY <1>1, RankingsType
  <2>3. emitted' \in Seq(Piece) /\ Tokens(emitted') <= Budget
    BY <1>1, <2>1, <2>2, EmitFits
  <2>4. ResultTypes'
    BY <2>3 DEF Types, ResultTypes, Enforce
  <2> QED BY <1>4, <2>3, <2>4, EndTypes, QuietTypes DEF Types, Outcomes
<1> QED BY <1>2, <1>3, <1>4 DEF Enforce

LEMMA RequestTypes ==
    ASSUME Types, NEW p \in Packs, NEW isStrict \in BOOLEAN, NEW isChecked \in BOOLEAN,
           Request(p, isStrict, isChecked)
    PROVE  Types'
<1>1. EnvTypes' /\ AskedTypes' /\ touched' \subseteq Files
  BY DEF Types, EnvTypes, AskedTypes, Request, env, Version
<1>2. pc' \in {"validate", "enter"}
  BY DEF Request, Goto
<1>3. SearchTypes'
  BY <1>2 DEF Types, SearchTypes, Request, Outcomes
<1>4. ReadTypes'
  BY <1>2, ReadingKept DEF Request
<1>5. ResultTypes'
  <2>1. <<>> \in Seq(Doc) /\ <<>> \in Seq(Files) /\ <<>> \in Seq(Piece)
    BY EmptySeq
  <2>2. 0 \in 0..MaxTime
    OBVIOUS
  <2>3. stamps' \in [Files -> 0..MaxTime]
    BY <2>2 DEF Request
  <2> QED BY <2>1, <2>3 DEF ResultTypes, Request
<1> QED BY <1>1, <1>3, <1>4, <1>5 DEF Types

(* A step of the user or the indexer, which leaves the call alone.         *)
World ==
    \E f \in cfg.readable : \/ \E t \in Texts \cup Broken : Save(f, t)
                            \/ Delete(f)
                            \/ Index(f)
CallKept ==
    UNCHANGED <<cfg, pc, asked, stack, visited, entering, found, texts, documents,
                missing, stamps, stale, emitted, outcome>>

LEMMA WorldKeepsCall ==
    ASSUME World
    PROVE  CallKept
BY DEF World, CallKept, Save, Delete, Index, Tick

LEMMA KeptTypes ==
    ASSUME Types, CallKept
    PROVE  AskedTypes' /\ SearchTypes' /\ ReadTypes' /\ ResultTypes' /\ cfg' \in Setups
<1>1. AskedTypes' /\ cfg' \in Setups
  BY DEF Types, EnvTypes, AskedTypes, CallKept, asked
<1>2. SearchTypes'
  BY DEF Types, SearchTypes, CallKept
<1>3. ReadTypes'
  BY DEF Types, ReadTypes, CallKept, Version
<1>4. ResultTypes'
  BY DEF Types, ResultTypes, CallKept
<1> QED BY <1>1, <1>2, <1>3, <1>4

LEMMA WorldTypes ==
    ASSUME Types, World
    PROVE  Types'
<1>1. PICK f \in cfg.readable : \/ \E t \in Texts \cup Broken : Save(f, t)
                                \/ Delete(f)
                                \/ Index(f)
  BY DEF World
<1>2. f \in Files
  BY DEF Types, EnvTypes
<1> DEFINE V == Version \cup {Absent}
<1>3. vault \in [Files -> V] /\ indexedAt \in [Files -> 0..MaxTime] /\ now \in 1..MaxTime
  BY DEF Types, EnvTypes
<1>4. V' = V
  BY DEF Version
<1>5. ASSUME NEW t \in Texts \cup Broken, Save(f, t)
      PROVE  EnvTypes' /\ touched' \subseteq Files
  <2>1. now' \in 1..MaxTime
    BY <1>3, <1>5 DEF Save, Tick
  <2>2. [text |-> t, mtime |-> now'] \in V
    BY <2>1 DEF Version
  <2>3. vault' \in [Files -> V]
    <3> HIDE DEF V
    <3> QED BY <1>3, <1>5, <2>2 DEF Save
  <2>4. touched' \subseteq Files
    BY <1>2, <1>5 DEF Save, Types
  <2>5. EnvTypes'
    BY <1>3, <1>4, <1>5, <2>1, <2>3, WorldKeepsCall, KeptTypes DEF EnvTypes, Save
  <2> QED BY <2>4, <2>5
<1>6. ASSUME Delete(f)
      PROVE  EnvTypes' /\ touched' \subseteq Files
  <2>1. now' \in 1..MaxTime
    BY <1>3, <1>6 DEF Delete, Tick
  <2>2. vault' \in [Files -> V]
    <3>1. Absent \in V
      OBVIOUS
    <3> HIDE DEF V
    <3> QED BY <1>3, <1>6, <3>1 DEF Delete
  <2>3. touched' \subseteq Files
    BY <1>2, <1>6 DEF Delete, Types
  <2>4. EnvTypes'
    BY <1>3, <1>4, <1>6, <2>1, <2>2, WorldKeepsCall, KeptTypes DEF EnvTypes, Delete
  <2> QED BY <2>3, <2>4
<1>7. ASSUME Index(f)
      PROVE  EnvTypes' /\ touched' \subseteq Files
  <2>1. now \in 0..MaxTime /\ 0 \in 0..MaxTime
    BY <1>3
  <2>2. indexedAt' \in [Files -> 0..MaxTime]
    BY <1>3, <1>7, <2>1 DEF Index
  <2>3. vault' \in [Files -> V']
    BY <1>3, <1>4, <1>7 DEF Index
  <2> HIDE DEF V
  <2>4. now' \in 1..MaxTime /\ touched' \subseteq Files
    BY <1>3, <1>7 DEF Index, Types
  <2> QED BY <2>2, <2>3, <2>4, WorldKeepsCall, KeptTypes DEF EnvTypes, V
<1>8. EnvTypes' /\ touched' \subseteq Files
  BY <1>1, <1>5, <1>6, <1>7
<1> QED BY <1>8, WorldKeepsCall, KeptTypes DEF Types

LEMMA InitTypes == Init => Types
<1> SUFFICES ASSUME Init PROVE Types
  OBVIOUS
<1>1. cfg \in Setups
  BY DEF Init
<1>2. PICK start \in cfg.vaults :
        vault = [f \in Files |-> IF start[f] = Absent THEN Absent
                                 ELSE [text |-> start[f], mtime |-> 1]]
  BY DEF Init
<1>3. start \in [Files -> Texts \cup Broken \cup {Absent}]
  BY <1>1, <1>2
<1>4. 1 \in 1..MaxTime /\ 0 \in 0..MaxTime
  OBVIOUS
<1>5. ASSUME NEW f \in Files PROVE vault[f] \in Version \cup {Absent}
  <2>1. CASE start[f] = Absent
    BY <1>2, <2>1
  <2>2. CASE start[f] # Absent
    <3>1. start[f] \in Texts \cup Broken
      BY <1>3, <2>2
    <3>2. [text |-> start[f], mtime |-> 1] \in Version
      BY <1>4, <3>1 DEF Version
    <3> QED BY <1>2, <2>2, <3>2
  <2> QED BY <2>1, <2>2
<1>6. vault \in [Files -> Version \cup {Absent}]
  BY <1>2, <1>5
<1>7. EnvTypes
  BY <1>1, <1>4, <1>6 DEF Init, EnvTypes
<1>8. root \in Packs
  BY DEF Init
<1>9. <<>> \in Seq(Frame) /\ <<>> \in Seq(Files) /\ <<>> \in Seq(Version \cup {Absent, Unread})
      /\ <<>> \in Seq(Doc) /\ <<>> \in Seq(Piece)
  BY EmptySeq
<1>10. AskedTypes
  BY <1>8 DEF Init, AskedTypes
<1>11. SearchTypes
  BY <1>9 DEF Init, SearchTypes, Outcomes
<1>12. ReadTypes
  BY <1>9 DEF Init, ReadTypes
<1>13. ResultTypes
  BY <1>4, <1>9 DEF Init, ResultTypes
<1> QED BY <1>7, <1>10, <1>11, <1>12, <1>13 DEF Types, Init

LEMMA ProgressTypes ==
    ASSUME Types, Progress
    PROVE  Types'
<1>1. Quiet
  BY DEF Progress, Quiet
<1>2. CASE \E p \in Packs : ValidateFrom(p)
  BY <1>1, <1>2, ValidateFromTypes
<1>3. CASE ValidateChild
  BY <1>1, <1>3, ValidateChildTypes
<1>4. CASE ValidateLeave
  BY <1>1, <1>4, ValidateLeaveTypes
<1>5. CASE ValidateDone
  BY <1>1, <1>5, ValidateDoneTypes
<1>6. CASE Enter
  BY <1>1, <1>6, EnterTypes
<1>7. CASE \E i \in DOMAIN found : Read(i)
  BY <1>1, <1>7, ReadStepTypes
<1>8. CASE Gather
  BY <1>1, <1>8, GatherTypes
<1>9. CASE Include
  BY <1>1, <1>9, IncludeTypes
<1>10. CASE Query
  BY <1>1, <1>10, QueryTypes
<1>11. CASE Stat
  BY <1>1, <1>11, StatTypes
<1>12. CASE Enforce
  BY <1>1, <1>12, EnforceTypes
<1> QED BY <1>2, <1>3, <1>4, <1>5, <1>6, <1>7, <1>8, <1>9, <1>10, <1>11, <1>12
        DEF Progress, Validation, Resolution

LEMMA NextCases ==
    Next => \/ Progress
            \/ \E p \in Packs, isStrict, isChecked \in BOOLEAN : Request(p, isStrict, isChecked)
            \/ World
BY DEF Next, World

LEMMA StutterKeeps ==
    ASSUME UNCHANGED vars
    PROVE  CallKept /\ UNCHANGED <<vault, indexedAt, now, touched>>
BY DEF vars, env, asked, CallKept

LEMMA TypesHold == Spec => []Types
<1>1. Init => Types
  BY InitTypes
<1>2. Types /\ [Next]_vars => Types'
  <2> SUFFICES ASSUME Types, [Next]_vars PROVE Types'
    OBVIOUS
  <2>1. CASE Progress
    BY <2>1, ProgressTypes
  <2>2. CASE \E p \in Packs, isStrict, isChecked \in BOOLEAN : Request(p, isStrict, isChecked)
    BY <2>2, RequestTypes
  <2>3. CASE World
    BY <2>3, WorldTypes
  <2>4. CASE UNCHANGED vars
    <3>1. CallKept /\ UNCHANGED <<vault, indexedAt, now, touched>>
      BY <2>4, StutterKeeps
    <3>2. EnvTypes' /\ touched' \subseteq Files
      BY <3>1 DEF Types, EnvTypes, CallKept, Version
    <3> QED BY <3>1, <3>2, KeptTypes DEF Types
  <2> QED BY <2>1, <2>2, <2>3, <2>4, NextCases
<1> QED BY <1>1, <1>2, PTL DEF Spec

(* Every variable keeps its type: in every state of every load, whatever   *)
(* the packs, their files and their includes are, and whatever the user    *)
(* and the indexer do meanwhile.                                           *)
THEOREM TypeCorrect == Spec => []TypeOK
BY TypesHold, TypesGiveTypeOK, PTL

-----------------------------------------------------------------------------
(* The budget.                                                             *)

(* Only Enforce answers.                                                   *)
LEMMA OnlyEnforceAnswers ==
    ASSUME Progress, ~Enforce
    PROVE  ~(pc' = "done" /\ outcome' \in {"whole", "over", "truncated"})
<1>1. CASE \E p \in Packs : ValidateFrom(p)
  BY <1>1 DEF ValidateFrom
<1>2. CASE ValidateChild
  BY <1>2 DEF ValidateChild, End
<1>3. CASE ValidateLeave
  BY <1>3 DEF ValidateLeave
<1>4. CASE ValidateDone
  BY <1>4 DEF ValidateDone, End, Goto
<1>5. CASE Enter
  BY <1>5 DEF Enter, End, Goto
<1>6. CASE \E i \in DOMAIN found : Read(i)
  BY <1>6 DEF Read
<1>7. CASE Gather
  BY <1>7 DEF Gather, End, Goto
<1>8. CASE Include
  BY <1>8 DEF Include, Goto
<1>9. CASE Query
  BY <1>9 DEF Query, Goto
<1>10. CASE Stat
  BY <1>10 DEF Stat, End, Goto
<1> QED BY <1>1, <1>2, <1>3, <1>4, <1>5, <1>6, <1>7, <1>8, <1>9, <1>10
        DEF Progress, Validation, Resolution

LEMMA StepCases ==
    ASSUME [Next]_vars
    PROVE  \/ Progress
           \/ \E p \in Packs, isStrict, isChecked \in BOOLEAN : Request(p, isStrict, isChecked)
           \/ CallKept
BY NextCases, WorldKeepsCall, StutterKeeps

(* No content exceeds its budget: for every budget and strictness, every   *)
(* list of documents, whatever the sizes of their sections are, and every  *)
(* order in which the index ranks them (BudgetEnforcer.enforce,            *)
(* _emit_truncated_content).                                               *)
THEOREM BudgetKept == Spec => []BudgetHolds
<1>1. Init => BudgetHolds
  BY DEF Init, BudgetHolds
<1>2. Types /\ BudgetHolds /\ [Next]_vars => BudgetHolds'
  <2> SUFFICES ASSUME Types, BudgetHolds, [Next]_vars
               PROVE  BudgetHolds'
    OBVIOUS
  <2>1. CASE Progress /\ Enforce
    <3>1. Quiet
      BY <2>1 DEF Progress, Quiet
    <3>2. outcome' \in {"whole", "truncated"} => Tokens(emitted') <= Budget
      BY <2>1, <3>1, EnforceTypes
    <3>3. Budget' = Budget
      BY <3>1 DEF Quiet, env, asked, Budget
    <3>4. Tokens(emitted)' = Tokens(emitted')
      BY DEF Tokens, SizeOf
    <3> QED BY <3>2, <3>3, <3>4 DEF BudgetHolds
  <2>2. CASE Progress /\ ~Enforce
    BY <2>2, OnlyEnforceAnswers DEF BudgetHolds
  <2>3. CASE \E p \in Packs, isStrict, isChecked \in BOOLEAN : Request(p, isStrict, isChecked)
    BY <2>3 DEF Request, Goto, BudgetHolds
  <2>4. CASE CallKept
    <3>1. emitted' = emitted /\ Budget' = Budget
      BY <2>4 DEF CallKept, Budget, asked
    <3> QED BY <2>4, <3>1 DEF BudgetHolds, CallKept, Tokens, SizeOf
  <2> QED BY <2>1, <2>2, <2>3, <2>4, StepCases
<1> QED BY <1>1, <1>2, TypesHold, PTL DEF Spec

-----------------------------------------------------------------------------
(* Staleness.                                                              *)

LEMMA GatheredDocuments ==
    ASSUME Types, pc = "read",
           \A i \in DOMAIN found : texts[i] # Unread /\ Legible(texts[i]),
           documents' = FirstPlaces(documents \o ReadDocuments(Top.pack))
    PROVE  \A d \in ToSet(documents') :
              \/ d \in ToSet(documents)
              \/ \E i \in DOMAIN found : d = Document(Top.pack, i)
<1>1. documents \in Seq(Doc)
  BY DEF Types, ResultTypes
<1> DEFINE r == ReadDocuments(Top.pack)
<1>2. r \in Seq(Doc) /\ \A d \in ToSet(r) : \E i \in DOMAIN found : d = Document(Top.pack, i)
  BY ReadDocumentsType
<1>3. documents' = FirstPlaces(documents \o r)
  OBVIOUS
<1> HIDE DEF r
<1>4. documents \o r \in Seq(Doc) /\ ToSet(documents \o r) = ToSet(documents) \cup ToSet(r)
  BY <1>1, <1>2, ConcatProperties, ConcatElements
<1>5. ToSet(documents') \subseteq ToSet(documents \o r)
  <2>1. ToSet(FirstPlaces(documents \o r)) \subseteq ToSet(documents \o r)
    BY <1>4, FirstPlacesElements
  <2>2. ToSet(documents') = ToSet(FirstPlaces(documents \o r))
    BY <1>3
  <2> QED BY <2>1, <2>2
<1> QED BY <1>2, <1>4, <1>5

(* What was read was saved at the time it has, or the file was saved later.*)
NotAfter(mtime, f) == mtime <= now /\ (Present(f) => mtime <= vault[f].mtime)

VaultTimes == \A f \in Files : Present(f) => vault[f].mtime <= now
TextTimes ==
    pc = "read" => \A i \in DOMAIN found :
        texts[i] # Unread /\ texts[i] # Absent => NotAfter(texts[i].mtime, found[i])
DocumentTimes == \A d \in ToSet(documents) : NotAfter(d.mtime, d.path)
Warned ==
    pc = "fit" \/ Answered => \A d \in ToSet(documents) :
        stamps[d.path] \in 1..(d.mtime - 1) => d.path \in stale

TimesOK == VaultTimes /\ TextTimes /\ DocumentTimes /\ Warned

LEMMA DocumentFacts ==
    ASSUME Types
    PROVE  /\ \A d \in ToSet(documents) : d \in Doc /\ d.path \in Files
                                          /\ d.mtime \in 1..MaxTime
           /\ \A i \in DOMAIN found : found[i] \in Files
<1>1. documents \in Seq(Doc) /\ found \in Seq(Files)
  BY DEF Types, ResultTypes, ReadTypes
<1>2. \A d \in ToSet(documents) : d \in Doc
  BY <1>1, LenProperties, ElementOfSeq DEF ToSet
<1>3. \A i \in DOMAIN found : found[i] \in Files
  BY <1>1, LenProperties, ElementOfSeq
<1> QED BY <1>2, <1>3, DocPieces

LEMMA WorldTimes ==
    ASSUME Types, World, TimesOK
    PROVE  TimesOK'
<1>1. PICK g \in cfg.readable : \/ \E t \in Texts \cup Broken : Save(g, t)
                                \/ Delete(g)
                                \/ Index(g)
  BY DEF World
<1>2. /\ g \in Files /\ vault \in [Files -> Version \cup {Absent}] /\ now \in 1..MaxTime
      /\ MaxTime \in Nat
  BY DEF Types, EnvTypes
<1>3. ASSUME NEW f \in Files, Present(f) PROVE vault[f].mtime \in Nat
  BY <1>2, <1>3 DEF Present, Version
<1>4. ASSUME NEW f \in Files, NEW m \in Nat, NotAfter(m, f)
      PROVE  NotAfter(m, f)'
  <2>1. CASE \E t \in Texts \cup Broken : Save(g, t)
    <3>1. /\ now' = now + 1
          /\ vault'[f] = vault[f] \/ vault'[f].mtime = now'
      BY <1>2, <2>1 DEF Save, Tick
    <3>2. m <= now /\ m <= now + 1
      BY <1>2, <1>4 DEF NotAfter
    <3> QED BY <1>4, <3>1, <3>2 DEF NotAfter, Present
  <2>2. CASE Delete(g)
    <3>1. /\ now' = now + 1
          /\ vault'[f] = vault[f] \/ vault'[f] = Absent
      BY <1>2, <2>2 DEF Delete, Tick
    <3>2. m <= now /\ m <= now + 1
      BY <1>2, <1>4 DEF NotAfter
    <3> QED BY <1>4, <3>1, <3>2 DEF NotAfter, Present
  <2>3. CASE Index(g)
    BY <1>4, <2>3 DEF Index, NotAfter, Present
  <2> QED BY <1>1, <2>1, <2>2, <2>3
<1>5. VaultTimes'
  <2> SUFFICES ASSUME NEW f \in Files, Present(f)' PROVE vault'[f].mtime <= now'
    BY DEF VaultTimes
  <2>1. CASE \E t \in Texts \cup Broken : Save(g, t)
    <3>1. /\ now' = now + 1
          /\ vault'[f] = vault[f] \/ vault'[f].mtime = now'
      BY <1>2, <2>1 DEF Save, Tick
    <3>2. CASE vault'[f] = vault[f]
      <4>1. Present(f) /\ vault[f].mtime <= now /\ vault[f].mtime \in Nat
        BY <1>3, <3>2 DEF Present, TimesOK, VaultTimes
      <4> QED BY <1>2, <3>1, <3>2, <4>1
    <3>3. CASE vault'[f].mtime = now'
      BY <1>2, <3>1, <3>3
    <3> QED BY <3>1, <3>2, <3>3
  <2>2. CASE Delete(g)
    <3>1. /\ now' = now + 1
          /\ vault'[f] = vault[f] \/ vault'[f] = Absent
      BY <1>2, <2>2 DEF Delete, Tick
    <3>2. vault'[f] = vault[f] /\ Present(f)
      BY <3>1 DEF Present
    <3>3. vault[f].mtime <= now /\ vault[f].mtime \in Nat
      BY <1>3, <3>2 DEF TimesOK, VaultTimes
    <3> QED BY <1>2, <3>1, <3>2, <3>3
  <2>3. CASE Index(g)
    BY <2>3 DEF Index, Present, TimesOK, VaultTimes
  <2> QED BY <1>1, <2>1, <2>2, <2>3
<1>6. CallKept
  BY WorldKeepsCall
<1>7. TextTimes'
  <2> SUFFICES ASSUME pc = "read", NEW i \in DOMAIN found,
                      texts[i] # Unread, texts[i] # Absent
               PROVE  NotAfter(texts[i].mtime, found[i])'
    BY <1>6 DEF CallKept, TextTimes
  <2>1. found[i] \in Files /\ NotAfter(texts[i].mtime, found[i])
    BY DocumentFacts DEF TimesOK, TextTimes
  <2>2. texts[i].mtime \in Nat
    <3>1. texts[i] \in Version
      <4> DEFINE V == Version \cup {Absent, Unread}
      <4>1. texts \in Seq(V) /\ Len(texts) = Len(found) /\ DOMAIN found = 1..Len(found)
        BY LenProperties DEF Types, ReadTypes
      <4> HIDE DEF V
      <4>2. texts[i] \in V
        BY <4>1, ElementOfSeq
      <4> QED BY <4>2 DEF V
    <3> QED BY <1>2, <3>1 DEF Version
  <2>3. NotAfter(texts[i].mtime, found[i])' = NotAfter(texts[i].mtime, found[i])'
    OBVIOUS
  <2> DEFINE m == texts[i].mtime
             f == found[i]
  <2>4. m' = m /\ f' = f
    BY <1>6 DEF CallKept
  <2> HIDE DEF m, f
  <2> QED BY <1>4, <1>6, <2>1, <2>2 DEF m, f, CallKept, NotAfter, Present
<1>8. DocumentTimes'
  <2> SUFFICES ASSUME NEW d \in ToSet(documents) PROVE NotAfter(d.mtime, d.path)'
    BY <1>6 DEF CallKept, DocumentTimes
  <2>1. d.path \in Files /\ d.mtime \in Nat /\ NotAfter(d.mtime, d.path)
    BY <1>2, DocumentFacts DEF TimesOK, DocumentTimes
  <2> QED BY <1>4, <2>1
<1>9. Warned'
  BY <1>6 DEF CallKept, Warned, Answered, TimesOK
<1> QED BY <1>5, <1>7, <1>8, <1>9 DEF TimesOK

LEMMA QuietTimes ==
    ASSUME Quiet
    PROVE  /\ VaultTimes' <=> VaultTimes
           /\ \A m, f : NotAfter(m, f)' <=> NotAfter(m, f)
BY DEF Quiet, env, VaultTimes, NotAfter, Present

(* The steps that neither read a file nor touch the documents.             *)
LEMMA OtherTimes ==
    ASSUME TimesOK, Quiet, UNCHANGED documents, pc' \notin {"read", "fit"},
           ~(pc' = "done" /\ outcome' \in {"whole", "over", "truncated"})
    PROVE  TimesOK'
<1>1. VaultTimes' /\ TextTimes'
  BY QuietTimes DEF TimesOK, TextTimes
<1>2. DocumentTimes'
  BY QuietTimes DEF TimesOK, DocumentTimes
<1>3. Warned'
  BY DEF Warned, Answered
<1> QED BY <1>1, <1>2, <1>3 DEF TimesOK

LEMMA EnterTimes ==
    ASSUME Types, Quiet, TimesOK, Enter
    PROVE  TimesOK'
<1>1. CASE End("unknown") \/ End("cycle")
  <2>1. UNCHANGED documents /\ pc' = "done" /\ outcome' \in {"unknown", "cycle"}
    BY <1>1 DEF Enter, End, Goto
  <2> QED BY <2>1, OtherTimes
<1>2. CASE /\ pc' = "read" /\ found' = OwnPaths(entering) /\ UNCHANGED documents
           /\ texts' = [i \in DOMAIN OwnPaths(entering) |-> Unread]
  <2>1. TextTimes'
    BY <1>2 DEF TextTimes
  <2>2. VaultTimes' /\ DocumentTimes' /\ Warned'
    BY <1>2, QuietTimes DEF TimesOK, DocumentTimes, Warned, Answered
  <2> QED BY <2>1, <2>2 DEF TimesOK
<1> QED BY <1>1, <1>2 DEF Enter, Goto

LEMMA ReadTimes ==
    ASSUME Types, Quiet, TimesOK, NEW k \in DOMAIN found, Read(k)
    PROVE  TimesOK'
<1>1. /\ pc = "read" /\ UNCHANGED <<pc, found, documents, stamps, stale, outcome>>
      /\ texts' = [texts EXCEPT ![k] = vault[found[k]]]
  BY DEF Read
<1>2. DOMAIN texts = 1..Len(texts) /\ DOMAIN found = 1..Len(found) /\ Len(texts) = Len(found)
  BY <1>1, LenProperties DEF Types, ReadTypes
<1>3. ASSUME NEW i \in DOMAIN found, texts'[i] # Unread, texts'[i] # Absent
      PROVE  /\ texts'[i].mtime <= now
             /\ Present(found[i]) => texts'[i].mtime <= vault[found[i]].mtime
  <2>1. CASE i = k
    <3>1. texts'[i] = vault[found[i]]
      BY <1>1, <1>2, <2>1
    <3>2. found[i] \in Files /\ Present(found[i])
      BY <1>3, <3>1, DocumentFacts DEF Present
    <3>3. vault[found[i]].mtime <= now /\ vault[found[i]].mtime \in 1..MaxTime
      BY <3>2 DEF TimesOK, VaultTimes, Types, EnvTypes, Version, Present
    <3> QED BY <3>1, <3>3
  <2>2. CASE i # k
    <3>1. texts'[i] = texts[i]
      BY <1>1, <1>2, <2>2
    <3>2. NotAfter(texts[i].mtime, found[i])
      BY <1>1, <1>3, <3>1 DEF TimesOK, TextTimes
    <3> QED BY <3>1, <3>2 DEF NotAfter
  <2> QED BY <2>1, <2>2
<1>5. TextTimes'
  BY <1>1, <1>3 DEF TextTimes, NotAfter, Present, Quiet, env
<1>4. VaultTimes' /\ DocumentTimes' /\ Warned'
  BY <1>1, QuietTimes DEF TimesOK, DocumentTimes, Warned, Answered
<1> QED BY <1>4, <1>5 DEF TimesOK

LEMMA GatherTimes ==
    ASSUME Types, Quiet, TimesOK, Gather
    PROVE  TimesOK'
<1>1. CASE End("failed") /\ UNCHANGED documents
  <2>1. pc' = "done" /\ outcome' = "failed"
    BY <1>1 DEF End, Goto
  <2> QED BY <1>1, <2>1, OtherTimes
<1>2. CASE /\ \A i \in DOMAIN found : texts[i] # Unread /\ Legible(texts[i])
           /\ documents' = FirstPlaces(documents \o ReadDocuments(Top.pack))
           /\ Goto("include")
  <2>1. pc = "read" /\ pc' = "include"
    BY <1>2 DEF Gather, Goto
  <2>2. \A d \in ToSet(documents') :
              \/ d \in ToSet(documents)
              \/ \E i \in DOMAIN found : d = Document(Top.pack, i)
    BY <1>2, <2>1, GatheredDocuments
  <2>3. \A i \in DOMAIN found : NotAfter(texts[i].mtime, found[i])
    BY <1>2, <2>1 DEF TimesOK, TextTimes, Legible
  <2>4. \A d \in ToSet(documents') : NotAfter(d.mtime, d.path)
    BY <2>2, <2>3 DEF TimesOK, DocumentTimes, Document
  <2>5. DocumentTimes'
    BY <2>4, QuietTimes DEF DocumentTimes
  <2>6. VaultTimes' /\ TextTimes' /\ Warned'
    BY <2>1, QuietTimes DEF TimesOK, TextTimes, Warned, Answered
  <2> QED BY <2>5, <2>6 DEF TimesOK
<1> QED BY <1>1, <1>2, GatherCases

LEMMA StatTimes ==
    ASSUME Types, Quiet, TimesOK, Stat
    PROVE  TimesOK'
<1>1. UNCHANGED <<documents, stamps>>
  BY DEF Stat
<1>2. CASE End("failed")
  <2>1. pc' = "done" /\ outcome' = "failed"
    BY <1>2 DEF End, Goto
  <2> QED BY <1>1, <2>1, OtherTimes
<1>3. CASE /\ \A d \in Stamped : Present(d.path)
           /\ stale' = {d.path : d \in {e \in Stamped : SavedSince(e)}}
           /\ Goto("fit")
  <2>1. pc' = "fit"
    BY <1>3 DEF Goto
  <2>2. ASSUME NEW d \in ToSet(documents), stamps[d.path] \in 1..(d.mtime - 1)
        PROVE  d.path \in stale'
    <3>1. d.mtime \in 1..MaxTime /\ MaxTime \in Nat /\ d.path \in Files
      BY DocumentFacts
    <3>2. stamps[d.path] > 0 /\ stamps[d.path] < d.mtime
      BY <2>2, <3>1
    <3>3. d \in Stamped
      BY <3>2 DEF Stamped
    <3>4. Present(d.path) /\ d.mtime <= vault[d.path].mtime
      BY <1>3, <3>3 DEF TimesOK, DocumentTimes, NotAfter
    <3>5. vault[d.path].mtime \in Nat /\ stamps[d.path] \in Nat
      BY <3>1, <3>4 DEF Types, EnvTypes, ResultTypes, Present, Version
    <3>6. SavedSince(d)
      BY <3>1, <3>2, <3>4, <3>5 DEF SavedSince
    <3> QED BY <1>3, <3>3, <3>6
  <2>3. Warned'
    BY <1>1, <2>2 DEF Warned
  <2>4. VaultTimes' /\ TextTimes' /\ DocumentTimes'
    BY <1>1, <2>1, QuietTimes DEF TimesOK, TextTimes, DocumentTimes
  <2> QED BY <2>3, <2>4 DEF TimesOK
<1> QED BY <1>2, <1>3 DEF Stat

LEMMA EnforceTimes ==
    ASSUME Quiet, TimesOK, Enforce
    PROVE  TimesOK'
<1>1. pc = "fit" /\ pc' = "done" /\ UNCHANGED <<documents, stamps, stale>>
  BY DEF Enforce, End, Goto
<1>2. VaultTimes' /\ TextTimes' /\ DocumentTimes' /\ Warned'
  BY <1>1, QuietTimes DEF TimesOK, TextTimes, DocumentTimes, Warned
<1> QED BY <1>2 DEF TimesOK

LEMMA ProgressTimes ==
    ASSUME Types, Progress, TimesOK
    PROVE  TimesOK'
<1>1. Quiet
  BY DEF Progress, Quiet
<1>2. CASE \E p \in Packs : ValidateFrom(p)
  BY <1>1, <1>2, OtherTimes DEF ValidateFrom
<1>3. CASE ValidateChild
  <2>1. UNCHANGED documents
    BY <1>3 DEF ValidateChild
  <2>2. pc' = "validate" \/ (pc' = "done" /\ outcome' = "refused")
    BY <1>3 DEF ValidateChild, End, Goto
  <2> QED BY <1>1, <2>1, <2>2, OtherTimes
<1>4. CASE ValidateLeave
  BY <1>1, <1>4, OtherTimes DEF ValidateLeave
<1>5. CASE ValidateDone
  <2>1. UNCHANGED documents
    BY <1>5 DEF ValidateDone
  <2>2. pc' = "enter" \/ (pc' = "done" /\ outcome' = "refused")
    BY <1>5 DEF ValidateDone, End, Goto
  <2> QED BY <1>1, <2>1, <2>2, OtherTimes
<1>6. CASE Enter
  BY <1>1, <1>6, EnterTimes
<1>7. CASE \E i \in DOMAIN found : Read(i)
  BY <1>1, <1>7, ReadTimes
<1>8. CASE Gather
  BY <1>1, <1>8, GatherTimes
<1>9. CASE Include
  <2>1. UNCHANGED documents
    BY <1>9 DEF Include
  <2>2. pc' = "enter" \/ pc' = "include"
    BY <1>9 DEF Include, Goto
  <2> QED BY <1>1, <2>1, <2>2, OtherTimes
<1>10. CASE Query
  BY <1>1, <1>10, OtherTimes DEF Query, Goto
<1>11. CASE Stat
  BY <1>1, <1>11, StatTimes
<1>12. CASE Enforce
  BY <1>1, <1>12, EnforceTimes
<1> QED BY <1>2, <1>3, <1>4, <1>5, <1>6, <1>7, <1>8, <1>9, <1>10, <1>11, <1>12
        DEF Progress, Validation, Resolution

LEMMA InitTimes == Init => TimesOK
<1> SUFFICES ASSUME Init PROVE TimesOK
  OBVIOUS
<1>1. PICK start \in cfg.vaults :
        vault = [f \in Files |-> IF start[f] = Absent THEN Absent
                                 ELSE [text |-> start[f], mtime |-> 1]]
  BY DEF Init
<1>2. VaultTimes
  BY <1>1 DEF Init, VaultTimes, Present
<1>3. ToSet(documents) = {}
  BY DEF Init, ToSet
<1>4. TextTimes /\ DocumentTimes /\ Warned
  BY <1>3 DEF Init, TextTimes, DocumentTimes, Warned
<1> QED BY <1>2, <1>4 DEF TimesOK

LEMMA RequestTimes ==
    ASSUME TimesOK, NEW p \in Packs, NEW isStrict \in BOOLEAN, NEW isChecked \in BOOLEAN,
           Request(p, isStrict, isChecked)
    PROVE  TimesOK'
<1>1. pc' \in {"validate", "enter"} /\ documents' = <<>> /\ UNCHANGED env
  BY DEF Request, Goto
<1>2. VaultTimes'
  BY <1>1 DEF TimesOK, VaultTimes, env, Present
<1>3. ToSet(documents)' = {}
  BY <1>1 DEF ToSet
<1>4. TextTimes' /\ DocumentTimes' /\ Warned'
  BY <1>1, <1>3 DEF TextTimes, DocumentTimes, Warned
<1> QED BY <1>2, <1>4 DEF TimesOK

LEMMA TimesHold == Spec => []TimesOK
<1>1. Init => TimesOK
  BY InitTimes
<1>2. Types /\ TimesOK /\ [Next]_vars => TimesOK'
  <2> SUFFICES ASSUME Types, TimesOK, [Next]_vars PROVE TimesOK'
    OBVIOUS
  <2>1. CASE Progress
    BY <2>1, ProgressTimes
  <2>2. CASE \E p \in Packs, isStrict, isChecked \in BOOLEAN : Request(p, isStrict, isChecked)
    BY <2>2, RequestTimes
  <2>3. CASE World
    BY <2>3, WorldTimes
  <2>4. CASE UNCHANGED vars
    <3>1. CallKept /\ UNCHANGED <<vault, indexedAt, now, touched>>
      BY <2>4, StutterKeeps
    <3>2. VaultTimes' /\ TextTimes' /\ DocumentTimes'
      BY <3>1 DEF CallKept, TimesOK, VaultTimes, TextTimes, DocumentTimes, NotAfter, Present
    <3>3. Warned'
      BY <3>1 DEF CallKept, TimesOK, Warned, Answered
    <3> QED BY <3>2, <3>3 DEF TimesOK
  <2> QED BY <2>1, <2>2, <2>3, <2>4, NextCases
<1> QED BY <1>1, <1>2, TypesHold, PTL DEF Spec

(* A document whose version was saved after the row of the index is named  *)
(* in a staleness warning: the stat that looks for it comes after the read,*)
(* and in between a file only gets younger or goes, which the stat reports *)
(* (ContextPackLoader._stale_warnings).                                    *)
THEOREM StalenessWarned == Spec => []SavedSinceIndexingIsWarned
<1>1. TimesOK => SavedSinceIndexingIsWarned
  BY DEF TimesOK, Warned, SavedSinceIndexingIsWarned
<1> QED BY <1>1, TimesHold, PTL

-----------------------------------------------------------------------------
(* Loads of a vault that does not change.                                  *)

ReadSteady ==
    pc = "read" => \A i \in DOMAIN found : found[i] \notin touched =>
        Present(found[i]) /\ texts[i] \in {Unread, vault[found[i]]}
DocumentsThere == \A d \in ToSet(documents) : d.path \notin touched => Present(d.path)
SteadyOK == ReadSteady /\ DocumentsThere

LEMMA QuietThere ==
    ASSUME Quiet
    PROVE  \A f : Present(f)' <=> Present(f)
BY DEF Quiet, env, Present

LEMMA OtherSteady ==
    ASSUME SteadyOK, Quiet, UNCHANGED documents, pc' # "read"
    PROVE  SteadyOK'
<1>1. ReadSteady'
  BY DEF ReadSteady
<1>2. DocumentsThere'
  BY QuietThere DEF SteadyOK, DocumentsThere, Quiet
<1> QED BY <1>1, <1>2 DEF SteadyOK

LEMMA EnterSteady ==
    ASSUME Types, Quiet, SteadyOK, Enter
    PROVE  SteadyOK'
<1>1. UNCHANGED documents
  BY DEF Enter
<1>2. CASE pc' # "read"
  BY <1>1, <1>2, OtherSteady
<1>3. CASE pc' = "read"
  <2>1. /\ entering \in Packs /\ found' = OwnPaths(entering)
        /\ texts' = [i \in DOMAIN OwnPaths(entering) |-> Unread]
    BY <1>3 DEF Enter, End, Goto
  <2> DEFINE There == {f \in Files : Readable(f) /\ Present(f)}
  <2>2. OwnPaths(entering) \in Seq(There)
    BY <2>1, OwnPathsFound DEF Types, EnvTypes
  <2> HIDE DEF There
  <2>3. \A i \in DOMAIN OwnPaths(entering) : OwnPaths(entering)[i] \in There
    BY <2>2, ElementOfSeq, LenProperties
  <2>4. \A i \in DOMAIN found' : Present(found'[i]) /\ texts'[i] = Unread
    BY <2>1, <2>3 DEF There
  <2>5. \A i \in DOMAIN found' : Present(found[i])'
    BY <2>4, QuietThere DEF Present, Quiet, env
  <2>6. ReadSteady'
    BY <2>4, <2>5 DEF ReadSteady
  <2>7. DocumentsThere'
    BY <1>1, QuietThere DEF SteadyOK, DocumentsThere, Quiet
  <2> QED BY <2>6, <2>7 DEF SteadyOK
<1> QED BY <1>2, <1>3

LEMMA ReadStepSteady ==
    ASSUME Types, Quiet, SteadyOK, NEW k \in DOMAIN found, Read(k)
    PROVE  SteadyOK'
<1>1. /\ pc = "read" /\ UNCHANGED <<pc, found, documents>>
      /\ texts' = [texts EXCEPT ![k] = vault[found[k]]]
  BY DEF Read
<1>2. DOMAIN texts = 1..Len(texts) /\ DOMAIN found = 1..Len(found) /\ Len(texts) = Len(found)
  BY <1>1, LenProperties DEF Types, ReadTypes
<1>3. ASSUME NEW i \in DOMAIN found, found[i] \notin touched
      PROVE  Present(found[i]) /\ texts'[i] \in {Unread, vault[found[i]]}
  <2>1. Present(found[i]) /\ texts[i] \in {Unread, vault[found[i]]}
    BY <1>1, <1>3 DEF SteadyOK, ReadSteady
  <2>2. texts'[i] = texts[i] \/ (i = k /\ texts'[i] = vault[found[k]])
    BY <1>1, <1>2
  <2> QED BY <2>1, <2>2
<1>4. ReadSteady'
  BY <1>1, <1>3 DEF ReadSteady, Present, Quiet, env
<1>5. DocumentsThere'
  BY <1>1, QuietThere DEF SteadyOK, DocumentsThere, Quiet
<1> QED BY <1>4, <1>5 DEF SteadyOK

LEMMA GatherSteady ==
    ASSUME Types, Quiet, SteadyOK, Gather
    PROVE  SteadyOK'
<1>1. pc = "read" /\ pc' # "read"
  BY DEF Gather, End, Goto
<1>2. CASE UNCHANGED documents
  BY <1>1, <1>2, OtherSteady
<1>3. CASE /\ \A i \in DOMAIN found : texts[i] # Unread /\ Legible(texts[i])
           /\ documents' = FirstPlaces(documents \o ReadDocuments(Top.pack))
  <2>1. \A d \in ToSet(documents') :
              \/ d \in ToSet(documents)
              \/ \E i \in DOMAIN found : d = Document(Top.pack, i)
    BY <1>1, <1>3, GatheredDocuments
  <2>2. \A d \in ToSet(documents') : d.path \notin touched => Present(d.path)
    BY <1>1, <2>1 DEF SteadyOK, ReadSteady, DocumentsThere, Document
  <2>3. DocumentsThere'
    BY <2>2, QuietThere DEF DocumentsThere, Quiet
  <2>4. ReadSteady'
    BY <1>1 DEF ReadSteady
  <2> QED BY <2>3, <2>4 DEF SteadyOK
<1> QED BY <1>2, <1>3, GatherCases

LEMMA ProgressSteady ==
    ASSUME Types, Progress, SteadyOK
    PROVE  SteadyOK'
<1>1. Quiet
  BY DEF Progress, Quiet
<1>2. CASE \E p \in Packs : ValidateFrom(p)
  BY <1>1, <1>2, OtherSteady DEF ValidateFrom
<1>3. CASE ValidateChild
  <2>1. UNCHANGED documents /\ pc' \in {"validate", "done"}
    BY <1>3 DEF ValidateChild, End, Goto
  <2> QED BY <1>1, <2>1, OtherSteady
<1>4. CASE ValidateLeave
  BY <1>1, <1>4, OtherSteady DEF ValidateLeave
<1>5. CASE ValidateDone
  <2>1. UNCHANGED documents /\ pc' \in {"enter", "done"}
    BY <1>5 DEF ValidateDone, End, Goto
  <2> QED BY <1>1, <2>1, OtherSteady
<1>6. CASE Enter
  BY <1>1, <1>6, EnterSteady
<1>7. CASE \E i \in DOMAIN found : Read(i)
  BY <1>1, <1>7, ReadStepSteady
<1>8. CASE Gather
  BY <1>1, <1>8, GatherSteady
<1>9. CASE Include
  <2>1. UNCHANGED documents /\ pc' \in {"enter", "include"}
    BY <1>9 DEF Include, Goto
  <2> QED BY <1>1, <2>1, OtherSteady
<1>10. CASE Query
  BY <1>1, <1>10, OtherSteady DEF Query, Goto
<1>11. CASE Stat
  <2>1. UNCHANGED documents /\ pc' \in {"fit", "done"}
    BY <1>11 DEF Stat, End, Goto
  <2> QED BY <1>1, <2>1, OtherSteady
<1>12. CASE Enforce
  <2>1. UNCHANGED documents /\ pc' = "done"
    BY <1>12 DEF Enforce, End, Goto
  <2> QED BY <1>1, <2>1, OtherSteady
<1> QED BY <1>2, <1>3, <1>4, <1>5, <1>6, <1>7, <1>8, <1>9, <1>10, <1>11, <1>12
        DEF Progress, Validation, Resolution

LEMMA WorldSteady ==
    ASSUME Types, World, SteadyOK
    PROVE  SteadyOK'
<1>1. CallKept
  BY WorldKeepsCall
<1>2. PICK g \in cfg.readable : \/ \E t \in Texts \cup Broken : Save(g, t)
                                \/ Delete(g)
                                \/ Index(g)
  BY DEF World
<1>3. ASSUME NEW f \in Files, f \notin touched'
      PROVE  f \notin touched /\ vault'[f] = vault[f]
  <2>1. CASE (\E t \in Texts \cup Broken : Save(g, t)) \/ Delete(g)
    <3>1. touched' = touched \cup {g} /\ f # g
      BY <1>3, <2>1 DEF Save, Delete
    <3>2. vault' = [vault EXCEPT ![g] = vault'[g]] /\ vault \in [Files -> Version \cup {Absent}]
      BY <2>1 DEF Save, Delete, Types, EnvTypes
    <3> QED BY <1>3, <3>1, <3>2
  <2>2. CASE Index(g)
    BY <1>3, <2>2 DEF Index
  <2> QED BY <1>2, <2>1, <2>2
<1>4. \A f \in Files : f \notin touched' => f \notin touched /\ (Present(f)' <=> Present(f))
  BY <1>3 DEF Present
<1>5. ReadSteady'
  BY <1>1, <1>3, <1>4, DocumentFacts DEF CallKept, SteadyOK, ReadSteady
<1>6. DocumentsThere'
  BY <1>1, <1>4, DocumentFacts DEF CallKept, SteadyOK, DocumentsThere
<1> QED BY <1>5, <1>6 DEF SteadyOK

LEMMA StartSteady ==
    ASSUME pc # "read", documents = <<>>
    PROVE  SteadyOK
BY DEF SteadyOK, ReadSteady, DocumentsThere, ToSet

LEMMA SteadyHolds == Spec => []SteadyOK
<1>1. Init => SteadyOK
  BY StartSteady DEF Init
<1>2. Types /\ SteadyOK /\ [Next]_vars => SteadyOK'
  <2> SUFFICES ASSUME Types, SteadyOK, [Next]_vars PROVE SteadyOK'
    OBVIOUS
  <2>1. CASE Progress
    BY <2>1, ProgressSteady
  <2>2. CASE \E p \in Packs, isStrict, isChecked \in BOOLEAN : Request(p, isStrict, isChecked)
    <3>1. pc' # "read" /\ documents' = <<>>
      BY <2>2 DEF Request, Goto
    <3> QED BY <3>1 DEF SteadyOK, ReadSteady, DocumentsThere, ToSet
  <2>3. CASE World
    BY <2>3, WorldSteady
  <2>4. CASE UNCHANGED vars
    <3>1. CallKept /\ UNCHANGED <<vault, indexedAt, now, touched>>
      BY <2>4, StutterKeeps
    <3> QED BY <3>1 DEF CallKept, SteadyOK, ReadSteady, DocumentsThere, Present
  <2> QED BY <2>1, <2>2, <2>3, <2>4, NextCases
<1> QED BY <1>1, <1>2, TypesHold, PTL DEF Spec

-----------------------------------------------------------------------------
(* The graph of the includes.                                              *)

Includes(p) == ToSet(cfg.includes[p])

(* No cycle can be reached from p.                                         *)
Good(p) == \A r \in Reachable(p) : ~InCycle(r)

LEMMA ReachableFacts ==
    ASSUME NEW p \in Packs
    PROVE  /\ p \in Reachable(p) /\ Reachable(p) \subseteq Packs
           /\ Closed(Reachable(p))
           /\ \A S \in SUBSET Packs : p \in S /\ Closed(S) => Reachable(p) \subseteq S
<1>1. p \in Reachable(p) /\ Reachable(p) \subseteq Packs
  BY DEF Reachable
<1>2. \A S \in SUBSET Packs : p \in S /\ Closed(S) => Reachable(p) \subseteq S
  BY DEF Reachable
<1>3. ASSUME NEW q \in Reachable(p), NEW r \in Includes(q) \cap Packs
      PROVE  r \in Reachable(p)
  <2>1. ASSUME NEW S \in SUBSET Packs, p \in S, Closed(S)
        PROVE  r \in S
    <3>1. q \in S
      BY <1>2, <2>1
    <3> QED BY <1>3, <2>1, <3>1 DEF Closed, Includes
  <2> QED BY <2>1 DEF Reachable
<1>4. Closed(Reachable(p))
  BY <1>3 DEF Closed, Includes
<1> QED BY <1>1, <1>2, <1>4

(* A pack is good when all that it includes is: what is reached from it is *)
(* the pack itself and what is reached from those.                         *)
LEMMA GoodFromIncludes ==
    ASSUME NEW p \in Packs, \A q \in Includes(p) \cap Packs : Good(q)
    PROVE  Good(p)
<1> DEFINE S == {p} \cup UNION {Reachable(q) : q \in Includes(p) \cap Packs}
<1>1. S \subseteq Packs /\ p \in S
  BY ReachableFacts
<1>2. ASSUME NEW s \in S, NEW r \in Includes(s) \cap Packs
      PROVE  r \in S
  <2>1. CASE s = p
    <3>1. r \in Reachable(r) /\ r \in Includes(p) \cap Packs
      BY <1>2, <2>1, ReachableFacts
    <3> QED BY <3>1
  <2>2. CASE \E q \in Includes(p) \cap Packs : s \in Reachable(q)
    <3>1. PICK q \in Includes(p) \cap Packs : s \in Reachable(q)
      BY <2>2
    <3>2. Closed(Reachable(q))
      BY ReachableFacts
    <3>3. r \in Reachable(q)
      BY <1>2, <3>1, <3>2 DEF Closed, Includes
    <3> QED BY <3>3
  <2> QED BY <2>1, <2>2
<1>3. Closed(S)
  <2> HIDE DEF S
  <2> QED BY <1>2 DEF Closed, Includes
<1>4. Reachable(p) \subseteq S
  <2> HIDE DEF S
  <2> QED BY <1>1, <1>3, ReachableFacts
<1>5. \A q \in Includes(p) \cap Packs : p \notin Reachable(q)
  <2> SUFFICES ASSUME NEW q \in Includes(p) \cap Packs, p \in Reachable(q)
               PROVE  FALSE
    OBVIOUS
  <2>1. ~InCycle(p)
    BY DEF Good
  <2> QED BY <2>1 DEF InCycle, Includes
<1>6. ~InCycle(p)
  BY <1>5 DEF InCycle, Includes
<1> QED BY <1>4, <1>6 DEF Good

(* A pack outside a closed set that holds all it includes is in no cycle.  *)
LEMMA NoCycleFromClosed ==
    ASSUME NEW S \in SUBSET Packs, Closed(S), NEW p \in Packs, p \notin S,
           Includes(p) \cap Packs \subseteq S
    PROVE  ~InCycle(p) /\ Closed(S \cup {p})
<1>1. \A q \in Includes(p) \cap Packs : Reachable(q) \subseteq S
  BY ReachableFacts
<1>2. ~InCycle(p)
  BY <1>1 DEF InCycle, Includes
<1>3. Closed(S \cup {p})
  BY DEF Closed, Includes
<1> QED BY <1>2, <1>3

-----------------------------------------------------------------------------
(* The stack of a depth-first search.                                      *)

(* Each pack on the stack includes the next, and what is to do.            *)
Chain(st) ==
    /\ \A i \in 1..Len(st) : ToSet(st[i].todo) \subseteq Includes(st[i].pack)
    /\ \A i \in 1..Len(st) : i < Len(st) => st[i + 1].pack \in Includes(st[i].pack)

(* What a pack on the stack includes is to do, done, or being visited; X   *)
(* is what is taken from the top and not on the stack yet.                 *)
LeftTo(st, Done, X) ==
    \A i \in 1..Len(st) : \A q \in Includes(st[i].pack) \cap Packs :
        \/ q \in ToSet(st[i].todo) \cup Done
        \/ i < Len(st) /\ q = st[i + 1].pack
        \/ i = Len(st) /\ q \in X

(* The top of the stack is reached from every pack of it.                  *)
LEMMA TopReached ==
    ASSUME stack \in Seq(Frame), stack # <<>>, Chain(stack)
    PROVE  \A i \in 1..Len(stack) : Top.pack \in Reachable(stack[i].pack)
<1> SUFFICES ASSUME NEW i \in 1..Len(stack)
             PROVE  Top.pack \in Reachable(stack[i].pack)
  OBVIOUS
<1> DEFINE n == Len(stack) - i
           R == Reachable(stack[i].pack)
           T == {k \in Nat : k <= n => stack[i + k].pack \in R}
<1>1. Len(stack) \in Nat /\ n \in Nat /\ i + n = Len(stack)
  BY TopFacts
<1>2. \A j \in 1..Len(stack) : stack[j].pack \in Packs
  BY ElementOfSeq, FrameFacts, LenProperties
<1>3. stack[i].pack \in R /\ Closed(R)
  BY <1>2, ReachableFacts
<1>4. 0 \in T
  <2>1. i + 0 = i
    OBVIOUS
  <2> HIDE DEF R
  <2> QED BY <1>3, <2>1
<1>5. ASSUME NEW k \in Nat, k \in T PROVE k + 1 \in T
  <2> SUFFICES ASSUME k + 1 <= n PROVE stack[i + (k + 1)].pack \in R
    OBVIOUS
  <2>1. k <= n /\ i + k \in 1..Len(stack) /\ i + k < Len(stack) /\ i + (k + 1) = (i + k) + 1
        /\ (i + k) + 1 \in 1..Len(stack)
    BY <1>1
  <2> DEFINE j == i + k
  <2> HIDE DEF R
  <2>2. stack[j].pack \in R
    BY <1>5, <2>1
  <2> HIDE DEF j
  <2>3. j \in 1..Len(stack) /\ j < Len(stack) /\ i + (k + 1) = j + 1 /\ j + 1 \in 1..Len(stack)
    BY <2>1 DEF j
  <2>4. stack[j + 1].pack \in Includes(stack[j].pack) \cap Packs
    BY <1>2, <2>3 DEF Chain
  <2> QED BY <1>3, <2>2, <2>3, <2>4 DEF Closed, Includes
<1> HIDE DEF T, R, n
<1>6. n \in T
  BY <1>1, <1>4, <1>5, Induction
<1>7. stack[i + n].pack \in R
  BY <1>1, <1>6 DEF T
<1> QED BY <1>1, <1>7 DEF R, Top

(* A pack on the stack that its top includes closes a cycle.               *)
LEMMA CycleFound ==
    ASSUME stack \in Seq(Frame), stack # <<>>, Chain(stack),
           NEW p \in Includes(Top.pack), OnStack(p)
    PROVE  p \in Packs /\ Top.pack \in Packs /\ InCycle(Top.pack)
<1>1. PICK i \in DOMAIN stack : stack[i].pack = p
  BY DEF OnStack
<1>2. i \in 1..Len(stack) /\ p \in Packs /\ Top.pack \in Packs
  BY <1>1, ElementOfSeq, FrameFacts, LenProperties, TopFacts
<1>3. Top.pack \in Reachable(p)
  BY <1>1, <1>2, TopReached
<1> QED BY <1>2, <1>3 DEF InCycle, Includes

LEMMA TakenFromTop ==
    ASSUME stack \in Seq(Frame), stack # <<>>, Top.todo # <<>>, Chain(stack), NEW Done
    PROVE  /\ Chain(TodoDone) /\ Head(Top.todo) \in Includes(Top.pack)
           /\ LeftTo(stack, Done, {}) => LeftTo(TodoDone, Done, {Head(Top.todo)})
<1> DEFINE st == TodoDone
           child == Head(Top.todo)
<1>1. /\ Len(stack) \in Nat /\ Len(stack) \in 1..Len(stack) /\ Len(st) = Len(stack)
      /\ \A i \in 1..Len(stack) : st[i].pack = stack[i].pack
      /\ \A i \in 1..Len(stack) : i # Len(stack) => st[i] = stack[i]
      /\ st[Len(stack)].todo = Tail(Top.todo)
      /\ ToSet(Top.todo) = ToSet(Tail(Top.todo)) \cup {child}
  BY TopFacts, TodoDoneFacts
<1> HIDE DEF st, child
<1>2. \A i \in 1..Len(stack) : /\ ToSet(st[i].todo) \subseteq ToSet(stack[i].todo)
                               /\ i # Len(stack) => ToSet(st[i].todo) = ToSet(stack[i].todo)
                               /\ i = Len(stack) => ToSet(stack[i].todo) = ToSet(st[i].todo) \cup {child}
  BY <1>1 DEF Top
<1>3. Chain(st)
  <2>1. \A i \in 1..Len(st) : ToSet(st[i].todo) \subseteq Includes(st[i].pack)
    BY <1>1, <1>2 DEF Chain
  <2>2. \A i \in 1..Len(st) : i < Len(st) => i + 1 \in 1..Len(stack)
    BY <1>1
  <2>3. \A i \in 1..Len(st) : i < Len(st) => st[i + 1].pack \in Includes(st[i].pack)
    BY <1>1, <2>2 DEF Chain
  <2> QED BY <2>1, <2>3 DEF Chain
<1>4. child \in Includes(Top.pack)
  BY <1>1 DEF Chain, Top
<1>5. LeftTo(stack, Done, {}) => LeftTo(st, Done, {child})
  BY <1>1, <1>2, SMTT(20) DEF LeftTo
<1> QED BY <1>3, <1>4, <1>5 DEF st, child

LEMMA PutOnTop ==
    ASSUME NEW st \in Seq(Frame), NEW p \in Packs, cfg \in Setups, Chain(st), NEW Done,
           st # <<>> => p \in Includes(st[Len(st)].pack)
    PROVE  LET top == [pack |-> p, todo |-> cfg.includes[p]] IN
           /\ Append(st, top) \in Seq(Frame) /\ Chain(Append(st, top))
           /\ LeftTo(st, Done, {p}) => LeftTo(Append(st, top), Done, {})
<1> DEFINE top == [pack |-> p, todo |-> cfg.includes[p]]
           s == Append(st, top)
<1>1. top \in Frame
  BY SetupFacts, FrameFacts
<1>2. top.pack = p /\ ToSet(top.todo) = Includes(p)
  BY DEF Includes
<1> HIDE DEF top
<1>3. /\ s \in Seq(Frame) /\ Len(s) = Len(st) + 1 /\ Len(st) \in Nat
      /\ \A i \in 1..Len(st) : s[i] = st[i]
      /\ s[Len(st) + 1] = top
  BY <1>1, AppendProperties, LenProperties
<1> HIDE DEF s
<1>4. st # <<>> <=> Len(st) # 0
  BY EmptySeq, LenProperties
<1>5. Chain(s)
  <2>1. ASSUME NEW i \in 1..Len(s)
        PROVE  ToSet(s[i].todo) \subseteq Includes(s[i].pack)
    <3>1. CASE i = Len(st) + 1
      BY <1>2, <1>3, <3>1
    <3>2. CASE i # Len(st) + 1
      <4>1. i \in 1..Len(st)
        BY <1>3, <2>1, <3>2
      <4> QED BY <1>3, <4>1 DEF Chain
    <3> QED BY <3>1, <3>2
  <2>2. ASSUME NEW i \in 1..Len(s), i < Len(s)
        PROVE  s[i + 1].pack \in Includes(s[i].pack)
    <3>1. CASE i = Len(st)
      BY <1>2, <1>3, <1>4, <2>2, <3>1
    <3>2. CASE i # Len(st)
      <4>1. i \in 1..Len(st) /\ i + 1 \in 1..Len(st) /\ i < Len(st)
        BY <1>3, <2>2, <3>2
      <4> QED BY <1>3, <4>1 DEF Chain
    <3> QED BY <3>1, <3>2
  <2> QED BY <2>1, <2>2 DEF Chain
<1>6. LeftTo(st, Done, {p}) => LeftTo(s, Done, {})
  <2> SUFFICES ASSUME LeftTo(st, Done, {p}), NEW i \in 1..Len(s),
                      NEW q \in Includes(s[i].pack) \cap Packs
               PROVE  \/ q \in ToSet(s[i].todo) \cup Done
                      \/ i < Len(s) /\ q = s[i + 1].pack
    BY DEF LeftTo
  <2>1. CASE i = Len(st) + 1
    BY <1>2, <1>3, <2>1
  <2>2. CASE i = Len(st)
    <3>1. i \in 1..Len(st) /\ i < Len(s) /\ s[i] = st[i] /\ s[i + 1].pack = p
      BY <1>2, <1>3, <2>2
    <3> QED BY <2>2, <3>1 DEF LeftTo
  <2>3. CASE i \notin {Len(st), Len(st) + 1}
    <3>1. i \in 1..Len(st) /\ i + 1 \in 1..Len(st) /\ i < Len(st) /\ i < Len(s)
      BY <1>3, <2>3
    <3>2. s[i] = st[i] /\ s[i + 1] = st[i + 1]
      BY <1>3, <3>1
    <3> QED BY <3>1, <3>2 DEF LeftTo
  <2> QED BY <2>1, <2>2, <2>3
<1> QED BY <1>3, <1>5, <1>6 DEF s, top

LEMMA TopLeft ==
    ASSUME stack \in Seq(Frame), stack # <<>>, Top.todo = <<>>, Chain(stack), NEW Done,
           LeftTo(stack, Done, {})
    PROVE  /\ Includes(Top.pack) \cap Packs \subseteq Done
           /\ Chain(Front(stack))
           /\ \A D : Done \subseteq D /\ Top.pack \in D => LeftTo(Front(stack), D, {})
<1> DEFINE s == Front(stack)
<1>1. /\ Len(stack) \in Nat /\ Len(stack) \in 1..Len(stack) /\ Len(s) = Len(stack) - 1
      /\ \A i \in 1..(Len(stack) - 1) : s[i] = stack[i]
  BY TopFacts, FrontFacts
<1> HIDE DEF s
<1>2. ToSet(Top.todo) = {}
  BY DEF ToSet
<1>3. Includes(Top.pack) \cap Packs \subseteq Done
  BY <1>1, <1>2 DEF LeftTo, Top
<1>4. Chain(s)
  <2>1. \A i \in 1..Len(s) : i \in 1..Len(stack) /\ i < Len(stack) /\ s[i] = stack[i]
    BY <1>1
  <2>2. \A i \in 1..Len(s) : i < Len(s) => i + 1 \in 1..Len(s)
    BY <1>1
  <2>3. \A i \in 1..Len(s) : ToSet(s[i].todo) \subseteq Includes(s[i].pack)
    BY <2>1 DEF Chain
  <2>4. \A i \in 1..Len(s) : i < Len(s) => s[i + 1].pack \in Includes(s[i].pack)
    BY <2>1, <2>2 DEF Chain
  <2> QED BY <2>3, <2>4 DEF Chain
<1>5. ASSUME NEW D, Done \subseteq D, Top.pack \in D
      PROVE  LeftTo(s, D, {})
  <2> SUFFICES ASSUME NEW i \in 1..Len(s), NEW q \in Includes(s[i].pack) \cap Packs
               PROVE  \/ q \in ToSet(s[i].todo) \cup D
                      \/ i < Len(s) /\ q = s[i + 1].pack
    BY DEF LeftTo
  <2>1. i \in 1..Len(stack) /\ i < Len(stack) /\ s[i] = stack[i]
    BY <1>1
  <2>2. \/ q \in ToSet(stack[i].todo) \cup Done
        \/ q = stack[i + 1].pack
    BY <2>1 DEF LeftTo
  <2>3. CASE i + 1 = Len(stack)
    BY <1>5, <2>1, <2>2, <2>3 DEF Top
  <2>4. CASE i + 1 # Len(stack)
    <3>1. i < Len(s) /\ i + 1 \in 1..(Len(stack) - 1)
      BY <1>1, <2>1, <2>4
    <3>2. s[i + 1] = stack[i + 1]
      BY <1>1, <3>1
    <3> QED BY <1>5, <2>1, <2>2, <3>1, <3>2
  <2> QED BY <2>3, <2>4
<1> QED BY <1>3, <1>4, <1>5 DEF s

-----------------------------------------------------------------------------
(* The two searches.                                                       *)

(* find_context_pack_cycle: the packs done are a closed set without cycles,*)
(* and no pack on the stack is done or on it twice.                        *)
Searched(st, V) ==
    /\ \A i \in 1..Len(st) : st[i].pack \notin V
    /\ \A i, j \in 1..Len(st) : st[i].pack = st[j].pack => i = j
    /\ Closed(V) /\ \A v \in V : ~InCycle(v)
    /\ LeftTo(st, V, {})

GoodPacks == {q \in Packs : Good(q)}

(* _resolve_pack: what a pack on the stack includes and has come back is   *)
(* good; p is the pack to resolve next.                                    *)
Resolving(step, st, p) ==
    /\ step \in {"enter", "read", "include"} =>
          /\ st # <<>> => st[1].pack = root
          /\ LeftTo(st, GoodPacks, IF step = "enter" THEN {p} ELSE {})
    /\ step = "enter" =>
          IF st = <<>> THEN p = root ELSE p \in Includes(st[Len(st)].pack)
    /\ (step = "include" /\ st = <<>>) \/ step \in {"stat", "fit"} => Good(root)

Sound == ~UnknownIncludes /\ \A p \in Packs : ~InCycle(p)

AtRest == pc \in {"idle", "done"} => stack = <<>> /\ visited = {}
Validating ==
    pc = "validate" => checked /\ entering = root /\ Searched(stack, visited)
Accepted == checked /\ pc \in {"enter", "read", "include", "stat", "fit"} => Sound

SearchOK ==
    /\ Chain(stack) /\ AtRest /\ Validating
    /\ Resolving(pc, stack, entering) /\ Accepted
    /\ CyclesAreReported /\ ValidationIsExact

LEMMA GraphKept ==
    ASSUME cfg' = cfg
    PROVE  /\ \A p : InCycle(p)' <=> InCycle(p)
           /\ \A p : Reachable(p)' = Reachable(p)
           /\ \A p : Good(p)' <=> Good(p)
           /\ GoodPacks' = GoodPacks
           /\ UnknownIncludes' <=> UnknownIncludes
           /\ Sound' <=> Sound
<1>1. \A p : Reachable(p)' = Reachable(p)
  BY DEF Reachable, Closed
<1>2. \A p : InCycle(p)' <=> InCycle(p)
  BY DEF InCycle, Reachable, Closed
<1>3. \A p : Good(p)' <=> Good(p)
  BY DEF Good, InCycle, Reachable, Closed
<1>4. GoodPacks' = GoodPacks
  BY DEF GoodPacks, Good, InCycle, Reachable, Closed
<1>5. UnknownIncludes' <=> UnknownIncludes
  BY DEF UnknownIncludes
<1>6. Sound' <=> Sound
  BY DEF Sound, UnknownIncludes, InCycle, Reachable, Closed
<1> QED BY <1>1, <1>2, <1>3, <1>4, <1>5, <1>6

LEMMA StackKept ==
    ASSUME cfg' = cfg, root' = root
    PROVE  /\ Chain(stack)' <=> Chain(stack')
           /\ Searched(stack, visited)' <=> Searched(stack', visited')
           /\ Resolving(pc, stack, entering)' <=> Resolving(pc', stack', entering')
<1>1. Chain(stack)' <=> Chain(stack')
  BY DEF Chain, Includes
<1>2. \A Done, X : LeftTo(stack, Done, X)' <=> LeftTo(stack', Done, X)
  BY DEF LeftTo, Includes
<1>3. LeftTo(stack, visited, {})' <=> LeftTo(stack', visited', {})
  BY DEF LeftTo, Includes
<1>4. Closed(visited)' <=> Closed(visited')
  BY DEF Closed
<1>5. Searched(stack, visited)' <=> Searched(stack', visited')
  BY <1>3, <1>4, GraphKept DEF Searched
<1>6. LeftTo(stack, GoodPacks, IF pc = "enter" THEN {entering} ELSE {})'
         <=> LeftTo(stack', GoodPacks, IF pc' = "enter" THEN {entering'} ELSE {})
  <2>1. GoodPacks' = GoodPacks
    BY GraphKept
  <2> QED BY <2>1 DEF LeftTo, Includes
<1>7. Good(root)' <=> Good(root)
  BY DEF Good, InCycle, Reachable, Closed
<1>8. Resolving(pc, stack, entering)' <=> Resolving(pc', stack', entering')
  BY <1>6, <1>7 DEF Resolving, Includes
<1> QED BY <1>1, <1>5, <1>8

(* The three kinds of steps of a call.                                     *)
LEMMA ToValidate ==
    ASSUME cfg' = cfg, root' = root, checked', entering' = root, pc' = "validate",
           Chain(stack'), Searched(stack', visited')
    PROVE  SearchOK'
<1>1. Chain(stack)' /\ AtRest' /\ Validating' /\ Accepted'
  BY StackKept DEF AtRest, Validating, Accepted
<1>2. Resolving(pc, stack, entering)'
  BY StackKept DEF Resolving
<1>3. CyclesAreReported' /\ ValidationIsExact'
  BY DEF CyclesAreReported, ValidationIsExact, Answered
<1> QED BY <1>1, <1>2, <1>3 DEF SearchOK

LEMMA ToResolve ==
    ASSUME cfg' = cfg, root' = root, pc' \in {"enter", "read", "include", "stat", "fit"},
           Chain(stack'), Resolving(pc', stack', entering'), checked' => Sound
    PROVE  SearchOK'
<1>1. Chain(stack)' /\ AtRest' /\ Validating'
  BY StackKept DEF AtRest, Validating
<1>2. Accepted'
  BY GraphKept DEF Accepted
<1>3. Resolving(pc, stack, entering)'
  BY StackKept
<1>4. CyclesAreReported' /\ ValidationIsExact'
  BY DEF CyclesAreReported, ValidationIsExact, Answered
<1> QED BY <1>1, <1>2, <1>3, <1>4 DEF SearchOK

LEMMA ToEnd ==
    ASSUME Quiet, NEW result, End(result),
           result = "cycle" => \E p \in Reachable(root) : InCycle(p),
           result \in {"whole", "over", "truncated"} => Good(root),
           checked => (result = "refused" <=> ~Sound) /\ result \notin {"cycle", "unknown"}
    PROVE  SearchOK'
<1>1. /\ cfg' = cfg /\ root' = root /\ checked' = checked
      /\ pc' = "done" /\ outcome' = result /\ stack' = <<>> /\ visited' = {}
  BY DEF Quiet, env, asked, End, Goto
<1>2. Chain(stack)' /\ AtRest' /\ Validating' /\ Accepted'
  <2>1. Chain(stack')
    BY <1>1 DEF Chain
  <2> QED BY <1>1, <2>1, StackKept DEF AtRest, Validating, Accepted
<1>3. Resolving(pc, stack, entering)'
  BY <1>1, StackKept DEF Resolving
<1>4. CyclesAreReported'
  <2>1. Reachable(root)' = Reachable(root)
    BY <1>1 DEF Reachable, Closed
  <2>2. outcome' = "cycle" => \E p \in Reachable(root)' : InCycle(p)'
    BY <1>1, <2>1, GraphKept
  <2>3. Answered' => \A p \in Reachable(root)' : ~InCycle(p)'
    BY <1>1, <2>1, GraphKept DEF Answered, Good
  <2> QED BY <2>2, <2>3 DEF CyclesAreReported
<1>5. ValidationIsExact'
  <2>1. ~Sound <=> UnknownIncludes \/ \E p \in Packs : InCycle(p)
    BY DEF Sound
  <2>2. (UnknownIncludes' <=> UnknownIncludes)
        /\ ((\E p \in Packs : InCycle(p)') <=> \E p \in Packs : InCycle(p))
    BY <1>1, GraphKept
  <2> QED BY <1>1, <2>1, <2>2 DEF ValidationIsExact
<1> QED BY <1>2, <1>3, <1>4, <1>5 DEF SearchOK

LEMMA StackPacks ==
    ASSUME stack \in Seq(Frame)
    PROVE  \A i \in 1..Len(stack) : stack[i] \in Frame /\ stack[i].pack \in Packs
BY ElementOfSeq, FrameFacts, LenProperties

LEMMA QuietSearch ==
    ASSUME Quiet
    PROVE  cfg' = cfg /\ root' = root /\ checked' = checked
BY DEF Quiet, env, asked

LEMMA ValidateFromSearch ==
    ASSUME Types, Quiet, SearchOK, NEW p \in Packs, ValidateFrom(p)
    PROVE  SearchOK'
<1>1. pc = "validate" /\ pc' = "validate" /\ stack = <<>> /\ stack' = Push(p)
      /\ p \notin visited /\ visited' = visited /\ checked /\ entering' = root
  BY DEF ValidateFrom, SearchOK, Validating
<1>2. cfg \in Setups /\ stack \in Seq(Frame)
  BY DEF Types, EnvTypes, SearchTypes
<1> DEFINE top == [pack |-> p, todo |-> cfg.includes[p]]
<1>3. stack' = Append(stack, top)
  BY <1>1 DEF Push
<1>4. top.pack = p
  OBVIOUS
<1>5. top \in Frame
  BY <1>2, SetupFacts, FrameFacts
<1>6. Chain(stack) /\ Searched(stack, visited) /\ LeftTo(stack, visited, {p})
  BY <1>1 DEF SearchOK, Validating, LeftTo
<1>7. Chain(stack') /\ LeftTo(stack', visited, {})
  <2>1. stack # <<>> => p \in Includes(stack[Len(stack)].pack)
    BY <1>1
  <2>2. Chain(Append(stack, top)) /\ LeftTo(Append(stack, top), visited, {})
    BY <1>2, <1>6, <2>1, PutOnTop
  <2> HIDE DEF top
  <2> QED BY <1>3, <2>2
<1> HIDE DEF top
<1>8. Len(stack') = 1 /\ stack'[1] = top
  BY <1>1, <1>2, <1>3, <1>5, AppendProperties
<1>9. Searched(stack', visited')
  BY <1>1, <1>4, <1>6, <1>7, <1>8 DEF Searched
<1> QED BY <1>1, <1>7, <1>9, QuietSearch, ToValidate

LEMMA ValidateChildSearch ==
    ASSUME Types, Quiet, SearchOK, ValidateChild
    PROVE  SearchOK'
<1> DEFINE child == Head(Top.todo)
           top == [pack |-> child, todo |-> cfg.includes[child]]
<1>1. /\ pc = "validate" /\ stack # <<>> /\ Top.todo # <<>> /\ checked
      /\ entering' = root /\ Chain(stack) /\ Searched(stack, visited)
  BY DEF ValidateChild, SearchOK, Validating
<1>2. cfg \in Setups /\ stack \in Seq(Frame)
  BY DEF Types, EnvTypes, SearchTypes
<1>3. /\ Chain(TodoDone) /\ child \in Includes(Top.pack)
      /\ LeftTo(TodoDone, visited, {child})
  BY <1>1, <1>2, TakenFromTop DEF Searched
<1>4. /\ TodoDone \in Seq(Frame) /\ Len(TodoDone) = Len(stack)
      /\ \A i \in 1..Len(stack) : TodoDone[i].pack = stack[i].pack
  BY <1>1, <1>2, TodoDoneFacts
<1>5. CASE OnStack(child) /\ End("refused")
  <2>1. Top.pack \in Packs /\ InCycle(Top.pack)
    BY <1>1, <1>2, <1>3, <1>5, CycleFound
  <2>2. ~Sound
    BY <2>1 DEF Sound
  <2> QED BY <1>5, <2>2, ToEnd
<1>6. CASE /\ ~OnStack(child) /\ (child \in visited \/ child \notin Packs)
           /\ stack' = TodoDone /\ UNCHANGED <<pc, visited>>
  <2>1. child \in visited \/ child \notin Packs
    BY <1>6
  <2>2. LeftTo(TodoDone, visited, {})
    BY <1>3, <2>1 DEF LeftTo
  <2>3. Searched(TodoDone, visited)
    BY <1>1, <1>4, <2>2 DEF Searched
  <2> QED BY <1>1, <1>3, <1>6, <2>3, QuietSearch, ToValidate
<1>7. CASE /\ ~OnStack(child) /\ child \notin visited /\ child \in Packs
           /\ stack' = Append(TodoDone, top) /\ UNCHANGED <<pc, visited>>
  <2>1. Len(stack) \in Nat /\ Len(stack) \in 1..Len(stack)
        /\ TodoDone[Len(TodoDone)].pack = Top.pack
    BY <1>1, <1>2, <1>4, TopFacts DEF Top
  <2>2. top \in Frame /\ top.pack = child
    BY <1>2, <1>7, SetupFacts, FrameFacts
  <2>3. Chain(stack') /\ LeftTo(stack', visited, {})
    BY <1>2, <1>3, <1>4, <1>7, <2>1, PutOnTop
  <2> HIDE DEF top
  <2>4. /\ Len(stack') = Len(stack) + 1 /\ stack'[Len(stack) + 1] = top
        /\ \A i \in 1..Len(stack) : stack'[i] = TodoDone[i]
    BY <1>4, <1>7, <2>2, AppendProperties
  <2>5. \A i \in 1..Len(stack) : stack'[i].pack = stack[i].pack /\ stack'[i].pack # child
    <3>1. DOMAIN stack = 1..Len(stack)
      BY <1>2, LenProperties
    <3> QED BY <1>4, <1>7, <2>4, <3>1 DEF OnStack
  <2>6. \A i \in 1..Len(stack') : i \in 1..Len(stack) \/ (i = Len(stack) + 1 /\ stack'[i].pack = child)
    BY <2>1, <2>2, <2>4
  <2>7. \A i \in 1..Len(stack') : stack'[i].pack \notin visited
    BY <1>1, <1>7, <2>5, <2>6 DEF Searched
  <2>8. \A i, j \in 1..Len(stack') : stack'[i].pack = stack'[j].pack => i = j
    BY <1>1, <2>5, <2>6 DEF Searched
  <2>9. Searched(stack', visited)
    BY <1>1, <2>3, <2>7, <2>8 DEF Searched
  <2> QED BY <1>1, <1>7, <2>3, <2>9, QuietSearch, ToValidate
<1> QED BY <1>5, <1>6, <1>7 DEF ValidateChild

LEMMA ValidateLeaveSearch ==
    ASSUME Types, Quiet, SearchOK, ValidateLeave
    PROVE  SearchOK'
<1>1. /\ pc = "validate" /\ pc' = "validate" /\ stack # <<>> /\ Top.todo = <<>> /\ checked
      /\ stack' = Front(stack) /\ visited' = visited \cup {Top.pack} /\ entering' = root
      /\ Chain(stack) /\ Searched(stack, visited)
  BY DEF ValidateLeave, SearchOK, Validating
<1>2. stack \in Seq(Frame) /\ visited \in SUBSET Packs
  BY DEF Types, SearchTypes
<1>3. /\ Includes(Top.pack) \cap Packs \subseteq visited
      /\ Chain(stack') /\ LeftTo(stack', visited', {})
  BY <1>1, <1>2, TopLeft DEF Searched
<1>4. /\ Len(stack) \in Nat /\ Len(stack) \in 1..Len(stack) /\ Len(stack') = Len(stack) - 1
      /\ \A i \in 1..(Len(stack) - 1) : stack'[i] = stack[i]
      /\ Top.pack \in Packs
  BY <1>1, <1>2, TopFacts, FrontFacts
<1>5. Top.pack \notin visited
  BY <1>1, <1>4 DEF Searched, Top
<1>6. ~InCycle(Top.pack) /\ Closed(visited')
  BY <1>1, <1>2, <1>3, <1>4, <1>5, NoCycleFromClosed DEF Searched
<1>7. \A i \in 1..Len(stack') : i \in 1..Len(stack) /\ i # Len(stack) /\ stack'[i] = stack[i]
  BY <1>4
<1>8. \A i \in 1..Len(stack') : stack'[i].pack \notin visited'
  BY <1>1, <1>4, <1>7 DEF Searched, Top
<1>9. \A i, j \in 1..Len(stack') : stack'[i].pack = stack'[j].pack => i = j
  BY <1>1, <1>7 DEF Searched
<1>10. Searched(stack', visited')
  BY <1>1, <1>3, <1>6, <1>8, <1>9 DEF Searched
<1> QED BY <1>1, <1>3, <1>10, QuietSearch, ToValidate

LEMMA EmptyLeft ==
    ASSUME NEW Done, NEW X
    PROVE  Chain(<<>>) /\ LeftTo(<<>>, Done, X)
BY DEF Chain, LeftTo

LEMMA ValidateDoneSearch ==
    ASSUME Types, Quiet, SearchOK, ValidateDone
    PROVE  SearchOK'
<1>1. pc = "validate" /\ stack = <<>> /\ visited = Packs /\ Searched(stack, visited)
      /\ entering = root /\ UNCHANGED entering
  BY DEF ValidateDone, SearchOK, Validating
<1>2. Sound <=> ~UnknownIncludes
  BY <1>1 DEF Sound, Searched
<1>3. CASE UnknownIncludes /\ End("refused")
  BY <1>2, <1>3, ToEnd
<1>4. CASE ~UnknownIncludes /\ pc' = "enter" /\ UNCHANGED stack
  <2>1. Chain(stack') /\ Resolving(pc', stack', entering')
    BY <1>1, <1>4, EmptyLeft DEF Resolving
  <2> QED BY <1>2, <1>4, <2>1, QuietSearch, ToResolve
<1> QED BY <1>3, <1>4 DEF ValidateDone, Goto

LEMMA EnterSearch ==
    ASSUME Types, Quiet, SearchOK, Enter
    PROVE  SearchOK'
<1>1. /\ pc = "enter" /\ Chain(stack) /\ Resolving(pc, stack, entering)
      /\ checked => Sound
  BY DEF Enter, SearchOK, Accepted
<1>2. cfg \in Setups /\ stack \in Seq(Frame) /\ root \in Packs
  BY DEF Types, EnvTypes, SearchTypes, AskedTypes
<1>3. IF stack = <<>> THEN entering = root ELSE entering \in Includes(Top.pack)
  BY <1>1 DEF Resolving, Top
<1>4. stack # <<>> => Len(stack) \in 1..Len(stack) /\ 1 \in 1..Len(stack) /\ Top.pack \in Packs
  BY <1>2, TopFacts
<1>5. CASE entering \notin Packs /\ End("unknown")
  <2>1. ~Sound
    <3>1. stack # <<>> /\ entering \in Includes(Top.pack) /\ Top.pack \in Packs
      BY <1>2, <1>3, <1>4, <1>5
    <3> QED BY <1>5, <3>1 DEF Sound, UnknownIncludes, Includes
  <2> QED BY <1>1, <1>5, <2>1, ToEnd
<1>6. CASE OnStack(entering) /\ End("cycle")
  <2>1. stack # <<>>
    BY <1>6 DEF OnStack
  <2>2. Top.pack \in Packs /\ InCycle(Top.pack)
    BY <1>1, <1>2, <1>3, <1>6, <2>1, CycleFound
  <2>3. stack[1].pack = root
    BY <1>1, <2>1 DEF Resolving
  <2>4. Top.pack \in Reachable(root)
    BY <1>1, <1>2, <1>4, <2>1, <2>3, TopReached
  <2>5. ~Sound
    BY <2>2 DEF Sound
  <2> QED BY <1>1, <1>6, <2>2, <2>4, <2>5, ToEnd
<1>7. CASE /\ entering \in Packs /\ pc' = "read" /\ stack' = Push(entering)
  <2> DEFINE top == [pack |-> entering, todo |-> cfg.includes[entering]]
  <2>1. stack # <<>> => entering \in Includes(stack[Len(stack)].pack)
    BY <1>3 DEF Top
  <2>2. LeftTo(stack, GoodPacks, {entering})
    BY <1>1 DEF Resolving
  <2>3. /\ Append(stack, top) \in Seq(Frame) /\ Chain(Append(stack, top))
        /\ LeftTo(Append(stack, top), GoodPacks, {})
    BY <1>1, <1>2, <1>7, <2>1, <2>2, PutOnTop
  <2>4. stack' = Append(stack, top) /\ top.pack = entering
    BY <1>7 DEF Push
  <2>5. top \in Frame
    BY <1>2, <1>7, SetupFacts, FrameFacts
  <2> HIDE DEF top
  <2>6. stack'[1].pack = root
    <3>1. CASE stack = <<>>
      <4>1. Len(stack) = 0
        BY <3>1
      <4>2. stack'[1] = top
        BY <1>2, <2>4, <2>5, <4>1, AppendProperties
      <4> QED BY <1>3, <2>4, <3>1, <4>2
    <3>2. CASE stack # <<>>
      <4>1. stack'[1] = stack[1]
        BY <1>2, <1>4, <2>4, <2>5, <3>2, AppendProperties
      <4> QED BY <1>1, <3>2, <4>1 DEF Resolving
    <3> QED BY <3>1, <3>2
  <2>7. Chain(stack') /\ LeftTo(stack', GoodPacks, {})
    BY <2>3, <2>4
  <2>8. Resolving(pc', stack', entering')
    BY <1>7, <2>6, <2>7 DEF Resolving
  <2> QED BY <1>1, <1>7, <2>7, <2>8, QuietSearch, ToResolve
<1> QED BY <1>5, <1>6, <1>7 DEF Enter, Goto

(* The steps that leave the stack as it is, and stay in the call.          *)
LEMMA StackAsIs ==
    ASSUME Quiet, SearchOK, UNCHANGED <<stack, entering>>,
           \/ pc = "read" /\ pc' \in {"read", "include"} /\ stack # <<>>
           \/ pc \in {"stat", "fit"} /\ pc' \in {"stat", "fit"}
           \/ pc = "include" /\ stack = <<>> /\ pc' = "stat"
    PROVE  SearchOK'
<1>1. Chain(stack') /\ Resolving(pc, stack, entering) /\ (checked => Sound)
  BY DEF SearchOK, Accepted
<1>2. Resolving(pc', stack', entering')
  BY <1>1 DEF Resolving
<1>3. pc' \in {"enter", "read", "include", "stat", "fit"}
  OBVIOUS
<1> QED BY <1>1, <1>2, <1>3, QuietSearch, ToResolve

LEMMA GatherSearch ==
    ASSUME Types, Quiet, SearchOK, Gather
    PROVE  SearchOK'
<1>1. pc = "read" /\ stack # <<>> /\ (checked => Sound) /\ UNCHANGED entering
  BY DEF Gather, Types, ReadTypes, SearchOK, Accepted
<1>2. CASE End("failed")
  BY <1>1, <1>2, ToEnd
<1>3. CASE Goto("include") /\ UNCHANGED stack
  BY <1>1, <1>3, StackAsIs DEF Goto
<1> QED BY <1>2, <1>3, GatherCases

LEMMA IncludeSearch ==
    ASSUME Types, Quiet, SearchOK, Include
    PROVE  SearchOK'
<1>1. /\ pc = "include" /\ stack # <<>> /\ Chain(stack) /\ Resolving(pc, stack, entering)
      /\ checked => Sound
  BY DEF Include, SearchOK, Accepted
<1>2. stack \in Seq(Frame)
  BY DEF Types, SearchTypes
<1>3. stack[1].pack = root /\ LeftTo(stack, GoodPacks, {})
  BY <1>1 DEF Resolving
<1>4. /\ Len(stack) \in Nat /\ Len(stack) \in 1..Len(stack) /\ 1 \in 1..Len(stack)
      /\ Top.pack \in Packs
  BY <1>1, <1>2, TopFacts
<1>5. CASE /\ Top.todo # <<>> /\ entering' = Head(Top.todo) /\ stack' = TodoDone
           /\ pc' = "enter"
  <2>1. /\ Chain(stack') /\ entering' \in Includes(Top.pack)
        /\ LeftTo(stack', GoodPacks, {entering'})
    BY <1>1, <1>2, <1>3, <1>5, TakenFromTop
  <2>2. Len(stack') = Len(stack) /\ \A i \in 1..Len(stack) : stack'[i].pack = stack[i].pack
    BY <1>1, <1>2, <1>5, TodoDoneFacts
  <2>3. stack'[1].pack = root /\ entering' \in Includes(stack'[Len(stack')].pack)
    BY <1>3, <1>4, <2>1, <2>2 DEF Top
  <2>4. stack' # <<>>
    BY <1>4, <2>2
  <2>5. Resolving(pc', stack', entering')
    BY <1>5, <2>1, <2>3, <2>4 DEF Resolving
  <2> QED BY <1>1, <1>5, <2>1, <2>5, QuietSearch, ToResolve
<1>6. CASE Top.todo = <<>> /\ stack' = Front(stack) /\ UNCHANGED <<entering, pc>>
  <2>1. Includes(Top.pack) \cap Packs \subseteq GoodPacks
    BY <1>1, <1>2, <1>3, <1>6, TopLeft
  <2>2. Good(Top.pack)
    BY <1>4, <2>1, GoodFromIncludes DEF GoodPacks
  <2>3. Chain(stack') /\ LeftTo(stack', GoodPacks, {})
    BY <1>1, <1>2, <1>3, <1>4, <1>6, <2>2, TopLeft DEF GoodPacks
  <2>4. /\ Len(stack') = Len(stack) - 1 /\ stack' \in Seq(Frame)
        /\ \A i \in 1..(Len(stack) - 1) : stack'[i] = stack[i]
    BY <1>1, <1>2, <1>6, FrontFacts
  <2>5. stack' # <<>> => stack'[1].pack = root
    <3>1. stack' # <<>> => 1 \in 1..(Len(stack) - 1)
      BY <1>4, <2>4, EmptySeq
    <3> QED BY <1>3, <2>4, <3>1
  <2>6. stack' = <<>> => Good(root)
    <3>1. stack' = <<>> => Len(stack) = 1
      BY <1>4, <2>4
    <3>2. stack' = <<>> => Top.pack = root
      BY <1>3, <3>1 DEF Top
    <3> QED BY <2>2, <3>2
  <2>7. Resolving(pc', stack', entering')
    BY <1>1, <1>6, <2>3, <2>5, <2>6 DEF Resolving
  <2> QED BY <1>1, <1>6, <2>3, <2>7, QuietSearch, ToResolve
<1> QED BY <1>5, <1>6 DEF Include, Goto

LEMMA ProgressSearch ==
    ASSUME Types, Progress, SearchOK
    PROVE  SearchOK'
<1>1. Quiet
  BY DEF Progress, Quiet
<1>2. CASE \E p \in Packs : ValidateFrom(p)
  BY <1>1, <1>2, ValidateFromSearch
<1>3. CASE ValidateChild
  BY <1>1, <1>3, ValidateChildSearch
<1>4. CASE ValidateLeave
  BY <1>1, <1>4, ValidateLeaveSearch
<1>5. CASE ValidateDone
  BY <1>1, <1>5, ValidateDoneSearch
<1>6. CASE Enter
  BY <1>1, <1>6, EnterSearch
<1>7. CASE \E i \in DOMAIN found : Read(i)
  <2>1. pc = "read" /\ stack # <<>> /\ UNCHANGED <<pc, stack, entering>>
    BY <1>7 DEF Read, Types, ReadTypes
  <2> QED BY <1>1, <2>1, StackAsIs
<1>8. CASE Gather
  BY <1>1, <1>8, GatherSearch
<1>9. CASE Include
  BY <1>1, <1>9, IncludeSearch
<1>10. CASE Query
  BY <1>1, <1>10, StackAsIs DEF Query, Goto
<1>11. CASE Stat
  <2>1. pc = "stat" /\ UNCHANGED entering /\ (checked => Sound)
    BY <1>11 DEF Stat, SearchOK, Accepted
  <2>2. CASE End("failed")
    BY <1>1, <2>1, <2>2, ToEnd
  <2>3. CASE Goto("fit") /\ UNCHANGED stack
    BY <1>1, <2>1, <2>3, StackAsIs DEF Goto
  <2> QED BY <1>11, <2>2, <2>3 DEF Stat
<1>12. CASE Enforce
  <2>1. pc = "fit" /\ Good(root) /\ (checked => Sound)
    BY <1>12 DEF Enforce, SearchOK, Accepted, Resolving
  <2>2. End("whole") \/ End("over") \/ End("truncated")
    BY <1>12 DEF Enforce
  <2> QED BY <1>1, <2>1, <2>2, ToEnd
<1> QED BY <1>2, <1>3, <1>4, <1>5, <1>6, <1>7, <1>8, <1>9, <1>10, <1>11, <1>12
        DEF Progress, Validation, Resolution

LEMMA RequestSearch ==
    ASSUME SearchOK, NEW p \in Packs, NEW isStrict \in BOOLEAN, NEW isChecked \in BOOLEAN,
           Request(p, isStrict, isChecked)
    PROVE  SearchOK'
<1>1. /\ stack' = <<>> /\ visited' = {} /\ cfg' = cfg /\ entering' = root'
      /\ checked' = isChecked /\ pc' = IF isChecked THEN "validate" ELSE "enter"
  BY DEF Request, Goto, env, SearchOK, AtRest
<1>2. Chain(stack)' /\ AtRest'
  BY <1>1 DEF Chain, AtRest
<1>3. Validating'
  BY <1>1 DEF Validating, Searched, Closed, LeftTo
<1>4. Resolving(pc, stack, entering)'
  BY <1>1 DEF Resolving, LeftTo
<1>5. Accepted' /\ CyclesAreReported' /\ ValidationIsExact'
  BY <1>1 DEF Accepted, CyclesAreReported, ValidationIsExact, Answered
<1> QED BY <1>2, <1>3, <1>4, <1>5 DEF SearchOK

LEMMA KeptSearch ==
    ASSUME SearchOK, CallKept
    PROVE  SearchOK'
<1>1. /\ cfg' = cfg /\ root' = root /\ checked' = checked /\ pc' = pc /\ stack' = stack
      /\ visited' = visited /\ entering' = entering /\ outcome' = outcome
  BY DEF CallKept, asked
<1>2. Chain(stack)' /\ AtRest' /\ Validating' /\ Resolving(pc, stack, entering)' /\ Accepted'
  BY <1>1, StackKept, GraphKept DEF SearchOK, AtRest, Validating, Accepted
<1>3. CyclesAreReported'
  <2>1. Reachable(root)' = Reachable(root)
    BY <1>1 DEF Reachable, Closed
  <2> QED BY <1>1, <2>1, GraphKept DEF SearchOK, CyclesAreReported, Answered
<1>4. ValidationIsExact'
  BY <1>1, GraphKept DEF SearchOK, ValidationIsExact
<1> QED BY <1>2, <1>3, <1>4 DEF SearchOK

LEMMA SearchHolds == Spec => []SearchOK
<1>1. Init => SearchOK
  <2> SUFFICES ASSUME Init PROVE SearchOK
    OBVIOUS
  <2>1. stack = <<>> /\ visited = {} /\ pc = "idle"
    BY DEF Init
  <2> QED BY <2>1, EmptyLeft
          DEF SearchOK, AtRest, Validating, Resolving, Accepted, CyclesAreReported,
              ValidationIsExact, Answered
<1>2. Types /\ SearchOK /\ [Next]_vars => SearchOK'
  BY ProgressSearch, RequestSearch, KeptSearch, StepCases
<1> QED BY <1>1, <1>2, TypesHold, PTL DEF Spec

(* Resolution refuses a pack for a cycle exactly if a cycle can be reached *)
(* from it, for every graph of includes: packs included twice, or by two   *)
(* ways, are not taken for one (ContextPackResolver._resolve_pack).        *)
THEOREM CyclesReported == Spec => []CyclesAreReported
<1>1. SearchOK => CyclesAreReported
  BY DEF SearchOK
<1> QED BY <1>1, SearchHolds, PTL

(* find_context_pack_cycle and the test of names accept exactly the        *)
(* configurations in which no pack can fail to resolve, for every graph of *)
(* includes and every order in which the search starts.                    *)
THEOREM ValidationExact == Spec => []ValidationIsExact
<1>1. SearchOK => ValidationIsExact
  BY DEF SearchOK
<1> QED BY <1>1, SearchHolds, PTL


-----------------------------------------------------------------------------
(* What makes a load fail.                                                 *)

(* A file that a pack included from the root names and may read.           *)
Named(f) == \E p \in Reachable(root) : f \in Declared(p)

NamedOK ==
    /\ pc = "read" => \A i \in DOMAIN found : Named(found[i])
    /\ \A d \in ToSet(documents) : Named(d.path)

LEMMA NamedKept ==
    ASSUME cfg' = cfg, root' = root
    PROVE  \A f : Named(f)' <=> Named(f)
BY GraphKept DEF Named, Declared

LEMMA OtherNamed ==
    ASSUME NamedOK, Quiet, UNCHANGED documents, pc' # "read"
    PROVE  NamedOK'
<1>1. \A f : Named(f)' <=> Named(f)
  BY NamedKept DEF Quiet, env, asked
<1> QED BY <1>1 DEF NamedOK

LEMMA EnterNamed ==
    ASSUME Types, Quiet, SearchOK, NamedOK, Enter
    PROVE  NamedOK'
<1>1. UNCHANGED documents
  BY DEF Enter
<1>2. CASE pc' # "read"
  BY <1>1, <1>2, OtherNamed
<1>3. CASE pc' = "read"
  <2>1. pc = "enter" /\ entering \in Packs /\ found' = OwnPaths(entering)
    BY <1>3 DEF Enter, End, Goto
  <2>2. /\ cfg \in Setups /\ stack \in Seq(Frame) /\ root \in Packs
        /\ Chain(stack) /\ Resolving(pc, stack, entering)
    BY DEF Types, EnvTypes, SearchTypes, AskedTypes, SearchOK
  <2>3. entering \in Reachable(root)
    <3>1. CASE stack = <<>>
      BY <2>1, <2>2, <3>1, ReachableFacts DEF Resolving
    <3>2. CASE stack # <<>>
      <4>1. Len(stack) \in 1..Len(stack) /\ 1 \in 1..Len(stack) /\ Top.pack \in Packs
        BY <2>2, <3>2, TopFacts
      <4>2. stack[1].pack = root /\ entering \in Includes(Top.pack)
        BY <2>1, <2>2, <3>2 DEF Resolving, Top
      <4>3. Top.pack \in Reachable(root)
        BY <2>2, <3>2, <4>1, <4>2, TopReached
      <4>4. Closed(Reachable(root))
        BY <2>2, ReachableFacts
      <4> QED BY <2>1, <4>2, <4>3, <4>4 DEF Closed, Includes
    <3> QED BY <3>1, <3>2
  <2> DEFINE F == {f \in Files : f \in Declared(entering) /\ Readable(f) /\ Present(f)}
  <2>4. OwnPaths(entering) \in Seq(F)
    BY <2>1, <2>2, OwnPathsNamed
  <2> HIDE DEF F
  <2>5. \A i \in DOMAIN OwnPaths(entering) : OwnPaths(entering)[i] \in F
    BY <2>4, ElementOfSeq, LenProperties
  <2>6. \A i \in DOMAIN found' : Named(found'[i])
    BY <2>1, <2>3, <2>5 DEF F, Named
  <2>7. \A f : Named(f)' <=> Named(f)
    BY NamedKept DEF Quiet, env, asked
  <2> QED BY <1>1, <2>6, <2>7 DEF NamedOK
<1> QED BY <1>2, <1>3

LEMMA GatherNamed ==
    ASSUME Types, Quiet, NamedOK, Gather
    PROVE  NamedOK'
<1>1. pc = "read" /\ pc' # "read"
  BY DEF Gather, End, Goto
<1>2. CASE UNCHANGED documents
  BY <1>1, <1>2, OtherNamed
<1>3. CASE /\ \A i \in DOMAIN found : texts[i] # Unread /\ Legible(texts[i])
           /\ documents' = FirstPlaces(documents \o ReadDocuments(Top.pack))
  <2>1. \A d \in ToSet(documents') :
              \/ d \in ToSet(documents)
              \/ \E i \in DOMAIN found : d = Document(Top.pack, i)
    BY <1>1, <1>3, GatheredDocuments
  <2>2. \A d \in ToSet(documents') : Named(d.path)
    BY <1>1, <2>1 DEF NamedOK, Document
  <2>3. \A f : Named(f)' <=> Named(f)
    BY NamedKept DEF Quiet, env, asked
  <2> QED BY <1>1, <2>2, <2>3 DEF NamedOK
<1> QED BY <1>2, <1>3, GatherCases

LEMMA ProgressNamed ==
    ASSUME Types, SearchOK, NamedOK, Progress
    PROVE  NamedOK'
<1>1. Quiet
  BY DEF Progress, Quiet
<1>2. CASE Validation
  <2>1. UNCHANGED documents /\ pc' \in {"validate", "enter", "done"}
    BY <1>2 DEF Validation, ValidateFrom, ValidateChild, ValidateLeave, ValidateDone,
                End, Goto
  <2> QED BY <1>1, <2>1, OtherNamed
<1>3. CASE Enter
  BY <1>1, <1>3, EnterNamed
<1>4. CASE \E i \in DOMAIN found : Read(i)
  <2>1. UNCHANGED <<pc, found, documents>>
    BY <1>4 DEF Read
  <2>2. \A f : Named(f)' <=> Named(f)
    BY <1>1, NamedKept DEF Quiet, env, asked
  <2> QED BY <2>1, <2>2 DEF NamedOK
<1>5. CASE Gather
  BY <1>1, <1>5, GatherNamed
<1>6. CASE Include
  <2>1. UNCHANGED documents /\ pc' \in {"enter", "include"}
    BY <1>6 DEF Include, Goto
  <2> QED BY <1>1, <2>1, OtherNamed
<1>7. CASE Query
  BY <1>1, <1>7, OtherNamed DEF Query, Goto
<1>8. CASE Stat
  <2>1. UNCHANGED documents /\ pc' \in {"fit", "done"}
    BY <1>8 DEF Stat, End, Goto
  <2> QED BY <1>1, <2>1, OtherNamed
<1>9. CASE Enforce
  <2>1. UNCHANGED documents /\ pc' = "done"
    BY <1>9 DEF Enforce, End, Goto
  <2> QED BY <1>1, <2>1, OtherNamed
<1> QED BY <1>2, <1>3, <1>4, <1>5, <1>6, <1>7, <1>8, <1>9 DEF Progress, Resolution

LEMMA CallKeptNamed ==
    ASSUME NamedOK, CallKept
    PROVE  NamedOK'
<1>1. \A f : Named(f)' <=> Named(f)
  BY NamedKept DEF CallKept, asked
<1> QED BY <1>1 DEF NamedOK, CallKept

LEMMA NamedHolds == Spec => []NamedOK
<1>1. Init => NamedOK
  BY DEF Init, NamedOK, ToSet
<1>2. Types /\ SearchOK /\ NamedOK /\ [Next]_vars => NamedOK'
  <2> SUFFICES ASSUME Types, SearchOK, NamedOK, [Next]_vars PROVE NamedOK'
    OBVIOUS
  <2>1. CASE Progress
    BY <2>1, ProgressNamed
  <2>2. CASE \E p \in Packs, isStrict, isChecked \in BOOLEAN : Request(p, isStrict, isChecked)
    <3>1. pc' # "read" /\ documents' = <<>>
      BY <2>2 DEF Request, Goto
    <3> QED BY <3>1 DEF NamedOK, ToSet
  <2>3. CASE World
    BY <2>3, WorldKeepsCall, CallKeptNamed
  <2>4. CASE UNCHANGED vars
    BY <2>4, StutterKeeps, CallKeptNamed
  <2> QED BY <2>1, <2>2, <2>3, <2>4, NextCases
<1> QED BY <1>1, <1>2, TypesHold, SearchHolds, PTL DEF Spec

(* Only Gather and Stat fail.                                              *)
LEMMA OnlyReadsFail ==
    ASSUME Progress, pc' = "done", outcome' = "failed"
    PROVE  \/ pc = "read" /\ \E i \in DOMAIN found : texts[i] # Unread /\ ~Legible(texts[i])
           \/ \E d \in Stamped : ~Present(d.path)
<1>1. CASE \E p \in Packs : ValidateFrom(p)
  BY <1>1 DEF ValidateFrom
<1>2. CASE ValidateChild
  BY <1>2 DEF ValidateChild, End
<1>3. CASE ValidateLeave
  BY <1>3 DEF ValidateLeave
<1>4. CASE ValidateDone
  BY <1>4 DEF ValidateDone, End, Goto
<1>5. CASE Enter
  BY <1>5 DEF Enter, End, Goto
<1>6. CASE \E i \in DOMAIN found : Read(i)
  BY <1>6 DEF Read
<1>7. CASE Gather
  BY <1>7 DEF Gather, Goto
<1>8. CASE Include
  BY <1>8 DEF Include, Goto
<1>9. CASE Query
  BY <1>9 DEF Query, Goto
<1>10. CASE Stat
  BY <1>10 DEF Stat, Goto
<1>11. CASE Enforce
  BY <1>11 DEF Enforce, End
<1> QED BY <1>1, <1>2, <1>3, <1>4, <1>5, <1>6, <1>7, <1>8, <1>9, <1>10, <1>11
        DEF Progress, Validation, Resolution

(* A load fails only because of a file that the packs of its root name and *)
(* may read, and that read_text refuses or that was saved or deleted       *)
(* between the steps of the load: for every graph of includes and every    *)
(* vault.  A file found is there when a thread reads it and when its stat  *)
(* is taken, unless somebody took it away (read_candidates,                *)
(* _stale_warnings).                                                       *)
THEOREM LoadsFail == Spec => []LoadsFailForAFile
<1> DEFINE Cause(f) == f \in touched \/ (Present(f) /\ ~Legible(vault[f]))
<1>1. LoadsFailForAFile <=> (pc = "done" /\ outcome = "failed" => \E f : Named(f) /\ Cause(f))
  BY DEF LoadsFailForAFile, Named
<1>2. (LoadsFailForAFile <=> (pc = "done" /\ outcome = "failed" => \E f : Named(f) /\ Cause(f)))'
  BY DEF LoadsFailForAFile, Named
<1>3. Init => LoadsFailForAFile
  BY DEF Init, LoadsFailForAFile
<1>4. ASSUME Types, SteadyOK, NamedOK, LoadsFailForAFile, CallKept,
             \A f \in Files : Cause(f) => Cause(f)'
      PROVE  LoadsFailForAFile'
  <2>1. \A f : Named(f)' <=> Named(f)
    BY <1>4, NamedKept DEF CallKept, asked
  <2>2. \A f : Named(f) => f \in Files
    BY <1>4 DEF Named, Declared, Types, EnvTypes
  <2> HIDE DEF Cause
  <2> QED BY <1>1, <1>2, <1>4, <2>1, <2>2 DEF CallKept
<1>5. Types /\ SteadyOK /\ NamedOK /\ LoadsFailForAFile /\ [Next]_vars => LoadsFailForAFile'
  <2> SUFFICES ASSUME Types, SteadyOK, NamedOK, LoadsFailForAFile, [Next]_vars
               PROVE  LoadsFailForAFile'
    OBVIOUS
  <2>1. CASE Progress
    <3> SUFFICES ASSUME pc' = "done", outcome' = "failed" PROVE \E f : Named(f)' /\ Cause(f)'
      BY <1>2
    <3>1. Quiet
      BY <2>1 DEF Progress, Quiet
    <3>2. \A f : (Named(f)' <=> Named(f)) /\ (Cause(f)' <=> Cause(f))
      BY <3>1, NamedKept DEF Quiet, env, asked, Present, Legible
    <3>3. CASE pc = "read" /\ \E i \in DOMAIN found : texts[i] # Unread /\ ~Legible(texts[i])
      <4>1. PICK i \in DOMAIN found : texts[i] # Unread /\ ~Legible(texts[i])
        BY <3>3
      <4>2. Named(found[i])
        BY <3>3, <4>1 DEF NamedOK
      <4>3. Cause(found[i])
        BY <3>3, <4>1 DEF SteadyOK, ReadSteady
      <4> HIDE DEF Cause
      <4> QED BY <3>2, <4>2, <4>3
    <3>4. CASE \E d \in Stamped : ~Present(d.path)
      <4>1. PICK d \in ToSet(documents) : ~Present(d.path)
        BY <3>4 DEF Stamped
      <4>2. Named(d.path) /\ Cause(d.path)
        BY <4>1 DEF NamedOK, SteadyOK, DocumentsThere
      <4> HIDE DEF Cause
      <4> QED BY <3>2, <4>2
    <3> HIDE DEF Cause
    <3> QED BY <2>1, <3>3, <3>4, OnlyReadsFail
  <2>2. CASE \E p \in Packs, isStrict, isChecked \in BOOLEAN : Request(p, isStrict, isChecked)
    BY <2>2 DEF Request, Goto, LoadsFailForAFile
  <2>3. CASE World
    <3>1. PICK g \in cfg.readable : \/ \E t \in Texts \cup Broken : Save(g, t)
                                    \/ Delete(g)
                                    \/ Index(g)
      BY <2>3 DEF World
    <3>2. CASE (\E t \in Texts \cup Broken : Save(g, t)) \/ Delete(g)
      <4>1. touched' = touched \cup {g} /\ vault' = [vault EXCEPT ![g] = vault'[g]]
            /\ vault \in [Files -> Version \cup {Absent}]
        BY <3>2 DEF Save, Delete, Types, EnvTypes
      <4>2. ASSUME NEW f \in Files, Cause(f) PROVE Cause(f)'
        <5>1. CASE f \in touched \/ f = g
          BY <4>1, <5>1
        <5>2. CASE f \notin touched /\ f # g
          <6>1. vault'[f] = vault[f]
            BY <4>1, <5>2
          <6> QED BY <4>2, <5>2, <6>1 DEF Present, Legible
        <5> QED BY <5>1, <5>2
      <4> HIDE DEF Cause
      <4> QED BY <1>4, <2>3, <4>2, WorldKeepsCall
    <3>3. CASE Index(g)
      <4>1. \A f \in Files : Cause(f) => Cause(f)'
        BY <3>3 DEF Index, Present, Legible
      <4> HIDE DEF Cause
      <4> QED BY <1>4, <2>3, <4>1, WorldKeepsCall
    <3> QED BY <3>1, <3>2, <3>3
  <2>4. CASE UNCHANGED vars
    <3>1. CallKept /\ UNCHANGED <<vault, indexedAt, now, touched>>
      BY <2>4, StutterKeeps
    <3>2. \A f \in Files : Cause(f) => Cause(f)'
      BY <3>1 DEF Present, Legible
    <3> HIDE DEF Cause
    <3> QED BY <1>4, <3>1, <3>2
  <2> QED BY <2>1, <2>2, <2>3, <2>4, NextCases
<1> QED BY <1>3, <1>5, TypesHold, SteadyHolds, NamedHolds, PTL DEF Spec


-----------------------------------------------------------------------------
(* What a truncated pack keeps.                                            *)

HIDE PackAssumption

LEMMA SizesAreNat == \A part \in Section : part.size \in Nat
BY SizeAssumption DEF Section, ToSet

(* Running sums along 1..n.                                                *)
RunningSum(f, w, n) ==
    f[0] = 0 /\ \A i \in 1..n : f[i] = f[i - 1] + w[i]

LEMMA SumsExist ==
    ASSUME NEW n \in Nat, NEW w \in [1..n -> Nat]
    PROVE  \E f \in [0..n -> Nat] : RunningSum(f, w, n)
<1> DEFINE step == [i \in 1..n |-> [v \in Nat |-> v + w[i]]]
<1>1. \A i \in 1..n, v \in Nat : step[i][v] = v + w[i]
  OBVIOUS
<1>2. \A i \in 1..n, v \in Nat : v + w[i] \in Nat
  <2>1. \A i \in 1..n : w[i] \in Nat
    OBVIOUS
  <2> QED BY <2>1
<1> HIDE DEF step
<1>3. Stays(step, n, Nat)
  BY <1>1, <1>2 DEF Stays
<1>4. PICK f \in [0..n -> Nat] : Along(f, n, 0, step)
  BY <1>3, Recursion
<1>5. ASSUME NEW i \in 1..n PROVE f[i] = f[i - 1] + w[i]
  <2>1. i - 1 \in 0..n
    OBVIOUS
  <2>2. f[i - 1] \in Nat
    BY <2>1
  <2>3. f[i] = step[i][f[i - 1]]
    BY <1>4 DEF Along
  <2> QED BY <1>1, <2>2, <2>3
<1>6. f[0] = 0
  BY <1>4 DEF Along
<1>7. RunningSum(f, w, n)
  BY <1>5, <1>6 DEF RunningSum
<1> QED BY <1>7

(* Running sums are determined by what is added.                           *)
LEMMA SumsAgree ==
    ASSUME NEW n \in Nat, NEW f, NEW g, NEW v, NEW w,
           RunningSum(f, v, n), RunningSum(g, w, n), \A i \in 1..n : v[i] = w[i]
    PROVE  f[n] = g[n]
<1> DEFINE T == {k \in 0..n : f[k] = g[k]}
<1>1. 0 \in T
  BY DEF RunningSum
<1>2. ASSUME NEW i \in 1..n, i - 1 \in T PROVE i \in T
  BY <1>2 DEF RunningSum
<1>3. n \in 0..n
  OBVIOUS
<1>4. n \in T
  <2> HIDE DEF T
  <2> QED BY <1>1, <1>2, <1>3, InductionUpTo
<1> QED BY <1>4

(* A function given by the recursion of a sum.                             *)
SumSteps(f, w, n) == f = [i \in 0..n |-> IF i = 0 THEN 0 ELSE f[i - 1] + w[i]]

LEMMA SumStepsExist ==
    ASSUME NEW n \in Nat, NEW w \in [1..n -> Nat]
    PROVE  /\ \E f : SumSteps(f, w, n)
           /\ \A f : SumSteps(f, w, n) => f[n] \in Nat /\ RunningSum(f, w, n)
<1>1. PICK g \in [0..n -> Nat] : RunningSum(g, w, n)
  BY SumsExist
<1>2. SumSteps(g, w, n)
  <2>1. \A i \in 0..n : g[i] = IF i = 0 THEN 0 ELSE g[i - 1] + w[i]
    BY <1>1 DEF RunningSum
  <2>2. g = [i \in 0..n |-> g[i]]
    OBVIOUS
  <2> QED BY <2>1, <2>2 DEF SumSteps
<1>3. ASSUME NEW f, SumSteps(f, w, n) PROVE f[n] \in Nat /\ RunningSum(f, w, n)
  <2>1. \A i \in 0..n : f[i] = IF i = 0 THEN 0 ELSE f[i - 1] + w[i]
    BY <1>3 DEF SumSteps
  <2>2. RunningSum(f, w, n)
    <3>1. 0 \in 0..n /\ \A i \in 1..n : i \in 0..n /\ i # 0
      OBVIOUS
    <3> QED BY <2>1, <3>1 DEF RunningSum
  <2>3. f[n] = g[n]
    BY <1>1, <2>2, SumsAgree
  <2>4. g[n] \in Nat
    OBVIOUS
  <2> QED BY <2>2, <2>3, <2>4
<1> QED BY <1>2, <1>3

LEMMA SizeIsNat ==
    ASSUME NEW parts \in Seq(Section)
    PROVE  SizeOf(parts) \in Nat
<1> DEFINE n == Len(parts)
           w == [i \in 1..n |-> parts[i].size]
           Is(f) == f = [i \in 0..n |-> IF i = 0 THEN 0 ELSE f[i - 1] + parts[i].size]
<1>1. n \in Nat /\ \A i \in 1..n : parts[i].size \in Nat
  BY SizesAreNat, ElementOfSeq, LenProperties
<1>2. w \in [1..n -> Nat] /\ \A i \in 1..n : w[i] = parts[i].size
  BY <1>1
<1> HIDE DEF w
<1>3. ASSUME NEW f PROVE Is(f) <=> SumSteps(f, w, n)
  <2>1. [i \in 0..n |-> IF i = 0 THEN 0 ELSE f[i - 1] + parts[i].size]
           = [i \in 0..n |-> IF i = 0 THEN 0 ELSE f[i - 1] + w[i]]
    BY <1>1, <1>2
  <2> QED BY <2>1 DEF SumSteps
<1>4. SizeOf(parts) = (CHOOSE f : Is(f))[n]
  BY Zenon DEF SizeOf
<1> HIDE DEF Is
<1>5. (\E f : SumSteps(f, w, n)) /\ \A f : SumSteps(f, w, n) => f[n] \in Nat
  <2> HIDE DEF n
  <2> QED BY <1>1, <1>2, SumStepsExist
<1>6. Is(CHOOSE f : Is(f))
  BY <1>3, <1>5
<1> QED BY <1>3, <1>4, <1>5, <1>6

(* The tokens that a piece takes.                                          *)
PieceTokens(piece) == Header + SizeOf(piece.parts)

LEMMA PieceTokensNat ==
    ASSUME NEW piece \in Piece
    PROVE  PieceTokens(piece) \in Nat
<1>1. piece.parts \in Seq(Section)
  BY DEF Piece
<1>2. SizeOf(piece.parts) \in Nat
  BY <1>1, SizeIsNat
<1> QED BY <1>2, PackAssumption DEF PieceTokens

LEMMA TokensSum ==
    ASSUME NEW pieces \in Seq(Piece)
    PROVE  /\ Tokens(pieces) \in Nat
           /\ \E f : /\ RunningSum(f, [i \in 1..Len(pieces) |-> PieceTokens(pieces[i])], Len(pieces))
                     /\ Tokens(pieces) = f[Len(pieces)]
<1> DEFINE n == Len(pieces)
           w == [i \in 1..n |-> PieceTokens(pieces[i])]
           Is(f) == f = [i \in 0..n |-> IF i = 0 THEN 0
                                        ELSE f[i - 1] + Header + SizeOf(pieces[i].parts)]
<1>1. n \in Nat /\ \A i \in 1..n : pieces[i] \in Piece
  BY ElementOfSeq, LenProperties
<1>2. \A i \in 1..n : PieceTokens(pieces[i]) \in Nat
  BY <1>1, PieceTokensNat
<1>3. w \in [1..n -> Nat] /\ \A i \in 1..n : w[i] = PieceTokens(pieces[i])
  BY <1>2
<1>4. \A i \in 1..n : SizeOf(pieces[i].parts) \in Nat
  BY <1>1, SizeIsNat DEF Piece
<1> HIDE DEF w
<1>5. Tokens(pieces) = (CHOOSE f : Is(f))[n]
  BY Zenon DEF Tokens
<1>6. (\E f : SumSteps(f, w, n))
        /\ \A f : SumSteps(f, w, n) => f[n] \in Nat /\ RunningSum(f, w, n)
  <2> HIDE DEF n
  <2> QED BY <1>1, <1>3, SumStepsExist
<1>7. PICK g \in [0..n -> Nat] : RunningSum(g, w, n)
  <2> HIDE DEF n
  <2> QED BY <1>1, <1>3, SumsExist
<1>8. Is(g)
  <2>1. ASSUME NEW i \in 1..n PROVE g[i] = g[i - 1] + Header + SizeOf(pieces[i].parts)
    <3>1. i - 1 \in 0..n
      BY <1>1
    <3>2. g[i - 1] \in Nat
      BY <3>1
    <3>3. g[i] = g[i - 1] + (Header + SizeOf(pieces[i].parts))
      BY <1>3, <1>7 DEF RunningSum, PieceTokens
    <3> QED BY <1>4, <3>2, <3>3
  <2>2. \A i \in 0..n : g[i] = IF i = 0 THEN 0
                               ELSE g[i - 1] + Header + SizeOf(pieces[i].parts)
    BY <2>1, <1>1, <1>7 DEF RunningSum
  <2>3. g = [i \in 0..n |-> g[i]]
    OBVIOUS
  <2> QED BY <2>2, <2>3
<1>9. Is(CHOOSE f : Is(f))
  <2> HIDE DEF Is
  <2> QED BY <1>8
<1>10. ASSUME NEW f, Is(f) PROVE f[n] = g[n]
  <2> DEFINE T == {k \in 0..n : f[k] = g[k]}
  <2>1. \A h : Is(h) => h[0] = 0 /\ \A i \in 1..n : h[i] = h[i - 1] + Header
                                                    + SizeOf(pieces[i].parts)
    BY <1>1
  <2>2. 0 \in T
    BY <1>1, <1>8, <1>10, <2>1
  <2>3. ASSUME NEW i \in 1..n, i - 1 \in T PROVE i \in T
    <3>1. i \in 0..n
      BY <1>1
    <3>2. f[i - 1] = g[i - 1]
      BY <2>3
    <3> HIDE DEF Is
    <3> QED BY <1>8, <1>10, <2>1, <3>1, <3>2
  <2>4. n \in 0..n
    BY <1>1
  <2>5. n \in T
    <3> HIDE DEF T, n
    <3> QED BY <1>1, <2>2, <2>3, <2>4, InductionUpTo
  <2> QED BY <2>5
<1>11. Tokens(pieces) = g[n]
  <2> HIDE DEF Is
  <2> QED BY <1>5, <1>9, <1>10
<1>12. g[n] \in Nat
  BY <1>1
<1> QED BY <1>7, <1>11, <1>12 DEF w

LEMMA TokensAppend ==
    ASSUME NEW pieces \in Seq(Piece), NEW piece \in Piece
    PROVE  Tokens(Append(pieces, piece)) = Tokens(pieces) + PieceTokens(piece)
<1> DEFINE n == Len(pieces)
           more == Append(pieces, piece)
           v == [i \in 1..n |-> PieceTokens(pieces[i])]
           w == [i \in 1..Len(more) |-> PieceTokens(more[i])]
<1>1. /\ n \in Nat /\ more \in Seq(Piece) /\ Len(more) = n + 1
      /\ \A i \in 1..n : more[i] = pieces[i]
      /\ more[n + 1] = piece
  BY AppendProperties, LenProperties
<1>2. PICK f : RunningSum(f, v, n) /\ Tokens(pieces) = f[n]
  BY TokensSum
<1> HIDE DEF more
<1>3. PICK g : RunningSum(g, w, Len(more)) /\ Tokens(more) = g[Len(more)]
  BY <1>1, TokensSum
<1>4. RunningSum(g, w, n)
  BY <1>1, <1>3 DEF RunningSum
<1>5. \A i \in 1..n : v[i] = w[i]
  BY <1>1
<1>6. n + 1 \in 1..Len(more) /\ (n + 1) - 1 = n /\ w[n + 1] = PieceTokens(piece)
  BY <1>1
<1> HIDE DEF v, w, n
<1>7. f[n] = g[n]
  BY <1>1, <1>2, <1>4, <1>5, SumsAgree
<1>8. g[n + 1] = g[n] + PieceTokens(piece)
  BY <1>3, <1>6 DEF RunningSum
<1> QED BY <1>1, <1>2, <1>3, <1>7, <1>8 DEF more

(* The sections that the pieces have of the file f.                        *)
Shares(pieces, f) ==
    [i \in DOMAIN pieces |-> IF pieces[i].path = f THEN pieces[i].parts ELSE <<>>]
Share(pieces, f) == FlattenSeq(Shares(pieces, f))

LEMMA SharesType ==
    ASSUME NEW pieces \in Seq(Piece), NEW f
    PROVE  /\ Shares(pieces, f) \in Seq(Seq(Section))
           /\ Len(Shares(pieces, f)) = Len(pieces)
           /\ Share(pieces, f) \in Seq(Section)
<1>1. /\ Len(pieces) \in Nat /\ DOMAIN pieces = 1..Len(pieces)
      /\ \A i \in 1..Len(pieces) : pieces[i].parts \in Seq(Section)
  <2>1. /\ Len(pieces) \in Nat /\ DOMAIN pieces = 1..Len(pieces)
        /\ \A i \in 1..Len(pieces) : pieces[i] \in Piece
    BY ElementOfSeq, LenProperties
  <2>2. \A p \in Piece : p.parts \in Seq(Section)
    BY DEF Piece
  <2> QED BY <2>1, <2>2
<1>2. <<>> \in Seq(Section)
  BY EmptySeq
<1>3. Shares(pieces, f) \in [1..Len(pieces) -> Seq(Section)]
  BY <1>1, <1>2 DEF Shares
<1>4. Shares(pieces, f) \in Seq(Seq(Section)) /\ Len(Shares(pieces, f)) = Len(pieces)
  <2> DEFINE n == Len(pieces)
             ss == Shares(pieces, f)
             S == Seq(Section)
  <2>1. n \in Nat /\ ss \in [1..n -> S]
    BY <1>1, <1>3
  <2> HIDE DEF n, ss, S
  <2>2. ss \in Seq(S) /\ Len(ss) = n
    BY <2>1, FunctionIsSeq
  <2> QED BY <2>2 DEF n, ss, S
<1> QED BY <1>4, FlattenJoins DEF Share

LEMMA ShareAppend ==
    ASSUME NEW pieces \in Seq(Piece), NEW piece \in Piece, NEW f
    PROVE  Share(Append(pieces, piece), f) =
               IF piece.path = f THEN Share(pieces, f) \o piece.parts ELSE Share(pieces, f)
<1> DEFINE new == IF piece.path = f THEN piece.parts ELSE <<>>
           more == Append(pieces, piece)
           u == Append(Shares(pieces, f), new)
<1>1. /\ Len(pieces) \in Nat /\ more \in Seq(Piece) /\ Len(more) = Len(pieces) + 1
      /\ \A i \in 1..Len(pieces) : more[i] = pieces[i]
      /\ more[Len(pieces) + 1] = piece
      /\ DOMAIN pieces = 1..Len(pieces)
  BY AppendProperties, LenProperties
<1>2. new \in Seq(Section)
  <2>1. <<>> \in Seq(Section)
    BY EmptySeq
  <2> QED BY <2>1 DEF Piece
<1>3. /\ Shares(pieces, f) \in Seq(Seq(Section))
      /\ Len(Shares(pieces, f)) = Len(pieces)
      /\ Share(pieces, f) \in Seq(Section)
  BY SharesType
<1> HIDE DEF new, more
<1>4. /\ u \in Seq(Seq(Section)) /\ Len(u) = Len(pieces) + 1
      /\ \A i \in 1..Len(pieces) : u[i] = Shares(pieces, f)[i]
      /\ u[Len(pieces) + 1] = new
  <2> DEFINE ss == Shares(pieces, f)
             S == Seq(Section)
  <2>1. ss \in Seq(S) /\ new \in S
    BY <1>2, <1>3
  <2> HIDE DEF S, ss
  <2>2. /\ Append(ss, new) \in Seq(S) /\ Len(Append(ss, new)) = Len(ss) + 1
        /\ \A i \in 1..Len(ss) : Append(ss, new)[i] = ss[i]
        /\ Append(ss, new)[Len(ss) + 1] = new
    BY <2>1, AppendProperties
  <2> QED BY <1>3, <2>2 DEF S, ss
<1>5. /\ Shares(more, f) \in Seq(Seq(Section))
      /\ Len(Shares(more, f)) = Len(pieces) + 1
  BY <1>1, SharesType
<1>6. /\ DOMAIN more = 1..Len(pieces) + 1
      /\ \A i \in 1..Len(pieces) + 1 : i \in 1..Len(pieces) \/ i = Len(pieces) + 1
      /\ Len(pieces) + 1 \in 1..Len(pieces) + 1
      /\ \A i \in 1..Len(pieces) : i \in 1..Len(pieces) + 1
  BY <1>1, LenProperties
<1>7. \A i \in 1..Len(pieces) : Shares(more, f)[i] = Shares(pieces, f)[i]
  BY <1>1, <1>6 DEF Shares
<1>8. Shares(more, f)[Len(pieces) + 1] = new
  BY <1>1, <1>6 DEF Shares, new
<1> HIDE DEF u
<1>9. \A i \in 1..Len(pieces) + 1 : Shares(more, f)[i] = u[i]
  BY <1>4, <1>6, <1>7, <1>8
<1>10. Shares(more, f) = u
  <2> DEFINE s == Shares(more, f)
             S == Seq(Section)
  <2>1. s \in Seq(S) /\ u \in Seq(S) /\ Len(s) = Len(u) /\ \A i \in 1..Len(s) : s[i] = u[i]
    BY <1>4, <1>5, <1>9
  <2> HIDE DEF s, S
  <2>2. s = u
    BY <2>1, SeqEqual
  <2> QED BY <2>2 DEF s
<1>11. FlattenSeq(u) = FlattenSeq(Shares(pieces, f)) \o new
  BY <1>2, <1>3, FlattenAppend DEF u
<1>12. Share(more, f) = Share(pieces, f) \o new
  BY <1>10, <1>11 DEF Share
<1>13. Share(pieces, f) \o <<>> = Share(pieces, f)
  BY <1>3, ConcatEmptySeq
<1> QED BY <1>12, <1>13 DEF new, more

FirstParts(doc, k) == [i \in 1..k |-> doc.parts[i]]

LEMMA FirstPartsFacts ==
    ASSUME NEW doc \in Doc
    PROVE  /\ FirstParts(doc, 0) = <<>> /\ FirstParts(doc, Len(doc.parts)) = doc.parts
           /\ \A k \in 0..Len(doc.parts) :
                 FirstParts(doc, k) \in Seq(Section) /\ Len(FirstParts(doc, k)) = k
           /\ \A k \in 1..Len(doc.parts) :
                 FirstParts(doc, k - 1) \o <<doc.parts[k]>> = FirstParts(doc, k)
<1> DEFINE n == Len(doc.parts)
<1>1. n \in Nat /\ doc.parts \in Seq(Section) /\ \A i \in 1..n : doc.parts[i] \in Section
  BY DocPieces, ElementOfSeq
<1>2. ASSUME NEW k \in 0..n
      PROVE  FirstParts(doc, k) \in Seq(Section) /\ Len(FirstParts(doc, k)) = k
  <2>1. k \in Nat /\ FirstParts(doc, k) \in [1..k -> Section]
    BY <1>1 DEF FirstParts
  <2> QED BY <2>1, FunctionIsSeq
<1>3. FirstParts(doc, 0) = <<>>
  BY DEF FirstParts
<1>4. FirstParts(doc, n) = doc.parts
  <2>1. n \in 0..n
    BY <1>1
  <2>2. FirstParts(doc, n) \in Seq(Section) /\ Len(FirstParts(doc, n)) = n
    BY <1>2, <2>1
  <2>3. \A i \in 1..n : FirstParts(doc, n)[i] = doc.parts[i]
    BY DEF FirstParts
  <2> QED BY <1>1, <2>2, <2>3, SeqEqual
<1>5. ASSUME NEW k \in 1..n
      PROVE  FirstParts(doc, k - 1) \o <<doc.parts[k]>> = FirstParts(doc, k)
  <2> DEFINE m == k - 1
             s == FirstParts(doc, m)
             e == doc.parts[k]
             t == <<e>>
             u == FirstParts(doc, k)
  <2>1. m \in 0..n /\ k \in 0..n /\ m \in Nat /\ m + 1 = k /\ e \in Section
    BY <1>1
  <2>2. s \in Seq(Section) /\ Len(s) = m /\ u \in Seq(Section) /\ Len(u) = k
    <3> HIDE DEF m
    <3> QED BY <1>2, <2>1
  <2>3. \A i \in 1..m : s[i] = u[i]
    BY <2>1 DEF FirstParts
  <2>4. u[k] = e
    BY <2>1 DEF FirstParts
  <2> HIDE DEF s, e, u
  <2>5. s \o t = Append(s, e)
    BY <2>1, <2>2, AppendIsConcat
  <2>6. /\ Append(s, e) \in Seq(Section) /\ Len(Append(s, e)) = Len(s) + 1
        /\ \A i \in 1..Len(s) : Append(s, e)[i] = s[i]
        /\ Append(s, e)[Len(s) + 1] = e
    BY <2>1, <2>2, AppendProperties
  <2> HIDE DEF m
  <2>7. \A i \in 1..k : i = k \/ i \in 1..m
    BY <2>1
  <2>8. \A i \in 1..k : Append(s, e)[i] = u[i]
    BY <2>1, <2>2, <2>3, <2>4, <2>6, <2>7
  <2>9. Append(s, e) = u
    BY <2>1, <2>2, <2>6, <2>8, SeqEqual
  <2> QED BY <2>5, <2>9 DEF m, s, e, t, u
<1> QED BY <1>2, <1>3, <1>4, <1>5

LEMMA NoFragment ==
    ASSUME NEW pieces \in Seq(Piece), NEW doc
    PROVE  FragmentsUpTo(pieces, doc, 0) = pieces
<1>1. [j \in 1..0 |-> Fragment(doc, j)] = <<>>
  OBVIOUS
<1> QED BY <1>1, ConcatEmptySeq DEF FragmentsUpTo

(* Fragments put in lengthen the share of their own file only.             *)
LEMMA FragmentShares ==
    ASSUME NEW pieces \in Seq(Piece), NEW doc \in Doc, NEW n \in 0..Len(doc.parts)
    PROVE  /\ Tokens(pieces) <= Tokens(FragmentsUpTo(pieces, doc, n))
           /\ Share(pieces, doc.path) = <<>> =>
                 Share(FragmentsUpTo(pieces, doc, n), doc.path) = FirstParts(doc, n)
           /\ \A f : f # doc.path =>
                 Share(FragmentsUpTo(pieces, doc, n), f) = Share(pieces, f)
<1> DEFINE F(k) == FragmentsUpTo(pieces, doc, k)
           Own(k) == Share(pieces, doc.path) = <<>> => Share(F(k), doc.path) = FirstParts(doc, k)
           Others(k) == \A f : f # doc.path => Share(F(k), f) = Share(pieces, f)
           T == {k \in 0..n : Tokens(pieces) <= Tokens(F(k)) /\ Own(k) /\ Others(k)}
<1>1. n \in Nat /\ Len(doc.parts) \in Nat
  BY DocPieces
<1>2. F(0) = pieces
  BY NoFragment
<1>3. Tokens(pieces) \in Nat
  BY TokensSum
<1>4. 0 \in T
  <2>1. 0 \in 0..n /\ Tokens(pieces) <= Tokens(F(0))
    BY <1>1, <1>2, <1>3
  <2>2. Own(0)
    BY <1>2, FirstPartsFacts
  <2>3. Others(0)
    BY <1>2
  <2> HIDE DEF F, Own, Others
  <2> QED BY <2>1, <2>2, <2>3
<1>5. ASSUME NEW k \in 1..n, k - 1 \in T PROVE k \in T
  <2> DEFINE before == F(k - 1)
             piece == Fragment(doc, k)
  <2>1. k \in 1..Len(doc.parts) /\ k - 1 \in 0..Len(doc.parts) /\ k \in 0..n
    BY <1>1
  <2>2. before \in Seq(Piece)
    <3> DEFINE m == k - 1
    <3>1. m \in 0..Len(doc.parts)
      BY <2>1
    <3> HIDE DEF m
    <3>2. FragmentsUpTo(pieces, doc, m) \in Seq(Piece)
      BY <3>1, FragmentsType
    <3> QED BY <3>2 DEF m
  <2>3. piece \in Piece /\ piece.path = doc.path /\ piece.parts = <<doc.parts[k]>>
    BY <2>1, DocPieces DEF Fragment
  <2>4. F(k) = Append(before, piece)
    BY <2>1, NextFragment
  <2>5. Tokens(pieces) <= Tokens(before) /\ Own(k - 1) /\ Others(k - 1)
    BY <1>5
  <2> HIDE DEF piece, before
  <2>6. Tokens(pieces) <= Tokens(F(k))
    <3>1. Tokens(F(k)) = Tokens(before) + PieceTokens(piece)
      BY <2>2, <2>3, <2>4, TokensAppend
    <3>2. PieceTokens(piece) \in Nat /\ Tokens(before) \in Nat
      BY <2>2, <2>3, PieceTokensNat, TokensSum
    <3> HIDE DEF F
    <3> QED BY <1>3, <2>5, <3>1, <3>2
  <2>7. ASSUME NEW f
        PROVE  Share(F(k), f) = IF doc.path = f THEN Share(before, f) \o <<doc.parts[k]>>
                                                ELSE Share(before, f)
    <3>1. Share(Append(before, piece), f) =
              IF piece.path = f THEN Share(before, f) \o piece.parts ELSE Share(before, f)
      BY <2>2, <2>3, ShareAppend
    <3> HIDE DEF F
    <3> QED BY <2>3, <2>4, <3>1
  <2>8. Own(k)
    <3>1. FirstParts(doc, k - 1) \o <<doc.parts[k]>> = FirstParts(doc, k)
      BY <2>1, FirstPartsFacts
    <3>2. Share(pieces, doc.path) = <<>> => Share(before, doc.path) = FirstParts(doc, k - 1)
      BY <2>5 DEF before
    <3>3. Share(F(k), doc.path) = Share(before, doc.path) \o <<doc.parts[k]>>
      BY <2>7
    <3> HIDE DEF F
    <3> QED BY <3>1, <3>2, <3>3
  <2>9. Others(k)
    <3>1. \A f : f # doc.path => Share(before, f) = Share(pieces, f)
      BY <2>5 DEF before
    <3>2. \A f : f # doc.path => Share(F(k), f) = Share(before, f)
      BY <2>7
    <3> HIDE DEF F
    <3> QED BY <3>1, <3>2
  <2> HIDE DEF F, Own, Others
  <2> QED BY <2>1, <2>6, <2>8, <2>9
<1>6. n \in T
  <2>1. n \in 0..n
    BY <1>1
  <2> HIDE DEF T
  <2> QED BY <1>1, <1>4, <1>5, <2>1, InductionUpTo
<1> QED BY <1>6

(* Of a document the pieces have the first sections up to one that no      *)
(* longer fits.                                                            *)
CutAt(pieces, doc, budget) ==
    \E k \in 0..Len(doc.parts) :
        /\ Share(pieces, doc.path) = FirstParts(doc, k)
        /\ k < Len(doc.parts) => ~Fits(pieces, Fragment(doc, k + 1), budget)

(* What does not fit never fits again.                                     *)
LEMMA StillOut ==
    ASSUME NEW pieces \in Seq(Piece), NEW more \in Seq(Piece), NEW piece \in Piece,
           NEW budget \in Nat, Tokens(pieces) <= Tokens(more), ~Fits(pieces, piece, budget)
    PROVE  ~Fits(more, piece, budget)
<1>1. Tokens(pieces) \in Nat /\ Tokens(more) \in Nat /\ PieceTokens(piece) \in Nat
  BY TokensSum, PieceTokensNat
<1>2. /\ Tokens(Append(pieces, piece)) = Tokens(pieces) + PieceTokens(piece)
      /\ Tokens(Append(more, piece)) = Tokens(more) + PieceTokens(piece)
  BY TokensAppend
<1>3. ~(Tokens(pieces) + PieceTokens(piece) <= budget)
  BY <1>2 DEF Fits
<1>4. ~(Tokens(more) + PieceTokens(piece) <= budget)
  BY <1>1, <1>3
<1> QED BY <1>2, <1>4 DEF Fits

LEMMA CutKept ==
    ASSUME NEW pieces \in Seq(Piece), NEW more \in Seq(Piece), NEW doc \in Doc,
           NEW budget \in Nat, Tokens(pieces) <= Tokens(more),
           Share(more, doc.path) = Share(pieces, doc.path), CutAt(pieces, doc, budget)
    PROVE  CutAt(more, doc, budget)
<1>1. PICK k \in 0..Len(doc.parts) :
        /\ Share(pieces, doc.path) = FirstParts(doc, k)
        /\ k < Len(doc.parts) => ~Fits(pieces, Fragment(doc, k + 1), budget)
  BY DEF CutAt
<1>2. ASSUME k < Len(doc.parts) PROVE ~Fits(more, Fragment(doc, k + 1), budget)
  <2>1. k + 1 \in 1..Len(doc.parts)
    BY <1>2, DocPieces
  <2>2. Fragment(doc, k + 1) \in Piece
    BY <2>1, DocPieces
  <2> QED BY <1>1, <1>2, <2>2, StillOut
<1> QED BY <1>1, <1>2 DEF CutAt

LEMMA AddedCut ==
    ASSUME NEW pieces \in Seq(Piece), NEW doc \in Doc, NEW budget \in Nat
    PROVE  /\ Added(pieces, doc, budget) \in Seq(Piece)
           /\ Tokens(pieces) <= Tokens(Added(pieces, doc, budget))
           /\ \A f : f # doc.path => Share(Added(pieces, doc, budget), f) = Share(pieces, f)
           /\ Share(pieces, doc.path) = <<>> => CutAt(Added(pieces, doc, budget), doc, budget)
<1> DEFINE n == Len(doc.parts)
           whole == Whole(doc)
<1>1. n \in Nat /\ whole \in Piece /\ whole.path = doc.path /\ whole.parts = doc.parts
  BY DocPieces DEF Whole
<1>2. doc.parts \in Seq(Section)
  BY DocPieces
<1>3. CASE Fits(pieces, whole, budget)
  <2>1. Added(pieces, doc, budget) = Append(pieces, whole)
    BY <1>3 DEF Added
  <2> HIDE DEF whole
  <2>2. Append(pieces, whole) \in Seq(Piece)
    BY <1>1, AppendProperties
  <2>3. Tokens(pieces) <= Tokens(Append(pieces, whole))
    <3>1. Tokens(Append(pieces, whole)) = Tokens(pieces) + PieceTokens(whole)
      BY <1>1, TokensAppend
    <3>2. Tokens(pieces) \in Nat /\ PieceTokens(whole) \in Nat
      BY <1>1, TokensSum, PieceTokensNat
    <3> QED BY <3>1, <3>2
  <2>4. \A f : Share(Append(pieces, whole), f) =
                  IF doc.path = f THEN Share(pieces, f) \o doc.parts ELSE Share(pieces, f)
    <3>1. ASSUME NEW f
          PROVE  Share(Append(pieces, whole), f) =
                   IF whole.path = f THEN Share(pieces, f) \o whole.parts ELSE Share(pieces, f)
      BY <1>1, ShareAppend
    <3> QED BY <1>1, <3>1
  <2>5. ASSUME Share(pieces, doc.path) = <<>>
        PROVE  CutAt(Append(pieces, whole), doc, budget)
    <3>1. Share(Append(pieces, whole), doc.path) = <<>> \o doc.parts
      BY <2>4, <2>5
    <3>2. <<>> \o doc.parts = doc.parts
      BY <1>2, ConcatEmptySeq
    <3>3. FirstParts(doc, n) = doc.parts
      BY FirstPartsFacts
    <3>4. n \in 0..n /\ ~(n < n)
      BY <1>1
    <3> QED BY <3>1, <3>2, <3>3, <3>4 DEF CutAt
  <2> QED BY <2>1, <2>2, <2>3, <2>4, <2>5
<1>4. CASE ~Fits(pieces, whole, budget)
  <2>1. Added(pieces, doc, budget) = WithFragments(pieces, doc, budget)
    BY <1>4 DEF Added
  <2>2. PICK k \in 0..n :
           /\ WithFragments(pieces, doc, budget) = FragmentsUpTo(pieces, doc, k)
           /\ k < n => ~Fits(FragmentsUpTo(pieces, doc, k), Fragment(doc, k + 1), budget)
    BY FragmentsFit
  <2>3. FragmentsUpTo(pieces, doc, k) \in Seq(Piece)
    BY FragmentsType
  <2>4. /\ Tokens(pieces) <= Tokens(FragmentsUpTo(pieces, doc, k))
        /\ Share(pieces, doc.path) = <<>> =>
              Share(FragmentsUpTo(pieces, doc, k), doc.path) = FirstParts(doc, k)
        /\ \A f : f # doc.path =>
              Share(FragmentsUpTo(pieces, doc, k), f) = Share(pieces, f)
    BY FragmentShares
  <2>5. Share(pieces, doc.path) = <<>> =>
           CutAt(FragmentsUpTo(pieces, doc, k), doc, budget)
    BY <2>2, <2>4 DEF CutAt
  <2> QED BY <2>1, <2>2, <2>3, <2>4, <2>5
<1> QED BY <1>3, <1>4

DistinctPaths(docs) ==
    \A i, j \in 1..Len(docs) : docs[i].path = docs[j].path => i = j

LEMMA NothingShared == \A f : Share(<<>>, f) = <<>>
<1>1. ASSUME NEW f PROVE Share(<<>>, f) = <<>>
  <2>1. <<>> \in Seq(Piece) /\ Len(<<>>) = 0
    BY EmptySeq
  <2> DEFINE ss == Shares(<<>>, f)
  <2>2. ss \in Seq(Seq(Section)) /\ Len(ss) = 0
    BY <2>1, SharesType
  <2> HIDE DEF ss
  <2>3. ss = <<>>
    BY <2>2, EmptySeq
  <2>4. FlattenSeq(ss) = <<>>
    BY <2>3, Zenon DEF FlattenSeq
  <2> QED BY <2>4 DEF Share, ss
<1> QED BY <1>1

LEMMA EmitCuts ==
    ASSUME NEW docs \in Seq(Doc), DistinctPaths(docs), NEW budget \in Nat
    PROVE  /\ Emit(docs, budget) \in Seq(Piece)
           /\ \A j \in 1..Len(docs) : CutAt(Emit(docs, budget), docs[j], budget)
<1> DEFINE n == Len(docs)
<1>1. n \in Nat /\ \A i \in 1..n : docs[i] \in Doc
  BY LenProperties, ElementOfSeq
<1>2. PICK f : /\ f[0] = <<>>
               /\ \A i \in 1..n : f[i] = Added(f[i - 1], docs[i], budget)
               /\ Emit(docs, budget) = f[n]
  BY <1>1, EmitRecursion
<1> DEFINE Done(i) == \A j \in 1..n : j <= i => CutAt(f[i], docs[j], budget)
           ToDo(i) == \A j \in 1..n : j > i => Share(f[i], docs[j].path) = <<>>
           T == {i \in 0..n : f[i] \in Seq(Piece) /\ Done(i) /\ ToDo(i)}
<1>3. 0 \in T
  <2>1. 0 \in 0..n /\ \A j \in 1..n : ~(j <= 0)
    BY <1>1
  <2>2. f[0] \in Seq(Piece)
    BY <1>2, EmptySeq
  <2>3. ToDo(0)
    BY <1>2, NothingShared
  <2> HIDE DEF ToDo
  <2> QED BY <2>1, <2>2, <2>3
<1>4. ASSUME NEW i \in 1..n, i - 1 \in T PROVE i \in T
  <2> DEFINE before == f[i - 1]
             after == f[i]
             doc == docs[i]
  <2>1. before \in Seq(Piece) /\ doc \in Doc /\ i \in 0..n
    BY <1>1, <1>4
  <2>2. after = Added(before, doc, budget)
    BY <1>2
  <2>3. Done(i - 1) /\ ToDo(i - 1)
    BY <1>4
  <2> HIDE DEF before, after
  <2>4. /\ after \in Seq(Piece)
        /\ Tokens(before) <= Tokens(after)
        /\ \A g : g # doc.path => Share(after, g) = Share(before, g)
        /\ Share(before, doc.path) = <<>> => CutAt(after, doc, budget)
    <3> HIDE DEF doc
    <3> QED BY <2>1, <2>2, AddedCut
  <2>5. \A j \in 1..n : j # i => docs[j].path # doc.path
    BY DEF DistinctPaths
  <2>6. ASSUME NEW j \in 1..n, j > i PROVE Share(after, docs[j].path) = <<>>
    <3>1. j > i - 1 /\ j # i
      BY <1>1, <2>6
    <3>2. Share(before, docs[j].path) = <<>>
      BY <2>3, <3>1 DEF before
    <3> QED BY <2>4, <2>5, <3>1, <3>2
  <2>7. ASSUME NEW j \in 1..n, j <= i PROVE CutAt(after, docs[j], budget)
    <3>1. CASE j = i
      <4>1. i > i - 1
        BY <1>1
      <4>2. Share(before, doc.path) = <<>>
        BY <2>3, <4>1 DEF before
      <4> QED BY <2>4, <3>1, <4>2
    <3>2. CASE j # i
      <4>1. j <= i - 1
        BY <1>1, <2>7, <3>2
      <4>2. CutAt(before, docs[j], budget)
        BY <2>3, <4>1 DEF before
      <4>3. Share(after, docs[j].path) = Share(before, docs[j].path)
        BY <2>4, <2>5, <3>2
      <4> QED BY <1>1, <2>1, <2>4, <4>2, <4>3, CutKept
    <3> QED BY <3>1, <3>2
  <2>8. Done(i) /\ ToDo(i)
    BY <2>6, <2>7 DEF after
  <2>9. f[i] \in Seq(Piece)
    BY <2>4 DEF after
  <2> HIDE DEF Done, ToDo
  <2> QED BY <2>1, <2>8, <2>9
<1>5. n \in T
  <2>1. n \in 0..n
    BY <1>1
  <2> HIDE DEF T, n
  <2> QED BY <1>1, <1>3, <1>4, <2>1, InductionUpTo
<1>6. \A j \in 1..n : j <= n
  BY <1>1
<1> QED BY <1>2, <1>5, <1>6

LEMMA CutTruncates ==
    ASSUME NEW pieces \in Seq(Piece), NEW doc \in Doc, NEW budget,
           CutAt(pieces, doc, budget)
    PROVE  /\ IsPrefix(Share(pieces, doc.path), doc.parts)
           /\ Share(pieces, doc.path) # doc.parts =>
                 ~Fits(pieces, Fragment(doc, Len(Share(pieces, doc.path)) + 1), budget)
<1> DEFINE n == Len(doc.parts)
<1>1. PICK k \in 0..n :
        /\ Share(pieces, doc.path) = FirstParts(doc, k)
        /\ k < n => ~Fits(pieces, Fragment(doc, k + 1), budget)
  BY DEF CutAt
<1>2. n \in Nat /\ doc.parts \in Seq(Section) /\ k \in Nat /\ k <= n
  BY DocPieces
<1> DEFINE kept == FirstParts(doc, k)
<1>3. kept \in Seq(Section) /\ Len(kept) = k
  BY FirstPartsFacts
<1>4. \A i \in 1..k : kept[i] = doc.parts[i]
  BY DEF FirstParts
<1>5. k = n => kept = doc.parts
  BY FirstPartsFacts
<1> HIDE DEF kept
<1>6. IsPrefix(kept, doc.parts)
  <2>1. SubSeq(kept, 1, k) = SubSeq(doc.parts, 1, k)
    <3> DEFINE m == 1
               s == SubSeq(kept, m, k)
               t == SubSeq(doc.parts, m, k)
    <3>1. /\ \A i \in m..k : kept[i] \in Section /\ doc.parts[i] \in Section
          /\ m \in Int /\ k \in Int /\ (IF m <= k THEN k - m + 1 ELSE 0) = k
      BY <1>2, <1>3, ElementOfSeq
    <3>2. \A i \in 1..k : i \in 1..k - m + 1 /\ m + i - 1 = i
      BY <1>2
    <3> HIDE DEF m
    <3>3. /\ SubSeq(kept, m, k) \in Seq(Section)
          /\ Len(SubSeq(kept, m, k)) = IF m <= k THEN k - m + 1 ELSE 0
          /\ \A i \in 1..k - m + 1 : SubSeq(kept, m, k)[i] = kept[m + i - 1]
      BY <3>1, SubSeqProperties
    <3>4. /\ SubSeq(doc.parts, m, k) \in Seq(Section)
          /\ Len(SubSeq(doc.parts, m, k)) = IF m <= k THEN k - m + 1 ELSE 0
          /\ \A i \in 1..k - m + 1 : SubSeq(doc.parts, m, k)[i] = doc.parts[m + i - 1]
      BY <3>1, SubSeqProperties
    <3> HIDE DEF s, t
    <3>5. /\ s \in Seq(Section) /\ t \in Seq(Section) /\ Len(s) = k /\ Len(t) = k
          /\ \A i \in 1..k : s[i] = t[i]
      BY <1>4, <3>1, <3>2, <3>3, <3>4 DEF s, t
    <3>6. s = t
      BY <3>5, SeqEqual
    <3> QED BY <3>6 DEF s, t, m
  <2> QED BY <1>2, <1>3, <2>1 DEF IsPrefix
<1>7. k # n => k < n
  BY <1>2
<1> QED BY <1>1, <1>3, <1>5, <1>6, <1>7 DEF kept

LEMMA SelectedDistinct ==
    ASSUME NEW docs \in Seq(Doc), NEW K,
           \A i, j \in K \cap 1..Len(docs) : i < j => docs[i].path # docs[j].path
    PROVE  DistinctPaths(At(docs, K))
<1> DEFINE r == At(docs, K)
           n == Len(docs)
<1>1. PICK g : Enumerates(g, r, docs, K, n)
  BY AtEnumeration
<1>2. r \in Seq(Doc) /\ Len(r) \in Nat
  BY AtEnumeration, LenProperties
<1> HIDE DEF r
<1>3. \A k \in 1..Len(r) : g[k] \in K \cap 1..n /\ r[k] = docs[g[k]]
  BY <1>1 DEF Enumerates
<1>4. \A j, k \in 1..Len(r) : j < k => g[j] < g[k]
  BY <1>1 DEF Enumerates
<1>5. ASSUME NEW j \in 1..Len(r), NEW k \in 1..Len(r), j < k
      PROVE  r[j].path # r[k].path
  BY <1>3, <1>4, <1>5
<1>6. \A j, k \in 1..Len(r) : j = k \/ j < k \/ k < j
  BY <1>2
<1>7. \A j, k \in 1..Len(r) : r[j].path = r[k].path => j = k
  BY <1>5, <1>6
<1> QED BY <1>7 DEF DistinctPaths, r

LEMMA FirstPlacesDistinct ==
    ASSUME NEW docs \in Seq(Doc)
    PROVE  DistinctPaths(FirstPlaces(docs))
<1> DEFINE K == {i \in DOMAIN docs : \A j \in 1..(i - 1) : docs[j].path # docs[i].path}
<1>1. DOMAIN docs = 1..Len(docs) /\ Len(docs) \in Nat
  BY LenProperties
<1>2. ASSUME NEW i \in K \cap 1..Len(docs), NEW j \in K \cap 1..Len(docs), i < j
      PROVE  docs[i].path # docs[j].path
  <2>1. i \in 1..(j - 1)
    BY <1>1, <1>2
  <2> QED BY <2>1
<1>3. FirstPlaces(docs) = At(docs, K)
  BY DEF FirstPlaces
<1> HIDE DEF K
<1> QED BY <1>2, <1>3, SelectedDistinct

(* An order of a finite set names each of its elements once.               *)
LEMMA OrderFacts ==
    ASSUME NEW S, IsFiniteSet(S), NEW s \in SetToSeqs(S)
    PROVE  /\ s \in Seq(S)
           /\ \A i, j \in 1..Len(s) : s[i] = s[j] => i = j
           /\ \A x \in S : \E i \in 1..Len(s) : s[i] = x
<1> DEFINE n == Cardinality(S)
           D == 1..n
<1>1. n \in Nat
  BY FS_CardinalityType
<1>2. s \in [D -> S] /\ \A i, j \in D : i # j => s[i] # s[j]
  BY DEF SetToSeqs
<1>3. s \in Seq(S) /\ Len(s) = n
  <2> HIDE DEF n
  <2> QED BY <1>1, <1>2, FunctionIsSeq
<1>4. s \in Injection(D, S)
  BY <1>2 DEF Injection, IsInjective
<1>5. Cardinality(D) = Cardinality(S)
  <2> DEFINE a == 1
  <2>1. a \in Int /\ n \in Int /\ (IF a > n THEN 0 ELSE n - a + 1) = n
    BY <1>1
  <2> HIDE DEF a, n
  <2>2. Cardinality(a..n) = IF a > n THEN 0 ELSE n - a + 1
    BY <2>1, FS_Interval
  <2> QED BY <2>1, <2>2 DEF a, n
<1> HIDE DEF n, D
<1>6. s \in Surjection(D, S)
  BY <1>4, <1>5, FS_Injection
<1>7. \A x \in S : \E i \in D : s[i] = x
  BY <1>6 DEF Surjection
<1> QED BY <1>2, <1>3, <1>7 DEF D

LEMMA RankingsOrder ==
    ASSUME NEW docs \in Seq(Doc), DistinctPaths(docs), NEW ranking \in Rankings(docs)
    PROVE  /\ DistinctPaths(ranking)
           /\ \A i \in 1..Len(docs) : \E k \in 1..Len(ranking) : ranking[k] = docs[i]
<1> DEFINE n == Len(docs)
           indexed == {f \in {docs[i].path : i \in DOMAIN docs} : indexedAt[f] > 0}
           Of(f) == CHOOSE d \in ToSet(docs) : d.path = f
           Rest(set) == Select(docs, LAMBDA d : d.path \notin set)
           Front1(order) == [i \in DOMAIN order |-> Of(order[i])]
<1>1. /\ n \in Nat /\ DOMAIN docs = 1..n
      /\ \A i \in 1..n : docs[i] \in Doc /\ docs[i].path \in Files
  BY LenProperties, ElementOfSeq, DocPieces
<1>2. ASSUME NEW i \in 1..n PROVE Of(docs[i].path) = docs[i]
  <2>1. docs[i] \in ToSet(docs)
    BY <1>1 DEF ToSet
  <2>2. \A d \in ToSet(docs) : d.path = docs[i].path => d = docs[i]
    BY <1>1 DEF ToSet, DistinctPaths
  <2> QED BY <2>1, <2>2
<1>3. indexed \subseteq Files /\ \A f \in indexed : \E i \in 1..n : docs[i].path = f
  BY <1>1
<1> DEFINE Orders(set) == {Front1(order) \o Rest(set) : order \in SetToSeqs(set)}
<1>4. PICK ranked \in SUBSET indexed : ranking \in Orders(ranked)
  <2>1. Rankings(docs) = UNION {Orders(set) : set \in SUBSET indexed}
    BY DEF Rankings
  <2> HIDE DEF Orders, indexed
  <2> QED BY <2>1
<1>5. PICK s \in SetToSeqs(ranked) : ranking = Front1(s) \o Rest(ranked)
  <2> HIDE DEF Front1, Rest
  <2> QED BY <1>4
<1>6. IsFiniteSet(ranked)
  BY <1>3, FilesFinite, FS_Subset
<1>7. /\ s \in Seq(ranked)
      /\ \A i, j \in 1..Len(s) : s[i] = s[j] => i = j
      /\ \A x \in ranked : \E i \in 1..Len(s) : s[i] = x
  BY <1>6, OrderFacts, ZenonT(40)
<1> DEFINE K == {i \in DOMAIN docs : docs[i].path \notin ranked}
           first == Front1(s)
           rest == At(docs, K)
           m == Len(s)
<1>8. Rest(ranked) = rest
  BY DEF Select
<1>9. m \in Nat /\ DOMAIN s = 1..m /\ \A i \in 1..m : s[i] \in ranked
  BY <1>7, LenProperties, ElementOfSeq
<1>10. ASSUME NEW i \in 1..m PROVE Of(s[i]) \in Doc /\ Of(s[i]).path = s[i]
  <2>1. PICK j \in 1..n : docs[j].path = s[i]
    BY <1>3, <1>9
  <2>2. Of(s[i]) = docs[j]
    BY <1>2, <2>1
  <2> HIDE DEF Of
  <2> QED BY <1>1, <2>1, <2>2
<1> HIDE DEF Of
<1>11. /\ first \in Seq(Doc) /\ Len(first) = m
       /\ \A i \in 1..m : first[i] = Of(s[i])
  <2>1. first \in [1..m -> Doc] /\ \A i \in 1..m : first[i] = Of(s[i])
    BY <1>9, <1>10
  <2> HIDE DEF first, m
  <2> QED BY <1>9, <2>1, FunctionIsSeq
<1>12. /\ rest \in Seq(Doc) /\ DOMAIN rest = 1..Len(rest)
       /\ \A k \in 1..Len(rest) : \E i \in K \cap DOMAIN docs : rest[k] = docs[i]
       /\ \A i \in K \cap DOMAIN docs : \E k \in 1..Len(rest) : rest[k] = docs[i]
  <2> HIDE DEF K
  <2>1. /\ At(docs, K) \in Seq(Doc)
        /\ DOMAIN At(docs, K) = 1..Len(At(docs, K))
        /\ \A k \in DOMAIN At(docs, K) : \E i \in K \cap DOMAIN docs : At(docs, K)[k] = docs[i]
        /\ \A i \in K \cap DOMAIN docs : \E k \in DOMAIN At(docs, K) : At(docs, K)[k] = docs[i]
    BY AtElements
  <2> QED BY <2>1
<1>13. DistinctPaths(rest)
  <2>1. \A i, j \in K \cap 1..n : i < j => docs[i].path # docs[j].path
    BY DEF DistinctPaths
  <2> HIDE DEF K, n
  <2> QED BY <2>1, SelectedDistinct DEF n
<1>14. ranking = first \o rest
  BY <1>5, <1>8
<1>15. \A k \in 1..Len(rest) : rest[k].path \notin ranked
  BY <1>12
<1> DEFINE l == Len(rest)
<1> HIDE DEF first, rest, m
<1>16. l \in Nat
  BY <1>12, LenProperties
<1>17. /\ ranking \in Seq(Doc) /\ Len(ranking) = m + l
       /\ \A i \in 1..m + l : ranking[i] = IF i <= m THEN first[i] ELSE rest[i - m]
  <2>1. /\ first \o rest \in Seq(Doc) /\ Len(first \o rest) = Len(first) + Len(rest)
        /\ \A i \in 1..Len(first) + Len(rest) :
              (first \o rest)[i] = IF i <= Len(first) THEN first[i] ELSE rest[i - Len(first)]
    <3>1. first \in Seq(Doc) /\ rest \in Seq(Doc)
      BY <1>11, <1>12
    <3> QED BY <3>1, ConcatProperties
  <2> QED BY <1>11, <1>14, <2>1
<1> HIDE DEF l
<1>18. ASSUME NEW i \in 1..m + l
       PROVE  \/ i \in 1..m /\ ranking[i].path = s[i]
              \/ i - m \in 1..l /\ ranking[i] = rest[i - m]
  <2>1. CASE i <= m
    <3>1. i \in 1..m
      BY <1>9, <2>1
    <3> QED BY <1>10, <1>11, <1>17, <2>1, <3>1
  <2>2. CASE ~(i <= m)
    <3>1. i - m \in 1..l
      BY <1>9, <1>16, <2>2
    <3> QED BY <1>17, <2>2, <3>1
  <2> QED BY <2>1, <2>2
<1>19. ASSUME NEW i \in 1..m + l, NEW j \in 1..m + l, ranking[i].path = ranking[j].path
       PROVE  i = j
  <2>1. CASE i \in 1..m /\ ranking[i].path = s[i] /\ j \in 1..m /\ ranking[j].path = s[j]
    BY <1>7, <1>19, <2>1 DEF m
  <2>2. CASE i \in 1..m /\ ranking[i].path = s[i] /\ j - m \in 1..l /\ ranking[j] = rest[j - m]
    BY <1>9, <1>15, <1>19, <2>2 DEF l
  <2>3. CASE j \in 1..m /\ ranking[j].path = s[j] /\ i - m \in 1..l /\ ranking[i] = rest[i - m]
    BY <1>9, <1>15, <1>19, <2>3 DEF l
  <2>4. CASE /\ i - m \in 1..l /\ ranking[i] = rest[i - m]
             /\ j - m \in 1..l /\ ranking[j] = rest[j - m]
    <3>1. i - m = j - m
      BY <1>13, <1>19, <2>4 DEF DistinctPaths, l
    <3> QED BY <1>9, <1>16, <3>1
  <2> QED BY <1>18, <2>1, <2>2, <2>3, <2>4
<1>20. ASSUME NEW i \in 1..n PROVE \E k \in 1..m + l : ranking[k] = docs[i]
  <2>1. CASE docs[i].path \in ranked
    <3>1. PICK k \in 1..m : s[k] = docs[i].path
      BY <1>7, <2>1 DEF m
    <3>2. first[k] = docs[i]
      BY <1>2, <1>11, <3>1
    <3>3. k \in 1..m + l /\ k <= m
      BY <1>9, <1>16
    <3> QED BY <1>17, <3>2, <3>3
  <2>2. CASE docs[i].path \notin ranked
    <3>1. PICK k \in 1..l : rest[k] = docs[i]
      BY <1>1, <1>12, <2>2 DEF l
    <3>2. k + m \in 1..m + l /\ ~(k + m <= m) /\ (k + m) - m = k
      BY <1>9, <1>16
    <3>3. ranking[k + m] = rest[(k + m) - m]
      BY <1>17, <3>2
    <3>4. ranking[k + m] = rest[k]
      BY <3>2, <3>3
    <3> QED BY <3>1, <3>2, <3>4
  <2> QED BY <2>1, <2>2
<1> QED BY <1>17, <1>19, <1>20 DEF DistinctPaths

-----------------------------------------------------------------------------
(* Truncation.                                                             *)

DocumentsDistinct == DistinctPaths(documents)

LEMMA DistinctHolds == Spec => []DocumentsDistinct
<1>1. Init => DocumentsDistinct
  <2>1. Len(<<>>) = 0
    BY EmptySeq
  <2> QED BY <2>1 DEF Init, DocumentsDistinct, DistinctPaths
<1>2. Types /\ DocumentsDistinct /\ [Next]_vars => DocumentsDistinct'
  <2> SUFFICES ASSUME Types, DocumentsDistinct, [Next]_vars
               PROVE  DocumentsDistinct'
    OBVIOUS
  <2>1. CASE UNCHANGED documents
    BY <2>1 DEF DocumentsDistinct, DistinctPaths
  <2>2. CASE Progress /\ Gather
    <3>1. CASE UNCHANGED documents
      BY <2>1, <3>1
    <3>2. CASE /\ \A i \in DOMAIN found : texts[i] # Unread /\ Legible(texts[i])
               /\ documents' = FirstPlaces(documents \o ReadDocuments(Top.pack))
      <4> DEFINE docs == documents \o ReadDocuments(Top.pack)
      <4>1. ReadDocuments(Top.pack) \in Seq(Doc)
        BY <2>2, <3>2, ReadDocumentsType DEF Gather
      <4>2. docs \in Seq(Doc)
        BY <4>1, ConcatProperties DEF Types, ResultTypes
      <4> HIDE DEF docs
      <4>3. DistinctPaths(FirstPlaces(docs))
        BY <4>2, FirstPlacesDistinct
      <4>4. DistinctPaths(documents')
        BY <3>2, <4>3 DEF docs
      <4> QED BY <4>4 DEF DocumentsDistinct, DistinctPaths
    <3> QED BY <2>2, <3>1, <3>2, GatherCases
  <2>3. CASE Progress /\ ~Gather
    <3>1. UNCHANGED documents
      BY <2>3 DEF Progress, Validation, Resolution, ValidateFrom, ValidateChild,
                  ValidateLeave, ValidateDone, Enter, Read, Include, Query, Stat, Enforce
    <3> QED BY <2>1, <3>1
  <2>4. CASE \E p \in Packs, isStrict, isChecked \in BOOLEAN : Request(p, isStrict, isChecked)
    <3>1. documents' = <<>> /\ Len(<<>>) = 0
      BY <2>4, EmptySeq DEF Request
    <3> QED BY <3>1 DEF DocumentsDistinct, DistinctPaths
  <2>5. CASE CallKept
    BY <2>1, <2>5 DEF CallKept
  <2> QED BY <2>2, <2>3, <2>4, <2>5, StepCases
<1> QED BY <1>1, <1>2, TypesHold, PTL DEF Spec

LEMMA EnforceTruncates ==
    ASSUME Types, DocumentsDistinct, Enforce, outcome' = "truncated"
    PROVE  \A d \in ToSet(documents) : CutAt(emitted', d, Budget) /\ emitted' \in Seq(Piece)
<1>1. documents \in Seq(Doc) /\ Budget \in Nat
  BY SetupFacts DEF Types, EnvTypes, AskedTypes, ResultTypes, Budget
<1>2. PICK docs \in Rankings(documents) : emitted' = Emit(docs, Budget)
  BY DEF Enforce, End
<1>3. docs \in Seq(Doc)
  BY <1>1, RankingsType
<1>4. /\ DistinctPaths(docs)
      /\ \A i \in 1..Len(documents) : \E k \in 1..Len(docs) : docs[k] = documents[i]
  BY <1>1, RankingsOrder DEF DocumentsDistinct
<1>5. /\ Emit(docs, Budget) \in Seq(Piece)
      /\ \A j \in 1..Len(docs) : CutAt(Emit(docs, Budget), docs[j], Budget)
  BY <1>1, <1>3, <1>4, EmitCuts
<1>6. DOMAIN documents = 1..Len(documents)
  BY <1>1, LenProperties
<1>7. ASSUME NEW d \in ToSet(documents) PROVE CutAt(emitted', d, Budget)
  <2>1. PICK i \in 1..Len(documents) : documents[i] = d
    BY <1>6 DEF ToSet
  <2>2. PICK k \in 1..Len(docs) : docs[k] = d
    BY <1>4, <2>1
  <2> QED BY <1>2, <1>5, <2>2
<1> QED BY <1>2, <1>5, <1>7

(* What the content has of every file, once truncated.                     *)
Truncation ==
    pc = "done" /\ outcome = "truncated" =>
        \A d \in ToSet(documents) : CutAt(emitted, d, Budget)

LEMMA TruncationHolds == Spec => []Truncation
<1>1. Init => Truncation
  BY DEF Init, Truncation
<1>2. Types /\ DocumentsDistinct /\ Truncation /\ [Next]_vars => Truncation'
  <2> SUFFICES ASSUME Types, DocumentsDistinct, Truncation, [Next]_vars,
                      (pc = "done" /\ outcome = "truncated")'
               PROVE  (\A d \in ToSet(documents) : CutAt(emitted, d, Budget))'
    BY DEF Truncation
  <2>1. ASSUME NEW d PROVE CutAt(emitted, d, Budget)' <=> CutAt(emitted', d, Budget')
    BY DEF CutAt, Share, Shares, Fits, Tokens, SizeOf, Fragment, FirstParts
  <2>2. ToSet(documents)' = ToSet(documents')
    BY DEF ToSet
  <2>3. CASE Progress /\ Enforce
    <3>1. Budget' = Budget /\ UNCHANGED documents
      BY <2>3 DEF Progress, env, asked, Budget, Enforce
    <3>2. \A d \in ToSet(documents) : CutAt(emitted', d, Budget)
      BY <2>3, EnforceTruncates
    <3> QED BY <2>1, <2>2, <3>1, <3>2
  <2>4. CASE Progress /\ ~Enforce
    BY <2>4, OnlyEnforceAnswers
  <2>5. CASE \E p \in Packs, isStrict, isChecked \in BOOLEAN : Request(p, isStrict, isChecked)
    BY <2>5 DEF Request, Goto
  <2>6. CASE CallKept
    <3>1. UNCHANGED <<pc, outcome, documents, emitted>> /\ Budget' = Budget
      BY <2>6 DEF CallKept, Budget, asked
    <3>2. \A d \in ToSet(documents) : CutAt(emitted, d, Budget)
      BY <3>1 DEF Truncation
    <3> QED BY <2>1, <2>2, <3>1, <3>2
  <2> QED BY <2>3, <2>4, <2>5, <2>6, StepCases
<1> QED BY <1>1, <1>2, TypesHold, DistinctHolds, PTL DEF Spec

(* A truncated pack keeps of every file a prefix of complete sections, and *)
(* leaves out none that would still fit next: for every list of documents, *)
(* all sizes of their sections and every order in which the index ranks    *)
(* them (_emit_truncated_content).  Each file is emitted once, since its   *)
(* path is in the documents once, and what no longer fits after it never   *)
(* fits again.                                                             *)
THEOREM TruncationAtSections == Spec => []TruncatedAtSections
<1>1. Types /\ Truncation => TruncatedAtSections
  <2> SUFFICES ASSUME Types, Truncation, pc = "done", outcome = "truncated",
                      NEW d \in ToSet(documents)
               PROVE  /\ IsPrefix(Share(emitted, d.path), d.parts)
                      /\ Share(emitted, d.path) # d.parts =>
                           ~Fits(emitted, Fragment(d, Len(Share(emitted, d.path)) + 1), Budget)
    BY DEF TruncatedAtSections, Share, Shares
  <2>1. emitted \in Seq(Piece) /\ documents \in Seq(Doc)
    BY DEF Types, ResultTypes
  <2>2. d \in Doc
    BY <2>1, LenProperties, ElementOfSeq DEF ToSet
  <2>3. CutAt(emitted, d, Budget)
    BY DEF Truncation
  <2> QED BY <2>1, <2>2, <2>3, CutTruncates
<1> QED BY <1>1, TypesHold, TruncationHolds, PTL

-----------------------------------------------------------------------------
(* What a pack is made of, in a vault that does not change: the documents  *)
(* of the packs visited so far, each file taken for the first that selects *)
(* it.                                                                     *)

(* V[i] is the first of the packs V that takes the file f.                 *)
IsFirst(V, f, i) ==
    /\ i \in 1..Len(V) /\ Takes(V[i], f)
    /\ \A j \in 1..(i - 1) : ~Takes(V[j], f)

(* Its first place among the files that p declares.                        *)
IsPlace(p, f, k) ==
    /\ k \in 1..Len(OwnPaths(p)) /\ OwnPaths(p)[k] = f
    /\ \A j \in 1..(k - 1) : OwnPaths(p)[j] # f

Earlier(p, f, g) ==
    \E x \in 1..Len(OwnPaths(p)), y \in 1..Len(OwnPaths(p)) :
        IsPlace(p, f, x) /\ IsPlace(p, g, y) /\ x < y

Everything(V, docs) ==
    \A i \in 1..Len(V) : \A f : Takes(V[i], f) => \E k \in 1..Len(docs) : docs[k].path = f
FromFirst(V, d) ==
    \E i \in 1..Len(V) : IsFirst(V, d.path, i)
                           /\ d.parts = Selected(V[i], vault[d.path].text)
InTurn(V, d, e) ==
    \A i, j \in 1..Len(V) : IsFirst(V, d.path, i) /\ IsFirst(V, e.path, j) =>
        i < j \/ (i = j /\ Earlier(V[i], d.path, e.path))

Resolved(V, docs) ==
    /\ Everything(V, docs)
    /\ \A k \in 1..Len(docs) : FromFirst(V, docs[k])
    /\ \A k, l \in 1..Len(docs) : k < l => InTurn(V, docs[k], docs[l])

(* own is what p puts in, from the places h of the files it declares.      *)
PutIn(h, own, p) ==
    /\ \A a \in 1..Len(own) :
          /\ h[a] \in 1..Len(OwnPaths(p)) /\ own[a].path = OwnPaths(p)[h[a]]
          /\ own[a].parts = Selected(p, vault[own[a].path].text)
          /\ HasTags(p, vault[own[a].path].text)
    /\ \A a, b \in 1..Len(own) : a < b => h[a] < h[b]
    /\ \A x \in 1..Len(OwnPaths(p)) : HasTags(p, vault[OwnPaths(p)[x]].text) =>
          \E a \in 1..Len(own) : h[a] = x

LEMMA OnlyOneFirst ==
    ASSUME NEW V, Len(V) \in Nat, NEW f, NEW i, NEW j, IsFirst(V, f, i), IsFirst(V, f, j)
    PROVE  i = j
<1>1. i \in 1..Len(V) /\ j \in 1..Len(V)
  BY DEF IsFirst
<1>2. Takes(V[i], f) /\ Takes(V[j], f)
  BY DEF IsFirst
<1>3. ~(i < j)
  <2> SUFFICES ASSUME i < j PROVE FALSE
    OBVIOUS
  <2>1. i \in 1..(j - 1)
    BY <1>1
  <2> QED BY <1>2, <2>1 DEF IsFirst
<1>4. ~(j < i)
  <2> SUFFICES ASSUME j < i PROVE FALSE
    OBVIOUS
  <2>1. j \in 1..(i - 1)
    BY <1>1
  <2> QED BY <1>2, <2>1 DEF IsFirst
<1> QED BY <1>1, <1>3, <1>4

LEMMA OnlyOnePlace ==
    ASSUME NEW p, NEW f, NEW i, NEW j, Len(OwnPaths(p)) \in Nat,
           IsPlace(p, f, i), IsPlace(p, f, j)
    PROVE  i = j
<1>1. i \in 1..Len(OwnPaths(p)) /\ j \in 1..Len(OwnPaths(p))
  BY DEF IsPlace
<1>2. OwnPaths(p)[i] = f /\ OwnPaths(p)[j] = f
  BY DEF IsPlace
<1>3. ~(i < j)
  <2> SUFFICES ASSUME i < j PROVE FALSE
    OBVIOUS
  <2>1. i \in 1..(j - 1)
    BY <1>1
  <2> QED BY <1>2, <2>1 DEF IsPlace
<1>4. ~(j < i)
  <2> SUFFICES ASSUME j < i PROVE FALSE
    OBVIOUS
  <2>1. j \in 1..(i - 1)
    BY <1>1
  <2> QED BY <1>2, <2>1 DEF IsPlace
<1> QED BY <1>1, <1>3, <1>4

LEMMA PutInFacts ==
    ASSUME NEW own, NEW h, NEW p, PutIn(h, own, p),
           Len(own) \in Nat, Len(OwnPaths(p)) \in Nat,
           DOMAIN OwnPaths(p) = 1..Len(OwnPaths(p))
    PROVE  /\ \A a \in 1..Len(own) : Takes(p, own[a].path)
           /\ \A f : Takes(p, f) => \E a \in 1..Len(own) : own[a].path = f
           /\ \A a \in 1..Len(own) :
                 (\A b \in 1..(a - 1) : own[b].path # own[a].path) =>
                     IsPlace(p, own[a].path, h[a])
<1> DEFINE own1 == OwnPaths(p)
           n == Len(OwnPaths(p))
<1>1. \A a \in 1..Len(own) : /\ h[a] \in 1..n /\ own[a].path = own1[h[a]]
                             /\ HasTags(p, vault[own[a].path].text)
  BY DEF PutIn
<1>2. \A a, b \in 1..Len(own) : a < b => h[a] < h[b]
  BY DEF PutIn
<1>3. \A x \in 1..n : HasTags(p, vault[own1[x]].text) => \E a \in 1..Len(own) : h[a] = x
  BY DEF PutIn
<1>4. ASSUME NEW a \in 1..Len(own) PROVE Takes(p, own[a].path)
  BY <1>1 DEF Takes, ToSet
<1>5. ASSUME NEW f, Takes(p, f) PROVE \E a \in 1..Len(own) : own[a].path = f
  <2>1. PICK x \in 1..n : own1[x] = f
    BY <1>5 DEF Takes, ToSet
  <2>2. HasTags(p, vault[own1[x]].text)
    BY <1>5, <2>1 DEF Takes
  <2>3. PICK a \in 1..Len(own) : h[a] = x
    BY <1>3, <2>2
  <2> QED BY <1>1, <2>1, <2>3
<1>6. ASSUME NEW a \in 1..Len(own), \A b \in 1..(a - 1) : own[b].path # own[a].path
      PROVE  IsPlace(p, own[a].path, h[a])
  <2>1. h[a] \in 1..n /\ own1[h[a]] = own[a].path
    BY <1>1
  <2>2. ASSUME NEW j \in 1..(h[a] - 1), own1[j] = own[a].path PROVE FALSE
    <3>1. j \in 1..n /\ j < h[a] /\ j \in Nat /\ h[a] \in Nat
      BY <2>1
    <3>2. HasTags(p, vault[own1[j]].text)
      BY <1>1, <2>2
    <3>3. PICK b \in 1..Len(own) : h[b] = j
      BY <1>3, <3>1, <3>2
    <3>4. b # a /\ ~(a < b)
      <4>1. ~(h[a] < h[b]) /\ h[a] # h[b]
        BY <3>1, <3>3
      <4> QED BY <1>2, <4>1
    <3>5. b \in 1..(a - 1)
      BY <3>4
    <3>6. own[b].path = own[a].path
      BY <1>1, <2>2, <3>3
    <3> QED BY <1>6, <3>5, <3>6
  <2> QED BY <2>1, <2>2 DEF IsPlace
<1> QED BY <1>4, <1>5, <1>6

LEMMA ReadIsPutIn ==
    ASSUME Types, pc = "read", NEW p \in Packs, found = OwnPaths(p),
           \A i \in DOMAIN found : /\ texts[i] = vault[found[i]] /\ texts[i] # Unread
                                   /\ Legible(texts[i])
    PROVE  /\ ReadDocuments(p) \in Seq(Doc)
           /\ \E h : PutIn(h, ReadDocuments(p), p)
<1> DEFINE n == Len(found)
           read == [i \in DOMAIN found |-> Document(p, i)]
           K == {i \in DOMAIN found : HasTags(p, texts[i].text)}
           own == ReadDocuments(p)
<1>1. n \in Nat /\ DOMAIN found = 1..n /\ DOMAIN texts = DOMAIN found
  BY LenProperties DEF Types, ReadTypes
<1>2. \A i \in DOMAIN found : Document(p, i) \in Doc
  BY <1>1, LegibleDocument
<1>3. read \in [1..n -> Doc] /\ DOMAIN read = DOMAIN found
  BY <1>1, <1>2
<1>4. \A i \in 1..n : read[i] = Document(p, i)
  BY <1>1
<1>5. own = At(read, K)
  BY DEF ReadDocuments
<1>6. \A i : i \in K <=> i \in 1..n /\ HasTags(p, texts[i].text)
  BY <1>1
<1> HIDE DEF n, read, K, own
<1>7. read \in Seq(Doc) /\ Len(read) = n
  BY <1>1, <1>3, FunctionIsSeq
<1>8. own \in Seq(Doc)
  BY <1>5, <1>7, AtElements
<1>9. PICK h : Enumerates(h, own, read, K, n)
  BY <1>5, <1>7, AtEnumeration
<1>10. \A a \in 1..Len(own) : h[a] \in K \cap 1..n /\ own[a] = read[h[a]]
  BY <1>9 DEF Enumerates
<1>11. \A a, b \in 1..Len(own) : a < b => h[a] < h[b]
  BY <1>9 DEF Enumerates
<1>12. \A i \in 1..n : read[i].path = found[i]
                         /\ read[i].parts = Selected(p, vault[found[i]].text)
  <2>1. \A i \in 1..n : texts[i] = vault[found[i]]
    BY <1>1
  <2>2. \A i : /\ Document(p, i).path = found[i]
               /\ Document(p, i).parts = Selected(p, texts[i].text)
    BY DEF Document
  <2> QED BY <1>4, <2>1, <2>2
<1>13. \A i \in 1..n : HasTags(p, texts[i].text) <=> HasTags(p, vault[found[i]].text)
  BY <1>1
<1>14. \A a \in 1..Len(own) :
         /\ h[a] \in 1..n /\ own[a].path = found[h[a]]
         /\ own[a].parts = Selected(p, vault[own[a].path].text)
         /\ HasTags(p, vault[own[a].path].text)
  BY <1>6, <1>10, <1>12, <1>13
<1>15. \A x \in 1..n : HasTags(p, vault[found[x]].text) => \E a \in 1..Len(own) : h[a] = x
  <2>1. \A i \in K \cap 1..n : \E a \in 1..Len(own) : h[a] = i
    BY <1>9 DEF Enumerates
  <2> QED BY <1>6, <1>13, <2>1
<1>16. PutIn(h, own, p)
  BY <1>11, <1>14, <1>15 DEF PutIn, n
<1> QED BY <1>8, <1>16 DEF own

(* The first of the elements of docs with this path.                       *)
LEMMA FirstWithPath ==
    ASSUME NEW docs \in Seq(Doc), NEW x \in 1..Len(docs)
    PROVE  \E y \in 1..Len(docs) :
              /\ docs[y].path = docs[x].path
              /\ \A j \in 1..(y - 1) : docs[j].path # docs[y].path
<1> DEFINE T == {y \in 1..Len(docs) : docs[y].path = docs[x].path}
<1>1. Len(docs) \in Nat
  BY LenProperties
<1>2. T \subseteq Nat /\ x \in T
  BY <1>1
<1>3. PICK y \in T : \A z \in T : y <= z
  <2> HIDE DEF T
  <2> QED BY <1>2, LeastNumber
<1>4. ASSUME NEW j \in 1..(y - 1) PROVE docs[j].path # docs[y].path
  <2>1. j \in 1..Len(docs) /\ ~(y <= j)
    BY <1>1
  <2> QED BY <1>3, <2>1
<1> QED BY <1>4

(* FirstPlaces takes the documents of their first places, in their order.  *)
TakesFrom(g, r, docs) ==
    /\ \A k \in 1..Len(r) :
          /\ g[k] \in 1..Len(docs) /\ r[k] = docs[g[k]]
          /\ \A j \in 1..(g[k] - 1) : docs[j].path # docs[g[k]].path
    /\ \A j, k \in 1..Len(r) : j < k => g[j] < g[k]
    /\ \A x \in 1..Len(docs) : \E k \in 1..Len(r) : r[k].path = docs[x].path

LEMMA FirstPlacesTakes ==
    ASSUME NEW docs \in Seq(Doc)
    PROVE  /\ FirstPlaces(docs) \in Seq(Doc)
           /\ \E g : TakesFrom(g, FirstPlaces(docs), docs)
<1> DEFINE K == {i \in DOMAIN docs : \A j \in 1..(i - 1) : docs[j].path # docs[i].path}
           r == FirstPlaces(docs)
           n == Len(docs)
<1>1. DOMAIN docs = 1..n /\ n \in Nat
  BY LenProperties
<1>2. r = At(docs, K)
  BY DEF FirstPlaces
<1>3. \A i : i \in K <=> i \in 1..n /\ \A j \in 1..(i - 1) : docs[j].path # docs[i].path
  BY <1>1
<1> HIDE DEF K, r
<1>4. r \in Seq(Doc)
  BY <1>2, AtElements
<1>5. PICK g : Enumerates(g, r, docs, K, n)
  BY <1>2, AtEnumeration
<1>6. \A k \in 1..Len(r) : g[k] \in K \cap 1..n /\ r[k] = docs[g[k]]
  BY <1>5 DEF Enumerates
<1>7. \A j, k \in 1..Len(r) : j < k => g[j] < g[k]
  BY <1>5 DEF Enumerates
<1>8. ASSUME NEW x \in 1..n PROVE \E k \in 1..Len(r) : r[k].path = docs[x].path
  <2>1. PICK y \in 1..n : /\ docs[y].path = docs[x].path
                          /\ \A j \in 1..(y - 1) : docs[j].path # docs[y].path
    BY FirstWithPath
  <2>2. y \in K \cap 1..n
    BY <1>3, <2>1
  <2>3. PICK k \in 1..Len(r) : g[k] = y
    BY <1>5, <2>2 DEF Enumerates
  <2> QED BY <1>6, <2>1, <2>3
<1>9. TakesFrom(g, r, docs)
  BY <1>3, <1>6, <1>7, <1>8 DEF TakesFrom
<1> QED BY <1>4, <1>9 DEF r

LEMMA FirstKept ==
    ASSUME NEW V \in Seq(Packs), NEW p \in Packs, NEW f
    PROVE  /\ \A i : IsFirst(V, f, i) => IsFirst(Append(V, p), f, i)
           /\ (\A i \in 1..Len(V) : ~Takes(V[i], f)) /\ Takes(p, f) =>
                 IsFirst(Append(V, p), f, Len(V) + 1)
<1>1. /\ Len(V) \in Nat /\ Append(V, p) \in Seq(Packs) /\ Len(Append(V, p)) = Len(V) + 1
      /\ \A i \in 1..Len(V) : Append(V, p)[i] = V[i]
      /\ Append(V, p)[Len(V) + 1] = p
  BY AppendProperties, LenProperties
<1> DEFINE W == Append(V, p)
           n == Len(V)
<1> HIDE DEF W
<1>2. ASSUME NEW i, IsFirst(V, f, i) PROVE IsFirst(W, f, i)
  <2>1. i \in 1..n /\ Takes(V[i], f) /\ \A j \in 1..(i - 1) : ~Takes(V[j], f)
    BY <1>2 DEF IsFirst
  <2>2. i \in 1..Len(W) /\ \A j \in 1..(i - 1) : j \in 1..n
    BY <1>1, <2>1 DEF W
  <2> QED BY <1>1, <2>1, <2>2 DEF IsFirst, W
<1>3. ASSUME \A i \in 1..n : ~Takes(V[i], f), Takes(p, f)
      PROVE  IsFirst(W, f, n + 1)
  <2>1. n + 1 \in 1..Len(W) /\ \A j \in 1..((n + 1) - 1) : j \in 1..n
    BY <1>1 DEF W
  <2> QED BY <1>1, <1>3, <2>1 DEF IsFirst, W
<1> QED BY <1>2, <1>3 DEF W

LEMMA ResolvedMore ==
    ASSUME NEW V \in Seq(Packs), NEW p \in Packs, NEW docs \in Seq(Doc),
           NEW own \in Seq(Doc), NEW h, PutIn(h, own, p), Resolved(V, docs),
           Len(OwnPaths(p)) \in Nat, DOMAIN OwnPaths(p) = 1..Len(OwnPaths(p))
    PROVE  Resolved(Append(V, p), FirstPlaces(docs \o own))
<1> DEFINE u == docs \o own
           W == Append(V, p)
           n == Len(V)
           m == Len(docs)
           l == Len(own)
           r == FirstPlaces(u)
<1>1. n \in Nat /\ m \in Nat /\ l \in Nat
  BY LenProperties
<1>2. /\ W \in Seq(Packs) /\ Len(W) = n + 1 /\ W[n + 1] = p
      /\ \A i \in 1..n : W[i] = V[i]
  BY AppendProperties
<1>3. /\ u \in Seq(Doc) /\ Len(u) = m + l
      /\ \A i \in 1..m + l : u[i] = IF i <= m THEN docs[i] ELSE own[i - m]
  BY ConcatProperties
<1>4. \A a \in 1..l : Takes(p, own[a].path)
  BY <1>1, PutInFacts
<1>5. \A f : Takes(p, f) => \E a \in 1..l : own[a].path = f
  BY <1>1, PutInFacts
<1>6. \A a \in 1..l : (\A b \in 1..(a - 1) : own[b].path # own[a].path) =>
                         IsPlace(p, own[a].path, h[a])
  BY <1>1, PutInFacts
<1>7. /\ \A a \in 1..l : own[a].parts = Selected(p, vault[own[a].path].text)
      /\ \A a, b \in 1..l : a < b => h[a] < h[b]
  BY DEF PutIn
<1>8. Everything(V, docs) /\ \A k \in 1..m : FromFirst(V, docs[k])
  BY DEF Resolved
<1>9. \A j, k \in 1..m : j < k => InTurn(V, docs[j], docs[k])
  BY DEF Resolved
<1> HIDE DEF u, W, m, l, n
<1>10. PICK g : TakesFrom(g, r, u)
  BY <1>3, FirstPlacesTakes
<1>11. r \in Seq(Doc) /\ Len(r) \in Nat
  BY <1>3, FirstPlacesTakes, LenProperties
<1> HIDE DEF r
<1>12. \A k \in 1..Len(r) :
          /\ g[k] \in 1..m + l /\ r[k] = u[g[k]]
          /\ \A j \in 1..(g[k] - 1) : u[j].path # r[k].path
  BY <1>3, <1>10 DEF TakesFrom
<1>13. \A j, k \in 1..Len(r) : j < k => g[j] < g[k]
  BY <1>10 DEF TakesFrom
<1>14. \A x \in 1..m + l : \E k \in 1..Len(r) : r[k].path = u[x].path
  BY <1>3, <1>10 DEF TakesFrom
<1>15. /\ \A x \in 1..m : x \in 1..m + l /\ u[x] = docs[x]
       /\ \A a \in 1..l : m + a \in 1..m + l /\ u[m + a] = own[a]
  <2>1. \A x \in 1..m : x \in 1..m + l /\ x <= m
    BY <1>1
  <2>2. \A a \in 1..l : m + a \in 1..m + l /\ ~(m + a <= m) /\ (m + a) - m = a
    BY <1>1
  <2> QED BY <1>3, <2>1, <2>2
(* A document is an old one, or one of p's that no pack before p takes.    *)
<1>16. ASSUME NEW k \in 1..Len(r), g[k] <= m
       PROVE  g[k] \in 1..m /\ r[k] = docs[g[k]]
  <2>1. g[k] \in 1..m
    BY <1>1, <1>12, <1>16
  <2> QED BY <1>12, <1>15, <2>1
<1>17. ASSUME NEW k \in 1..Len(r), ~(g[k] <= m)
       PROVE  /\ g[k] - m \in 1..l /\ r[k] = own[g[k] - m]
              /\ IsPlace(p, r[k].path, h[g[k] - m])
              /\ IsFirst(W, r[k].path, n + 1)
  <2> DEFINE a == g[k] - m
  <2>1. a \in 1..l /\ m + a = g[k]
    BY <1>1, <1>12, <1>17
  <2> HIDE DEF a
  <2>2. r[k] = own[a]
    BY <1>12, <1>15, <2>1
  <2>3. ASSUME NEW b \in 1..(a - 1) PROVE own[b].path # own[a].path
    <3>1. b \in 1..l /\ m + b \in 1..(g[k] - 1)
      BY <1>1, <2>1
    <3> QED BY <1>12, <1>15, <2>2, <3>1
  <2>4. IsPlace(p, own[a].path, h[a])
    BY <1>6, <2>1, <2>3
  <2>5. ASSUME NEW x \in 1..m PROVE docs[x].path # r[k].path
    <3>1. x \in 1..(g[k] - 1)
      BY <1>1, <2>1
    <3> QED BY <1>12, <1>15, <3>1
  <2>6. \A i \in 1..n : ~Takes(V[i], r[k].path)
    BY <1>8, <2>5 DEF Everything, n, m
  <2>7. Takes(p, r[k].path)
    BY <1>4, <2>1, <2>2
  <2>8. IsFirst(W, r[k].path, n + 1)
    BY <2>6, <2>7, FirstKept DEF n, W
  <2> QED BY <2>1, <2>2, <2>4, <2>8 DEF a
<1>18. ASSUME NEW x \in 1..m PROVE FromFirst(W, docs[x]) /\
              \E i \in 1..n : IsFirst(V, docs[x].path, i) /\ IsFirst(W, docs[x].path, i)
  <2>1. PICK i \in 1..n : IsFirst(V, docs[x].path, i)
                            /\ docs[x].parts = Selected(V[i], vault[docs[x].path].text)
    BY <1>8 DEF FromFirst, n
  <2>2. IsFirst(W, docs[x].path, i)
    BY <2>1, FirstKept DEF W
  <2>3. i \in 1..Len(W) /\ W[i] = V[i]
    BY <1>1, <1>2
  <2> QED BY <2>1, <2>2, <2>3 DEF FromFirst
<1>19. Everything(W, r)
  <2>1. ASSUME NEW i \in 1..Len(W), NEW f, Takes(W[i], f)
        PROVE  \E k \in 1..Len(r) : r[k].path = f
    <3>1. CASE i = n + 1
      <4>1. PICK a \in 1..l : own[a].path = f
        BY <1>2, <1>5, <2>1, <3>1
      <4> QED BY <1>14, <1>15, <4>1
    <3>2. CASE i # n + 1
      <4>1. i \in 1..n
        BY <1>1, <1>2, <3>2
      <4>2. Takes(V[i], f)
        BY <1>2, <2>1, <4>1
      <4>3. PICK x \in 1..m : docs[x].path = f
        BY <1>8, <4>1, <4>2 DEF Everything, n, m
      <4> QED BY <1>14, <1>15, <4>3
    <3> QED BY <3>1, <3>2
  <2> QED BY <2>1 DEF Everything
<1>20. ASSUME NEW k \in 1..Len(r) PROVE FromFirst(W, r[k])
  <2>1. CASE g[k] <= m
    BY <1>16, <1>18, <2>1
  <2>2. CASE ~(g[k] <= m)
    <3>1. n + 1 \in 1..Len(W)
      BY <1>1, <1>2
    <3>2. r[k].parts = Selected(p, vault[r[k].path].text)
      BY <1>7, <1>17, <2>2
    <3> QED BY <1>2, <1>17, <2>2, <3>1, <3>2 DEF FromFirst
  <2> QED BY <2>1, <2>2
<1>21. ASSUME NEW k \in 1..Len(r), NEW j \in 1..Len(r), k < j
       PROVE  InTurn(W, r[k], r[j])
  <2> SUFFICES ASSUME NEW x \in 1..Len(W), NEW y \in 1..Len(W),
                      IsFirst(W, r[k].path, x), IsFirst(W, r[j].path, y)
               PROVE  x < y \/ (x = y /\ Earlier(W[x], r[k].path, r[j].path))
    BY DEF InTurn
  <2>1. g[k] < g[j]
    BY <1>13, <1>21
  <2>2. Len(W) \in Nat
    BY <1>1, <1>2
  <2>3. CASE g[j] <= m
    <3>0. g[k] \in 1..m + l /\ g[j] \in 1..m + l
      BY <1>12
    <3>1. g[k] <= m
      BY <1>1, <2>1, <2>3, <3>0
    <3>2. /\ g[k] \in 1..m /\ r[k] = docs[g[k]] /\ g[j] \in 1..m /\ r[j] = docs[g[j]]
      BY <1>16, <2>3, <3>1
    <3>3. PICK a \in 1..n : IsFirst(V, r[k].path, a) /\ IsFirst(W, r[k].path, a)
      BY <1>18, <3>2
    <3>4. PICK b \in 1..n : IsFirst(V, r[j].path, b) /\ IsFirst(W, r[j].path, b)
      BY <1>18, <3>2
    <3>5. x = a
      BY <2>2, <3>3, OnlyOneFirst
    <3>6. y = b
      BY <2>2, <3>4, OnlyOneFirst
    <3>7. InTurn(V, r[k], r[j])
      BY <1>9, <2>1, <3>2
    <3>8. a < b \/ (a = b /\ Earlier(V[a], r[k].path, r[j].path))
      BY <3>3, <3>4, <3>7 DEF InTurn, n
    <3> QED BY <1>2, <3>5, <3>6, <3>8
  <2>4. CASE ~(g[j] <= m)
    <3>1. IsFirst(W, r[j].path, n + 1)
      BY <1>17, <2>4
    <3>2. y = n + 1
      BY <2>2, <3>1, OnlyOneFirst
    <3>3. CASE g[k] <= m
      <4>1. g[k] \in 1..m /\ r[k] = docs[g[k]]
        BY <1>16, <3>3
      <4>2. PICK a \in 1..n : IsFirst(W, r[k].path, a)
        BY <1>18, <4>1
      <4>3. x = a
        BY <2>2, <4>2, OnlyOneFirst
      <4> QED BY <1>1, <3>2, <4>3
    <3>4. CASE ~(g[k] <= m)
      <4>1. IsFirst(W, r[k].path, n + 1)
        BY <1>17, <3>4
      <4>2. x = n + 1
        BY <2>2, <4>1, OnlyOneFirst
      <4> DEFINE a == g[k] - m
                 b == g[j] - m
      <4>3. /\ a \in 1..l /\ b \in 1..l
            /\ IsPlace(p, r[k].path, h[a]) /\ IsPlace(p, r[j].path, h[b])
        BY <1>17, <2>4, <3>4
      <4>4. a < b
        BY <1>1, <1>12, <2>1
      <4> HIDE DEF a, b
      <4>5. h[a] < h[b]
        BY <1>7, <4>3, <4>4
      <4>6. h[a] \in 1..Len(OwnPaths(p)) /\ h[b] \in 1..Len(OwnPaths(p))
        BY <4>3 DEF IsPlace
      <4>7. Earlier(p, r[k].path, r[j].path)
        BY <4>3, <4>5, <4>6 DEF Earlier
      <4> QED BY <1>2, <3>2, <4>2, <4>7
    <3> QED BY <3>3, <3>4
  <2> QED BY <2>3, <2>4
<1>22. Resolved(W, r)
  BY <1>19, <1>20, <1>21 DEF Resolved
<1> QED BY <1>22 DEF W, r, u

-----------------------------------------------------------------------------
(* The order of the visits.                                                *)

N == Cardinality(Packs)

(* The packs visited from q, where below[p] are those visited from p; a    *)
(* name that is not declared stands for itself.                            *)
VisitedFrom(below, q) ==
    <<q>> \o (IF q \in Packs
              THEN FlattenSeq([j \in DOMAIN cfg.includes[q] |-> below[cfg.includes[q][j]]])
              ELSE <<>>)

TreeTypes == [Name -> Seq(Name)]
Unfolds(t) ==
    /\ t \in [0..N -> TreeTypes]
    /\ \A q \in Name : t[0][q] = <<q>>
    /\ \A k \in 1..N, q \in Name : t[k][q] = VisitedFrom(t[k - 1], q)

(* The packs visited from q, those included over k steps being the last.   *)
Under(k, q) == (CHOOSE t : Unfolds(t))[k][q]

(* The packs visited for those still to do.                                *)
Rest(k, todo) == FlattenSeq([j \in DOMAIN todo |-> Under(k, todo[j])])

LEMMA NumberOfPacks == N \in Nat /\ N # 0 /\ Packs \subseteq Name
<1>1. N \in Nat /\ N # 0
  BY PackAssumption, FinitelyManyPacks, FS_CardinalityType, FS_EmptySet DEF N
<1> QED BY <1>1 DEF Name

(* The elements of a list, each replaced by a list, joined.                *)
LEMMA MappedList ==
    ASSUME NEW S, NEW s \in Seq(S), NEW T, NEW f, \A x \in S : f[x] \in Seq(T)
    PROVE  [j \in DOMAIN s |-> f[s[j]]] \in Seq(Seq(T))
<1> DEFINE r == [j \in DOMAIN s |-> f[s[j]]]
<1>1. Len(s) \in Nat /\ DOMAIN s = 1..Len(s) /\ \A j \in 1..Len(s) : s[j] \in S
  BY ElementOfSeq, LenProperties
<1>2. r \in [1..Len(s) -> Seq(T)]
  BY <1>1
<1> HIDE DEF r
<1>3. r \in Seq(Seq(T))
  BY <1>1, <1>2, FunctionIsSeq
<1> QED BY <1>3 DEF r

LEMMA VisitedFromType ==
    ASSUME cfg \in Setups, NEW below \in TreeTypes, NEW q \in Name
    PROVE  VisitedFrom(below, q) \in Seq(Name)
<1>1. <<q>> \in Seq(Name) /\ <<>> \in Seq(Name)
  OBVIOUS
<1>2. ASSUME q \in Packs
      PROVE  FlattenSeq([j \in DOMAIN cfg.includes[q] |-> below[cfg.includes[q][j]]])
                \in Seq(Name)
  <2> DEFINE s == cfg.includes[q]
             r == [j \in DOMAIN s |-> below[s[j]]]
  <2>1. s \in Seq(Name)
    BY <1>2, PackAssumption, SetupFacts
  <2>2. \A x \in Name : below[x] \in Seq(Name)
    BY DEF TreeTypes
  <2>3. r \in Seq(Seq(Name))
    <3> HIDE DEF s
    <3> QED BY <2>1, <2>2, MappedList
  <2> HIDE DEF r
  <2>4. FlattenSeq(r) \in Seq(Name)
    BY <2>3, FlattenJoins
  <2> QED BY <2>4 DEF r
<1> DEFINE more == IF q \in Packs
                   THEN FlattenSeq([j \in DOMAIN cfg.includes[q] |->
                                       below[cfg.includes[q][j]]])
                   ELSE <<>>
<1>3. more \in Seq(Name)
  BY <1>1, <1>2
<1>4. VisitedFrom(below, q) = <<q>> \o more
  BY DEF VisitedFrom
<1> HIDE DEF more
<1> QED BY <1>1, <1>3, <1>4, ConcatProperties

LEMMA TreeExists ==
    ASSUME cfg \in Setups
    PROVE  Unfolds(CHOOSE t : Unfolds(t))
<1> DEFINE base == [q \in Name |-> <<q>>]
           step == [k \in 1..N |-> [below \in TreeTypes |->
                                        [q \in Name |-> VisitedFrom(below, q)]]]
<1>1. base \in TreeTypes /\ \A q \in Name : base[q] = <<q>>
  BY DEF TreeTypes
<1>2. N \in Nat
  BY NumberOfPacks
<1>3. \A k \in 1..N, below \in TreeTypes :
         step[k][below] \in TreeTypes
         /\ \A q \in Name : step[k][below][q] = VisitedFrom(below, q)
  BY VisitedFromType DEF TreeTypes
<1>4. Stays(step, N, TreeTypes)
  BY <1>3 DEF Stays
<1> HIDE DEF base, step
<1>5. PICK t \in [0..N -> TreeTypes] : Along(t, N, base, step)
  BY <1>1, <1>2, <1>4, Recursion
<1>6. \A q \in Name : t[0][q] = <<q>>
  BY <1>1, <1>5 DEF Along
<1>7. ASSUME NEW k \in 1..N, NEW q \in Name PROVE t[k][q] = VisitedFrom(t[k - 1], q)
  <2>1. k - 1 \in 0..N
    BY <1>2
  <2>2. t[k - 1] \in TreeTypes /\ t[k] = step[k][t[k - 1]]
    BY <1>5, <2>1 DEF Along
  <2> QED BY <1>3, <2>2
<1>8. Unfolds(t)
  BY <1>5, <1>6, <1>7 DEF Unfolds
<1> QED BY <1>8

LEMMA RestFacts ==
    ASSUME cfg \in Setups, NEW k \in 0..N, NEW todo \in Seq(Name)
    PROVE  /\ Rest(k, todo) \in Seq(Name)
           /\ todo = <<>> => Rest(k, todo) = <<>>
           /\ todo # <<>> => Rest(k, todo) = Under(k, Head(todo)) \o Rest(k, Tail(todo))
<1> DEFINE u == (CHOOSE t : Unfolds(t))[k]
           r == [j \in DOMAIN todo |-> u[todo[j]]]
<1>1. u \in [Name -> Seq(Name)]
  BY TreeExists DEF Unfolds, TreeTypes
<1>2. \A q : Under(k, q) = u[q]
  BY DEF Under
<1>3. \A s : Rest(k, s) = FlattenSeq([j \in DOMAIN s |-> u[s[j]]])
  BY DEF Rest, Under
<1> HIDE DEF u
<1>4. \A s \in Seq(Name) : [j \in DOMAIN s |-> u[s[j]]] \in Seq(Seq(Name))
  BY <1>1, MappedList
<1>5. r \in Seq(Seq(Name)) /\ Rest(k, todo) = FlattenSeq(r)
  BY <1>3, <1>4
<1>6. Rest(k, todo) \in Seq(Name)
  <2> HIDE DEF r
  <2> QED BY <1>5, FlattenJoins
<1>7. ASSUME todo = <<>> PROVE Rest(k, todo) = <<>>
  <2>1. r = <<>>
    BY <1>7
  <2> HIDE DEF r
  <2> QED BY <1>5, <2>1, FlattenFew
<1>8. ASSUME todo # <<>> PROVE Rest(k, todo) = u[Head(todo)] \o Rest(k, Tail(todo))
  <2> DEFINE h == Head(todo)
             l == Tail(todo)
             rl == [j \in DOMAIN l |-> u[l[j]]]
             one == <<u[h]>>
  <2>1. /\ h \in Name /\ l \in Seq(Name) /\ Len(l) = Len(todo) - 1
        /\ \A i \in 1..Len(l) : l[i] = todo[i + 1]
    BY <1>8, HeadTailProperties
  <2>2. h = todo[1] /\ Len(todo) \in Nat \ {0} /\ DOMAIN todo = 1..Len(todo)
    BY <1>8, EmptySeq, LenProperties
  <2>3. DOMAIN l = 1..Len(l)
    BY <2>1, LenProperties
  <2> HIDE DEF h, l
  <2>4. rl \in Seq(Seq(Name)) /\ Rest(k, l) = FlattenSeq(rl)
    BY <1>3, <1>4, <2>1
  <2>5. Len(rl) = Len(l) /\ \A i \in 1..Len(l) : rl[i] = u[l[i]]
    <3>1. rl \in [1..Len(l) -> Seq(Name)] /\ \A i \in 1..Len(l) : rl[i] = u[l[i]]
      BY <1>1, <2>1, <2>3, ElementOfSeq
    <3>2. Len(l) \in Nat
      BY <2>1, LenProperties
    <3> HIDE DEF rl
    <3> QED BY <3>1, <3>2, FunctionIsSeq
  <2>6. u[h] \in Seq(Name) /\ one \in Seq(Seq(Name)) /\ Len(one) = 1 /\ one[1] = u[h]
    BY <1>1, <2>1
  <2>7. Len(r) = Len(todo) /\ \A i \in 1..Len(todo) : r[i] = u[todo[i]]
    <3>1. r \in [1..Len(todo) -> Seq(Name)] /\ \A i \in 1..Len(todo) : r[i] = u[todo[i]]
      BY <1>1, <2>2, ElementOfSeq
    <3> HIDE DEF r
    <3> QED BY <2>2, <3>1, FunctionIsSeq
  <2> HIDE DEF rl, one, r
  <2>8. /\ one \o rl \in Seq(Seq(Name)) /\ Len(one \o rl) = 1 + Len(rl)
        /\ \A i \in 1..1 + Len(rl) : (one \o rl)[i] = IF i <= 1 THEN one[i] ELSE rl[i - 1]
    <3>1. /\ one \o rl \in Seq(Seq(Name)) /\ Len(one \o rl) = Len(one) + Len(rl)
          /\ \A i \in 1..Len(one) + Len(rl) :
                (one \o rl)[i] = IF i <= Len(one) THEN one[i] ELSE rl[i - Len(one)]
      BY <2>4, <2>6, ConcatProperties
    <3> QED BY <2>6, <3>1
  <2>9. ASSUME NEW i \in 1..Len(todo) PROVE r[i] = (one \o rl)[i]
    <3>1. i \in 1..1 + Len(rl)
      BY <2>1, <2>2, <2>5
    <3>2. CASE i = 1
      <4>1. (one \o rl)[i] = one[1]
        BY <2>8, <3>1, <3>2
      <4> QED BY <2>2, <2>6, <2>7, <3>2, <4>1
    <3>3. CASE i # 1
      <4>1. i - 1 \in 1..Len(l) /\ ~(i <= 1) /\ (i - 1) + 1 = i
        BY <2>1, <2>2, <3>3
      <4>2. (one \o rl)[i] = rl[i - 1]
        BY <2>8, <3>1, <4>1
      <4>3. l[i - 1] = todo[i]
        BY <2>1, <4>1
      <4> QED BY <2>5, <2>7, <4>1, <4>2, <4>3
    <3> QED BY <3>2, <3>3
  <2>10. Len(r) = Len(one \o rl)
    BY <2>1, <2>2, <2>5, <2>7, <2>8
  <2>11. r = one \o rl
    BY <1>5, <2>7, <2>8, <2>9, <2>10, SeqEqual
  <2>12. FlattenSeq(r) = FlattenSeq(one) \o FlattenSeq(rl)
    BY <2>4, <2>6, <2>11, FlattenConcat
  <2>13. FlattenSeq(one) = u[h]
    BY <2>6, FlattenFew DEF one
  <2> QED BY <1>5, <2>4, <2>12, <2>13 DEF h, l
<1> QED BY <1>2, <1>6, <1>7, <1>8

LEMMA UnderFacts ==
    ASSUME cfg \in Setups, NEW k \in 0..N, NEW q \in Name
    PROVE  /\ Under(k, q) \in Seq(Name)
           /\ k = 0 \/ q \notin Packs => Under(k, q) = <<q>>
           /\ k # 0 /\ q \in Packs => Under(k, q) = <<q>> \o Rest(k - 1, cfg.includes[q])
<1> DEFINE t == CHOOSE t : Unfolds(t)
<1>1. Unfolds(t)
  BY TreeExists
<1>2. \A l, x : Under(l, x) = t[l][x]
  BY DEF Under
<1>3. \A l, s : Rest(l, s) = FlattenSeq([j \in DOMAIN s |-> t[l][s[j]]])
  BY DEF Rest, Under
<1> HIDE DEF t
<1>4. Under(k, q) \in Seq(Name)
  BY <1>1, <1>2 DEF Unfolds, TreeTypes
<1>5. k = 0 => Under(k, q) = <<q>>
  BY <1>1, <1>2 DEF Unfolds
<1>6. ASSUME k # 0
      PROVE  Under(k, q) = <<q>> \o (IF q \in Packs THEN Rest(k - 1, cfg.includes[q])
                                                     ELSE <<>>)
  <2>1. k \in 1..N
    BY <1>6, NumberOfPacks
  <2>2. Under(k, q) = VisitedFrom(t[k - 1], q)
    BY <1>1, <1>2, <2>1 DEF Unfolds
  <2> QED BY <1>3, <2>2 DEF VisitedFrom
<1>7. ASSUME k # 0, q \notin Packs PROVE Under(k, q) = <<q>>
  <2>1. <<q>> \in Seq(Name)
    OBVIOUS
  <2>2. Under(k, q) = <<q>> \o <<>>
    BY <1>6, <1>7
  <2> QED BY <2>1, <2>2, ConcatEmptySeq
<1> QED BY <1>4, <1>5, <1>6, <1>7

LEMMA SeqWithin ==
    ASSUME NEW S, NEW s \in Seq(S), NEW T
    PROVE  s \in Seq(T) <=> \A i \in 1..Len(s) : s[i] \in T
<1>1. Len(s) \in Nat /\ s \in [1..Len(s) -> S]
  BY LenProperties
<1>2. ASSUME s \in Seq(T) PROVE \A i \in 1..Len(s) : s[i] \in T
  BY <1>2, ElementOfSeq
<1>3. ASSUME \A i \in 1..Len(s) : s[i] \in T PROVE s \in Seq(T)
  <2>1. s \in [1..Len(s) -> T]
    BY <1>1, <1>3
  <2> QED BY <1>1, <2>1, FunctionIsSeq
<1> QED BY <1>2, <1>3

LEMMA UnderStarts ==
    ASSUME cfg \in Setups, NEW k \in 0..N, NEW q \in Name
    PROVE  Len(Under(k, q)) # 0 /\ Under(k, q)[1] = q
<1>1. CASE k = 0 \/ q \notin Packs
  <2>1. Under(k, q) = <<q>>
    BY <1>1, UnderFacts
  <2> QED BY <2>1
<1>2. CASE k # 0 /\ q \in Packs
  <2> DEFINE s == Rest(k - 1, cfg.includes[q])
             one == <<q>>
  <2>1. Under(k, q) = one \o s
    BY <1>2, UnderFacts
  <2>2. k - 1 \in 0..N /\ cfg.includes[q] \in Seq(Name)
    BY <1>2, NumberOfPacks, PackAssumption, SetupFacts
  <2>3. s \in Seq(Name) /\ Len(s) \in Nat
    BY <2>2, RestFacts, LenProperties
  <2>4. one \in Seq(Name) /\ Len(one) = 1 /\ one[1] = q
    OBVIOUS
  <2> HIDE DEF s, one
  <2>5. /\ Len(one \o s) = Len(one) + Len(s)
        /\ \A i \in 1..Len(one) + Len(s) :
              (one \o s)[i] = IF i <= Len(one) THEN one[i] ELSE s[i - Len(one)]
    BY <2>3, <2>4, ConcatProperties
  <2> QED BY <2>1, <2>3, <2>4, <2>5
<1> QED BY <1>1, <1>2

(* When only declared packs are visited, only declared packs are included. *)
LEMMA UnderDeclared ==
    ASSUME cfg \in Setups, NEW k \in 1..N, NEW q \in Packs, Under(k, q) \in Seq(Packs),
           NEW j \in DOMAIN cfg.includes[q]
    PROVE  cfg.includes[q][j] \in Packs /\ Under(k - 1, cfg.includes[q][j]) \in Seq(Packs)
<1> DEFINE s == cfg.includes[q]
           r == [i \in DOMAIN s |-> Under(k - 1, s[i])]
           u == Under(k, q)
           one == <<q>>
<1>1. k - 1 \in 0..N /\ k \in 0..N /\ k # 0 /\ q \in Name
  BY NumberOfPacks
<1>2. s \in Seq(Name) /\ Len(s) \in Nat /\ DOMAIN s = 1..Len(s)
  BY PackAssumption, SetupFacts, LenProperties
<1>3. \A i \in 1..Len(s) : s[i] \in Name
  BY <1>2, ElementOfSeq
<1>4. u = one \o FlattenSeq(r)
  BY <1>1, UnderFacts DEF Rest
<1> HIDE DEF s, u
<1>5. r \in [1..Len(s) -> Seq(Name)] /\ \A i \in 1..Len(s) : r[i] = Under(k - 1, s[i])
  BY <1>1, <1>2, <1>3, UnderFacts
<1>6. u \in Seq(Packs)
  BY DEF u
<1>7. one \in Seq(Name) /\ Len(one) = 1
  BY <1>1
<1> HIDE DEF r, one
<1>8. r \in Seq(Seq(Name)) /\ Len(r) = Len(s)
  BY <1>2, <1>5, FunctionIsSeq
<1> DEFINE f == FlattenSeq(r)
<1>9. f \in Seq(Name) /\ Concatenates(f, r, Len(r))
  BY <1>8, FlattenJoins
<1>10. Len(f) \in Nat
  BY <1>9, LenProperties
<1> HIDE DEF f
<1>11. /\ Len(one \o f) = Len(one) + Len(f)
       /\ \A i \in 1..Len(one) + Len(f) :
             (one \o f)[i] = IF i <= Len(one) THEN one[i] ELSE f[i - Len(one)]
  BY <1>7, <1>9, ConcatProperties
<1>12. u = one \o f
  BY <1>4 DEF f
<1>13. ASSUME NEW i \in 1..Len(f) PROVE f[i] \in Packs
  <2>1. /\ i + 1 \in 1..Len(one) + Len(f) /\ ~(i + 1 <= Len(one)) /\ (i + 1) - Len(one) = i
    BY <1>7, <1>10
  <2>2. u[i + 1] = f[i]
    BY <1>11, <1>12, <2>1
  <2>3. i + 1 \in 1..Len(u)
    BY <1>11, <1>12, <2>1
  <2> QED BY <1>6, <2>2, <2>3, ElementOfSeq
<1>14. j \in 1..Len(s) /\ r[j] = Under(k - 1, s[j]) /\ s[j] \in Name
  BY <1>2, <1>3, <1>5 DEF s
<1>15. \A i \in 1..Len(r[j]) : r[j][i] \in Packs
  BY <1>8, <1>9, <1>13, <1>14 DEF Concatenates
<1>16. r[j] \in Seq(Packs)
  BY <1>5, <1>14, <1>15, SeqWithin
<1>17. Len(r[j]) # 0 /\ r[j][1] = s[j]
  BY <1>1, <1>14, UnderStarts
<1>18. 1 \in 1..Len(r[j])
  BY <1>16, <1>17, LenProperties
<1> QED BY <1>14, <1>15, <1>16, <1>17, <1>18 DEF s

(* Visits, by the function its definition chooses.                         *)
BelowSteps(b, n) ==
    b = [k \in 0..n |->
            [q \in Packs |-> <<q>> \o
                IF k = 0 THEN <<>>
                ELSE FlattenSeq([i \in DOMAIN cfg.includes[q] |->
                                    b[k - 1][cfg.includes[q][i]]])]]

BelowNext(v, k) ==
    [q \in Packs |-> <<q>> \o
        IF k = 0 THEN <<>>
        ELSE FlattenSeq([i \in DOMAIN cfg.includes[q] |-> v[cfg.includes[q][i]]])]

LEMMA BelowExists == \A n \in Nat : \E b : BelowSteps(b, n)
<1> DEFINE T == {n \in Nat : \E b : BelowSteps(b, n)}
<1>1. \A b, n : BelowSteps(b, n) <=> b = [k \in 0..n |-> BelowNext(b[k - 1], k)]
  BY DEF BelowSteps, BelowNext
<1>2. \A v, w : BelowNext(v, 0) = BelowNext(w, 0)
  BY DEF BelowNext
<1>3. 0 \in T
  <2> DEFINE g == [k \in 0..0 |-> BelowNext(0, 0)]
  <2>1. g = [k \in 0..0 |-> BelowNext(g[k - 1], k)]
    <3>1. \A k \in 0..0 : g[k] = BelowNext(g[k - 1], k)
      BY <1>2
    <3>2. g = [k \in 0..0 |-> g[k]]
      OBVIOUS
    <3> HIDE DEF g
    <3> QED BY <3>1, <3>2
  <2> HIDE DEF g
  <2>2. BelowSteps(g, 0)
    BY <1>1, <2>1
  <2> QED BY <2>2
<1>4. ASSUME NEW n \in Nat, n \in T PROVE n + 1 \in T
  <2>1. PICK g : BelowSteps(g, n)
    BY <1>4
  <2> DEFINE last == BelowNext(g[n], n + 1)
             h == [i \in 0..n + 1 |-> IF i = n + 1 THEN last ELSE g[i]]
  <2> HIDE DEF last
  <2>2. \A i \in 0..n : h[i] = g[i]
    OBVIOUS
  <2>3. h[n + 1] = last
    OBVIOUS
  <2>4. \A i \in 0..n : g[i] = BelowNext(g[i - 1], i)
    <3>1. g = [k \in 0..n |-> BelowNext(g[k - 1], k)]
      BY <1>1, <2>1
    <3> QED BY <3>1
  <2>5. ASSUME NEW i \in 0..n + 1
        PROVE  h[i] = BelowNext(h[i - 1], i)
    <3>1. CASE i = n + 1
      <4>1. i - 1 = n /\ n \in 0..n
        BY <3>1
      <4> HIDE DEF h
      <4> QED BY <3>1, <4>1, <2>2, <2>3 DEF last
    <3>2. CASE i = 0
      <4>1. 0 \in 0..n
        OBVIOUS
      <4> HIDE DEF h
      <4>2. h[0] = BelowNext(g[0 - 1], 0)
        BY <2>2, <2>4, <4>1
      <4> QED BY <1>2, <3>2, <4>2
    <3>3. CASE i # n + 1 /\ i # 0
      <4>1. i \in 0..n /\ i - 1 \in 0..n
        BY <3>3
      <4> HIDE DEF h
      <4> QED BY <4>1, <2>2, <2>4
    <3> QED BY <3>1, <3>2, <3>3
  <2>6. h = [i \in 0..n + 1 |-> BelowNext(h[i - 1], i)]
    <3>1. h = [i \in 0..n + 1 |-> h[i]]
      OBVIOUS
    <3> HIDE DEF h
    <3> QED BY <3>1, <2>5
  <2> HIDE DEF h
  <2>7. BelowSteps(h, n + 1)
    BY <1>1, <2>6
  <2> QED BY <2>7
<1> HIDE DEF T
<1>5. \A n \in Nat : n \in T
  BY <1>3, <1>4, Induction
<1> QED BY <1>5 DEF T

LEMMA VisitsRecursion ==
    \E b : /\ \A k \in 0..N : b[k] = BelowNext(b[k - 1], k)
           /\ Visits = b[N][root]
<1> DEFINE b == CHOOSE b : BelowSteps(b, N)
<1>1. Visits = b[N][root]
  BY Zenon DEF Visits, BelowSteps, N
<1>2. BelowSteps(b, N)
  BY NumberOfPacks, BelowExists
<1> HIDE DEF b
<1>3. b = [k \in 0..N |-> BelowNext(b[k - 1], k)]
  BY <1>2 DEF BelowSteps, BelowNext
<1>4. \A k \in 0..N : b[k] = BelowNext(b[k - 1], k)
  BY <1>3
<1> QED BY <1>1, <1>4

LEMMA SameVisits ==
    ASSUME cfg \in Setups, root \in Packs, Under(N, root) \in Seq(Packs)
    PROVE  Visits = Under(N, root)
<1>1. PICK b : (\A k \in 0..N : b[k] = BelowNext(b[k - 1], k)) /\ Visits = b[N][root]
  BY VisitsRecursion
<1>2. N \in Nat /\ Packs \subseteq Name
  BY NumberOfPacks
<1> DEFINE Same(k) == \A q \in Packs : Under(k, q) \in Seq(Packs) => b[k][q] = Under(k, q)
           T == {k \in 0..N : Same(k)}
<1>3. Same(0)
  <2> SUFFICES ASSUME NEW q \in Packs PROVE b[0][q] = Under(0, q)
    OBVIOUS
  <2>1. 0 \in 0..N /\ q \in Name
    BY <1>2
  <2>2. b[0][q] = <<q>> \o <<>>
    BY <1>1, <2>1 DEF BelowNext
  <2>3. <<q>> \in Seq(Name)
    BY <2>1
  <2>4. <<q>> \o <<>> = <<q>>
    BY <2>3, ConcatEmptySeq
  <2>5. Under(0, q) = <<q>>
    BY <2>1, UnderFacts
  <2> QED BY <2>2, <2>4, <2>5
<1>4. ASSUME NEW k \in 1..N, Same(k - 1) PROVE Same(k)
  <2> SUFFICES ASSUME NEW q \in Packs, Under(k, q) \in Seq(Packs)
               PROVE  b[k][q] = Under(k, q)
    OBVIOUS
  <2>1. k \in 0..N /\ k # 0 /\ q \in Name
    BY <1>2
  <2> DEFINE s == cfg.includes[q]
             v == [i \in DOMAIN s |-> b[k - 1][s[i]]]
             w == [i \in DOMAIN s |-> Under(k - 1, s[i])]
  <2>2. b[k][q] = <<q>> \o FlattenSeq(v)
    BY <1>1, <2>1 DEF BelowNext
  <2>3. Under(k, q) = <<q>> \o FlattenSeq(w)
    BY <2>1, UnderFacts DEF Rest
  <2>4. \A i \in DOMAIN s : s[i] \in Packs /\ Under(k - 1, s[i]) \in Seq(Packs)
    BY UnderDeclared
  <2>5. \A i \in DOMAIN s : b[k - 1][s[i]] = Under(k - 1, s[i])
    BY <1>4, <2>4
  <2>6. v = w
    BY <2>5
  <2> QED BY <2>2, <2>3, <2>6
<1>5. 0 \in T /\ \A k \in 1..N : k - 1 \in T => k \in T
  <2>1. 0 \in 0..N /\ \A k \in 1..N : k \in 0..N
    BY <1>2
  <2> HIDE DEF Same
  <2> QED BY <1>3, <1>4, <2>1
<1>6. N \in T
  <2>1. N \in 0..N
    BY <1>2
  <2> HIDE DEF T
  <2> QED BY <1>2, <1>5, <2>1, InductionUpTo
<1>7. Same(N)
  BY <1>6
<1> QED BY <1>1, <1>7

-----------------------------------------------------------------------------
(* What is left to visit, by the stack.                                    *)

Distinct(st) == \A i, j \in 1..Len(st) : st[i].pack = st[j].pack => i = j

LEMMA StackFits ==
    ASSUME NEW st \in Seq(Frame), Distinct(st)
    PROVE  Len(st) \in 0..N
<1>1. Len(st) \in Nat
  BY LenProperties
<1> DEFINE n == Len(st)
           f == [i \in 1..n |-> st[i].pack]
<1>2. \A i \in 1..n : st[i].pack \in Packs
  BY ElementOfSeq, FrameFacts
<1>3. f \in [1..n -> Packs] /\ \A i, j \in 1..n : f[i] = f[j] => i = j
  BY <1>2 DEF Distinct
<1> HIDE DEF f
<1>4. f \in Injection(1..n, Packs)
  BY <1>3 DEF Injection, IsInjective
<1>5. Cardinality(1..n) <= N
  BY <1>4, FinitelyManyPacks, FS_Injection DEF N
<1>6. Cardinality(1..n) = n
  BY <1>1, FS_Interval, SMTT(20)
<1> QED BY <1>1, <1>5, <1>6, NumberOfPacks

(* l[i] is what is to do once the frames above the i-th are done.          *)
ToCome(l, st) ==
    /\ l[0] = <<>>
    /\ \A i \in 1..Len(st) : l[i] = Rest(N - i, st[i].todo) \o l[i - 1]

LEMMA ToComeType ==
    ASSUME cfg \in Setups, NEW st \in Seq(Frame), Distinct(st), NEW l, ToCome(l, st)
    PROVE  \A i \in 0..Len(st) : l[i] \in Seq(Name)
<1>1. Len(st) \in Nat /\ Len(st) \in 0..N /\ N \in Nat
  BY StackFits, LenProperties, NumberOfPacks
<1> DEFINE T == {i \in 0..Len(st) : l[i] \in Seq(Name)}
<1>2. 0 \in T
  <2>1. <<>> \in Seq(Name) /\ 0 \in 0..Len(st)
    BY <1>1
  <2> QED BY <2>1 DEF ToCome
<1>3. ASSUME NEW i \in 1..Len(st), i - 1 \in T PROVE i \in T
  <2>1. N - i \in 0..N /\ i \in 0..Len(st)
    BY <1>1
  <2>2. st[i].todo \in Seq(Name)
    BY ElementOfSeq, FrameFacts
  <2>3. Rest(N - i, st[i].todo) \in Seq(Name)
    BY <2>1, <2>2, RestFacts
  <2>4. l[i] \in Seq(Name)
    BY <1>3, <2>3, ConcatProperties DEF ToCome
  <2> QED BY <2>1, <2>4
<1>4. \A i \in 0..Len(st) : i \in T
  <2> HIDE DEF T
  <2> QED BY <1>1, <1>2, <1>3, InductionUpTo
<1> QED BY <1>4

(* V is visited, next comes what is pending, then what the stack says.     *)
Planned(V, pending, st) ==
    \E l : ToCome(l, st) /\ (V \o pending) \o l[Len(st)] = Under(N, root)

LEMMA PlanEnd ==
    ASSUME NEW V \in Seq(Name), Planned(V, <<>>, <<>>)
    PROVE  V = Under(N, root)
<1>1. PICK l : ToCome(l, <<>>) /\ (V \o <<>>) \o l[Len(<<>>)] = Under(N, root)
  BY DEF Planned
<1>2. l[Len(<<>>)] = <<>>
  BY <1>1 DEF ToCome
<1> QED BY <1>1, <1>2, ConcatEmptySeq

(* The lists of an unchanged part of the stack.                            *)
LEMMA PlanPush ==
    ASSUME cfg \in Setups, NEW st \in Seq(Frame), Distinct(st), NEW p \in Packs,
           \A i \in 1..Len(st) : st[i].pack # p, NEW V \in Seq(Name),
           Planned(V, Under(N - Len(st), p), st),
           NEW top, top = [pack |-> p, todo |-> cfg.includes[p]]
    PROVE  Distinct(Append(st, top)) /\ Planned(V, <<p>>, Append(st, top))
<1> DEFINE n == Len(st)
           s == Append(st, top)
<1>1. top \in Frame /\ top.pack = p /\ top.todo = cfg.includes[p] /\ top.todo \in Seq(Name)
  BY PackAssumption, SetupFacts, FrameFacts
<1>2. n \in Nat /\ N \in Nat
  BY LenProperties, NumberOfPacks
<1>3. /\ s \in Seq(Frame) /\ Len(s) = n + 1
      /\ \A i \in 1..n : s[i] = st[i]
      /\ s[n + 1] = top
  BY <1>1, AppendProperties
<1> HIDE DEF n, s
<1>4. Distinct(s)
  <2>1. \A i \in 1..n + 1 : i \in 1..n \/ i = n + 1
    BY <1>2
  <2> QED BY <1>1, <1>3, <2>1 DEF Distinct, n
<1>5. n + 1 \in 1..N
  <2>1. n + 1 \in 0..N
    BY <1>3, <1>4, StackFits
  <2> QED BY <1>2, <2>1
<1>6. PICK l : ToCome(l, st) /\ (V \o Under(N - n, p)) \o l[n] = Under(N, root)
  BY DEF Planned, n
<1> DEFINE rest == Rest(N - (n + 1), top.todo)
           m == [i \in 0..n + 1 |-> IF i = n + 1 THEN rest \o l[n] ELSE l[i]]
           one == <<p>>
<1> HIDE DEF rest
<1>7. \A i \in 0..n : m[i] = l[i]
  BY <1>2
<1>8. m[n + 1] = rest \o l[n]
  BY <1>2
<1>9. Under(N - n, p) = one \o rest
  <2>1. /\ N - n \in 0..N /\ N - n # 0 /\ (N - n) - 1 = N - (n + 1) /\ p \in Name
    BY <1>2, <1>5, NumberOfPacks
  <2> QED BY <1>1, <2>1, UnderFacts DEF rest
<1>10. rest \in Seq(Name)
  <2>1. N - (n + 1) \in 0..N
    BY <1>2, <1>5
  <2> QED BY <1>1, <2>1, RestFacts DEF rest
<1>11. l[n] \in Seq(Name) /\ one \in Seq(Name)
  <2>1. n \in 0..n /\ p \in Name
    BY <1>2, NumberOfPacks
  <2>2. \A i \in 0..n : l[i] \in Seq(Name)
    BY <1>6, ToComeType DEF n
  <2> QED BY <2>1, <2>2
<1> HIDE DEF m, one
<1>12. ToCome(m, s)
  <2>1. m[0] = <<>>
    <3>1. 0 \in 0..n
      BY <1>2
    <3> QED BY <1>6, <1>7, <3>1 DEF ToCome
  <2>2. ASSUME NEW i \in 1..n + 1 PROVE m[i] = Rest(N - i, s[i].todo) \o m[i - 1]
    <3>1. CASE i = n + 1
      <4>1. i - 1 = n /\ n \in 0..n
        BY <1>2, <3>1, SMTT(20)
      <4> QED BY <1>3, <1>7, <1>8, <3>1, <4>1 DEF rest
    <3>2. CASE i # n + 1
      <4>1. i \in 1..n /\ i \in 0..n /\ i - 1 \in 0..n
        BY <1>2, <3>2
      <4> QED BY <1>3, <1>6, <1>7, <4>1 DEF ToCome, n
    <3> QED BY <3>1, <3>2
  <2> QED BY <1>3, <2>1, <2>2 DEF ToCome
<1>13. (V \o one) \o (rest \o l[n]) = (V \o (one \o rest)) \o l[n]
  <2>1. PICK c : c = l[n]
    OBVIOUS
  <2>2. PICK x : x = V \o one
    OBVIOUS
  <2>3. c \in Seq(Name) /\ x \in Seq(Name)
    BY <1>11, <2>1, <2>2, ConcatProperties
  <2>4. (x \o rest) \o c = x \o (rest \o c)
    BY <1>10, <2>3, Associative, SMTT(30)
  <2>5. (V \o one) \o rest = V \o (one \o rest)
    BY <1>10, <1>11, Associative
  <2> QED BY <2>1, <2>2, <2>4, <2>5
<1>14. (V \o one) \o m[Len(s)] = Under(N, root)
  BY <1>3, <1>6, <1>8, <1>9, <1>13
<1>15. Planned(V, one, s)
  BY <1>12, <1>14 DEF Planned
<1> QED BY <1>4, <1>15 DEF s, one

(* Once the documents of a pack are there, the pack is visited.            *)
LEMMA PlanGather ==
    ASSUME NEW V \in Seq(Packs), NEW p \in Packs, NEW st, Planned(V, <<p>>, st)
    PROVE  Planned(Append(V, p), <<>>, st)
<1>1. Append(V, p) = V \o <<p>>
  BY AppendIsConcat
<1>2. Append(V, p) \in Seq(Packs)
  BY AppendProperties
<1>3. Append(V, p) \o <<>> = V \o <<p>>
  BY <1>1, <1>2, ConcatEmptySeq
<1> QED BY <1>3 DEF Planned

LEMMA PlanNext ==
    ASSUME cfg \in Setups, stack \in Seq(Frame), Distinct(stack), stack # <<>>,
           NEW V \in Seq(Name), Planned(V, <<>>, stack), Top.todo # <<>>
    PROVE  Distinct(TodoDone)
           /\ Planned(V, Under(N - Len(TodoDone), Head(Top.todo)), TodoDone)
<1> DEFINE n == Len(stack)
           s == TodoDone
           h == Head(Top.todo)
           rest == Rest(N - n, Tail(Top.todo))
           u == Under(N - n, h)
<1>1. n \in Nat /\ n \in 1..n /\ Top.todo \in Seq(Name) /\ n - 1 \in 0..n /\ n - 1 \in Nat
  BY TopFacts
<1>2. n \in 0..N /\ N \in Nat /\ N - n \in 0..N
  BY StackFits, NumberOfPacks
<1>3. /\ s \in Seq(Frame) /\ Len(s) = n
      /\ \A i \in 1..n : s[i].pack = stack[i].pack
      /\ \A i \in 1..n : i # n => s[i] = stack[i]
      /\ s[n].todo = Tail(Top.todo) /\ h \in Name
  BY TodoDoneFacts
<1>4. Tail(Top.todo) \in Seq(Name)
  BY <1>1, HeadTailProperties
<1>5. PICK l : ToCome(l, stack) /\ (V \o <<>>) \o l[n] = Under(N, root)
  BY DEF Planned
<1>6. Rest(N - n, Top.todo) = u \o rest
  BY <1>1, <1>2, RestFacts
<1>7. rest \in Seq(Name) /\ u \in Seq(Name)
  BY <1>2, <1>3, <1>4, RestFacts, UnderFacts
<1>8. l[n] = (u \o rest) \o l[n - 1]
  BY <1>1, <1>5, <1>6 DEF ToCome, Top
<1>9. l[n - 1] \in Seq(Name)
  BY <1>1, <1>5, ToComeType
<1> HIDE DEF n, s, h, rest, u
<1> DEFINE m == [i \in 0..n |-> IF i = n THEN rest \o l[n - 1] ELSE l[i]]
<1>10. \A i \in 0..n : i # n => m[i] = l[i]
  OBVIOUS
<1>11. m[n] = rest \o l[n - 1]
  BY <1>1
<1> HIDE DEF m
<1>12. Distinct(s)
  BY <1>3 DEF Distinct, n
<1>13. ToCome(m, s)
  <2>1. m[0] = <<>>
    <3>1. 0 \in 0..n /\ 0 # n
      BY <1>1
    <3> QED BY <1>5, <1>10, <3>1 DEF ToCome
  <2>2. ASSUME NEW i \in 1..n PROVE m[i] = Rest(N - i, s[i].todo) \o m[i - 1]
    <3>1. i \in 0..n /\ i - 1 \in 0..n /\ i - 1 # n
      BY <1>1
    <3>2. CASE i = n
      BY <1>3, <1>10, <1>11, <3>1, <3>2 DEF rest
    <3>3. CASE i # n
      BY <1>3, <1>5, <1>10, <3>1, <3>3 DEF ToCome, n
    <3> QED BY <3>2, <3>3
  <2> QED BY <1>3, <2>1, <2>2 DEF ToCome
<1>14. V \o <<>> = V
  BY ConcatEmptySeq
<1>15. V \o ((u \o rest) \o l[n - 1]) = (V \o u) \o (rest \o l[n - 1])
  <2>1. PICK c : c = l[n - 1]
    OBVIOUS
  <2>2. PICK x : x = rest \o c
    OBVIOUS
  <2>3. c \in Seq(Name) /\ x \in Seq(Name)
    BY <1>7, <1>9, <2>1, <2>2, ConcatProperties
  <2>4. (V \o u) \o x = V \o (u \o x)
    BY <1>7, <2>3, Associative, SMTT(20)
  <2>5. (u \o rest) \o c = u \o (rest \o c)
    BY <1>7, <2>3, Associative, SMTT(20)
  <2> QED BY <2>1, <2>2, <2>4, <2>5
<1>16. (V \o u) \o m[Len(s)] = Under(N, root)
  BY <1>3, <1>5, <1>8, <1>11, <1>14, <1>15
<1>17. Planned(V, u, s)
  BY <1>13, <1>16 DEF Planned
<1> QED BY <1>3, <1>12, <1>17 DEF s, u, h

LEMMA PlanBack ==
    ASSUME cfg \in Setups, stack \in Seq(Frame), Distinct(stack), stack # <<>>,
           NEW V, Planned(V, <<>>, stack), Top.todo = <<>>
    PROVE  Distinct(Front(stack)) /\ Planned(V, <<>>, Front(stack))
<1> DEFINE n == Len(stack)
           s == Front(stack)
<1>1. n \in Nat /\ n \in 1..n /\ Top.todo \in Seq(Name) /\ n - 1 \in 0..n /\ n - 1 \in Nat
  BY TopFacts
<1>2. n \in 0..N /\ N \in Nat /\ N - n \in 0..N
  BY StackFits, NumberOfPacks
<1>3. s \in Seq(Frame) /\ Len(s) = n - 1 /\ \A i \in 1..n - 1 : s[i] = stack[i]
  BY FrontFacts
<1>4. PICK l : ToCome(l, stack) /\ (V \o <<>>) \o l[n] = Under(N, root)
  BY DEF Planned
<1>5. Rest(N - n, Top.todo) = <<>>
  BY <1>1, <1>2, RestFacts
<1>6. l[n - 1] \in Seq(Name)
  BY <1>1, <1>4, ToComeType
<1>7. l[n] = <<>> \o l[n - 1]
  BY <1>1, <1>4, <1>5 DEF ToCome, Top
<1>8. l[n] = l[n - 1]
  BY <1>6, <1>7, ConcatEmptySeq
<1> HIDE DEF n, s
<1>9. \A i \in 1..n - 1 : i \in 1..n
  BY <1>1
<1>10. ToCome(l, s)
  BY <1>3, <1>4, <1>9 DEF ToCome, n
<1>11. Distinct(s)
  BY <1>3, <1>9 DEF Distinct, n
<1> QED BY <1>3, <1>4, <1>8, <1>10, <1>11 DEF Planned, s

-----------------------------------------------------------------------------
(* What has been visited, at every step of a resolution.                   *)

(* What is visited next: the pack that is being read, or all that is       *)
(* visited from the pack to enter.                                         *)
Pending(step, st, p) ==
    IF step = "enter" THEN Under(N - Len(st), p)
    ELSE IF step = "read" THEN <<st[Len(st)].pack>>
    ELSE <<>>

MissingFrom(V, files) == ToSet(files) = UNION {ToSet(OwnMissing(p)) : p \in ToSet(V)}

(* The documents are those of the packs V; those of the pack being read    *)
(* are still to come, when its missing files have been noted.              *)
Content(V) ==
    /\ Resolved(V, documents)
    /\ pc = "read" => found = OwnPaths(Top.pack)
    /\ MissingFrom(IF pc = "read" THEN Append(V, Top.pack) ELSE V, missing)

InLoad == pc \in {"enter", "read", "include", "stat", "fit"}

InOrder ==
    InLoad \/ Answered =>
        \E V \in Seq(Packs) : /\ Planned(V, Pending(pc, stack, entering), stack)
                              /\ touched = {} => Content(V)
VisitOK ==
    /\ pc = "validate" => documents = <<>> /\ missing = <<>>
    /\ pc \in {"stat", "fit"} => stack = <<>>
    /\ InLoad => Distinct(stack)
    /\ InOrder

LEMMA UnderKept ==
    ASSUME cfg' = cfg
    PROVE  \A k, q : Under(k, q)' = Under(k, q)
<1>1. \A t : Unfolds(t)' <=> Unfolds(t)
  BY DEF Unfolds, VisitedFrom, TreeTypes, Name, N
<1>2. (CHOOSE t : Unfolds(t))' = CHOOSE t : Unfolds(t)
  BY DEF Unfolds, VisitedFrom, TreeTypes, Name, N
<1> QED BY <1>2 DEF Under

LEMMA RestKept ==
    ASSUME cfg' = cfg
    PROVE  \A k, s : Rest(k, s)' = Rest(k, s)
BY UnderKept DEF Rest

LEMMA PlanKept ==
    ASSUME cfg' = cfg, root' = root, NEW V
    PROVE  Planned(V, Pending(pc, stack, entering), stack)' <=>
           Planned(V, Pending(pc', stack', entering'), stack')
<1>1. \A l : ToCome(l, stack)' <=> ToCome(l, stack')
  BY RestKept DEF ToCome, N
<1>2. Pending(pc, stack, entering)' = Pending(pc', stack', entering')
  BY UnderKept DEF Pending, N
<1>3. Under(N, root)' = Under(N, root)
  BY UnderKept DEF N
<1> QED BY <1>1, <1>2, <1>3 DEF Planned

LEMMA OwnKept ==
    ASSUME cfg' = cfg, vault' = vault
    PROVE  /\ \A p : OwnPaths(p)' = OwnPaths(p)
           /\ \A p : OwnMissing(p)' = OwnMissing(p)
           /\ \A p, f : Takes(p, f)' <=> Takes(p, f)
           /\ \A p, t : Selected(p, t)' = Selected(p, t)
<1>1. \A p : OwnPaths(p)' = OwnPaths(p)
  BY DEF OwnPaths, Matches, Select, Readable, Present
<1>2. \A p : OwnMissing(p)' = OwnMissing(p)
  BY DEF OwnMissing, Matches, Select, Readable, Present
<1>3. \A p, f : Takes(p, f)' <=> Takes(p, f)
  BY <1>1 DEF Takes, HasTags
<1>4. \A p, t : Selected(p, t)' = Selected(p, t)
  BY DEF Selected, Select
<1> QED BY <1>1, <1>2, <1>3, <1>4

LEMMA ContentKept ==
    ASSUME cfg' = cfg, vault' = vault, NEW V
    PROVE  /\ \A docs : Resolved(V, docs)' <=> Resolved(V, docs)
           /\ \A W, files : MissingFrom(W, files)' <=> MissingFrom(W, files)
<1>1. \A d : FromFirst(V, d)' <=> FromFirst(V, d)
  BY OwnKept DEF FromFirst, IsFirst
<1>2. \A p, f, g : Earlier(p, f, g)' <=> Earlier(p, f, g)
  BY OwnKept DEF Earlier, IsPlace
<1>3. \A d, e : InTurn(V, d, e)' <=> InTurn(V, d, e)
  BY <1>2, OwnKept DEF InTurn, IsFirst
<1>4. \A docs : Everything(V, docs)' <=> Everything(V, docs)
  BY OwnKept DEF Everything
<1>5. \A docs : Resolved(V, docs)' <=> Resolved(V, docs)
  BY <1>1, <1>3, <1>4 DEF Resolved
<1>6. \A W, files : MissingFrom(W, files)' <=> MissingFrom(W, files)
  BY OwnKept DEF MissingFrom
<1> QED BY <1>5, <1>6

LEMMA ToLoad ==
    ASSUME cfg' = cfg, root' = root, pc' \in {"enter", "read", "include", "stat", "fit", "done"},
           Distinct(stack'), pc' \in {"stat", "fit"} => stack' = <<>>,
           NEW V \in Seq(Packs), Planned(V, Pending(pc', stack', entering'), stack'),
           touched' = {} =>
              /\ vault' = vault
              /\ Resolved(V, documents')
              /\ pc' = "read" => found' = OwnPaths(stack'[Len(stack')].pack)
              /\ MissingFrom(IF pc' = "read" THEN Append(V, stack'[Len(stack')].pack) ELSE V,
                             missing')
    PROVE  VisitOK'
<1>1. Planned(V, Pending(pc, stack, entering), stack)'
  BY PlanKept
<1>2. ASSUME touched' = {} PROVE Content(V)'
  <2>1. Resolved(V, documents)'
    BY <1>2, ContentKept
  <2>2. (pc = "read" => found = OwnPaths(Top.pack))'
    BY <1>2, OwnKept DEF Top
  <2>3. MissingFrom(IF pc = "read" THEN Append(V, Top.pack) ELSE V, missing)'
    BY <1>2, ContentKept DEF Top
  <2> QED BY <2>1, <2>2, <2>3 DEF Content
<1>3. InOrder'
  BY <1>1, <1>2 DEF InOrder
<1>4. InLoad' => Distinct(stack)'
  BY DEF Distinct
<1> QED BY <1>3, <1>4 DEF VisitOK

LEMMA OutOfLoad ==
    ASSUME pc' \in {"idle", "validate", "done"}, ~Answered',
           pc' = "validate" => documents' = <<>> /\ missing' = <<>>
    PROVE  VisitOK'
BY DEF VisitOK, InOrder, InLoad

LEMMA EndWithout ==
    ASSUME NEW result, End(result), result \notin {"whole", "over", "truncated"}
    PROVE  VisitOK'
<1>1. pc' = "done" /\ outcome' = result
  BY DEF End, Goto
<1> QED BY <1>1, OutOfLoad DEF Answered

LEMMA QuietVisit ==
    ASSUME Quiet
    PROVE  cfg' = cfg /\ root' = root /\ vault' = vault /\ touched' = touched
BY DEF Quiet, env, asked

LEMMA NothingResolved ==
    Resolved(<<>>, <<>>) /\ MissingFrom(<<>>, <<>>) /\ <<>> \in Seq(Packs)
    /\ Distinct(<<>>)
<1>1. Len(<<>>) = 0 /\ 1..0 = {}
  OBVIOUS
<1>2. Resolved(<<>>, <<>>)
  BY <1>1 DEF Resolved, Everything
<1>3. MissingFrom(<<>>, <<>>)
  <2>1. ToSet(<<>>) = {}
    BY DEF ToSet
  <2>2. UNION {ToSet(OwnMissing(p)) : p \in {}} = {}
    OBVIOUS
  <2> QED BY <2>1, <2>2 DEF MissingFrom
<1>4. <<>> \in Seq(Packs)
  OBVIOUS
<1> QED BY <1>1, <1>2, <1>3, <1>4 DEF Distinct

(* A resolution begins with nothing visited.                               *)
LEMMA PlanStart ==
    ASSUME cfg \in Setups, cfg' = cfg, root' \in Packs, pc' = "enter", stack' = <<>>,
           entering' = root'
    PROVE  Planned(<<>>, Pending(pc, stack, entering), stack)'
<1> DEFINE l == [i \in 0..0 |-> <<>>]
<1>1. PICK r : r = root'
  OBVIOUS
<1>2. PICK u : u = Under(N, r)
  OBVIOUS
<1>3. u \in Seq(Name)
  <2>1. N \in 0..N /\ r \in Name
    BY <1>1, NumberOfPacks
  <2> QED BY <1>2, <2>1, UnderFacts
<1>4. Len(<<>>) = 0 /\ N - 0 = N /\ l[0] = <<>>
  BY NumberOfPacks
<1> HIDE DEF l
<1>5. ToCome(l, stack)'
  BY <1>4 DEF ToCome
<1>6. Pending(pc, stack, entering)' = u
  BY <1>1, <1>2, <1>4, UnderKept DEF Pending, N
<1>7. Under(N, root)' = u
  BY <1>1, <1>2, UnderKept DEF N
<1>8. l[Len(stack')] = <<>>
  BY <1>4
<1>9. (<<>> \o u) \o <<>> = u
  BY <1>3, ConcatEmptySeq
<1> QED BY <1>5, <1>6, <1>7, <1>8, <1>9 DEF Planned

LEMMA BeginVisit ==
    ASSUME cfg \in Setups, root' \in Packs, pc' = "enter", stack' = <<>>, entering' = root',
           documents' = <<>>, missing' = <<>>, cfg' = cfg, vault' = vault
    PROVE  VisitOK'
<1>1. Planned(<<>>, Pending(pc, stack, entering), stack)'
  BY PlanStart
<1>2. Resolved(<<>>, documents)' /\ MissingFrom(<<>>, missing)'
  BY NothingResolved, ContentKept
<1>3. Content(<<>>)'
  BY <1>2 DEF Content
<1>4. InOrder'
  BY <1>1, <1>3, NothingResolved DEF InOrder
<1>5. InLoad' => Distinct(stack)'
  BY DEF Distinct
<1> QED BY <1>4, <1>5 DEF VisitOK

LEMMA MissingMore ==
    ASSUME cfg \in Setups, NEW V \in Seq(Packs), NEW p \in Packs,
           NEW files \in Seq(Files), MissingFrom(V, files)
    PROVE  MissingFrom(Append(V, p), files \o OwnMissing(p))
<1>1. OwnMissing(p) \in Seq(Files)
  BY PackAssumption, OwnMissingFiles
<1>2. ToSet(files \o OwnMissing(p)) = ToSet(files) \cup ToSet(OwnMissing(p))
  BY <1>1, ConcatElements
<1>3. ToSet(Append(V, p)) = ToSet(V) \cup {p}
  <2>1. Append(V, p) = V \o <<p>> /\ <<p>> \in Seq(Packs)
    BY AppendIsConcat
  <2>2. ToSet(V \o <<p>>) = ToSet(V) \cup ToSet(<<p>>)
    BY <2>1, ConcatElements
  <2>3. ToSet(<<p>>) = {p}
    BY DEF ToSet
  <2> QED BY <2>1, <2>2, <2>3
<1> QED BY <1>2, <1>3 DEF MissingFrom

LEMMA PacksAreNames ==
    ASSUME NEW V \in Seq(Packs)
    PROVE  V \in Seq(Name)
BY NumberOfPacks, SeqMonotonic

LEMMA EnterVisit ==
    ASSUME Types, Quiet, VisitOK, Enter
    PROVE  VisitOK'
<1>1. /\ pc = "enter" /\ UNCHANGED <<entering, documents>> /\ Distinct(stack)
      /\ cfg \in Setups /\ stack \in Seq(Frame) /\ missing \in Seq(Files)
  BY DEF Enter, VisitOK, InLoad, Types, EnvTypes, SearchTypes, ResultTypes
<1>2. CASE End("unknown") \/ End("cycle")
  BY <1>2, EndWithout
<1>3. CASE /\ entering \in Packs /\ ~OnStack(entering) /\ pc' = "read"
           /\ stack' = Push(entering) /\ found' = OwnPaths(entering)
           /\ missing' = missing \o OwnMissing(entering)
  <2>1. PICK V \in Seq(Packs) : /\ Planned(V, Pending(pc, stack, entering), stack)
                                /\ touched = {} => Content(V)
    BY <1>1 DEF VisitOK, InOrder, InLoad
  <2>2. Planned(V, Under(N - Len(stack), entering), stack)
    BY <1>1, <2>1 DEF Pending
  <2> DEFINE top == [pack |-> entering, todo |-> cfg.includes[entering]]
  <2>3. stack' = Append(stack, top) /\ top.pack = entering /\ top \in Frame
    BY <1>1, <1>3, PackAssumption, SetupFacts, FrameFacts DEF Push
  <2>4. \A i \in 1..Len(stack) : stack[i].pack # entering
    <3>1. DOMAIN stack = 1..Len(stack)
      BY <1>1, LenProperties
    <3> QED BY <1>3, <3>1 DEF OnStack
  <2>5. V \in Seq(Name)
    BY PacksAreNames
  <2>6. Distinct(Append(stack, top)) /\ Planned(V, <<entering>>, Append(stack, top))
    BY <1>1, <1>3, <2>2, <2>4, <2>5, PlanPush
  <2> HIDE DEF top
  <2>7. stack'[Len(stack')].pack = entering
    BY <1>1, <2>3, AppendProperties
  <2>8. Planned(V, Pending(pc', stack', entering'), stack') /\ Distinct(stack')
    BY <1>3, <2>3, <2>6, <2>7 DEF Pending
  <2>9. ASSUME touched' = {}
        PROVE  /\ vault' = vault /\ Resolved(V, documents')
               /\ found' = OwnPaths(stack'[Len(stack')].pack)
               /\ MissingFrom(Append(V, stack'[Len(stack')].pack), missing')
    <3>1. Content(V) /\ vault' = vault
      BY <2>1, <2>9, QuietVisit
    <3>2. Resolved(V, documents) /\ MissingFrom(V, missing)
      BY <1>1, <3>1 DEF Content
    <3>3. MissingFrom(Append(V, entering), missing \o OwnMissing(entering))
      BY <1>1, <1>3, <3>2, MissingMore
    <3> QED BY <1>1, <1>3, <2>7, <3>1, <3>2, <3>3
  <2> QED BY <1>3, <2>8, <2>9, QuietVisit, ToLoad
<1> QED BY <1>2, <1>3 DEF Enter, Goto

(* The steps that visit nothing and stay in the call.                      *)
LEMMA SameVisit ==
    ASSUME Quiet, VisitOK, UNCHANGED <<stack, entering, found, documents, missing>>,
           \/ pc \in {"read", "stat"} /\ pc' = pc
           \/ pc = "include" /\ stack = <<>> /\ pc' = "stat"
           \/ pc = "stat" /\ pc' = "fit"
           \/ pc = "fit" /\ pc' = "done"
    PROVE  VisitOK'
<1>1. PICK V \in Seq(Packs) : /\ Planned(V, Pending(pc, stack, entering), stack)
                              /\ touched = {} => Content(V)
  BY DEF VisitOK, InOrder, InLoad
<1>2. Distinct(stack) /\ (pc \in {"stat", "fit"} => stack = <<>>)
  BY DEF VisitOK, InLoad
<1>3. Pending(pc', stack', entering') = Pending(pc, stack, entering)
  BY DEF Pending
<1>4. Planned(V, Pending(pc', stack', entering'), stack') /\ Distinct(stack')
  BY <1>1, <1>2, <1>3
<1>5. ASSUME touched' = {}
      PROVE  /\ vault' = vault /\ Resolved(V, documents')
             /\ pc' = "read" => found' = OwnPaths(stack'[Len(stack')].pack)
             /\ MissingFrom(IF pc' = "read" THEN Append(V, stack'[Len(stack')].pack) ELSE V,
                            missing')
  <2>1. Content(V) /\ vault' = vault
    BY <1>1, <1>5, QuietVisit
  <2>2. pc' = "read" <=> pc = "read"
    OBVIOUS
  <2> QED BY <2>1, <2>2 DEF Content, Top
<1>6. pc' \in {"enter", "read", "include", "stat", "fit", "done"}
  OBVIOUS
<1>7. pc' \in {"stat", "fit"} => stack' = <<>>
  BY <1>2
<1> QED BY <1>4, <1>5, <1>6, <1>7, QuietVisit, ToLoad

LEMMA GatherVisit ==
    ASSUME Types, Quiet, SteadyOK, VisitOK, Gather
    PROVE  VisitOK'
<1>1. /\ pc = "read" /\ UNCHANGED <<entering, missing>> /\ Distinct(stack)
      /\ cfg \in Setups /\ stack \in Seq(Frame) /\ stack # <<>> /\ documents \in Seq(Doc)
  BY DEF Gather, VisitOK, InLoad, Types, EnvTypes, SearchTypes, ReadTypes, ResultTypes
<1>2. CASE End("failed")
  BY <1>2, EndWithout
<1>3. CASE /\ \A i \in DOMAIN found : texts[i] # Unread /\ Legible(texts[i])
           /\ documents' = FirstPlaces(documents \o ReadDocuments(Top.pack))
           /\ pc' = "include" /\ UNCHANGED stack
  <2>1. PICK V \in Seq(Packs) : /\ Planned(V, Pending(pc, stack, entering), stack)
                                /\ touched = {} => Content(V)
    BY <1>1 DEF VisitOK, InOrder, InLoad
  <2> DEFINE p == Top.pack
             W == Append(V, p)
  <2>2. p \in Packs
    BY <1>1, TopFacts
  <2>3. Planned(V, <<p>>, stack)
    BY <1>1, <2>1 DEF Pending, Top
  <2> HIDE DEF p
  <2>4. Planned(W, <<>>, stack) /\ W \in Seq(Packs)
    BY <2>2, <2>3, PlanGather, AppendProperties
  <2>5. Pending(pc', stack', entering') = <<>>
    BY <1>3 DEF Pending
  <2>6. ASSUME touched' = {}
        PROVE  vault' = vault /\ Resolved(W, documents') /\ MissingFrom(W, missing')
    <3>1. Content(V) /\ vault' = vault /\ touched = {}
      BY <2>1, <2>6, QuietVisit
    <3>2. /\ Resolved(V, documents) /\ found = OwnPaths(p)
          /\ MissingFrom(Append(V, p), missing)
      BY <1>1, <3>1 DEF Content, p
    <3>3. \A i \in DOMAIN found : /\ texts[i] = vault[found[i]] /\ texts[i] # Unread
                                  /\ Legible(texts[i])
      BY <1>1, <1>3, <3>1 DEF SteadyOK, ReadSteady
    <3> DEFINE own == ReadDocuments(p)
    <3>4. own \in Seq(Doc) /\ \E h : PutIn(h, own, p)
      BY <1>1, <2>2, <3>2, <3>3, ReadIsPutIn
    <3> HIDE DEF own
    <3>5. PICK h : PutIn(h, own, p)
      BY <3>4
    <3>6. Len(OwnPaths(p)) \in Nat /\ DOMAIN OwnPaths(p) = 1..Len(OwnPaths(p))
      <4>1. OwnPaths(p) \in Seq(Files)
        BY <3>2 DEF Types, ReadTypes
      <4> QED BY <4>1, LenProperties
    <3>7. Resolved(W, FirstPlaces(documents \o own))
      BY <1>1, <2>2, <3>2, <3>4, <3>5, <3>6, ResolvedMore
    <3> QED BY <1>1, <1>3, <3>1, <3>2, <3>7 DEF own, p
  <2> HIDE DEF W
  <2>7. Planned(W, Pending(pc', stack', entering'), stack') /\ Distinct(stack')
    BY <1>1, <1>3, <2>4, <2>5
  <2> QED BY <1>3, <2>4, <2>6, <2>7, QuietVisit, ToLoad
<1> QED BY <1>2, <1>3, GatherCases DEF Goto

LEMMA IncludeVisit ==
    ASSUME Types, Quiet, VisitOK, Include
    PROVE  VisitOK'
<1>1. /\ pc = "include" /\ UNCHANGED <<documents, missing>> /\ Distinct(stack)
      /\ cfg \in Setups /\ stack \in Seq(Frame) /\ stack # <<>>
  BY DEF Include, VisitOK, InLoad, Types, EnvTypes, SearchTypes
<1>2. PICK V \in Seq(Packs) : /\ Planned(V, Pending(pc, stack, entering), stack)
                              /\ touched = {} => Content(V)
  BY <1>1 DEF VisitOK, InOrder, InLoad
<1>3. Planned(V, <<>>, stack) /\ V \in Seq(Name)
  BY <1>1, <1>2, PacksAreNames DEF Pending
<1>4. touched' = {} => vault' = vault /\ Resolved(V, documents') /\ MissingFrom(V, missing')
  BY <1>1, <1>2, QuietVisit DEF Content
<1>5. CASE /\ Top.todo # <<>> /\ entering' = Head(Top.todo) /\ stack' = TodoDone
           /\ pc' = "enter"
  <2>1. Distinct(stack') /\ Planned(V, Under(N - Len(stack'), entering'), stack')
    BY <1>1, <1>3, <1>5, PlanNext
  <2>2. Planned(V, Pending(pc', stack', entering'), stack')
    BY <1>5, <2>1 DEF Pending
  <2> QED BY <1>4, <1>5, <2>1, <2>2, QuietVisit, ToLoad
<1>6. CASE Top.todo = <<>> /\ stack' = Front(stack) /\ UNCHANGED <<entering, pc>>
  <2>1. Distinct(stack') /\ Planned(V, <<>>, stack')
    BY <1>1, <1>3, <1>6, PlanBack
  <2>2. Planned(V, Pending(pc', stack', entering'), stack')
    BY <1>1, <1>6, <2>1 DEF Pending
  <2> QED BY <1>1, <1>4, <1>6, <2>1, <2>2, QuietVisit, ToLoad
<1> QED BY <1>5, <1>6 DEF Include, Goto

LEMMA ValidationVisit ==
    ASSUME Types, Quiet, SearchOK, VisitOK, Validation
    PROVE  VisitOK'
<1>1. /\ pc = "validate" /\ documents = <<>> /\ missing = <<>> /\ entering = root
      /\ UNCHANGED <<documents, missing, entering>> /\ cfg \in Setups /\ root \in Packs
  BY DEF Validation, ValidateFrom, ValidateChild, ValidateLeave, ValidateDone, VisitOK,
         SearchOK, Validating, Types, EnvTypes, AskedTypes
<1>2. CASE pc' = "validate"
  BY <1>1, <1>2, OutOfLoad DEF Answered
<1>3. CASE End("refused")
  BY <1>3, EndWithout
<1>4. CASE pc' = "enter" /\ stack = <<>> /\ UNCHANGED stack
  BY <1>1, <1>4, QuietVisit, BeginVisit
<1> QED BY <1>1, <1>2, <1>3, <1>4
        DEF Validation, ValidateFrom, ValidateChild, ValidateLeave, ValidateDone, Goto

LEMMA EnforceVisit ==
    ASSUME Types, Quiet, VisitOK, Enforce
    PROVE  VisitOK'
<1>1. pc = "fit" /\ pc' = "done" /\ UNCHANGED <<entering, documents, missing>>
  BY DEF Enforce, End, Goto
<1>2. stack = <<>> /\ stack' = <<>>
  BY <1>1 DEF VisitOK, Enforce, End
<1>3. PICK V \in Seq(Packs) : /\ Planned(V, Pending(pc, stack, entering), stack)
                              /\ touched = {} => Content(V)
  BY <1>1 DEF VisitOK, InOrder, InLoad
<1>4. Planned(V, Pending(pc', stack', entering'), stack') /\ Distinct(stack')
  BY <1>1, <1>2, <1>3, NothingResolved DEF Pending
<1>5. touched' = {} => vault' = vault /\ Resolved(V, documents') /\ MissingFrom(V, missing')
  BY <1>1, <1>3, QuietVisit DEF Content
<1> QED BY <1>1, <1>2, <1>4, <1>5, QuietVisit, ToLoad

LEMMA ProgressVisit ==
    ASSUME Types, SearchOK, SteadyOK, VisitOK, Progress
    PROVE  VisitOK'
<1>1. Quiet
  BY DEF Progress, Quiet
<1>2. CASE Validation
  BY <1>1, <1>2, ValidationVisit
<1>3. CASE Enter
  BY <1>1, <1>3, EnterVisit
<1>4. CASE \E i \in DOMAIN found : Read(i)
  BY <1>1, <1>4, SameVisit DEF Read
<1>5. CASE Gather
  BY <1>1, <1>5, GatherVisit
<1>6. CASE Include
  BY <1>1, <1>6, IncludeVisit
<1>7. CASE Query
  BY <1>1, <1>7, SameVisit DEF Query, Goto
<1>8. CASE Stat
  <2>1. pc = "stat" /\ UNCHANGED <<entering, documents, missing>>
    BY <1>8 DEF Stat
  <2>2. CASE End("failed")
    BY <2>2, EndWithout
  <2>3. CASE pc' = "fit" /\ UNCHANGED <<stack, found>>
    BY <1>1, <2>1, <2>3, SameVisit
  <2> QED BY <1>8, <2>2, <2>3 DEF Stat, Goto
<1>9. CASE Enforce
  BY <1>1, <1>9, EnforceVisit
<1> QED BY <1>2, <1>3, <1>4, <1>5, <1>6, <1>7, <1>8, <1>9 DEF Progress, Resolution

LEMMA RequestVisit ==
    ASSUME Types, SearchOK, NEW p \in Packs, NEW isStrict \in BOOLEAN,
           NEW isChecked \in BOOLEAN, Request(p, isStrict, isChecked)
    PROVE  VisitOK'
<1>1. /\ root' = p /\ entering' = p /\ documents' = <<>> /\ missing' = <<>>
      /\ pc' = IF isChecked THEN "validate" ELSE "enter"
      /\ cfg' = cfg /\ vault' = vault /\ cfg \in Setups /\ stack' = <<>>
  BY DEF Request, Goto, env, Types, EnvTypes, SearchOK, AtRest
<1>2. CASE isChecked
  BY <1>1, <1>2, OutOfLoad DEF Answered
<1>3. CASE ~isChecked
  BY <1>1, <1>3, BeginVisit
<1> QED BY <1>2, <1>3

(* The vault changes: from then on a file is touched.                      *)
LEMMA WorldUnsteady ==
    ASSUME World
    PROVE  touched' = {} => touched = {} /\ vault' = vault
BY DEF World, Save, Delete, Index, Tick

LEMMA KeptVisit ==
    ASSUME VisitOK, CallKept, touched' = {} => touched = {} /\ vault' = vault
    PROVE  VisitOK'
<1>1. /\ cfg' = cfg /\ root' = root /\ pc' = pc /\ stack' = stack /\ entering' = entering
      /\ found' = found /\ documents' = documents /\ missing' = missing
      /\ outcome' = outcome
  BY DEF CallKept, asked
<1>2. ASSUME NEW V, Planned(V, Pending(pc, stack, entering), stack)
      PROVE  Planned(V, Pending(pc, stack, entering), stack)'
  <2>1. Planned(V, Pending(pc', stack', entering'), stack')
    BY <1>1, <1>2
  <2> QED BY <1>1, <2>1, PlanKept
<1>3. ASSUME NEW V, touched = {} => Content(V), touched' = {} PROVE Content(V)'
  <2>1. Content(V) /\ vault' = vault
    BY <1>3
  <2>2. Resolved(V, documents)'
    BY <1>1, <2>1, ContentKept DEF Content
  <2>3. (pc = "read" => found = OwnPaths(Top.pack))'
    BY <1>1, <2>1, OwnKept DEF Content, Top
  <2>4. MissingFrom(IF pc = "read" THEN Append(V, Top.pack) ELSE V, missing)'
    BY <1>1, <2>1, ContentKept DEF Content, Top
  <2> QED BY <2>2, <2>3, <2>4 DEF Content
<1>4. InOrder'
  <2> SUFFICES ASSUME InLoad' \/ Answered'
               PROVE  \E V \in Seq(Packs) :
                         /\ Planned(V, Pending(pc, stack, entering), stack)'
                         /\ touched' = {} => Content(V)'
    BY DEF InOrder
  <2>1. InLoad \/ Answered
    BY <1>1 DEF InLoad, Answered
  <2>2. PICK V \in Seq(Packs) : /\ Planned(V, Pending(pc, stack, entering), stack)
                                /\ touched = {} => Content(V)
    BY <2>1 DEF VisitOK, InOrder
  <2> QED BY <1>2, <1>3, <2>2
<1>5. InLoad' => Distinct(stack)'
  BY <1>1 DEF VisitOK, InLoad, Distinct
<1> QED BY <1>1, <1>4, <1>5 DEF VisitOK

LEMMA VisitHolds == Spec => []VisitOK
<1>1. Init => VisitOK
  BY DEF Init, VisitOK, InOrder, InLoad, Answered
<1>2. ASSUME Types, SearchOK, SteadyOK, VisitOK, [Next]_vars PROVE VisitOK'
  <2>1. CASE Progress
    BY <1>2, <2>1, ProgressVisit
  <2>2. CASE \E p \in Packs, isStrict, isChecked \in BOOLEAN : Request(p, isStrict, isChecked)
    BY <1>2, <2>2, RequestVisit
  <2>3. CASE World
    BY <1>2, <2>3, WorldKeepsCall, WorldUnsteady, KeptVisit
  <2>4. CASE UNCHANGED vars
    BY <1>2, <2>4, StutterKeeps, KeptVisit
  <2> QED BY <1>2, <2>1, <2>2, <2>3, <2>4, NextCases
<1> QED BY <1>1, <1>2, TypesHold, SearchHolds, SteadyHolds, PTL DEF Spec

(* What an answer is made of, once the vault has not changed.              *)
LEMMA AnsweredInOrder ==
    ASSUME Types, SearchOK, VisitOK, Answered, touched = {}
    PROVE  /\ Visits \in Seq(Packs) /\ Resolved(Visits, documents)
           /\ MissingFrom(Visits, missing)
<1>1. pc = "done" /\ stack = <<>> /\ cfg \in Setups /\ root \in Packs
  BY DEF Answered, SearchOK, AtRest, Types, EnvTypes, AskedTypes
<1>2. PICK V \in Seq(Packs) : Planned(V, Pending(pc, stack, entering), stack) /\ Content(V)
  BY DEF VisitOK, InOrder
<1>3. Planned(V, <<>>, <<>>)
  BY <1>1, <1>2 DEF Pending
<1>4. V = Under(N, root)
  BY <1>3, PacksAreNames, PlanEnd
<1>5. Visits = V
  BY <1>1, <1>4, SameVisits
<1> QED BY <1>1, <1>2, <1>5 DEF Content

LEMMA AnswerIsItsFiles ==
    ASSUME Types, SearchOK, VisitOK
    PROVE  PackIsItsFiles
<1> SUFFICES ASSUME Answered, touched = {} PROVE PackIsItsFiles
  BY DEF PackIsItsFiles
<1> DEFINE V == Visits
           Place(d) == FirstTaker(d.path)
           IsAt(d, k) == /\ OwnPaths(V[Place(d)])[k] = d.path
                         /\ \A j \in 1..(k - 1) : OwnPaths(V[Place(d)])[j] # d.path
           Position(d) == CHOOSE k \in DOMAIN OwnPaths(V[Place(d)]) : IsAt(d, k)
<1>1. V \in Seq(Packs) /\ Resolved(V, documents) /\ MissingFrom(V, missing)
  BY AnsweredInOrder
<1>2. documents \in Seq(Doc) /\ cfg \in Setups
  BY DEF Types, ResultTypes, EnvTypes
<1>3. Len(V) \in Nat /\ DOMAIN V = 1..Len(V) /\ \A i \in 1..Len(V) : V[i] \in Packs
  BY <1>1, LenProperties, ElementOfSeq
<1>4. /\ Len(documents) \in Nat /\ DOMAIN documents = 1..Len(documents)
      /\ \A k \in 1..Len(documents) : documents[k] \in Doc /\ documents[k].path \in Files
  BY <1>2, LenProperties, ElementOfSeq, DocPieces
<1>5. \A f, i : FirstTaker(f) = CHOOSE x \in DOMAIN V : IsFirst(V, f, x)
  BY <1>3 DEF FirstTaker, IsFirst
<1> HIDE DEF V
<1>6. ASSUME NEW d, NEW i, IsFirst(V, d.path, i) PROVE Place(d) = i
  <2>1. i \in DOMAIN V
    BY <1>3, <1>6 DEF IsFirst
  <2>2. IsFirst(V, d.path, Place(d))
    BY <1>5, <1>6, <2>1
  <2> QED BY <1>3, <1>6, <2>2, OnlyOneFirst
<1>7. \A k \in 1..Len(documents) : FromFirst(V, documents[k])
  BY <1>1 DEF Resolved
<1>8. {d.path : d \in ToSet(documents)} = {f \in Files : \E p \in ToSet(V) : Takes(p, f)}
  <2>1. ASSUME NEW k \in 1..Len(documents)
        PROVE  \E p \in ToSet(V) : Takes(p, documents[k].path)
    BY <1>3, <1>7 DEF FromFirst, IsFirst, ToSet
  <2>2. ASSUME NEW f, NEW p \in ToSet(V), Takes(p, f)
        PROVE  \E k \in 1..Len(documents) : documents[k].path = f
    BY <1>1, <1>3, <2>2 DEF Resolved, Everything, ToSet
  <2> QED BY <1>4, <2>1, <2>2 DEF ToSet
<1>9. ASSUME NEW d \in ToSet(documents)
      PROVE  d.parts = Selected(V[Place(d)], vault[d.path].text)
  <2>1. PICK i \in 1..Len(V) : IsFirst(V, d.path, i)
                                 /\ d.parts = Selected(V[i], vault[d.path].text)
    BY <1>4, <1>7 DEF FromFirst, ToSet
  <2>2. Place(d) = i
    BY <1>6, <2>1
  <2> HIDE DEF Place
  <2> QED BY <2>1, <2>2
<1>10. ASSUME NEW k \in 1..Len(documents), NEW l \in 1..Len(documents), k < l
       PROVE  \/ Place(documents[k]) < Place(documents[l])
              \/ /\ Place(documents[k]) = Place(documents[l])
                 /\ Position(documents[k]) < Position(documents[l])
  <2> DEFINE d == documents[k]
             e == documents[l]
  <2>1. PICK i \in 1..Len(V) : IsFirst(V, d.path, i)
    BY <1>7 DEF FromFirst
  <2>2. PICK j \in 1..Len(V) : IsFirst(V, e.path, j)
    BY <1>7 DEF FromFirst
  <2>3. InTurn(V, d, e)
    BY <1>1, <1>10 DEF Resolved
  <2> HIDE DEF d, e
  <2>4. Place(d) = i /\ Place(e) = j
    BY <1>6, <2>1, <2>2
  <2>5. CASE i < j
    <3> HIDE DEF Place
    <3> QED BY <2>4, <2>5 DEF d, e
  <2>6. CASE i = j /\ Earlier(V[i], d.path, e.path)
    <3> DEFINE own == OwnPaths(V[i])
    <3>1. own \in Seq({f \in Files : Readable(f) /\ Present(f)})
      BY <1>2, <1>3, PackAssumption, OwnPathsFound
    <3>2. Len(own) \in Nat /\ DOMAIN own = 1..Len(own)
      BY <3>1, LenProperties
    <3>3. PICK x \in 1..Len(own), y \in 1..Len(own) :
             IsPlace(V[i], d.path, x) /\ IsPlace(V[i], e.path, y) /\ x < y
      BY <2>6 DEF Earlier
    <3>4. Place(d) = i /\ Place(e) = i
      BY <2>4, <2>6
    <3> HIDE DEF Place
    <3>5. \A c : Place(c) = i =>
             Position(c) = CHOOSE z \in DOMAIN OwnPaths(V[i]) :
                 /\ OwnPaths(V[i])[z] = c.path
                 /\ \A w \in 1..(z - 1) : OwnPaths(V[i])[w] # c.path
      OBVIOUS
    <3>6. \A c : Place(c) = i =>
             Position(c) = CHOOSE z \in 1..Len(OwnPaths(V[i])) : IsPlace(V[i], c.path, z)
      BY <3>2, <3>5 DEF IsPlace
    <3> HIDE DEF Position
    <3>7. ASSUME NEW c, NEW z \in 1..Len(own), Place(c) = i, IsPlace(V[i], c.path, z)
          PROVE  Position(c) = z
      <4>1. IsPlace(V[i], c.path, Position(c))
        BY <3>6, <3>7
      <4> QED BY <3>2, <3>7, <4>1, OnlyOnePlace
    <3>8. Position(d) = x /\ Position(e) = y
      BY <3>3, <3>4, <3>7
    <3> QED BY <3>2, <3>3, <3>4, <3>8 DEF d, e
  <2> QED BY <2>1, <2>2, <2>3, <2>5, <2>6 DEF InTurn
<1>11. ToSet(missing) = UNION {ToSet(OwnMissing(p)) : p \in ToSet(V)}
  BY <1>1 DEF MissingFrom
<1>12. \A i, j \in DOMAIN documents : i < j =>
          \/ Place(documents[i]) < Place(documents[j])
          \/ /\ Place(documents[i]) = Place(documents[j])
             /\ Position(documents[i]) < Position(documents[j])
  <2> HIDE DEF Place, Position
  <2> QED BY <1>4, <1>10
<1> QED BY <1>8, <1>9, <1>11, <1>12 DEF PackIsItsFiles, V

(* In a vault that does not change, a pack is made of the files that it    *)
(* and the packs it includes declare, in the order of the declarations,    *)
(* each once and from the first pack that selects it; explicit paths       *)
(* without a file are reported: for every graph of includes, every         *)
(* declaration of paths, tags and sections, and threads that read in any   *)
(* order (ContextPackResolver._resolve_pack).                              *)
THEOREM FilesExact == Spec => []PackIsItsFiles
BY AnswerIsItsFiles, TypesHold, SearchHolds, VisitHolds, PTL
=============================================================================
