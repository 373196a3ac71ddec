--------------------------- MODULE MarkdownProofs ---------------------------
(***************************************************************************)
(* Proofs about Markdown: what the parser makes of any text.               *)
(***************************************************************************)
EXTENDS Markdown, ListsProofs

LEMMA LeastFacts ==
    ASSUME NEW S, S \subseteq Nat, S # {}
    PROVE  Least(S) \in S /\ \A j \in S : Least(S) <= j
<1>1. \E i \in S : \A j \in S : i <= j
  BY LeastNumber
<1> QED BY <1>1 DEF Least

LEMMA InOrderFacts ==
    ASSUME NEW lines, IsList(lines), NEW K, K \subseteq DOMAIN lines
    PROVE  LET order == InOrder(lines, K) IN
           /\ Len(order) \in Nat /\ DOMAIN order = 1..Len(order)
           /\ \A i \in 1..Len(order) : order[i] \in K
           /\ \A i, j \in 1..Len(order) : i < j => order[i] < order[j]
           /\ \A k \in K : \E i \in 1..Len(order) : order[i] = k
<1> DEFINE n == Len(lines)
           s == [k \in DOMAIN lines |-> k]
           order == InOrder(lines, K)
<1>1. n \in Nat /\ DOMAIN lines = 1..n
  BY ListFacts
<1>2. s \in [1..n -> Nat]
  BY <1>1
<1>3. s \in Seq(Nat) /\ Len(s) = n
  BY <1>1, <1>2, FunctionIsSeq
<1>4. \A k \in 1..n : s[k] = k
  BY <1>1
<1>5. order = At(s, K)
  BY DEF InOrder
<1> HIDE DEF s, order
<1>6. order \in Seq(Nat)
  BY <1>3, <1>5, AtEnumeration
<1>7. PICK g : Enumerates(g, order, s, K, n)
  BY <1>3, <1>5, AtEnumeration
<1>8. Len(order) \in Nat /\ DOMAIN order = 1..Len(order)
  BY <1>6, LenProperties
<1>9. \A i \in 1..Len(order) : g[i] \in K \cap 1..n /\ order[i] = g[i]
  <2>1. g \in [1..Len(order) -> K \cap 1..n]
        /\ \A i \in 1..Len(order) : order[i] = s[g[i]]
    BY <1>7 DEF Enumerates
  <2> QED BY <1>4, <2>1
<1>10. \A i, j \in 1..Len(order) : i < j => order[i] < order[j]
  BY <1>7, <1>9 DEF Enumerates
<1>11. \A k \in K : \E i \in 1..Len(order) : order[i] = k
  BY <1>1, <1>7, <1>9 DEF Enumerates
<1> QED BY <1>8, <1>9, <1>10, <1>11 DEF order

-----------------------------------------------------------------------------
(* The sections of a text. *)

Order(lines) == InOrder(lines, Headings(lines))
NextHeading(lines, h) ==
    Least({k \in Headings(lines) : k > h} \cup {Len(lines) + 1})
Named(lines) ==
    [i \in DOMAIN Order(lines) |->
        HeadingSection(lines, Headings(lines), Order(lines)[i])]
HasRoot(lines) ==
    \/ Headings(lines) = {}
    \/ \E k \in 1 .. NextHeading(lines, 0) - 1 : ~IsBlank(lines[k])

LEMMA HeadingFacts ==
    ASSUME NEW lines, IsList(lines)
    PROVE  /\ Len(lines) \in Nat /\ DOMAIN lines = 1..Len(lines)
           /\ Headings(lines) \subseteq 1..Len(lines)
           /\ Len(Order(lines)) \in Nat /\ DOMAIN Order(lines) = 1..Len(Order(lines))
           /\ \A i \in 1..Len(Order(lines)) : Order(lines)[i] \in Headings(lines)
           /\ \A i, j \in 1..Len(Order(lines)) :
                 i < j => Order(lines)[i] < Order(lines)[j]
           /\ \A k \in Headings(lines) :
                 \E i \in 1..Len(Order(lines)) : Order(lines)[i] = k
<1>1. Len(lines) \in Nat /\ DOMAIN lines = 1..Len(lines)
  BY ListFacts
<1>2. Headings(lines) \subseteq DOMAIN lines
  BY DEF Headings
<1> QED BY <1>1, <1>2, InOrderFacts DEF Order

LEMMA NextHeadingFacts ==
    ASSUME NEW lines, IsList(lines), NEW h \in 0..Len(lines)
    PROVE  /\ NextHeading(lines, h) \in h + 1 .. Len(lines) + 1
           /\ \A k \in Headings(lines) : k > h => NextHeading(lines, h) <= k
           /\ NextHeading(lines, h) <= Len(lines) =>
                 NextHeading(lines, h) \in Headings(lines)
<1> DEFINE S == {k \in Headings(lines) : k > h} \cup {Len(lines) + 1}
<1>1. Len(lines) \in Nat /\ Headings(lines) \subseteq 1..Len(lines)
  BY HeadingFacts
<1>2. S \subseteq h + 1 .. Len(lines) + 1 /\ S \subseteq Nat /\ S # {}
  BY <1>1
<1>3. Least(S) \in S /\ \A j \in S : Least(S) <= j
  <2> HIDE DEF S
  <2> QED BY <1>2, LeastFacts
<1>4. NextHeading(lines, h) = Least(S)
  BY DEF NextHeading
<1> DEFINE l == Least(S)
<1>5. l \in h + 1 .. Len(lines) + 1
  <2> HIDE DEF S
  <2> QED BY <1>2, <1>3
<1>6. \A k \in Headings(lines) : k > h => l <= k
  BY <1>3
<1>7. l <= Len(lines) => l \in Headings(lines)
  <2>1. l \in S
    BY <1>3
  <2> HIDE DEF l
  <2> QED BY <1>1, <2>1
<1> QED BY <1>4, <1>5, <1>6, <1>7

LEMMA SectionsAre ==
    ASSUME NEW lines, IsList(lines)
    PROVE  Sections(lines) =
              IF HasRoot(lines)
              THEN <<RootSection(NextHeading(lines, 0) - 1)>> \o Named(lines)
              ELSE Named(lines)
<1>1. {k \in Headings(lines) : k > 0} = Headings(lines)
  BY HeadingFacts
<1> QED BY <1>1 DEF Sections, HasRoot, Named, Order, NextHeading

(* Section i is that of the heading Order(lines)[i], after the text before *)
(* the first heading if there is any.                                      *)
LEMMA SectionFacts ==
    ASSUME NEW lines, IsList(lines)
    PROVE  LET ss == Sections(lines)
               off == IF HasRoot(lines) THEN 1 ELSE 0
           IN  /\ Len(ss) = off + Len(Order(lines)) /\ DOMAIN ss = 1..Len(ss)
               /\ HasRoot(lines) => ss[1] = RootSection(NextHeading(lines, 0) - 1)
               /\ \A i \in 1..Len(ss) : i > off =>
                    /\ i - off \in 1..Len(Order(lines))
                    /\ ss[i] = HeadingSection(lines, Headings(lines),
                                              Order(lines)[i - off])
<1> DEFINE n == Len(Order(lines))
           named == Named(lines)
           root == RootSection(NextHeading(lines, 0) - 1)
           S == {named[i] : i \in 1..n} \cup {root}
<1>1. n \in Nat /\ DOMAIN Order(lines) = 1..n
  BY HeadingFacts
<1>2. named = [i \in 1..n |-> HeadingSection(lines, Headings(lines), Order(lines)[i])]
  BY <1>1 DEF Named
<1>3. named \in [1..n -> S]
  BY <1>2
<1>4. named \in Seq(S) /\ Len(named) = n
  <2> HIDE DEF S, named
  <2> QED BY <1>1, <1>3, FunctionIsSeq
<1>5. <<root>> \in Seq(S) /\ Len(<<root>>) = 1 /\ <<root>>[1] = root
  OBVIOUS
<1> HIDE DEF S, root, named
<1>6. CASE HasRoot(lines)
  <2>1. Sections(lines) = <<root>> \o named
    BY <1>6, SectionsAre DEF root, named
  <2>2. /\ Sections(lines) \in Seq(S) /\ Len(Sections(lines)) = 1 + n
        /\ \A i \in 1 .. 1 + n :
              Sections(lines)[i] = IF i <= 1 THEN root ELSE named[i - 1]
    <3>1. /\ <<root>> \o named \in Seq(S)
          /\ Len(<<root>> \o named) = 1 + n
          /\ \A i \in 1 .. 1 + n : (<<root>> \o named)[i] =
                IF i <= 1 THEN <<root>>[i] ELSE named[i - 1]
      BY <1>4, <1>5, ConcatProperties
    <3> QED BY <1>1, <1>5, <2>1, <3>1
  <2>3. DOMAIN Sections(lines) = 1..Len(Sections(lines))
    BY <2>2, LenProperties
  <2>4. ASSUME NEW i \in 1 .. 1 + n, i > 1
        PROVE  /\ i - 1 \in 1..n
               /\ Sections(lines)[i] =
                     HeadingSection(lines, Headings(lines), Order(lines)[i - 1])
    <3>1. i - 1 \in 1..n
      BY <1>1, <2>4
    <3> QED BY <1>1, <1>2, <2>2, <2>4, <3>1
  <2> QED BY <1>1, <1>6, <2>2, <2>3, <2>4 DEF root
<1>7. CASE ~HasRoot(lines)
  <2>1. Sections(lines) = named
    BY <1>7, SectionsAre DEF named
  <2>2. DOMAIN named = 1..n
    BY <1>2
  <2> QED BY <1>1, <1>2, <1>4, <1>7, <2>1, <2>2
<1> QED BY <1>6, <1>7
LEMMA OrdinalsGrow ==
    ASSUME NEW lines, IsList(lines),
           NEW g \in Headings(lines), NEW h \in Headings(lines), g < h,
           lines[g].word = lines[h].word
    PROVE  Ordinal(lines, Headings(lines), g) # Ordinal(lines, Headings(lines), h)
<1> DEFINE hs == Headings(lines)
           A == {k \in hs : k <= g /\ lines[k].word = lines[g].word}
           B == {k \in hs : k <= h /\ lines[k].word = lines[h].word}
<1>1. Len(lines) \in Nat /\ hs \subseteq 1..Len(lines)
  BY HeadingFacts
<1>2. A \subseteq B /\ h \in B /\ h \notin A /\ B \subseteq 1..Len(lines)
  BY <1>1
<1>3. Ordinal(lines, hs, g) = Cardinality(A) /\ Ordinal(lines, hs, h) = Cardinality(B)
  BY DEF Ordinal
<1> HIDE DEF A, B, hs
<1>4. IsFiniteSet(B)
  <2>1. IsFiniteSet(1..Len(lines))
    BY <1>1, FS_Interval
  <2> QED BY <1>2, <2>1, FS_Subset
<1>5. A # B
  BY <1>2
<1>6. Cardinality(A) # Cardinality(B)
  <2>1. IsFiniteSet(A) /\ Cardinality(A) <= Cardinality(B)
        /\ (Cardinality(A) = Cardinality(B) => A = B)
    BY <1>2, <1>4, FS_Subset
  <2> QED BY <1>5, <2>1
<1> QED BY <1>3, <1>6 DEF hs

(* Two sections have one key only if one is the text before the first      *)
(* heading and the other has the heading Root.                             *)
LEMMA KeysClash ==
    ASSUME NEW lines, IsList(lines),
           NEW i \in DOMAIN Sections(lines), NEW j \in DOMAIN Sections(lines), i < j,
           SectionKey(Sections(lines)[i]) = SectionKey(Sections(lines)[j])
    PROVE  /\ Sections(lines)[i].at = 0 /\ Sections(lines)[j].at > 0
           /\ Sections(lines)[j].slug = Root
<1> DEFINE ss == Sections(lines)
           hs == Headings(lines)
           off == IF HasRoot(lines) THEN 1 ELSE 0
           order == Order(lines)
<1>1. /\ DOMAIN ss = 1..Len(ss) /\ Len(ss) = off + Len(order)
      /\ HasRoot(lines) => ss[1] = RootSection(NextHeading(lines, 0) - 1)
      /\ \A k \in 1..Len(ss) : k > off =>
            /\ k - off \in 1..Len(order)
            /\ ss[k] = HeadingSection(lines, hs, order[k - off])
  BY SectionFacts
<1>2. /\ Len(lines) \in Nat /\ hs \subseteq 1..Len(lines) /\ Len(order) \in Nat
      /\ \A k \in 1..Len(order) : order[k] \in hs
      /\ \A k, l \in 1..Len(order) : k < l => order[k] < order[l]
  BY HeadingFacts
<1>3. off \in {0, 1} /\ (off = 1 => HasRoot(lines))
  OBVIOUS
<1> HIDE DEF ss, hs, off, order
<1>4. i \in 1..Len(ss) /\ j \in 1..Len(ss)
  BY <1>1 DEF ss
<1>5. /\ ss[i].slug = ss[j].slug /\ ss[i].ordinal = ss[j].ordinal
  BY DEF SectionKey, ss
<1>6. i <= off
  <2> SUFFICES ASSUME i > off PROVE FALSE
    BY <1>1, <1>2, <1>3, <1>4
  <2> DEFINE g == order[i - off]
             h == order[j - off]
  <2>1. i - off \in 1..Len(order) /\ j - off \in 1..Len(order) /\ i - off < j - off
    BY <1>1, <1>2, <1>3, <1>4
  <2>2. ss[i] = HeadingSection(lines, hs, g) /\ ss[j] = HeadingSection(lines, hs, h)
    BY <1>1, <1>2, <1>3, <1>4
  <2>3. g \in hs /\ h \in hs /\ g < h
    BY <1>2, <2>1
  <2> HIDE DEF g, h
  <2>4. lines[g].word = lines[h].word /\ Ordinal(lines, hs, g) = Ordinal(lines, hs, h)
    BY <1>5, <2>2 DEF HeadingSection
  <2> QED BY <2>3, <2>4, OrdinalsGrow DEF hs
<1>7. i = 1 /\ off = 1 /\ j > off
  BY <1>1, <1>2, <1>3, <1>4, <1>6
<1>8. ss[i].at = 0 /\ ss[i].slug = Root
  BY <1>1, <1>3, <1>7 DEF RootSection
<1>9. ss[j].at > 0
  <2> DEFINE h == order[j - off]
  <2>1. h \in hs /\ ss[j] = HeadingSection(lines, hs, h)
    BY <1>1, <1>2, <1>4, <1>7
  <2> HIDE DEF h
  <2>2. h \in 1..Len(lines)
    BY <1>2, <2>1
  <2> QED BY <1>2, <2>1, <2>2 DEF HeadingSection
<1> QED BY <1>5, <1>8, <1>9 DEF ss

-----------------------------------------------------------------------------
(* Sizes. *)

PieceSet == [line : Nat, from : Nat, to : Nat]

LEMMA Products ==
    ASSUME NEW c \in Nat, NEW p \in Int, NEW q \in Int, p <= q
    PROVE  p * c <= q * c
  OBVIOUS

(* What has no more characters than a block may have has no more tokens.   *)
LEMMA EstimateFacts ==
    ASSUME NEW chars \in Int
    PROVE  /\ EstimateTokens(chars) \in Int
           /\ chars <= HardChars => EstimateTokens(chars) <= HardTokens
<1> DEFINE c == CharsPerToken
           m == chars + c - 1
           q == EstimateTokens(chars)
<1>1. c \in Nat \ {0} /\ HardTokens \in Nat
  BY MarkdownAssumption
<1>2. m \in Int /\ q = m \div c
  BY <1>1 DEF EstimateTokens
<1> HIDE DEF c, q, m
<1>3. q \in Int /\ q * c <= m
  BY <1>1, <1>2
<1>4. ASSUME chars <= HardChars PROVE q <= HardTokens
  <2> SUFFICES ASSUME q >= HardTokens + 1 PROVE FALSE
    BY <1>1, <1>3
  <2>1. (HardTokens + 1) * c <= q * c
    BY <1>1, <1>3, Products
  <2>2. (HardTokens + 1) * c = HardTokens * c + c
    BY <1>1
  <2>3. HardTokens * c \in Int /\ q * c \in Int
    BY <1>1, <1>3
  <2>4. m <= HardTokens * c + c - 1
    BY <1>1, <1>4, <2>3 DEF m, HardChars, c
  <2> QED BY <1>1, <1>2, <1>3, <2>1, <2>2, <2>3, <2>4
<1> QED BY <1>3, <1>4 DEF q

(* A sum along a sequence: f[k] is that of the first k terms. *)
IsSum(f, n, term) ==
    f = [k \in 0..n |-> IF k = 0 THEN 0 ELSE f[k - 1] + term[k]]

LEMMA SumFacts ==
    ASSUME NEW n \in Nat, NEW term \in [1..n -> Int]
    PROVE  /\ \E f : IsSum(f, n, term)
           /\ \A f : IsSum(f, n, term) => f[n] \in Int
           /\ \A f : IsSum(f, n, term) /\ n = 1 => f[n] = term[1]
<1>1. \E f : IsSum(f, n, term)
  <2> DEFINE step == [k \in 1..n |-> [v \in Int |-> v + term[k]]]
  <2>1. \A k \in 1..n, v \in Int : step[k][v] = v + term[k] /\ step[k][v] \in Int
    OBVIOUS
  <2> HIDE DEF step
  <2>2. 0 \in Int /\ Stays(step, n, Int)
    BY <2>1 DEF Stays
  <2>3. PICK f \in [0..n -> Int] : Along(f, n, 0, step)
    BY <2>2, Recursion
  <2>4. ASSUME NEW k \in 0..n
        PROVE  f[k] = IF k = 0 THEN 0 ELSE f[k - 1] + term[k]
    <3>1. CASE k = 0
      BY <2>3, <3>1 DEF Along
    <3>2. CASE k # 0
      <4>1. k \in 1..n /\ k - 1 \in 0..n
        BY <3>2
      <4>2. f[k - 1] \in Int
        BY <4>1
      <4> QED BY <2>1, <2>3, <3>2, <4>1, <4>2 DEF Along
    <3> QED BY <3>1, <3>2
  <2>5. IsSum(f, n, term)
    <3>1. f = [k \in 0..n |-> f[k]]
      OBVIOUS
    <3> QED BY <2>4, <3>1 DEF IsSum
  <2> QED BY <2>5
<1>2. ASSUME NEW f, IsSum(f, n, term) PROVE f[n] \in Int
  <2> DEFINE T == {k \in 0..n : f[k] \in Int}
  <2>1. \A k \in 0..n : f[k] = IF k = 0 THEN 0 ELSE f[k - 1] + term[k]
    BY <1>2 DEF IsSum
  <2>2. 0 \in T
    BY <2>1
  <2>3. ASSUME NEW k \in 1..n, k - 1 \in T PROVE k \in T
    <3>1. k \in 0..n /\ k # 0 /\ term[k] \in Int
      OBVIOUS
    <3> QED BY <2>1, <2>3, <3>1
  <2>4. n \in 0..n
    OBVIOUS
  <2>5. \A k \in 0..n : k \in T
    <3> HIDE DEF T
    <3> QED BY <2>2, <2>3, InductionUpTo
  <2> QED BY <2>4, <2>5
<1>3. ASSUME NEW f, IsSum(f, n, term), n = 1 PROVE f[n] = term[1]
  <2>1. \A k \in 0..n : f[k] = IF k = 0 THEN 0 ELSE f[k - 1] + term[k]
    BY <1>3 DEF IsSum
  <2>2. 0 \in 0..n /\ 1 \in 0..n /\ 1 - 1 = 0 /\ 1 \in 1..n
    BY <1>3
  <2>3. f[1] = 0 + term[1]
    BY <2>1, <2>2
  <2> QED BY <1>3, <2>2, <2>3
<1> QED BY <1>1, <1>2, <1>3

LEMMA StripFacts ==
    ASSUME NEW text \in Seq(PieceSet)
    PROVE  /\ Strip(text) \in Seq(PieceSet)
           /\ \A i \in DOMAIN text : Size(text[i]) > 0 => Strip(text) # <<>>
           /\ (\A i \in DOMAIN text : ~(Size(text[i]) > 0)) => Strip(text) = <<>>
<1> DEFINE full == {i \in DOMAIN text : Size(text[i]) > 0}
           a == Least(full)
           b == CHOOSE i \in full : \A j \in full : j <= i
<1>1. Len(text) \in Nat /\ DOMAIN text = 1..Len(text)
  BY LenProperties
<1>2. Strip(text) = IF full = {} THEN <<>> ELSE SubSeq(text, a, b)
  BY DEF Strip
<1>3. full \subseteq 1..Len(text) /\ full \subseteq 0..Len(text) /\ full \subseteq Nat
  BY <1>1
<1>4. ASSUME full # {}
      PROVE  SubSeq(text, a, b) \in Seq(PieceSet) /\ Len(SubSeq(text, a, b)) >= 1
  <2>1. a \in full /\ \A j \in full : a <= j
    <3> HIDE DEF full
    <3> QED BY <1>3, <1>4, LeastFacts
  <2>2. \E i \in full : \A j \in full : j <= i
    <3> HIDE DEF full
    <3> QED BY <1>1, <1>3, <1>4, GreatestNumber
  <2>3. b \in full
    BY <2>2
  <2> HIDE DEF full, a, b
  <2>4. a \in 1..Len(text) /\ b \in 1..Len(text) /\ a <= b
    BY <1>3, <2>1, <2>3
  <2>5. \A i \in a..b : text[i] \in PieceSet
    <3>1. \A i \in a..b : i \in 1..Len(text)
      BY <1>1, <2>4
    <3> QED BY <3>1, ElementOfSeq
  <2>6. SubSeq(text, a, b) = [i \in 1 .. b - a + 1 |-> text[i + a - 1]]
    BY <1>1, <2>4
  <2>7. \A i \in 1 .. b - a + 1 : i + a - 1 \in a..b
    BY <1>1, <2>4
  <2>8. SubSeq(text, a, b) \in [1 .. b - a + 1 -> PieceSet]
    BY <2>5, <2>6, <2>7
  <2>9. b - a + 1 \in Nat /\ b - a + 1 >= 1
    BY <1>1, <2>4
  <2> QED BY <2>8, <2>9, FunctionIsSeq
<1>5. <<>> \in Seq(PieceSet) /\ Len(<<>>) = 0
  OBVIOUS
<1>6. ASSUME full # {} PROVE Strip(text) # <<>>
  BY <1>2, <1>4, <1>5, <1>6
<1>7. Strip(text) \in Seq(PieceSet)
  BY <1>2, <1>4, <1>5
<1> QED BY <1>2, <1>6, <1>7

LEMMA SizeFacts ==
    ASSUME NEW x \in PieceSet
    PROVE  Size(x) \in Int
  BY DEF Size, PieceSet

LEMMA SumSizesFacts ==
    ASSUME NEW text \in Seq(PieceSet)
    PROVE  SumSizes(text) \in Int /\ (Len(text) = 1 => SumSizes(text) = Size(text[1]))
<1> DEFINE n == Len(text)
           term == [k \in 1..n |-> Size(text[k])]
           Steps(f) == f = [k \in 0..n |-> IF k = 0 THEN 0 ELSE f[k - 1] + Size(text[k])]
<1>1. n \in Nat
  BY LenProperties
<1>2. term \in [1..n -> Int]
  <2>1. \A k \in 1..n : Size(text[k]) \in Int
    BY ElementOfSeq, SizeFacts
  <2> QED BY <2>1
<1>3. ASSUME NEW f PROVE IsSum(f, n, term) <=> Steps(f)
  <2>1. ASSUME NEW k \in 0..n
        PROVE  (IF k = 0 THEN 0 ELSE f[k - 1] + term[k])
               = (IF k = 0 THEN 0 ELSE f[k - 1] + Size(text[k]))
    <3>1. k # 0 => k \in 1..n
      BY <1>1
    <3> QED BY <3>1
  <2> HIDE DEF term
  <2> QED BY <2>1 DEF IsSum
<1>4. SumSizes(text) = (CHOOSE f : Steps(f))[n]
  BY DEF SumSizes
<1> HIDE DEF Steps, term
<1>5. Steps(CHOOSE f : Steps(f))
  BY <1>1, <1>2, <1>3, SumFacts
<1>6. IsSum(CHOOSE f : Steps(f), n, term)
  BY <1>3, <1>5
<1> DEFINE sum == CHOOSE f : Steps(f)
<1> HIDE DEF sum, n
<1>7. IsSum(sum, n, term) /\ SumSizes(text) = sum[n]
  BY <1>4, <1>6 DEF sum
<1>8. n = 1 => term[1] = Size(text[1])
  BY DEF term
<1>9. SumSizes(text) \in Int
  BY <1>1, <1>2, <1>7, SumFacts
<1>10. n = 1 => SumSizes(text) = term[1]
  BY <1>1, <1>2, <1>7, SumFacts
<1> QED BY <1>8, <1>9, <1>10 DEF n

LEMMA LineCharsFacts ==
    ASSUME NEW text \in Seq(PieceSet)
    PROVE  LineChars(text) \in Int
<1>1. Strip(text) \in Seq(PieceSet)
  BY StripFacts
<1>2. SumSizes(Strip(text)) \in Int /\ Len(Strip(text)) \in Nat
  BY <1>1, SumSizesFacts, LenProperties
<1> QED BY <1>2 DEF LineChars

(* A single piece has its own characters. *)
LEMMA OnePiece ==
    ASSUME NEW x \in PieceSet, NEW m \in Nat, Size(x) <= m
    PROVE  LineChars(<<x>>) \in Int /\ LineChars(<<x>>) <= m
<1> DEFINE text == <<x>>
           full == {i \in DOMAIN text : Size(text[i]) > 0}
           b == CHOOSE i \in full : \A j \in full : j <= i
<1>1. text \in Seq(PieceSet) /\ Len(text) = 1 /\ DOMAIN text = {1} /\ text[1] = x
  OBVIOUS
<1>2. Size(x) \in Int /\ LineChars(text) \in Int
  BY <1>1, SizeFacts, LineCharsFacts
<1>3. CASE Size(x) > 0
  <2>1. full = {1}
    BY <1>1, <1>3
  <2>2. Least(full) = 1 /\ b = 1
    <3>1. Least({1}) = 1
      BY DEF Least
    <3> QED BY <2>1, <3>1
  <2>3. Strip(text) = SubSeq(text, 1, 1)
    BY <2>1, <2>2 DEF Strip
  <2>4. SubSeq(text, 1, 1) = text
    <3>1. SubSeq(text, 1, 1) = [i \in 1..1 |-> text[i]]
      BY <1>1
    <3>2. SubSeq(text, 1, 1) \in Seq(PieceSet) /\ Len(SubSeq(text, 1, 1)) = 1
          /\ SubSeq(text, 1, 1)[1] = x
      <4>1. [i \in 1..1 |-> text[i]] \in [1..1 -> PieceSet]
        BY <1>1
      <4> HIDE DEF text
      <4>2. [i \in 1..1 |-> text[i]][1] = x
        BY <1>1
      <4> QED BY <3>1, <4>1, <4>2, FunctionIsSeq
    <3> HIDE DEF text
    <3> QED BY <1>1, <3>2, SeqEqual
  <2> HIDE DEF text
  <2>5. SumSizes(text) = Size(x)
    BY <1>1, SumSizesFacts
  <2>6. text # <<>>
    BY <1>1, EmptySeq
  <2>7. LineChars(text) = Size(x) + 1 - 1
    BY <1>1, <2>3, <2>4, <2>5, <2>6 DEF LineChars
  <2> QED BY <1>2, <2>7 DEF text
<1>4. CASE ~(Size(x) > 0)
  <2>1. Strip(text) = <<>>
    BY <1>1, <1>4, StripFacts
  <2>2. LineChars(text) = 0
    BY <2>1 DEF LineChars
  <2> QED BY <1>2, <2>2
<1> QED BY <1>3, <1>4

UnitSteps(f, units) ==
    f = [k \in 0..Len(units) |->
            IF k = 0 THEN 0
            ELSE f[k - 1] + LineChars(units[k]) + (IF k = 1 THEN 0 ELSE 2)]

LEMMA UnitCharsFacts ==
    ASSUME NEW units \in Seq(Seq(PieceSet))
    PROVE  /\ UnitChars(units) \in Int
           /\ Len(units) = 1 => UnitChars(units) = LineChars(units[1])
<1> DEFINE n == Len(units)
           term == [k \in 1..n |-> LineChars(units[k]) + (IF k = 1 THEN 0 ELSE 2)]
<1>1. n \in Nat
  BY LenProperties
<1>2. \A k \in 1..n : LineChars(units[k]) \in Int
  BY ElementOfSeq, LineCharsFacts
<1>3. term \in [1..n -> Int]
  BY <1>2
<1>4. ASSUME NEW f, IsSum(f, n, term) PROVE UnitSteps(f, units)
  <2>1. f[n] \in Int /\ \A k \in 0..n : f[k] = IF k = 0 THEN 0 ELSE f[k - 1] + term[k]
    <3> HIDE DEF term, n
    <3> QED BY <1>1, <1>3, <1>4, SumFacts DEF IsSum
  <2> DEFINE T == {k \in 0..n : f[k] \in Int}
  <2>2. \A k \in 0..n : k \in T
    <3> HIDE DEF term, n
    <3>1. 0 \in T
      BY <1>1, <2>1
    <3>2. ASSUME NEW k \in 1..n, k - 1 \in T PROVE k \in T
      <4>1. k \in 0..n /\ k # 0 /\ term[k] \in Int
        BY <1>1, <1>3
      <4> QED BY <2>1, <3>2, <4>1
    <3> HIDE DEF T
    <3> QED BY <1>1, <3>1, <3>2, InductionUpTo
  <2>3. ASSUME NEW k \in 0..n
        PROVE  f[k] = IF k = 0 THEN 0
                      ELSE f[k - 1] + LineChars(units[k]) + (IF k = 1 THEN 0 ELSE 2)
    <3>1. CASE k = 0
      BY <2>1, <3>1
    <3>2. CASE k # 0
      <4>1. k \in 1..n /\ k - 1 \in 0..n
        BY <1>1, <3>2
      <4>2. f[k - 1] \in Int /\ LineChars(units[k]) \in Int
        BY <1>2, <2>2, <4>1
      <4>3. f[k] = f[k - 1] + (LineChars(units[k]) + (IF k = 1 THEN 0 ELSE 2))
        BY <2>1, <3>2, <4>1
      <4> QED BY <3>2, <4>2, <4>3
    <3> QED BY <3>1, <3>2
  <2>4. f = [k \in 0..n |-> f[k]]
    BY <1>4 DEF IsSum
  <2> QED BY <2>3, <2>4 DEF UnitSteps
<1>5. PICK sum : IsSum(sum, n, term)
  <2> HIDE DEF term, n
  <2> QED BY <1>1, <1>3, SumFacts
<1>6. UnitSteps(sum, units)
  BY <1>4, <1>5
<1>7. UnitChars(units) = (CHOOSE f : UnitSteps(f, units))[n]
  BY DEF UnitChars, UnitSteps
<1>8. PICK f : UnitSteps(f, units) /\ UnitChars(units) = f[n]
  BY <1>6, <1>7
<1>9. \A k \in 0..n : f[k] =
          IF k = 0 THEN 0
          ELSE f[k - 1] + LineChars(units[k]) + (IF k = 1 THEN 0 ELSE 2)
  BY <1>8 DEF UnitSteps
<1> DEFINE T == {k \in 0..n : f[k] \in Int}
<1>10. \A k \in 0..n : k \in T
  <2>1. 0 \in T
    BY <1>1, <1>9
  <2>2. ASSUME NEW k \in 1..n, k - 1 \in T PROVE k \in T
    <3>1. k \in 0..n /\ k # 0 /\ LineChars(units[k]) \in Int
      BY <1>2
    <3> QED BY <1>9, <2>2, <3>1
  <2> HIDE DEF T
  <2> QED BY <1>1, <2>1, <2>2, InductionUpTo
<1>11. f[n] \in Int
  BY <1>1, <1>10
<1>12. ASSUME n = 1 PROVE f[n] = LineChars(units[1])
  <2>1. 0 \in 0..n /\ 1 \in 0..n /\ 1 \in 1..n /\ 1 - 1 = 0
    BY <1>12
  <2>2. f[1] = 0 + LineChars(units[1]) + 0
    BY <1>9, <2>1
  <2> QED BY <1>2, <1>12, <2>1, <2>2
<1> QED BY <1>8, <1>11, <1>12

LEMMA TokenFacts ==
    /\ \A text \in Seq(PieceSet) : LineTokens(text) \in Int
    /\ \A units \in Seq(Seq(PieceSet)) : UnitTokens(units) \in Int
    /\ \A units \in Seq(Seq(PieceSet)) :
          Len(units) = 1 => UnitTokens(units) = LineTokens(units[1])
    /\ \A x \in PieceSet : Size(x) <= HardChars => LineTokens(<<x>>) <= HardTokens
<1>1. \A text \in Seq(PieceSet) : LineTokens(text) \in Int
  BY LineCharsFacts, EstimateFacts DEF LineTokens
<1>2. \A units \in Seq(Seq(PieceSet)) :
         /\ UnitTokens(units) \in Int
         /\ Len(units) = 1 => UnitTokens(units) = LineTokens(units[1])
  BY UnitCharsFacts, EstimateFacts DEF UnitTokens, LineTokens
<1>3. ASSUME NEW x \in PieceSet, Size(x) <= HardChars
      PROVE  LineTokens(<<x>>) <= HardTokens
  <2>1. HardChars \in Nat
    BY MarkdownAssumption DEF HardChars
  <2>2. LineChars(<<x>>) \in Int /\ LineChars(<<x>>) <= HardChars
    BY <1>3, <2>1, OnePiece
  <2> QED BY <2>2, EstimateFacts DEF LineTokens
<1> QED BY <1>1, <1>2, <1>3

-----------------------------------------------------------------------------
(* The units of a section. *)

LEMMA SectionBounds ==
    ASSUME NEW lines, IsList(lines), NEW k \in DOMAIN Sections(lines)
    PROVE  LET s == Sections(lines)[k] IN
           /\ s.first \in 1 .. Len(lines) + 1 /\ s.last \in 0..Len(lines)
           /\ s.first <= s.last + 1
<1> DEFINE ss == Sections(lines)
           off == IF HasRoot(lines) THEN 1 ELSE 0
           order == Order(lines)
<1>1. /\ DOMAIN ss = 1..Len(ss) /\ Len(ss) = off + Len(order)
      /\ HasRoot(lines) => ss[1] = RootSection(NextHeading(lines, 0) - 1)
      /\ \A i \in 1..Len(ss) : i > off =>
            /\ i - off \in 1..Len(order)
            /\ ss[i] = HeadingSection(lines, Headings(lines), order[i - off])
  BY SectionFacts
<1>2. /\ Len(lines) \in Nat /\ Headings(lines) \subseteq 1..Len(lines)
      /\ \A i \in 1..Len(order) : order[i] \in Headings(lines)
  BY HeadingFacts
<1>3. k \in 1..Len(ss) /\ Len(order) \in Nat
  BY <1>1, HeadingFacts
<1>4. CASE k > off
  <2> DEFINE h == order[k - off]
  <2>1. h \in 1..Len(lines) /\ ss[k] = HeadingSection(lines, Headings(lines), h)
    BY <1>1, <1>2, <1>3, <1>4
  <2> HIDE DEF h, ss
  <2>2. NextHeading(lines, h) \in h + 1 .. Len(lines) + 1
    BY <1>2, <2>1, NextHeadingFacts
  <2>3. ss[k].first = h + 1 /\ ss[k].last = NextHeading(lines, h) - 1
    BY <2>1 DEF HeadingSection, NextHeading
  <2>4. ss[k].first \in 1 .. Len(lines) + 1 /\ ss[k].last \in 0..Len(lines)
        /\ ss[k].first <= ss[k].last + 1
    BY <1>2, <2>1, <2>2, <2>3
  <2> QED BY <2>4 DEF ss
<1>5. CASE ~(k > off)
  <2>1. k = 1 /\ HasRoot(lines)
    BY <1>1, <1>3, <1>5
  <2>2. NextHeading(lines, 0) \in 1 .. Len(lines) + 1
    BY <1>2, NextHeadingFacts
  <2>3. ss[k].first = 1 /\ ss[k].last = NextHeading(lines, 0) - 1
    BY <1>1, <2>1 DEF RootSection
  <2> HIDE DEF ss
  <2>4. ss[k].first \in 1 .. Len(lines) + 1 /\ ss[k].last \in 0..Len(lines)
        /\ ss[k].first <= ss[k].last + 1
    BY <1>2, <2>2, <2>3
  <2> QED BY <2>4 DEF ss
<1> QED BY <1>4, <1>5

LEMMA UnitEndFacts ==
    ASSUME NEW lines, NEW last \in Nat, NEW k \in 1..last
    PROVE  UnitEnd(lines, k, last) \in k..last
<1>1. ASSUME NEW stops PROVE RunEnd(k, last, stops) \in k..last
  <2> DEFINE S == {j \in k..last : j = last \/ j + 1 \in stops}
  <2>1. S \subseteq Nat /\ S # {} /\ S \subseteq k..last
    OBVIOUS
  <2> HIDE DEF S
  <2>2. Least(S) \in S
    BY <2>1, LeastFacts
  <2> QED BY <2>1, <2>2 DEF RunEnd, S
<1>2. FenceEnd(lines, k, last) \in k..last
  <2> DEFINE S == {j \in k + 1 .. last : Closes(lines[j], lines[k])} \cup {last}
  <2>1. S \subseteq Nat /\ S # {} /\ S \subseteq k..last
    OBVIOUS
  <2> HIDE DEF S
  <2>2. Least(S) \in S
    BY <2>1, LeastFacts
  <2> QED BY <2>1, <2>2 DEF FenceEnd, S
<1>3. CASE lines[k].kind = "fence"
  BY <1>2, <1>3 DEF UnitEnd
<1>4. CASE lines[k].kind = "table"
  BY <1>1, <1>4 DEF UnitEnd
<1>5. CASE lines[k].kind # "fence" /\ lines[k].kind # "table"
  BY <1>1, <1>5 DEF UnitEnd
<1> QED BY <1>3, <1>4, <1>5

(* Lines of a text as pieces. *)
WholeSet == [line : Nat, from : {0}, to : Nat]
Span(lines, k, j) == [i \in 1 .. j - k + 1 |-> Piece(lines, k + i - 1)]

LEMMA SpanFacts ==
    ASSUME NEW lines, IsBody(lines), NEW k \in 1..Len(lines), NEW j \in k..Len(lines)
    PROVE  /\ Span(lines, k, j) \in Seq(WholeSet)
           /\ Len(Span(lines, k, j)) = j - k + 1
           /\ \A i \in 1 .. j - k + 1 :
                 Span(lines, k, j)[i] = Piece(lines, k + i - 1)
<1>1. Len(lines) \in Nat /\ DOMAIN lines = 1..Len(lines)
  BY ListFacts DEF IsBody
<1>2. \A i \in 1..Len(lines) : Piece(lines, i) \in WholeSet
  BY <1>1 DEF Piece, WholeSet, IsBody, IsLine
<1>3. \A i \in 1 .. j - k + 1 : k + i - 1 \in 1..Len(lines)
  BY <1>1
<1>4. Span(lines, k, j) \in [1 .. j - k + 1 -> WholeSet]
  BY <1>2, <1>3 DEF Span
<1>5. j - k + 1 \in Nat
  BY <1>1
<1>6. \A i \in 1 .. j - k + 1 : Span(lines, k, j)[i] = Piece(lines, k + i - 1)
  BY DEF Span
<1>7. \A n \in Nat : \A f \in [1..n -> WholeSet] :
         f \in Seq(WholeSet) /\ Len(f) = n
  BY FunctionIsSeq
<1>8. Span(lines, k, j) \in Seq(WholeSet) /\ Len(Span(lines, k, j)) = j - k + 1
  BY <1>4, <1>5, <1>7
<1> QED BY <1>6, <1>8

(* The units of the lines k to last begin at the lines st.                 *)
AreUnits(us, st, lines, k, last) ==
    /\ st \in [1..Len(us) -> k..last]
    /\ \A i \in 1..Len(us) :
          /\ ~IsBlank(lines[st[i]])
          /\ us[i] = Span(lines, st[i], UnitEnd(lines, st[i], last))
    /\ \A i, j \in 1..Len(us) :
          i < j => UnitEnd(lines, st[i], last) < st[j]
    /\ \A m \in k..last : ~IsBlank(lines[m]) =>
          \E i \in 1..Len(us) : m \in st[i] .. UnitEnd(lines, st[i], last)

UnitsSteps(f, lines, first, last) ==
    f = [k \in first .. last + 1 |->
            IF k > last THEN <<>>
            ELSE IF IsBlank(lines[k]) THEN f[k + 1]
            ELSE LET end == UnitEnd(lines, k, last)
                 IN  <<[i \in 1 .. end - k + 1 |-> Piece(lines, k + i - 1)]>>
                     \o f[end + 1]]

LEMMA UnitsStepsExist ==
    ASSUME NEW lines, IsBody(lines), NEW first \in Nat \ {0},
           NEW last \in 0..Len(lines), first <= last + 1
    PROVE  \E f : UnitsSteps(f, lines, first, last)
<1> DEFINE Units == Seq(Seq(WholeSet))
           end(k) == UnitEnd(lines, k, last)
           next == [k \in first..last |->
                       IF IsBlank(lines[k]) THEN k + 1 ELSE end(k) + 1]
           step == [k \in 1..last |-> [v \in Units |->
                       IF IsBlank(lines[k]) THEN v
                       ELSE <<Span(lines, k, end(k))>> \o v]]
<1>1. Len(lines) \in Nat /\ last \in Nat
  BY ListFacts DEF IsBody
<1>2. \A k \in 1..last : end(k) \in k..last
  BY <1>1, UnitEndFacts
<1>3. \A k \in first..last : next[k] \in k + 1 .. last + 1
  BY <1>1, <1>2
<1>4. Stays(step, last, Units)
  <2> SUFFICES ASSUME NEW k \in 1..last, NEW v \in Units PROVE step[k][v] \in Units
    BY DEF Stays
  <2>1. Span(lines, k, end(k)) \in Seq(WholeSet)
    <3>1. k \in 1..Len(lines) /\ end(k) \in k..Len(lines)
      BY <1>1, <1>2
    <3> HIDE DEF end
    <3> QED BY <3>1, SpanFacts
  <2> HIDE DEF end
  <2>2. <<Span(lines, k, end(k))>> \o v \in Units
    <3>1. <<Span(lines, k, end(k))>> \in Units
      BY <2>1
    <3> QED BY <3>1, ConcatProperties
  <2> QED BY <2>2
<1>5. <<>> \in Units
  OBVIOUS
<1>6. PICK f \in [first .. last + 1 -> Units] : Downward(f, first, last, <<>>, next, step)
  <2>1. Later(next, first, last) /\ first \in Nat /\ first >= 1
    BY <1>3 DEF Later
  <2> HIDE DEF Units, next, step
  <2> QED BY <1>1, <1>4, <1>5, <2>1, RecursionDown
<1>7. ASSUME NEW k \in first .. last + 1
      PROVE  f[k] = IF k > last THEN <<>>
                    ELSE IF IsBlank(lines[k]) THEN f[k + 1]
                    ELSE <<Span(lines, k, end(k))>> \o f[end(k) + 1]
  <2>1. CASE k > last
    <3>1. k = last + 1
      BY <1>1, <2>1
    <3> QED BY <1>6, <2>1, <3>1 DEF Downward
  <2>2. CASE ~(k > last)
    <3>1. k \in first..last /\ k \in 1..last
      BY <1>1, <2>2
    <3>2. f[k] = step[k][f[next[k]]] /\ f[next[k]] \in Units
      <4>1. next[k] \in first .. last + 1
        BY <1>1, <1>3, <3>1
      <4> HIDE DEF next, step
      <4> QED BY <1>6, <3>1, <4>1 DEF Downward
    <3> HIDE DEF Units
    <3>3. step[k][f[next[k]]] = IF IsBlank(lines[k]) THEN f[next[k]]
                                ELSE <<Span(lines, k, end(k))>> \o f[next[k]]
      BY <3>1, <3>2
    <3>4. next[k] = IF IsBlank(lines[k]) THEN k + 1 ELSE end(k) + 1
      BY <3>1
    <3> HIDE DEF next, step, end
    <3> QED BY <2>2, <3>2, <3>3, <3>4
  <2> QED BY <2>1, <2>2
<1>8. f = [k \in first .. last + 1 |-> f[k]]
  OBVIOUS
<1>9. UnitsSteps(f, lines, first, last)
  BY <1>7, <1>8 DEF UnitsSteps, Span
<1> QED BY <1>9

LEMMA OneMoreUnit ==
    ASSUME NEW lines, IsBody(lines), NEW last \in 0..Len(lines), NEW k \in 1..last,
           ~IsBlank(lines[k]),
           NEW us \in Seq(Seq(WholeSet)), NEW st,
           AreUnits(us, st, lines, UnitEnd(lines, k, last) + 1, last)
    PROVE  LET more == <<Span(lines, k, UnitEnd(lines, k, last))>> \o us IN
           more \in Seq(Seq(WholeSet)) /\ \E g : AreUnits(more, g, lines, k, last)
<1> DEFINE end(m) == UnitEnd(lines, m, last)
           unit == Span(lines, k, end(k))
           n == Len(us)
           more == <<unit>> \o us
           g == [i \in 1 .. n + 1 |-> IF i = 1 THEN k ELSE st[i - 1]]
<1>1. Len(lines) \in Nat /\ last \in Nat /\ n \in Nat
  BY ListFacts, LenProperties DEF IsBody
<1>2. \A m \in 1..last : end(m) \in m..last
  BY <1>1, UnitEndFacts
<1>3. unit \in Seq(WholeSet)
  <2>1. k \in 1..Len(lines) /\ end(k) \in k..Len(lines)
    BY <1>1, <1>2
  <2> HIDE DEF end
  <2> QED BY <2>1, SpanFacts
<1>4. /\ st \in [1..n -> end(k) + 1 .. last]
      /\ \A i \in 1..n : ~IsBlank(lines[st[i]]) /\ us[i] = Span(lines, st[i], end(st[i]))
      /\ \A i, j \in 1..n : i < j => end(st[i]) < st[j]
      /\ \A m \in end(k) + 1 .. last : ~IsBlank(lines[m]) =>
            \E i \in 1..n : m \in st[i] .. end(st[i])
  BY DEF AreUnits
<1> HIDE DEF end, unit
<1>5. /\ more \in Seq(Seq(WholeSet)) /\ Len(more) = n + 1
      /\ \A i \in 1 .. n + 1 : more[i] = IF i = 1 THEN unit ELSE us[i - 1]
  <2>1. <<unit>> \in Seq(Seq(WholeSet)) /\ Len(<<unit>>) = 1 /\ <<unit>>[1] = unit
    BY <1>3
  <2>2. /\ more \in Seq(Seq(WholeSet)) /\ Len(more) = 1 + n
        /\ \A i \in 1 .. 1 + n : more[i] = IF i <= 1 THEN <<unit>>[i] ELSE us[i - 1]
    BY <2>1, ConcatProperties
  <2> HIDE DEF more
  <2> QED BY <1>1, <2>1, <2>2
<1> HIDE DEF more
<1>6. ASSUME NEW i \in 1 .. n + 1
      PROVE  /\ g[i] = IF i = 1 THEN k ELSE st[i - 1]
             /\ i # 1 => i - 1 \in 1..n /\ st[i - 1] \in end(k) + 1 .. last
             /\ g[i] \in k..last
  <2>1. i # 1 => i - 1 \in 1..n
    BY <1>1
  <2>2. i # 1 => st[i - 1] \in end(k) + 1 .. last
    BY <1>4, <2>1
  <2> QED BY <1>1, <1>2, <2>1, <2>2, SMTT(20)
<1>7. g \in [1 .. n + 1 -> k..last]
  BY <1>6
<1>8. \A i \in 1 .. n + 1 : ~IsBlank(lines[g[i]]) /\ more[i] = Span(lines, g[i], end(g[i]))
  <2> SUFFICES ASSUME NEW i \in 1 .. n + 1
               PROVE  ~IsBlank(lines[g[i]]) /\ more[i] = Span(lines, g[i], end(g[i]))
    OBVIOUS
  <2>1. CASE i = 1
    <3>1. g[i] = k /\ more[i] = unit
      BY <1>5, <1>6, <2>1
    <3> QED BY <3>1 DEF unit
  <2>2. CASE i # 1
    <3>1. g[i] = st[i - 1] /\ more[i] = us[i - 1] /\ i - 1 \in 1..n
      BY <1>5, <1>6, <2>2
    <3> QED BY <1>4, <3>1
  <2> QED BY <2>1, <2>2
<1>9. \A i, j \in 1 .. n + 1 : i < j => end(g[i]) < g[j]
  <2> SUFFICES ASSUME NEW i \in 1 .. n + 1, NEW j \in 1 .. n + 1, i < j
               PROVE  end(g[i]) < g[j]
    OBVIOUS
  <2>1. g[j] = st[j - 1] /\ j - 1 \in 1..n /\ st[j - 1] \in end(k) + 1 .. last
    <3>1. j # 1
      BY <1>1
    <3> QED BY <1>6, <3>1
  <2>2. CASE i = 1
    <3>1. g[i] = k
      BY <1>6, <2>2
    <3>2. end(k) \in k..last
      BY <1>2
    <3> QED BY <1>1, <2>1, <3>1, <3>2, SMTT(20)
  <2>3. CASE i # 1
    <3>1. g[i] = st[i - 1] /\ i - 1 \in 1..n
      BY <1>6, <2>3
    <3>2. i - 1 < j - 1
      BY <1>1
    <3> QED BY <1>4, <2>1, <3>1, <3>2
  <2> QED BY <2>2, <2>3
<1>10. ASSUME NEW m \in k..last, ~IsBlank(lines[m])
       PROVE  \E i \in 1 .. n + 1 : m \in g[i] .. end(g[i])
  <2>1. end(k) \in k..last
    BY <1>2
  <2>2. CASE m <= end(k)
    <3>1. 1 \in 1 .. n + 1 /\ g[1] = k
      BY <1>1
    <3>2. m \in k .. end(k)
      BY <1>1, <2>1, <2>2
    <3> HIDE DEF g
    <3> QED BY <3>1, <3>2
  <2>3. CASE ~(m <= end(k))
    <3>1. m \in end(k) + 1 .. last
      BY <1>1, <2>1, <2>3
    <3>2. PICK i \in 1..n : m \in st[i] .. end(st[i])
      BY <1>4, <1>10, <3>1
    <3>3. i + 1 \in 1 .. n + 1 /\ i + 1 # 1 /\ (i + 1) - 1 = i
      BY <1>1
    <3>4. g[i + 1] = st[i]
      BY <1>6, <3>3
    <3> HIDE DEF g
    <3> QED BY <3>2, <3>3, <3>4
  <2> QED BY <2>2, <2>3
<1>11. AreUnits(more, g, lines, k, last)
  <2> HIDE DEF g
  <2> QED BY <1>5, <1>7, <1>8, <1>9, <1>10 DEF AreUnits, end
<1> HIDE DEF g
<1> QED BY <1>5, <1>11 DEF more, unit, end

LEMMA UnitsFollow ==
    ASSUME NEW lines, IsBody(lines), NEW first \in Nat \ {0},
           NEW last \in 0..Len(lines), first <= last + 1,
           NEW f, UnitsSteps(f, lines, first, last)
    PROVE  \A k \in first .. last + 1 :
              f[k] \in Seq(Seq(WholeSet)) /\ \E st : AreUnits(f[k], st, lines, k, last)
<1> DEFINE T == {k \in first .. last + 1 :
                    /\ f[k] \in Seq(Seq(WholeSet))
                    /\ \E st : AreUnits(f[k], st, lines, k, last)}
<1>1. Len(lines) \in Nat /\ last \in Nat
  BY ListFacts DEF IsBody
<1>2. \A k \in first .. last + 1 :
         f[k] = IF k > last THEN <<>>
                ELSE IF IsBlank(lines[k]) THEN f[k + 1]
                ELSE <<Span(lines, k, UnitEnd(lines, k, last))>>
                     \o f[UnitEnd(lines, k, last) + 1]
  BY DEF UnitsSteps, Span
<1>3. last + 1 \in T
  <2>1. last + 1 \in first .. last + 1 /\ last + 1 > last
    BY <1>1
  <2>2. f[last + 1] = <<>>
    BY <1>2, <2>1
  <2> DEFINE st == [i \in 1..0 |-> 0]
  <2>3. AreUnits(<<>>, st, lines, last + 1, last)
    <3>1. Len(<<>>) = 0 /\ 1..0 = {} /\ last + 1 .. last = {}
      BY <1>1
    <3> QED BY <3>1 DEF AreUnits
  <2> HIDE DEF st
  <2>4. <<>> \in Seq(Seq(WholeSet))
    OBVIOUS
  <2> QED BY <2>1, <2>2, <2>3, <2>4
<1>4. ASSUME NEW k \in first..last, \A j \in k + 1 .. last + 1 : j \in T
      PROVE  k \in T
  <2>1. k \in first .. last + 1 /\ ~(k > last) /\ k \in 1..last
        /\ k + 1 \in k + 1 .. last + 1
    BY <1>1
  <2>2. CASE IsBlank(lines[k])
    <3>1. f[k] = f[k + 1]
      BY <1>2, <2>1, <2>2
    <3>2. PICK st : f[k + 1] \in Seq(Seq(WholeSet)) /\ AreUnits(f[k + 1], st, lines, k + 1, last)
      BY <1>4, <2>1
    <3>3. AreUnits(f[k], st, lines, k, last)
      <4>1. st \in [1..Len(f[k]) -> k + 1 .. last]
        BY <3>1, <3>2 DEF AreUnits
      <4>2. st \in [1..Len(f[k]) -> k..last]
        <5>1. k + 1 .. last \subseteq k..last
          OBVIOUS
        <5> QED BY <4>1, <5>1
      <4>3. \A m \in k..last : ~IsBlank(lines[m]) => m \in k + 1 .. last
        BY <2>2
      <4> QED BY <3>1, <3>2, <4>2, <4>3 DEF AreUnits
    <3> QED BY <2>1, <3>1, <3>2, <3>3
  <2>3. CASE ~IsBlank(lines[k])
    <3> DEFINE end == UnitEnd(lines, k, last)
    <3>1. end + 1 \in k + 1 .. last + 1
      BY <1>1, <2>1, UnitEndFacts
    <3>2. f[k] = <<Span(lines, k, end)>> \o f[end + 1]
      BY <1>2, <2>1, <2>3
    <3>3. PICK st : f[end + 1] \in Seq(Seq(WholeSet)) /\ AreUnits(f[end + 1], st, lines, end + 1, last)
      BY <1>4, <3>1
    <3>4. f[k] \in Seq(Seq(WholeSet)) /\ \E g : AreUnits(f[k], g, lines, k, last)
      BY <2>1, <2>3, <3>2, <3>3, OneMoreUnit
    <3> QED BY <2>1, <3>4
  <2> QED BY <2>2, <2>3
<1>5. \A k \in first .. last + 1 : k \in T
  <2> HIDE DEF T
  <2>1. first \in Nat
    OBVIOUS
  <2> QED BY <1>1, <1>3, <1>4, <2>1, InductionDown
<1> QED BY <1>5

LEMMA SectionUnitsAre ==
    ASSUME NEW lines, IsBody(lines), NEW k \in DOMAIN Sections(lines)
    PROVE  LET s == Sections(lines)[k]
               us == SectionUnits(lines, s)
           IN  /\ us \in Seq(Seq(WholeSet))
               /\ \E st : AreUnits(us, st, lines, s.first, s.last)
<1> DEFINE s == Sections(lines)[k]
<1>1. /\ s.first \in Nat \ {0} /\ s.last \in 0..Len(lines)
      /\ s.first <= s.last + 1 /\ s.first \in s.first .. s.last + 1
  <2>1. Len(lines) \in Nat
    BY ListFacts DEF IsBody
  <2>2. s.first \in 1 .. Len(lines) + 1 /\ s.last \in 0..Len(lines) /\ s.first <= s.last + 1
    BY SectionBounds DEF IsBody
  <2> HIDE DEF s
  <2> QED BY <2>1, <2>2
<1> HIDE DEF s
<1>2. SectionUnits(lines, s) = (CHOOSE f : UnitsSteps(f, lines, s.first, s.last))[s.first]
  BY DEF SectionUnits, UnitsSteps
<1>3. PICK f : UnitsSteps(f, lines, s.first, s.last) /\ SectionUnits(lines, s) = f[s.first]
  <2>1. \E f : UnitsSteps(f, lines, s.first, s.last)
    BY <1>1, UnitsStepsExist
  <2> QED BY <1>2, <2>1
<1>4. /\ f[s.first] \in Seq(Seq(WholeSet))
      /\ \E st : AreUnits(f[s.first], st, lines, s.first, s.last)
  BY <1>1, <1>3, UnitsFollow
<1> QED BY <1>3, <1>4 DEF s

-----------------------------------------------------------------------------
(* Texts that are no larger than a block, and how larger ones are cut. *)

FitSet == {text \in Seq(PieceSet) : LineTokens(text) <= HardTokens}

LEMMA WholeFacts ==
    /\ WholeSet \subseteq PieceSet /\ Seq(WholeSet) \subseteq Seq(PieceSet)
    /\ \A x \in WholeSet : Size(x) = x.to
<1>1. WholeSet \subseteq PieceSet
  BY DEF WholeSet, PieceSet
<1>2. Seq(WholeSet) \subseteq Seq(PieceSet)
  <2> SUFFICES ASSUME NEW t \in Seq(WholeSet) PROVE t \in Seq(PieceSet)
    OBVIOUS
  <2>1. Len(t) \in Nat /\ t \in [1..Len(t) -> WholeSet]
    BY LenProperties
  <2>2. t \in [1..Len(t) -> PieceSet]
    BY <1>1, <2>1
  <2> HIDE DEF WholeSet
  <2> QED BY <2>1, <2>2, FunctionIsSeq
<1>3. \A x \in WholeSet : Size(x) = x.to
  BY DEF WholeSet, Size
<1> QED BY <1>1, <1>2, <1>3

LEMMA EmptyFits == <<>> \in FitSet
<1>1. <<>> \in Seq(PieceSet)
  OBVIOUS
<1>2. Strip(<<>>) = <<>>
  <2>1. \A i \in DOMAIN <<>> : FALSE
    OBVIOUS
  <2> QED BY <1>1, <2>1, StripFacts
<1>3. LineChars(<<>>) = 0
  BY <1>2 DEF LineChars
<1>4. HardChars \in Nat
  BY MarkdownAssumption DEF HardChars
<1>5. LineTokens(<<>>) <= HardTokens
  BY <1>3, <1>4, EstimateFacts DEF LineTokens
<1> QED BY <1>1, <1>5 DEF FitSet

(* The number of parts of a line.                                          *)
LEMMA Quotient ==
    ASSUME NEW m \in Nat \ {0}, NEW h \in Nat \ {0}
    PROVE  LET n == (m + h - 1) \div h IN
           n \in Nat \ {0} /\ (n - 1) * h < m /\ m <= n * h
<1> DEFINE a == m + h - 1
           n == a \div h
           r == a % h
<1>1. a \in Int /\ n \in Int /\ r \in 0 .. h - 1 /\ a = h * n + r
  OBVIOUS
<1> HIDE DEF n, r
<1>2. h * n = n * h /\ n * h \in Int /\ (n - 1) * h = n * h - h
  BY <1>1
<1>3. (n - 1) * h < m /\ m <= n * h
  BY <1>1, <1>2 DEF a
<1>4. n >= 1
  <2> SUFFICES ASSUME n <= 0 PROVE FALSE
    BY <1>1
  <2>1. n * h <= 0 * h
    BY <1>1, Products
  <2> QED BY <1>2, <1>3, <2>1
<1> QED BY <1>1, <1>3, <1>4 DEF n

LEMMA LongLine ==
    ASSUME NEW x \in WholeSet, Size(x) > 0
    PROVE  LET ps == SplitLongLine(x)
               n == Len(ps)
           IN  /\ ps \in Seq(FitSet) /\ n \in Nat \ {0}
               /\ \A i \in 1..n :
                    \E from, to \in Nat :
                       /\ ps[i] = <<[line |-> x.line, from |-> from, to |-> to]>>
                       /\ from = (i - 1) * HardChars /\ from < to
                       /\ to = IF i = n THEN x.to ELSE i * HardChars
<1> DEFINE h == HardChars
           m == x.to
           n == (m + h - 1) \div h
           to(i) == IF i * h < m THEN i * h ELSE m
           piece(i) == [line |-> x.line, from |-> (i - 1) * h, to |-> to(i)]
           ps == [i \in 1..n |-> <<piece(i)>>]
<1>1. m \in Nat \ {0} /\ Size(x) = m /\ x.line \in Nat
  BY WholeFacts DEF WholeSet
<1>2. h \in Nat \ {0}
  <2>1. CharsPerToken \in Nat \ {0} /\ HardTokens \in Nat \ {0}
    BY MarkdownAssumption
  <2>2. 1 * CharsPerToken <= HardTokens * CharsPerToken
    BY <2>1, Products
  <2> QED BY <2>1, <2>2 DEF HardChars
<1>3. SplitLongLine(x) = ps
  BY <1>1 DEF SplitLongLine
<1> HIDE DEF h, m
<1>4. n \in Nat \ {0} /\ (n - 1) * h < m /\ m <= n * h
  BY <1>1, <1>2, Quotient
<1> HIDE DEF n
<1>5. ASSUME NEW i \in 1..n
      PROVE  /\ (i - 1) * h \in Nat /\ to(i) \in Nat /\ (i - 1) * h < to(i)
             /\ to(i) - (i - 1) * h <= h
             /\ to(i) = IF i = n THEN m ELSE i * h
  <2>1. i \in Nat /\ i - 1 \in Nat /\ i <= n /\ i - 1 <= n - 1 /\ n - 1 \in Nat
    BY <1>4
  <2>2. (i - 1) * h \in Nat /\ i * h \in Nat /\ n * h \in Nat /\ (n - 1) * h \in Nat
    BY <1>2, <1>4, <2>1
  <2>3. i * h = (i - 1) * h + h
    BY <1>2, <2>1
  <2>4. (i - 1) * h <= (n - 1) * h
    BY <1>2, <2>1, Products
  <2>5. i # n => i <= n - 1
    BY <1>4, <2>1
  <2>6. i # n => i * h <= (n - 1) * h
    BY <1>2, <1>4, <2>1, <2>5, Products
  <2> QED BY <1>1, <1>2, <1>4, <2>2, <2>3, <2>4, <2>6
<1>6. ASSUME NEW i \in 1..n PROVE <<piece(i)>> \in FitSet
  <2>1. piece(i) \in PieceSet
    BY <1>1, <1>5 DEF PieceSet
  <2>2. Size(piece(i)) <= h
    BY <1>5 DEF Size
  <2> HIDE DEF piece
  <2>3. LineTokens(<<piece(i)>>) <= HardTokens
    BY <2>1, <2>2, TokenFacts DEF h
  <2> QED BY <2>1, <2>3 DEF FitSet
<1>7. ps \in [1..n -> FitSet]
  <2> HIDE DEF piece
  <2> QED BY <1>6
<1>8. ps \in Seq(FitSet) /\ Len(ps) = n
  <2> HIDE DEF ps
  <2> QED BY <1>4, <1>7, FunctionIsSeq
<1>9. ASSUME NEW i \in 1..n
      PROVE  \E from, t \in Nat :
                /\ ps[i] = <<[line |-> x.line, from |-> from, to |-> t]>>
                /\ from = (i - 1) * h /\ from < t
                /\ t = IF i = n THEN m ELSE i * h
  <2> DEFINE from == (i - 1) * h
             t == to(i)
  <2>1. ps[i] = <<[line |-> x.line, from |-> from, to |-> t]>>
    OBVIOUS
  <2>2. from \in Nat /\ t \in Nat /\ from < t /\ t = IF i = n THEN m ELSE i * h
    BY <1>5
  <2> HIDE DEF ps, t
  <2> QED BY <2>1, <2>2
<1> HIDE DEF ps, piece, to
<1> QED BY <1>3, <1>4, <1>8, <1>9 DEF h, m

(* What one more line of a unit does.                                      *)
SplitStep(s, x) ==
    IF LineTokens(<<x>>) > HardTokens
    THEN [parts |-> Flush(s.parts, s.buffer) \o SplitLongLine(x),
          buffer |-> <<>>]
    ELSE IF s.buffer # <<>> /\ LineTokens(Append(s.buffer, x)) > HardTokens
    THEN [parts |-> Flush(s.parts, s.buffer), buffer |-> <<x>>]
    ELSE [parts |-> s.parts, buffer |-> Append(s.buffer, x)]

SplitSteps(f, unit) ==
    f = [k \in 0..Len(unit) |->
            IF k = 0 THEN [parts |-> <<>>, buffer |-> <<>>]
            ELSE SplitStep(f[k - 1], unit[k])]

SplitState == [parts : Seq(FitSet), buffer : FitSet]

LEMMA FlushFacts ==
    ASSUME NEW S, NEW parts \in Seq(S), NEW buffer \in S
    PROVE  Flush(parts, buffer) \in Seq(S)
  BY AppendProperties DEF Flush

LEMMA SplitStepFacts ==
    ASSUME NEW s \in SplitState, NEW x \in WholeSet
    PROVE  SplitStep(s, x) \in SplitState
<1> DEFINE parts == Flush(s.parts, s.buffer)
           more == Append(s.buffer, x)
<1>1. /\ s.parts \in Seq(FitSet) /\ s.buffer \in FitSet /\ s.buffer \in Seq(PieceSet)
      /\ x \in PieceSet
  BY WholeFacts DEF SplitState, FitSet
<1>2. parts \in Seq(FitSet)
  BY <1>1, FlushFacts
<1>3. more \in Seq(PieceSet) /\ <<x>> \in Seq(PieceSet)
  BY <1>1, AppendProperties
<1>4. LineTokens(more) \in Int /\ LineTokens(<<x>>) \in Int /\ HardTokens \in Nat
  BY <1>3, TokenFacts, MarkdownAssumption
<1> HIDE DEF parts
<1>5. CASE LineTokens(<<x>>) > HardTokens
  <2>1. Size(x) > 0
    <3> SUFFICES ASSUME ~(Size(x) > 0) PROVE FALSE
      OBVIOUS
    <3>1. Size(x) <= HardChars
      <4>1. HardChars \in Nat /\ Size(x) \in Int
        BY <1>1, SizeFacts, MarkdownAssumption DEF HardChars
      <4> QED BY <4>1
    <3> QED BY <1>1, <1>4, <1>5, <3>1, TokenFacts
  <2>2. SplitLongLine(x) \in Seq(FitSet)
    BY <2>1, LongLine
  <2>3. parts \o SplitLongLine(x) \in Seq(FitSet)
    BY <1>2, <2>2, ConcatProperties
  <2>4. SplitStep(s, x) = [parts |-> parts \o SplitLongLine(x), buffer |-> <<>>]
    BY <1>5 DEF SplitStep, parts
  <2> QED BY <2>3, <2>4, EmptyFits DEF SplitState
<1>6. CASE /\ ~(LineTokens(<<x>>) > HardTokens)
           /\ s.buffer # <<>> /\ LineTokens(more) > HardTokens
  <2>1. SplitStep(s, x) = [parts |-> parts, buffer |-> <<x>>]
    BY <1>6 DEF SplitStep, parts
  <2>2. <<x>> \in FitSet
    BY <1>3, <1>4, <1>6 DEF FitSet
  <2> QED BY <1>2, <2>1, <2>2 DEF SplitState
<1>7. CASE /\ ~(LineTokens(<<x>>) > HardTokens)
           /\ ~(s.buffer # <<>> /\ LineTokens(more) > HardTokens)
  <2>1. SplitStep(s, x) = [parts |-> s.parts, buffer |-> more]
    BY <1>7 DEF SplitStep
  <2>2. LineTokens(more) <= HardTokens
    <3>1. CASE s.buffer = <<>>
      <4>1. more = <<x>>
        BY <3>1
      <4> QED BY <1>4, <1>7, <4>1
    <3>2. CASE s.buffer # <<>>
      BY <1>4, <1>7, <3>2
    <3> QED BY <3>1, <3>2
  <2>3. more \in FitSet
    BY <1>3, <2>2 DEF FitSet
  <2> HIDE DEF more
  <2> QED BY <1>1, <2>1, <2>3 DEF SplitState
<1> QED BY <1>5, <1>6, <1>7

LEMMA SplitRun ==
    ASSUME NEW unit \in Seq(WholeSet)
    PROVE  \E f : /\ f \in [0..Len(unit) -> SplitState]
                  /\ f[0] = [parts |-> <<>>, buffer |-> <<>>]
                  /\ \A k \in 1..Len(unit) : f[k] = SplitStep(f[k - 1], unit[k])
                  /\ SplitOversized(unit) =
                        IF LineTokens(unit) <= HardTokens THEN <<unit>>
                        ELSE LET all == Flush(f[Len(unit)].parts, f[Len(unit)].buffer)
                             IN  At(all, {i \in DOMAIN all : Strip(all[i]) # <<>>})
<1> DEFINE n == Len(unit)
           base == [parts |-> <<>>, buffer |-> <<>>]
           step == [k \in 1..n |-> [s \in SplitState |-> SplitStep(s, unit[k])]]
<1>1. n \in Nat /\ \A k \in 1..n : unit[k] \in WholeSet
  BY LenProperties, ElementOfSeq
<1>2. base \in SplitState
  BY EmptyFits DEF SplitState
<1>3. Stays(step, n, SplitState)
  BY <1>1, SplitStepFacts DEF Stays
<1>4. PICK g \in [0..n -> SplitState] : Along(g, n, base, step)
  <2> HIDE DEF step, base, n
  <2> QED BY <1>1, <1>2, <1>3, Recursion
<1>5. SplitSteps(g, unit)
  <2>1. ASSUME NEW k \in 0..n
        PROVE  g[k] = IF k = 0 THEN base ELSE SplitStep(g[k - 1], unit[k])
    <3>1. CASE k = 0
      BY <1>4, <3>1 DEF Along
    <3>2. CASE k # 0
      <4>1. k \in 1..n /\ k - 1 \in 0..n
        BY <1>1, <3>2
      <4>2. g[k] = step[k][g[k - 1]] /\ g[k - 1] \in SplitState
        <5> HIDE DEF step
        <5> QED BY <1>4, <4>1 DEF Along
      <4> QED BY <3>2, <4>1, <4>2
    <3> QED BY <3>1, <3>2
  <2>2. g = [k \in 0..n |-> g[k]]
    OBVIOUS
  <2> HIDE DEF step
  <2> QED BY <2>1, <2>2 DEF SplitSteps
<1> DEFINE f == CHOOSE h : SplitSteps(h, unit)
<1>6. SplitSteps(f, unit)
  BY <1>5
<1>7. SplitOversized(unit) =
         IF LineTokens(unit) <= HardTokens THEN <<unit>>
         ELSE LET all == Flush(f[n].parts, f[n].buffer)
              IN  At(all, {i \in DOMAIN all : Strip(all[i]) # <<>>})
  BY DEF SplitOversized, SplitSteps, SplitStep, Select
<1> HIDE DEF f
<1>8. f[0] = base /\ \A k \in 1..n : f[k] = SplitStep(f[k - 1], unit[k])
  <2>1. \A k \in 0..n : f[k] = IF k = 0 THEN base ELSE SplitStep(f[k - 1], unit[k])
    BY <1>6 DEF SplitSteps
  <2> QED BY <1>1, <2>1
<1>9. \A k \in 0..n : f[k] \in SplitState
  <2> DEFINE T == {k \in 0..n : f[k] \in SplitState}
  <2>1. 0 \in T
    BY <1>1, <1>2, <1>8
  <2>2. ASSUME NEW k \in 1..n, k - 1 \in T PROVE k \in T
    <3>1. k \in 0..n /\ unit[k] \in WholeSet
      BY <1>1
    <3> QED BY <1>8, <2>2, <3>1, SplitStepFacts
  <2> HIDE DEF T
  <2>3. \A k \in 0..n : k \in T
    BY <1>1, <2>1, <2>2, InductionUpTo
  <2> QED BY <2>3 DEF T
<1>10. f = [k \in 0..n |-> f[k]]
  BY <1>6 DEF SplitSteps
<1>11. f \in [0..n -> SplitState]
  BY <1>9, <1>10
<1> QED BY <1>7, <1>8, <1>11

(* No part of a unit is larger than a block.                               *)
LEMMA SplitFits ==
    ASSUME NEW unit \in Seq(WholeSet)
    PROVE  SplitOversized(unit) \in Seq(FitSet)
<1>1. PICK f : /\ f \in [0..Len(unit) -> SplitState]
               /\ SplitOversized(unit) =
                     IF LineTokens(unit) <= HardTokens THEN <<unit>>
                     ELSE LET all == Flush(f[Len(unit)].parts, f[Len(unit)].buffer)
                          IN  At(all, {i \in DOMAIN all : Strip(all[i]) # <<>>})
  BY SplitRun
<1>2. CASE LineTokens(unit) <= HardTokens
  <2>1. unit \in FitSet
    BY <1>2, WholeFacts DEF FitSet
  <2> QED BY <1>1, <1>2, <2>1
<1>3. CASE ~(LineTokens(unit) <= HardTokens)
  <2> DEFINE all == Flush(f[Len(unit)].parts, f[Len(unit)].buffer)
  <2>1. f[Len(unit)] \in SplitState
    <3>1. Len(unit) \in 0..Len(unit)
      BY LenProperties
    <3> QED BY <1>1, <3>1
  <2>2. all \in Seq(FitSet)
    BY <2>1, FlushFacts DEF SplitState
  <2> HIDE DEF all
  <2>3. \A K : At(all, K) \in Seq(FitSet)
    BY <2>2, AtElements
  <2>4. SplitOversized(unit) = At(all, {i \in DOMAIN all : Strip(all[i]) # <<>>})
    BY <1>1, <1>3 DEF all
  <2> QED BY <2>3, <2>4
<1> QED BY <1>2, <1>3

(* The parts of the units, one unit after the other.                       *)
LEMMA ExpandedRun ==
    ASSUME NEW units \in Seq(Seq(WholeSet))
    PROVE  \E f : /\ f \in [0..Len(units) -> Seq(FitSet)] /\ f[0] = <<>>
                  /\ \A k \in 1..Len(units) :
                        f[k] = f[k - 1] \o SplitOversized(units[k])
                  /\ ExpandedUnits(units) = f[Len(units)]
<1> DEFINE n == Len(units)
           ts == [k \in 1..n |-> SplitOversized(units[k])]
           Steps(f) == f = [k \in 0..n |->
               IF k = 0 THEN <<>> ELSE f[k - 1] \o SplitOversized(units[k])]
<1>1. n \in Nat /\ \A k \in 1..n : units[k] \in Seq(WholeSet)
  BY LenProperties, ElementOfSeq
<1>2. ts \in [1..n -> Seq(FitSet)]
  BY <1>1, SplitFits
<1>3. ASSUME NEW f PROVE IsConcat(f, n, ts) <=> Steps(f)
  <2>1. ASSUME NEW k \in 0..n
        PROVE  (IF k = 0 THEN <<>> ELSE f[k - 1] \o ts[k])
               = (IF k = 0 THEN <<>> ELSE f[k - 1] \o SplitOversized(units[k]))
    <3>1. k # 0 => k \in 1..n
      BY <1>1
    <3> QED BY <3>1
  <2> HIDE DEF ts
  <2> QED BY <2>1 DEF IsConcat
<1>4. ExpandedUnits(units) = (CHOOSE f : Steps(f))[n]
  BY DEF ExpandedUnits
<1> HIDE DEF Steps, ts, n
<1>5. \E f : IsConcat(f, n, ts)
  BY <1>1, <1>2, ConcatRun
<1>6. PICK f : Steps(f) /\ ExpandedUnits(units) = f[n]
  BY <1>3, <1>4, <1>5
<1>7. f \in [0..n -> Seq(FitSet)]
  <2>1. IsConcat(f, n, ts)
    BY <1>3, <1>6
  <2> QED BY <1>1, <1>2, <2>1, ConcatRun
<1>8. \A k \in 0..n : f[k] = IF k = 0 THEN <<>> ELSE f[k - 1] \o SplitOversized(units[k])
  BY <1>6 DEF Steps
<1>9. f[0] = <<>> /\ \A k \in 1..n : f[k] = f[k - 1] \o SplitOversized(units[k])
  <2>1. 0 \in 0..n /\ \A k \in 1..n : k \in 0..n /\ k # 0
    BY <1>1
  <2> QED BY <1>8, <2>1
<1> QED BY <1>6, <1>7, <1>9 DEF n

LEMMA ExpandedFits ==
    ASSUME NEW units \in Seq(Seq(WholeSet))
    PROVE  ExpandedUnits(units) \in Seq(FitSet)
<1>1. PICK f : /\ f \in [0..Len(units) -> Seq(FitSet)]
               /\ ExpandedUnits(units) = f[Len(units)]
  BY ExpandedRun
<1>2. Len(units) \in 0..Len(units)
  BY LenProperties
<1> QED BY <1>1, <1>2

-----------------------------------------------------------------------------
(* Blocks. *)

BlockSet == {us \in Seq(FitSet) : UnitTokens(us) <= HardTokens}
BlockState == [blocks : Seq(BlockSet), current : BlockSet]

LEMMA FitFacts ==
    /\ FitSet \subseteq Seq(PieceSet)
    /\ Seq(FitSet) \subseteq Seq(Seq(PieceSet))
    /\ \A us \in Seq(FitSet) : UnitTokens(us) \in Int
<1>1. FitSet \subseteq Seq(PieceSet)
  BY DEF FitSet
<1>2. Seq(FitSet) \subseteq Seq(Seq(PieceSet))
  <2> SUFFICES ASSUME NEW t \in Seq(FitSet) PROVE t \in Seq(Seq(PieceSet))
    OBVIOUS
  <2>1. Len(t) \in Nat /\ t \in [1..Len(t) -> FitSet]
    BY LenProperties
  <2>2. t \in [1..Len(t) -> Seq(PieceSet)]
    BY <1>1, <2>1
  <2> QED BY <2>1, <2>2, FunctionIsSeq
<1> QED BY <1>1, <1>2, TokenFacts

LEMMA OneUnit ==
    ASSUME NEW u \in FitSet
    PROVE  <<u>> \in BlockSet
<1>1. <<u>> \in Seq(FitSet) /\ Len(<<u>>) = 1 /\ <<u>>[1] = u
  OBVIOUS
<1>2. UnitTokens(<<u>>) = LineTokens(u)
  BY <1>1, FitFacts, TokenFacts
<1> QED BY <1>1, <1>2 DEF BlockSet, FitSet

LEMMA NoUnit == <<>> \in BlockSet
<1> DEFINE none == <<>>
           Steps(f) == f = [k \in 0..0 |->
               IF k = 0 THEN 0
               ELSE f[k - 1] + LineChars(none[k]) + (IF k = 1 THEN 0 ELSE 2)]
<1>1. none \in Seq(FitSet) /\ Len(none) = 0
  OBVIOUS
<1> HIDE DEF none
<1>2. UnitChars(none) = (CHOOSE f : Steps(f))[0]
  BY <1>1 DEF UnitChars
<1>3. \E f : Steps(f)
  <2> DEFINE z == [k \in 0..0 |-> 0]
  <2>1. ASSUME NEW k \in 0..0 PROVE k = 0
    OBVIOUS
  <2>2. Steps(z)
    BY <2>1
  <2> QED BY <2>2
<1>4. PICK f : Steps(f) /\ UnitChars(none) = f[0]
  <2> HIDE DEF Steps
  <2> QED BY <1>2, <1>3
<1>5. f[0] = 0
  BY <1>4
<1>6. HardChars \in Nat
  BY MarkdownAssumption DEF HardChars
<1>7. UnitTokens(none) <= HardTokens
  BY <1>4, <1>5, <1>6, EstimateFacts DEF UnitTokens
<1> QED BY <1>1, <1>7 DEF BlockSet, none

(* What one more unit does.                                                *)
BlockStep(s, u) ==
    IF s.current = <<>> \/ Joins(s.current, u)
    THEN [s EXCEPT !.current = Append(@, u)]
    ELSE [blocks |-> Append(s.blocks, s.current), current |-> <<u>>]

BlockSteps(f, units) ==
    f = [k \in 0..Len(units) |->
            IF k = 0 THEN [blocks |-> <<>>, current |-> <<>>]
            ELSE BlockStep(f[k - 1], units[k])]

LEMMA BlockStepFacts ==
    ASSUME NEW s \in BlockState, NEW u \in FitSet
    PROVE  /\ BlockStep(s, u) \in BlockState
           /\ BlockStep(s, u) =
                 IF s.current = <<>> \/ Joins(s.current, u)
                 THEN [blocks |-> s.blocks, current |-> Append(s.current, u)]
                 ELSE [blocks |-> Append(s.blocks, s.current), current |-> <<u>>]
<1>1. s.blocks \in Seq(BlockSet) /\ s.current \in BlockSet /\ s.current \in Seq(FitSet)
      /\ s = [blocks |-> s.blocks, current |-> s.current]
  BY DEF BlockState, BlockSet
<1>2. BlockStep(s, u) =
         IF s.current = <<>> \/ Joins(s.current, u)
         THEN [blocks |-> s.blocks, current |-> Append(s.current, u)]
         ELSE [blocks |-> Append(s.blocks, s.current), current |-> <<u>>]
  <2>1. [s EXCEPT !.current = Append(@, u)]
        = [blocks |-> s.blocks, current |-> Append(s.current, u)]
    <3>1. PICK b \in Seq(BlockSet), c \in BlockSet : s = [blocks |-> b, current |-> c]
      BY <1>1
    <3>2. s.current = c /\ s.blocks = b
      BY <3>1
    <3>3. [[blocks |-> b, current |-> c] EXCEPT !.current = Append(@, u)]
          = [blocks |-> b, current |-> Append(c, u)]
      OBVIOUS
    <3> QED BY <3>1, <3>2, <3>3
  <2> QED BY <2>1 DEF BlockStep
<1>3. CASE s.current = <<>>
  <2>1. Append(s.current, u) = <<u>>
    BY <1>3
  <2> QED BY <1>1, <1>2, <1>3, <2>1, OneUnit DEF BlockState
<1>4. CASE s.current # <<>> /\ Joins(s.current, u)
  <2>1. Append(s.current, u) \in Seq(FitSet)
    BY <1>1, AppendProperties
  <2>2. Append(s.current, u) \in BlockSet
    BY <1>4, <2>1 DEF Joins, BlockSet
  <2> QED BY <1>1, <1>2, <1>4, <2>2 DEF BlockState
<1>5. CASE s.current # <<>> /\ ~Joins(s.current, u)
  <2>1. Append(s.blocks, s.current) \in Seq(BlockSet)
    BY <1>1, AppendProperties
  <2> QED BY <1>2, <1>5, <2>1, OneUnit DEF BlockState
<1> QED BY <1>2, <1>3, <1>4, <1>5

LEMMA BlockRun ==
    ASSUME NEW lines, NEW section, NEW units \in Seq(FitSet),
           units = ExpandedUnits(SectionUnits(lines, section))
    PROVE  \E f : /\ f \in [0..Len(units) -> BlockState]
                  /\ f[0] = [blocks |-> <<>>, current |-> <<>>]
                  /\ \A k \in 1..Len(units) : f[k] = BlockStep(f[k - 1], units[k])
                  /\ BuildBlocks(lines, section) =
                        Flush(f[Len(units)].blocks, f[Len(units)].current)
<1> DEFINE n == Len(units)
           base == [blocks |-> <<>>, current |-> <<>>]
           step == [k \in 1..n |-> [s \in BlockState |-> BlockStep(s, units[k])]]
<1>1. n \in Nat /\ \A k \in 1..n : units[k] \in FitSet
  BY LenProperties, ElementOfSeq
<1>2. base \in BlockState
  BY NoUnit DEF BlockState
<1>3. Stays(step, n, BlockState)
  BY <1>1, BlockStepFacts DEF Stays
<1>4. PICK g \in [0..n -> BlockState] : Along(g, n, base, step)
  <2> HIDE DEF step, base, n
  <2> QED BY <1>1, <1>2, <1>3, Recursion
<1>5. BlockSteps(g, units)
  <2>1. ASSUME NEW k \in 0..n
        PROVE  g[k] = IF k = 0 THEN base ELSE BlockStep(g[k - 1], units[k])
    <3>1. CASE k = 0
      BY <1>4, <3>1 DEF Along
    <3>2. CASE k # 0
      <4>1. k \in 1..n /\ k - 1 \in 0..n
        BY <1>1, <3>2
      <4>2. g[k] = step[k][g[k - 1]] /\ g[k - 1] \in BlockState
        <5> HIDE DEF step
        <5> QED BY <1>4, <4>1 DEF Along
      <4> QED BY <3>2, <4>1, <4>2
    <3> QED BY <3>1, <3>2
  <2>2. g = [k \in 0..n |-> g[k]]
    OBVIOUS
  <2> HIDE DEF step
  <2> QED BY <2>1, <2>2 DEF BlockSteps
<1> DEFINE f == CHOOSE h : BlockSteps(h, units)
<1>6. BlockSteps(f, units)
  BY <1>5
<1>7. BuildBlocks(lines, section) = Flush(f[n].blocks, f[n].current)
  BY DEF BuildBlocks, BlockSteps, BlockStep
<1> HIDE DEF f
<1>8. f[0] = base /\ \A k \in 1..n : f[k] = BlockStep(f[k - 1], units[k])
  <2>1. \A k \in 0..n : f[k] = IF k = 0 THEN base ELSE BlockStep(f[k - 1], units[k])
    BY <1>6 DEF BlockSteps
  <2> QED BY <1>1, <2>1
<1>9. \A k \in 0..n : f[k] \in BlockState
  <2> DEFINE T == {k \in 0..n : f[k] \in BlockState}
  <2>1. 0 \in T
    BY <1>1, <1>2, <1>8
  <2>2. ASSUME NEW k \in 1..n, k - 1 \in T PROVE k \in T
    <3>1. k \in 0..n /\ units[k] \in FitSet
      BY <1>1
    <3> QED BY <1>8, <2>2, <3>1, BlockStepFacts
  <2> HIDE DEF T
  <2>3. \A k \in 0..n : k \in T
    BY <1>1, <2>1, <2>2, InductionUpTo
  <2> QED BY <2>3 DEF T
<1>10. f = [k \in 0..n |-> f[k]]
  BY <1>6 DEF BlockSteps
<1>11. f \in [0..n -> BlockState]
  BY <1>9, <1>10
<1> QED BY <1>7, <1>8, <1>11

(* A block is closed only before a unit that does not join it.             *)
Closed(blocks) ==
    /\ \A i \in 1..Len(blocks) : Len(blocks[i]) >= 1
    /\ \A i \in 1..Len(blocks) : \A j \in 1..Len(blocks) :
          j = i + 1 => ~Joins(blocks[i], blocks[j][1])

LEMMA CloseOneMore ==
    ASSUME NEW blocks \in Seq(BlockSet), Closed(blocks), NEW b \in BlockSet, b # <<>>,
           \A i \in 1..Len(blocks) : i = Len(blocks) => ~Joins(blocks[i], b[1])
    PROVE  Closed(Append(blocks, b))
<1> DEFINE n == Len(blocks)
           more == Append(blocks, b)
<1>1. n \in Nat /\ b \in Seq(FitSet)
  BY LenProperties DEF BlockSet
<1>2. /\ Len(more) = n + 1 /\ \A i \in 1..n : more[i] = blocks[i]
      /\ more[n + 1] = b
  BY AppendProperties
<1>3. Len(b) >= 1
  BY <1>1, EmptySeq
<1> HIDE DEF more
<1>4. \A i \in 1 .. n + 1 : i \in 1..n \/ i = n + 1
  BY <1>1
<1>5. \A i \in 1..Len(more) : Len(more[i]) >= 1
  BY <1>2, <1>3, <1>4 DEF Closed
<1>6. ASSUME NEW i \in 1..Len(more), NEW j \in 1..Len(more), j = i + 1
      PROVE  ~Joins(more[i], more[j][1])
  <2>1. i \in 1..n /\ more[i] = blocks[i]
    BY <1>1, <1>2, <1>6
  <2>2. CASE j = n + 1
    <3>1. i = n
      BY <1>1, <1>6, <2>1, <2>2
    <3> QED BY <1>2, <2>1, <2>2, <3>1
  <2>3. CASE j # n + 1
    <3>1. j \in 1..n /\ more[j] = blocks[j]
      BY <1>2, <1>4, <2>3
    <3> QED BY <1>6, <2>1, <3>1 DEF Closed
  <2> QED BY <2>2, <2>3
<1> QED BY <1>5, <1>6 DEF Closed, more

LEMMA BlocksClosed ==
    ASSUME NEW lines, NEW section, NEW units \in Seq(FitSet),
           units = ExpandedUnits(SectionUnits(lines, section))
    PROVE  /\ BuildBlocks(lines, section) \in Seq(BlockSet)
           /\ Closed(BuildBlocks(lines, section))
<1> DEFINE n == Len(units)
           AtEnd(s) == \A i \in 1..Len(s.blocks) :
                         i = Len(s.blocks) =>
                            s.current # <<>> /\ ~Joins(s.blocks[i], s.current[1])
           OK(s) == Closed(s.blocks) /\ AtEnd(s)
<1>1. n \in Nat /\ \A k \in 1..n : units[k] \in FitSet
  BY LenProperties, ElementOfSeq
<1>2. PICK f : /\ f \in [0..n -> BlockState]
               /\ f[0] = [blocks |-> <<>>, current |-> <<>>]
               /\ \A k \in 1..n : f[k] = BlockStep(f[k - 1], units[k])
               /\ BuildBlocks(lines, section) = Flush(f[n].blocks, f[n].current)
  BY BlockRun
<1>3. ASSUME NEW s \in BlockState, NEW u \in FitSet, OK(s) PROVE OK(BlockStep(s, u))
  <2>1. /\ s.blocks \in Seq(BlockSet) /\ s.current \in BlockSet
        /\ s.current \in Seq(FitSet)
    BY DEF BlockState, BlockSet
  <2>2. Len(s.blocks) \in Nat
    BY <2>1, LenProperties
  <2>3. CASE s.current = <<>> \/ Joins(s.current, u)
    <3>1. BlockStep(s, u) = [blocks |-> s.blocks, current |-> Append(s.current, u)]
      BY <2>3, BlockStepFacts
    <3>2. s.current # <<>> => Append(s.current, u)[1] = s.current[1]
      <4> SUFFICES ASSUME s.current # <<>> PROVE Append(s.current, u)[1] = s.current[1]
        OBVIOUS
      <4>1. Len(s.current) \in Nat \ {0}
        BY <2>1, EmptySeq
      <4>2. 1 \in 1..Len(s.current)
        BY <4>1
      <4> QED BY <2>1, <4>2, AppendProperties
    <3>3. Append(s.current, u) # <<>>
      BY <2>1, AppendProperties
    <3> QED BY <1>3, <3>1, <3>2, <3>3
  <2>4. CASE ~(s.current = <<>> \/ Joins(s.current, u))
    <3>1. BlockStep(s, u) = [blocks |-> Append(s.blocks, s.current), current |-> <<u>>]
      BY <2>4, BlockStepFacts
    <3>2. Closed(Append(s.blocks, s.current))
      BY <1>3, <2>1, <2>4, CloseOneMore
    <3>3. /\ Len(Append(s.blocks, s.current)) = Len(s.blocks) + 1
          /\ Append(s.blocks, s.current)[Len(s.blocks) + 1] = s.current
      BY <2>1, AppendProperties
    <3>4. <<u>> # <<>> /\ <<u>>[1] = u
      OBVIOUS
    <3> DEFINE t == [blocks |-> Append(s.blocks, s.current), current |-> <<u>>]
    <3>5. AtEnd(t)
      BY <2>4, <3>3, <3>4
    <3> QED BY <3>1, <3>2, <3>5
  <2> QED BY <2>3, <2>4
<1> HIDE DEF n
<1>4. OK(f[0])
  <2>1. f[0].blocks = <<>> /\ Len(<<>>) = 0
    BY <1>2
  <2>2. 1..0 = {}
    OBVIOUS
  <2> QED BY <2>1, <2>2 DEF Closed
<1> HIDE DEF OK
<1>5. \A k \in 0..n : OK(f[k])
  <2> DEFINE T == {k \in 0..n : OK(f[k])}
  <2>1. 0 \in T
    BY <1>1, <1>4
  <2>2. ASSUME NEW k \in 1..n, k - 1 \in T PROVE k \in T
    <3>1. k \in 0..n /\ k - 1 \in 0..n
      BY <1>1
    <3>2. f[k - 1] \in BlockState /\ units[k] \in FitSet /\ OK(f[k - 1])
      BY <1>1, <1>2, <2>2, <3>1
    <3>3. OK(f[k])
      BY <1>2, <1>3, <3>2
    <3> QED BY <3>1, <3>3
  <2> HIDE DEF T
  <2>3. \A k \in 0..n : k \in T
    BY <1>1, <2>1, <2>2, InductionUpTo
  <2> QED BY <2>3 DEF T
<1>6. f[n] \in BlockState /\ OK(f[n])
  BY <1>1, <1>2, <1>5
<1> DEFINE s == f[n]
<1>7. s.blocks \in Seq(BlockSet) /\ s.current \in BlockSet /\ Closed(s.blocks) /\ AtEnd(s)
  BY <1>6 DEF BlockState, OK
<1>8. BuildBlocks(lines, section) = Flush(s.blocks, s.current)
  BY <1>2
<1> HIDE DEF s
<1>9. CASE s.current = <<>>
  BY <1>7, <1>8, <1>9 DEF Flush
<1>10. CASE s.current # <<>>
  <2>1. Closed(Append(s.blocks, s.current))
    BY <1>7, <1>10, CloseOneMore
  <2> QED BY <1>7, <1>8, <1>10, <2>1, AppendProperties DEF Flush
<1> QED BY <1>9, <1>10

-----------------------------------------------------------------------------
(* The rows of a note. *)

SectionBlocks(lines, k) == BuildBlocks(lines, Sections(lines)[k])

LEMMA SectionBlocksFacts ==
    ASSUME NEW lines, IsBody(lines), NEW k \in DOMAIN Sections(lines)
    PROVE  /\ SectionBlocks(lines, k) \in Seq(BlockSet)
           /\ Closed(SectionBlocks(lines, k))
<1> DEFINE s == Sections(lines)[k]
           us == ExpandedUnits(SectionUnits(lines, s))
<1>1. SectionUnits(lines, s) \in Seq(Seq(WholeSet))
  BY SectionUnitsAre
<1>2. us \in Seq(FitSet)
  BY <1>1, ExpandedFits
<1> HIDE DEF s
<1>3. BuildBlocks(lines, s) \in Seq(BlockSet) /\ Closed(BuildBlocks(lines, s))
  <2>1. us = ExpandedUnits(SectionUnits(lines, s))
    OBVIOUS
  <2> HIDE DEF us
  <2> QED BY <1>2, <2>1, BlocksClosed
<1> QED BY <1>3 DEF SectionBlocks, s

(* Row i is a block of section k, and follows the block before it.         *)
IsRow(rows, i, lines, k) ==
    LET bs == SectionBlocks(lines, k)
        o == rows[i].ordinal
    IN  /\ o \in 1..Len(bs)
        /\ rows[i] = [section |-> Sections(lines)[k], ordinal |-> o, units |-> bs[o]]
        /\ o > 1 => /\ i - 1 \in 1..Len(rows)
                    /\ rows[i - 1] = [section |-> Sections(lines)[k],
                                      ordinal |-> o - 1, units |-> bs[o - 1]]

AreRows(rows, lines, n) ==
    \A i \in 1..Len(rows) : \E k \in 1..n : IsRow(rows, i, lines, k)

SectionRows(lines, k) ==
    LET bs == SectionBlocks(lines, k) IN
    [o \in DOMAIN bs |-> [section |-> Sections(lines)[k], ordinal |-> o,
                          units |-> bs[o]]]

RowSet(lines) ==
    [section : {Sections(lines)[k] : k \in DOMAIN Sections(lines)},
     ordinal : Nat, units : BlockSet]

LEMMA SectionRowsFacts ==
    ASSUME NEW lines, IsBody(lines), NEW k \in DOMAIN Sections(lines)
    PROVE  LET bs == SectionBlocks(lines, k)
               rows == SectionRows(lines, k)
           IN  /\ rows \in Seq(RowSet(lines))
               /\ Len(bs) \in Nat /\ Len(rows) = Len(bs)
               /\ \A o \in 1..Len(bs) :
                     rows[o] = [section |-> Sections(lines)[k], ordinal |-> o,
                                units |-> bs[o]]
<1> DEFINE bs == SectionBlocks(lines, k)
           rows == SectionRows(lines, k)
           s == Sections(lines)[k]
<1>1. bs \in Seq(BlockSet)
  BY SectionBlocksFacts
<1> HIDE DEF bs
<1>2. Len(bs) \in Nat /\ DOMAIN bs = 1..Len(bs) /\ \A o \in 1..Len(bs) : bs[o] \in BlockSet
  BY <1>1, LenProperties, ElementOfSeq
<1>3. rows = [o \in 1..Len(bs) |-> [section |-> s, ordinal |-> o, units |-> bs[o]]]
  BY <1>2 DEF SectionRows, bs
<1>4. rows \in [1..Len(bs) -> RowSet(lines)]
  BY <1>2, <1>3 DEF RowSet
<1> HIDE DEF rows
<1>5. rows \in Seq(RowSet(lines)) /\ Len(rows) = Len(bs)
  BY <1>2, <1>4, FunctionIsSeq
<1> QED BY <1>2, <1>3, <1>5 DEF rows, bs

LEMMA RowsMore ==
    ASSUME NEW lines, IsBody(lines), NEW k \in DOMAIN Sections(lines), k \in Nat \ {0},
           NEW rows \in Seq(RowSet(lines)), AreRows(rows, lines, k - 1)
    PROVE  AreRows(rows \o SectionRows(lines, k), lines, k)
<1> DEFINE new == SectionRows(lines, k)
           all == rows \o new
           m == Len(rows)
           n == Len(new)
           bs == SectionBlocks(lines, k)
           row(o) == [section |-> Sections(lines)[k], ordinal |-> o, units |-> bs[o]]
<1>1. /\ new \in Seq(RowSet(lines)) /\ n \in Nat /\ Len(bs) = n
      /\ \A o \in 1..n : new[o] = row(o)
  BY SectionRowsFacts
<1> HIDE DEF new, bs
<1>2. /\ m \in Nat /\ Len(all) = m + n
      /\ \A i \in 1 .. m + n : all[i] = IF i <= m THEN rows[i] ELSE new[i - m]
  BY <1>1, ConcatProperties, LenProperties
<1> HIDE DEF all, m, n
<1>3. ASSUME NEW i \in 1 .. m + n PROVE \E j \in 1..k : IsRow(all, i, lines, j)
  <2>1. CASE i <= m
    <3>1. i \in 1..m
      BY <1>2, <2>1
    <3>2. PICK j \in 1 .. k - 1 : IsRow(rows, i, lines, j)
      BY <3>1 DEF AreRows, m
    <3>3. all[i] = rows[i]
      BY <1>2, <2>1
    <3>4. ASSUME i - 1 \in 1..m PROVE all[i - 1] = rows[i - 1] /\ i - 1 \in 1 .. m + n
      <4>1. i - 1 \in 1 .. m + n /\ i - 1 <= m
        BY <1>1, <1>2, <3>4
      <4> QED BY <1>2, <4>1
    <3>5. j \in 1..k
      OBVIOUS
    <3>6. IsRow(all, i, lines, j)
      BY <1>2, <3>2, <3>3, <3>4 DEF IsRow, m
    <3> QED BY <3>5, <3>6
  <2>2. CASE ~(i <= m)
    <3> DEFINE o == i - m
    <3>1. o \in 1..n /\ all[i] = new[o]
      BY <1>1, <1>2, <2>2
    <3>2. all[i] = row(o)
      BY <1>1, <3>1
    <3>3. ASSUME o > 1
          PROVE  i - 1 \in 1 .. m + n /\ all[i - 1] = row(o - 1)
      <4>1. i - 1 \in 1 .. m + n /\ ~(i - 1 <= m) /\ (i - 1) - m = o - 1 /\ o - 1 \in 1..n
        BY <1>1, <1>2, <3>1, <3>3
      <4>2. all[i - 1] = new[o - 1]
        BY <1>2, <4>1
      <4> QED BY <1>1, <4>1, <4>2
    <3>4. all[i].ordinal = o
      BY <3>2
    <3> HIDE DEF o
    <3>5. IsRow(all, i, lines, k)
      BY <1>1, <1>2, <3>1, <3>2, <3>3, <3>4 DEF IsRow, bs
    <3> QED BY <3>5
  <2> QED BY <2>1, <2>2
<1> QED BY <1>2, <1>3 DEF AreRows, all, new

LEMMA ParseRun ==
    ASSUME NEW lines, IsBody(lines)
    PROVE  LET n == Len(Sections(lines)) IN
           /\ n \in Nat /\ DOMAIN Sections(lines) = 1..n
           /\ \E f : /\ f \in [0..n -> Seq(RowSet(lines))] /\ f[0] = <<>>
                     /\ \A k \in 1..n : f[k] = f[k - 1] \o SectionRows(lines, k)
                     /\ ParseMarkdown(lines) = f[n]
<1> DEFINE n == Len(Sections(lines))
           ts == [k \in 1..n |-> SectionRows(lines, k)]
           Steps(f) == f = [k \in 0..n |->
               IF k = 0 THEN <<>> ELSE f[k - 1] \o SectionRows(lines, k)]
<1>1. n \in Nat /\ DOMAIN Sections(lines) = 1..n
  <2>1. Len(Order(lines)) \in Nat
    BY HeadingFacts DEF IsBody
  <2> QED BY <2>1, SectionFacts DEF IsBody
<1>2. ts \in [1..n -> Seq(RowSet(lines))]
  BY <1>1, SectionRowsFacts
<1>3. ASSUME NEW f PROVE IsConcat(f, n, ts) <=> Steps(f)
  <2>1. ASSUME NEW k \in 0..n
        PROVE  (IF k = 0 THEN <<>> ELSE f[k - 1] \o ts[k])
               = (IF k = 0 THEN <<>> ELSE f[k - 1] \o SectionRows(lines, k))
    <3>1. k # 0 => k \in 1..n
      BY <1>1
    <3> QED BY <3>1
  <2> HIDE DEF ts
  <2> QED BY <2>1 DEF IsConcat
<1>4. ParseMarkdown(lines) = (CHOOSE f : Steps(f))[n]
  BY DEF ParseMarkdown, SectionRows, SectionBlocks
<1> HIDE DEF Steps, ts, n
<1>5. \E f : IsConcat(f, n, ts)
  BY <1>1, <1>2, ConcatRun
<1>6. PICK f : Steps(f) /\ ParseMarkdown(lines) = f[n]
  BY <1>3, <1>4, <1>5
<1>7. f \in [0..n -> Seq(RowSet(lines))]
  <2>1. IsConcat(f, n, ts)
    BY <1>3, <1>6
  <2> QED BY <1>1, <1>2, <2>1, ConcatRun
<1>8. \A k \in 0..n : f[k] = IF k = 0 THEN <<>> ELSE f[k - 1] \o SectionRows(lines, k)
  BY <1>6 DEF Steps
<1>9. f[0] = <<>> /\ \A k \in 1..n : f[k] = f[k - 1] \o SectionRows(lines, k)
  <2>1. 0 \in 0..n /\ \A k \in 1..n : k \in 0..n /\ k # 0
    BY <1>1
  <2> QED BY <1>8, <2>1
<1> QED BY <1>1, <1>6, <1>7, <1>9 DEF n

(* The rows of a note are the blocks of its sections, in order.            *)
LEMMA RowsFollow ==
    ASSUME NEW lines, IsBody(lines)
    PROVE  LET rows == ParseMarkdown(lines) IN
           /\ rows \in Seq(RowSet(lines))
           /\ \A i \in 1..Len(rows) :
                 \E k \in DOMAIN Sections(lines) : IsRow(rows, i, lines, k)
<1> DEFINE n == Len(Sections(lines))
<1>1. n \in Nat /\ DOMAIN Sections(lines) = 1..n
  BY ParseRun
<1>2. PICK f : /\ f \in [0..n -> Seq(RowSet(lines))] /\ f[0] = <<>>
               /\ \A k \in 1..n : f[k] = f[k - 1] \o SectionRows(lines, k)
               /\ ParseMarkdown(lines) = f[n]
  BY ParseRun
<1> DEFINE T == {k \in 0..n : AreRows(f[k], lines, k)}
<1> HIDE DEF n
<1>3. 0 \in T
  <2>1. Len(<<>>) = 0 /\ 1..0 = {}
    OBVIOUS
  <2> QED BY <1>1, <1>2, <2>1 DEF AreRows
<1>4. ASSUME NEW k \in 1..n, k - 1 \in T PROVE k \in T
  <2>1. k \in 0..n /\ k - 1 \in 0..n /\ k \in Nat \ {0} /\ k \in DOMAIN Sections(lines)
    BY <1>1
  <2>2. f[k - 1] \in Seq(RowSet(lines)) /\ AreRows(f[k - 1], lines, k - 1)
    BY <1>2, <1>4, <2>1
  <2>3. AreRows(f[k], lines, k)
    BY <1>2, <2>1, <2>2, RowsMore
  <2> QED BY <2>1, <2>3
<1>5. n \in T
  <2> HIDE DEF T
  <2>1. \A k \in 0..n : k \in T
    BY <1>1, <1>3, <1>4, InductionUpTo
  <2>2. n \in 0..n
    BY <1>1
  <2> QED BY <2>1, <2>2
<1>6. ParseMarkdown(lines) \in Seq(RowSet(lines))
  <2>1. n \in 0..n
    BY <1>1
  <2> QED BY <1>2, <2>1
<1>7. AreRows(ParseMarkdown(lines), lines, n)
  BY <1>2, <1>5
<1> QED BY <1>1, <1>6, <1>7 DEF AreRows

(* No block is larger than the hard limit.                                 *)
LEMMA RowsFit ==
    ASSUME NEW lines, IsBody(lines), NEW i \in DOMAIN ParseMarkdown(lines)
    PROVE  UnitTokens(ParseMarkdown(lines)[i].units) <= HardTokens
<1> DEFINE rows == ParseMarkdown(lines)
<1>1. rows \in Seq(RowSet(lines))
  BY RowsFollow
<1> HIDE DEF rows
<1>2. DOMAIN rows = 1..Len(rows)
  BY <1>1, LenProperties
<1>3. i \in 1..Len(rows)
  BY <1>2 DEF rows
<1>4. rows[i] \in RowSet(lines)
  BY <1>1, <1>3, ElementOfSeq
<1> QED BY <1>4 DEF RowSet, BlockSet, rows

(* A block below the minimum is followed, in its section, by a unit that   *)
(* would have made it too large.                                           *)
LEMMA SmallRows ==
    ASSUME NEW lines, IsBody(lines), NEW i \in 2..Len(ParseMarkdown(lines)),
           ParseMarkdown(lines)[i].ordinal > 1,
           UnitTokens(ParseMarkdown(lines)[i - 1].units) < MinTokens
    PROVE  UnitTokens(Append(ParseMarkdown(lines)[i - 1].units,
                             ParseMarkdown(lines)[i].units[1])) > HardTokens
<1> DEFINE rows == ParseMarkdown(lines)
<1>1. rows \in Seq(RowSet(lines)) /\ Len(rows) \in Nat
  BY RowsFollow, LenProperties
<1>2. i \in 1..Len(rows)
  BY <1>1
<1>3. PICK k \in DOMAIN Sections(lines) : IsRow(rows, i, lines, k)
  BY <1>2, RowsFollow
<1> DEFINE bs == SectionBlocks(lines, k)
           o == rows[i].ordinal
<1>4. bs \in Seq(BlockSet) /\ Closed(bs)
  BY SectionBlocksFacts
<1> HIDE DEF rows, bs
<1>5. /\ o \in 1..Len(bs) /\ rows[i].units = bs[o]
      /\ o > 1 => rows[i - 1].units = bs[o - 1]
  BY <1>3 DEF IsRow, bs
<1> HIDE DEF o
<1>6. o > 1
  BY DEF o, rows
<1> DEFINE a == bs[o - 1]
           u == bs[o][1]
<1>7. Len(bs) \in Nat
  BY <1>4, LenProperties
<1>8. o - 1 \in 1..Len(bs) /\ o = (o - 1) + 1
  BY <1>5, <1>6, <1>7
<1>9. a \in BlockSet /\ bs[o] \in BlockSet
  BY <1>4, <1>5, <1>8, ElementOfSeq
<1>10. ~Joins(a, u) /\ Len(bs[o]) >= 1
  BY <1>4, <1>5, <1>8 DEF Closed
<1>11. a \in Seq(FitSet) /\ u \in FitSet
  <2>1. bs[o] \in Seq(FitSet)
    BY <1>9 DEF BlockSet
  <2>2. Len(bs[o]) \in Nat
    BY <2>1, LenProperties
  <2>3. 1 \in 1..Len(bs[o])
    BY <1>10, <2>2
  <2> QED BY <1>9, <2>1, <2>3, ElementOfSeq DEF BlockSet
<1>12. Append(a, u) \in Seq(FitSet)
  BY <1>11, AppendProperties
<1>13. UnitTokens(Append(a, u)) \in Int /\ UnitTokens(a) \in Int
  BY <1>11, <1>12, FitFacts
<1>14. UnitTokens(a) < MinTokens
  BY <1>5, <1>6 DEF rows
<1> HIDE DEF a, u
<1>15. UnitTokens(Append(a, u)) > HardTokens
  BY <1>10, <1>13, <1>14, MarkdownAssumption DEF Joins
<1> QED BY <1>5, <1>6, <1>15 DEF rows, a, u

-----------------------------------------------------------------------------
(* What of a text is not empty, and that of all texts together.            *)

Kept(t) == At(t, {i \in DOMAIN t : Size(t[i]) > 0})
Words(units) == Kept(FlattenSeq(units))

LEMMA KeptConcat ==
    ASSUME NEW s \in Seq(PieceSet), NEW t \in Seq(PieceSet)
    PROVE  Kept(s \o t) = Kept(s) \o Kept(t)
<1> DEFINE u == s \o t
           K == {i \in DOMAIN u : Size(u[i]) > 0}
           L == {i \in DOMAIN s : Size(s[i]) > 0}
           M == {i \in DOMAIN t : Size(t[i]) > 0}
<1>1. Len(s) \in Nat /\ Len(t) \in Nat /\ DOMAIN s = 1..Len(s) /\ DOMAIN t = 1..Len(t)
  BY LenProperties
<1>2. /\ u \in Seq(PieceSet) /\ Len(u) = Len(s) + Len(t)
      /\ \A i \in 1 .. Len(s) + Len(t) : u[i] = IF i <= Len(s) THEN s[i] ELSE t[i - Len(s)]
  BY ConcatProperties
<1> HIDE DEF u
<1>3. DOMAIN u = 1 .. Len(s) + Len(t)
  BY <1>2, LenProperties
<1>4. Agree(K, L, 0, Len(s))
  <2>1. \A i \in 1..Len(s) : i \in K <=> i \in L
    BY <1>1, <1>2, <1>3
  <2>2. \A i \in 1..Len(s) : 0 + i = i
    OBVIOUS
  <2> QED BY <2>1, <2>2 DEF Agree
<1>5. ASSUME NEW i \in 1..Len(t) PROVE Len(s) + i \in K <=> i \in M
  <2>1. Len(s) + i \in 1 .. Len(s) + Len(t) /\ ~(Len(s) + i <= Len(s))
        /\ (Len(s) + i) - Len(s) = i
    BY <1>1
  <2> QED BY <1>1, <1>2, <1>3, <2>1
<1>6. Agree(K, M, Len(s), Len(t))
  BY <1>5 DEF Agree
<1> HIDE DEF K, L, M
<1>7. At(s \o t, K) = At(s, L) \o At(t, M)
  BY <1>4, <1>6, AtConcat
<1> QED BY <1>7 DEF Kept, K, L, M, u

LEMMA KeptFacts ==
    ASSUME NEW t \in Seq(PieceSet)
    PROVE  /\ Kept(t) \in Seq(PieceSet)
           /\ (\A i \in 1..Len(t) : Size(t[i]) > 0) => Kept(t) = t
           /\ (\A i \in 1..Len(t) : ~(Size(t[i]) > 0)) => Kept(t) = <<>>
<1> DEFINE K == {i \in DOMAIN t : Size(t[i]) > 0}
<1>1. DOMAIN t = 1..Len(t)
  BY LenProperties
<1>2. (\A i \in 1..Len(t) : Size(t[i]) > 0) => \A i \in 1..Len(t) : i \in K
  BY <1>1
<1>3. (\A i \in 1..Len(t) : ~(Size(t[i]) > 0)) => \A i \in 1..Len(t) : i \notin K
  BY <1>1
<1> HIDE DEF K
<1>4. At(t, K) \in Seq(PieceSet)
  BY AtEnumeration
<1>5. /\ (\A i \in 1..Len(t) : i \in K) => At(t, K) = t
      /\ (\A i \in 1..Len(t) : i \notin K) => At(t, K) = <<>>
  BY AtExtremes
<1>6. Kept(t) = At(t, K)
  BY DEF Kept, K
<1> QED BY <1>2, <1>3, <1>4, <1>5, <1>6

LEMMA WordsFacts ==
    ASSUME NEW us \in Seq(Seq(PieceSet))
    PROVE  /\ Words(us) \in Seq(PieceSet)
           /\ \A vs \in Seq(Seq(PieceSet)) : Words(us \o vs) = Words(us) \o Words(vs)
           /\ \A t \in Seq(PieceSet) : Words(Append(us, t)) = Words(us) \o Kept(t)
<1>1. FlattenSeq(us) \in Seq(PieceSet)
  BY FlattenJoins
<1>2. Words(us) \in Seq(PieceSet)
  BY <1>1, KeptFacts DEF Words
<1>3. ASSUME NEW vs \in Seq(Seq(PieceSet)) PROVE Words(us \o vs) = Words(us) \o Words(vs)
  <2>1. FlattenSeq(vs) \in Seq(PieceSet)
    BY FlattenJoins
  <2>2. FlattenSeq(us \o vs) = FlattenSeq(us) \o FlattenSeq(vs)
    BY FlattenConcat
  <2> QED BY <1>1, <2>1, <2>2, KeptConcat DEF Words
<1>4. ASSUME NEW t \in Seq(PieceSet) PROVE Words(Append(us, t)) = Words(us) \o Kept(t)
  <2>1. FlattenSeq(Append(us, t)) = FlattenSeq(us) \o t
    BY FlattenAppend
  <2> QED BY <1>1, <2>1, KeptConcat DEF Words
<1> QED BY <1>2, <1>3, <1>4

LEMMA FewWords ==
    /\ Kept(<<>>) = <<>> /\ Words(<<>>) = <<>>
    /\ \A t \in Seq(PieceSet) : Words(<<t>>) = Kept(t)
<1>1. <<>> \in Seq(PieceSet) /\ Len(<<>>) = 0
  OBVIOUS
<1>2. \A i \in 1..Len(<<>>) : FALSE
  BY <1>1
<1>3. Kept(<<>>) = <<>>
  BY <1>1, <1>2, KeptFacts
<1> QED BY <1>3, FlattenFew DEF Words

-----------------------------------------------------------------------------
(* The text t tells the lines K: each of them is in it, whole, and they    *)
(* are in order.                                                           *)
Tells(t, lines, K) ==
    /\ \A i \in 1..Len(t) : t[i].line \in K
    /\ \A k \in K : \E i \in 1..Len(t) : t[i].line = k
    /\ \A i \in 1..Len(t) : i > 1 => t[i - 1].line <= t[i].line
    /\ \A i \in 1..Len(t) :
          t[i].from = IF i > 1 /\ t[i - 1].line = t[i].line THEN t[i - 1].to ELSE 0
    /\ \A i \in 1..Len(t) :
          ~(i < Len(t) /\ t[i + 1].line = t[i].line) => t[i].to = lines[t[i].line].size

LEMMA TellsJoin ==
    ASSUME NEW s \in Seq(PieceSet), NEW t \in Seq(PieceSet), NEW lines,
           NEW K, NEW L, K \subseteq Nat, L \subseteq Nat,
           Tells(s, lines, K), Tells(t, lines, L),
           \A k \in K : \A l \in L : k < l
    PROVE  Tells(s \o t, lines, K \cup L)
<1> DEFINE u == s \o t
           m == Len(s)
           n == Len(t)
<1>1. m \in Nat /\ n \in Nat
  BY LenProperties
<1>2. /\ u \in Seq(PieceSet) /\ Len(u) = m + n
      /\ \A i \in 1 .. m + n : u[i] = IF i <= m THEN s[i] ELSE t[i - m]
  BY ConcatProperties
<1> HIDE DEF u
<1>3. /\ \A i \in 1..m : s[i].line \in K
      /\ \A k \in K : \E i \in 1..m : s[i].line = k
      /\ \A i \in 1..m : i > 1 => s[i - 1].line <= s[i].line
      /\ \A i \in 1..m :
            s[i].from = IF i > 1 /\ s[i - 1].line = s[i].line THEN s[i - 1].to ELSE 0
      /\ \A i \in 1..m :
            ~(i < m /\ s[i + 1].line = s[i].line) => s[i].to = lines[s[i].line].size
  BY DEF Tells
<1>4. /\ \A i \in 1..n : t[i].line \in L
      /\ \A k \in L : \E i \in 1..n : t[i].line = k
      /\ \A i \in 1..n : i > 1 => t[i - 1].line <= t[i].line
      /\ \A i \in 1..n :
            t[i].from = IF i > 1 /\ t[i - 1].line = t[i].line THEN t[i - 1].to ELSE 0
      /\ \A i \in 1..n :
            ~(i < n /\ t[i + 1].line = t[i].line) => t[i].to = lines[t[i].line].size
  BY DEF Tells
<1> HIDE DEF m, n
<1>5. \A i \in 1..m : i \in 1 .. m + n /\ u[i] = s[i]
  BY <1>1, <1>2
<1>6. ASSUME NEW i \in 1..n PROVE m + i \in 1 .. m + n /\ u[m + i] = t[i]
  <2>1. m + i \in 1 .. m + n /\ ~(m + i <= m) /\ (m + i) - m = i
    BY <1>1
  <2> QED BY <1>2, <2>1
<1>7. ASSUME NEW i \in 1 .. m + n PROVE i \in 1..m \/ \E j \in 1..n : i = m + j
  <2>1. i \in 1..m \/ (i - m \in 1..n /\ i = m + (i - m))
    BY <1>1
  <2> QED BY <2>1
<1>8. \A k \in K \cup L : \E i \in 1 .. m + n : u[i].line = k
  <2>1. ASSUME NEW k \in K PROVE \E i \in 1 .. m + n : u[i].line = k
    <3>1. PICK i \in 1..m : s[i].line = k
      BY <1>3
    <3> QED BY <1>5, <3>1
  <2>2. ASSUME NEW k \in L PROVE \E i \in 1 .. m + n : u[i].line = k
    <3>1. PICK i \in 1..n : t[i].line = k
      BY <1>4
    <3> QED BY <1>6, <3>1
  <2> QED BY <2>1, <2>2
<1>9. ASSUME NEW i \in 1 .. m + n
      PROVE  /\ u[i].line \in K \cup L
             /\ i > 1 => u[i - 1].line <= u[i].line
             /\ u[i].from = IF i > 1 /\ u[i - 1].line = u[i].line THEN u[i - 1].to ELSE 0
             /\ ~(i < m + n /\ u[i + 1].line = u[i].line) => u[i].to = lines[u[i].line].size
  <2>1. CASE i \in 1..m
    <3>1. u[i] = s[i] /\ u[i].line \in K
      BY <1>3, <1>5, <2>1
    <3>2. ASSUME i > 1 PROVE u[i - 1] = s[i - 1]
      <4>1. i - 1 \in 1..m
        BY <1>1, <2>1, <3>2
      <4> QED BY <1>5, <4>1
    <3>3. ASSUME ~(i < m + n /\ u[i + 1].line = u[i].line)
          PROVE  ~(i < m /\ s[i + 1].line = s[i].line)
      <4> SUFFICES ASSUME i < m, s[i + 1].line = s[i].line PROVE FALSE
        OBVIOUS
      <4>1. i + 1 \in 1..m /\ i < m + n
        BY <1>1, <2>1
      <4>2. u[i + 1] = s[i + 1]
        BY <1>5, <4>1
      <4> QED BY <3>1, <3>3, <4>1, <4>2
    <3> QED BY <1>3, <2>1, <3>1, <3>2, <3>3
  <2>2. CASE \E j \in 1..n : i = m + j
    <3>1. PICK j \in 1..n : i = m + j
      BY <2>2
    <3>2. u[i] = t[j] /\ u[i].line \in L
      BY <1>4, <1>6, <3>1
    <3>3. ASSUME j > 1 PROVE u[i - 1] = t[j - 1] /\ i > 1
      <4>1. j - 1 \in 1..n /\ m + (j - 1) = i - 1 /\ i > 1
        BY <1>1, <3>1, <3>3
      <4>2. u[m + (j - 1)] = t[j - 1]
        BY <1>6, <4>1
      <4> QED BY <4>1, <4>2
    <3>4. ASSUME ~(j > 1), i > 1
          PROVE  u[i - 1].line < u[i].line /\ u[i - 1].line # u[i].line
      <4>1. i - 1 \in 1..m
        BY <1>1, <3>1, <3>4
      <4>2. u[i - 1].line \in K
        BY <1>3, <1>5, <4>1
      <4>3. u[i - 1].line \in Nat /\ u[i].line \in Nat /\ u[i - 1].line < u[i].line
        BY <3>2, <4>2
      <4> QED BY <4>3
    <3>5. i > 1 => u[i - 1].line <= u[i].line
      <4>1. CASE j > 1
        BY <1>4, <3>2, <3>3, <4>1
      <4>2. CASE ~(j > 1)
        <5> SUFFICES ASSUME i > 1 PROVE u[i - 1].line <= u[i].line
          OBVIOUS
        <5>1. i - 1 \in 1..m
          BY <1>1, <3>1, <4>2
        <5>2. u[i - 1].line \in K
          BY <1>3, <1>5, <5>1
        <5>3. u[i - 1].line \in Nat /\ u[i].line \in Nat /\ u[i - 1].line < u[i].line
          BY <3>2, <5>2
        <5> QED BY <5>3
      <4> QED BY <4>1, <4>2
    <3>6. u[i].from = IF i > 1 /\ u[i - 1].line = u[i].line THEN u[i - 1].to ELSE 0
      <4>1. CASE j > 1
        BY <1>4, <3>2, <3>3, <4>1
      <4>2. CASE ~(j > 1)
        BY <1>4, <3>2, <3>4, <4>2
      <4> QED BY <4>1, <4>2
    <3>7. ASSUME ~(i < m + n /\ u[i + 1].line = u[i].line)
          PROVE  ~(j < n /\ t[j + 1].line = t[j].line)
      <4> SUFFICES ASSUME j < n, t[j + 1].line = t[j].line PROVE FALSE
        OBVIOUS
      <4>1. j + 1 \in 1..n /\ m + (j + 1) = i + 1 /\ i < m + n
        BY <1>1, <3>1
      <4>2. u[m + (j + 1)] = t[j + 1]
        BY <1>6, <4>1
      <4> QED BY <3>2, <3>7, <4>1, <4>2
    <3> QED BY <1>4, <3>2, <3>5, <3>6, <3>7
  <2> QED BY <1>7, <2>1, <2>2
<1> QED BY <1>2, <1>8, <1>9 DEF Tells, u

LEMMA NothingTold ==
    ASSUME NEW lines
    PROVE  Tells(<<>>, lines, {})
<1>1. Len(<<>>) = 0 /\ 1..0 = {}
  OBVIOUS
<1> QED BY <1>1 DEF Tells

Fulls(lines, a, b) == {m \in a..b : lines[m].size > 0}

(* Lines, one after the other.                                             *)
LEMMA SpanTells ==
    ASSUME NEW lines, IsBody(lines), NEW k \in 1..Len(lines), NEW j \in k..Len(lines)
    PROVE  /\ Kept(Span(lines, k, j)) \in Seq(PieceSet)
           /\ Tells(Kept(Span(lines, k, j)), lines, Fulls(lines, k, j))
<1> DEFINE t == Span(lines, k, j)
           n == j - k + 1
           K == {i \in DOMAIN t : Size(t[i]) > 0}
           r == At(t, K)
<1>1. Len(lines) \in Nat /\ n \in Nat /\ DOMAIN lines = 1..Len(lines)
  BY ListFacts DEF IsBody
<1>2. /\ t \in Seq(WholeSet) /\ Len(t) = n
      /\ \A i \in 1..n : t[i] = Piece(lines, k + i - 1)
  BY SpanFacts
<1>3. t \in Seq(PieceSet) /\ DOMAIN t = 1..n
  BY <1>2, WholeFacts, LenProperties
<1> HIDE DEF t, n
<1>4. ASSUME NEW i \in 1..n
      PROVE  /\ t[i].line = k + i - 1 /\ t[i].from = 0 /\ t[i].to = lines[k + i - 1].size
             /\ k + i - 1 \in k..j
             /\ Size(t[i]) = lines[k + i - 1].size
  <2>1. k + i - 1 \in 1..Len(lines) /\ k + i - 1 \in k..j
    BY <1>1 DEF n
  <2>2. lines[k + i - 1].size \in Nat
    BY <1>1, <2>1 DEF IsBody, IsLine
  <2>3. t[i] = [line |-> k + i - 1, from |-> 0, to |-> lines[k + i - 1].size]
    BY <1>2 DEF Piece
  <2>4. t[i].line = k + i - 1 /\ t[i].from = 0 /\ t[i].to = lines[k + i - 1].size
    BY <2>3
  <2> QED BY <2>1, <2>2, <2>4 DEF Size
<1>5. \A i \in 1..n : i \in K <=> lines[k + i - 1].size > 0
  BY <1>3, <1>4
<1> HIDE DEF K
<1>6. r \in Seq(PieceSet) /\ \E g : Enumerates(g, r, t, K, Len(t))
  BY <1>3, AtEnumeration
<1>7. PICK g : Enumerates(g, r, t, K, n)
  BY <1>2, <1>6
<1>8. Len(r) \in Nat
  BY <1>6, LenProperties
<1> HIDE DEF r
<1>9. ASSUME NEW i \in 1..Len(r)
      PROVE  /\ g[i] \in K /\ g[i] \in 1..n /\ r[i] = t[g[i]]
             /\ r[i].line = k + g[i] - 1 /\ r[i].from = 0
             /\ r[i].to = lines[r[i].line].size
             /\ r[i].line \in Fulls(lines, k, j)
  <2>1. g \in [1..Len(r) -> K \cap 1..n] /\ r[i] = t[g[i]]
    BY <1>7 DEF Enumerates
  <2>2. g[i] \in K /\ g[i] \in 1..n
    BY <2>1
  <2>3. /\ r[i].line = k + g[i] - 1 /\ r[i].from = 0
        /\ r[i].to = lines[k + g[i] - 1].size /\ k + g[i] - 1 \in k..j
    BY <1>4, <2>1, <2>2
  <2>4. lines[k + g[i] - 1].size > 0
    BY <1>5, <2>2
  <2> QED BY <2>1, <2>2, <2>3, <2>4 DEF Fulls
<1>10. \A i, l \in 1..Len(r) : i < l => g[i] < g[l]
  BY <1>7 DEF Enumerates
<1>11. \A i, l \in 1..Len(r) : i < l => r[i].line < r[l].line
  <2> SUFFICES ASSUME NEW i \in 1..Len(r), NEW l \in 1..Len(r), i < l
               PROVE  r[i].line < r[l].line
    OBVIOUS
  <2>1. g[i] < g[l]
    BY <1>10
  <2> QED BY <1>1, <1>9, <2>1
<1>12. \A i \in 1..Len(r) : r[i].line \in Nat
  BY <1>1, <1>9
<1>13. ASSUME NEW m \in Fulls(lines, k, j) PROVE \E i \in 1..Len(r) : r[i].line = m
  <2>1. m \in k..j /\ lines[m].size > 0
    BY DEF Fulls
  <2>2. m - k + 1 \in 1..n /\ k + (m - k + 1) - 1 = m
    BY <1>1, <2>1 DEF n
  <2>3. m - k + 1 \in K
    BY <1>5, <2>1, <2>2
  <2>4. PICK i \in 1..Len(r) : g[i] = m - k + 1
    BY <1>7, <2>2, <2>3 DEF Enumerates
  <2>5. r[i].line = k + g[i] - 1
    BY <1>9
  <2> QED BY <2>2, <2>4, <2>5
<1>14. ASSUME NEW i \in 1..Len(r), i > 1 PROVE r[i - 1].line < r[i].line
  <2>1. i - 1 \in 1..Len(r) /\ i - 1 < i
    BY <1>8, <1>14
  <2> QED BY <1>11, <2>1
<1>15. ASSUME NEW i \in 1..Len(r), i > 1
       PROVE  r[i - 1].line <= r[i].line /\ r[i - 1].line # r[i].line
  <2>1. i - 1 \in 1..Len(r)
    BY <1>8, <1>15
  <2>2. r[i - 1].line \in Nat /\ r[i].line \in Nat
    BY <1>12, <2>1
  <2> QED BY <1>14, <1>15, <2>2
<1>16. Tells(r, lines, Fulls(lines, k, j))
  BY <1>9, <1>13, <1>15 DEF Tells
<1>17. Kept(t) = r
  BY DEF Kept, r, K
<1> QED BY <1>6, <1>16, <1>17 DEF t

(* A line that is cut.                                                     *)
LEMMA LongTells ==
    ASSUME NEW lines, NEW x \in WholeSet, Size(x) > 0, x.to = lines[x.line].size
    PROVE  /\ SplitLongLine(x) \in Seq(Seq(PieceSet))
           /\ Tells(Words(SplitLongLine(x)), lines, {x.line})
<1> DEFINE ps == SplitLongLine(x)
           n == Len(ps)
           t == [i \in 1..n |-> ps[i][1]]
<1>1. /\ ps \in Seq(FitSet) /\ n \in Nat \ {0}
      /\ \A i \in 1..n :
            \E from, to \in Nat :
               /\ ps[i] = <<[line |-> x.line, from |-> from, to |-> to]>>
               /\ from = (i - 1) * HardChars /\ from < to
               /\ to = IF i = n THEN x.to ELSE i * HardChars
  BY LongLine
<1>2. ps \in Seq(Seq(PieceSet))
  BY <1>1, FitFacts
<1>3. x.line \in Nat
  BY DEF WholeSet
<1> HIDE DEF ps, n
<1>4. ASSUME NEW i \in 1..n
      PROVE  /\ ps[i][1] \in PieceSet /\ ps[i] = <<ps[i][1]>>
             /\ ps[i][1].line = x.line /\ Size(ps[i][1]) > 0
             /\ ps[i][1].from = (i - 1) * HardChars
             /\ ps[i][1].to = IF i = n THEN x.to ELSE i * HardChars
  <2>1. PICK from \in Nat, to \in Nat :
            /\ ps[i] = <<[line |-> x.line, from |-> from, to |-> to]>>
            /\ from = (i - 1) * HardChars /\ from < to
            /\ to = IF i = n THEN x.to ELSE i * HardChars
    BY <1>1
  <2>2. ps[i][1] = [line |-> x.line, from |-> from, to |-> to]
    BY <2>1
  <2> QED BY <1>3, <2>1, <2>2 DEF PieceSet, Size
<1>5. FlattenSeq(ps) = t
  <2>1. \A i \in 1..Len(ps) : \E y \in PieceSet : ps[i] = <<y>>
    BY <1>4 DEF n
  <2> QED BY <1>2, <2>1, FlattenSingles DEF n
<1>6. t \in Seq(PieceSet) /\ Len(t) = n
  <2>1. t \in [1..n -> PieceSet]
    BY <1>4
  <2> HIDE DEF t
  <2> QED BY <1>1, <2>1, FunctionIsSeq
<1>7. ASSUME NEW i \in 1..n
      PROVE  /\ t[i].line = x.line /\ Size(t[i]) > 0 /\ t[i].from = (i - 1) * HardChars
             /\ t[i].to = IF i = n THEN x.to ELSE i * HardChars
  <2>1. t[i] = ps[i][1]
    OBVIOUS
  <2> HIDE DEF t
  <2> QED BY <1>4, <2>1
<1> HIDE DEF t
<1>8. Kept(t) = t
  BY <1>6, <1>7, KeptFacts
<1>9. HardChars \in Nat
  BY MarkdownAssumption DEF HardChars
<1>10. ASSUME NEW i \in 1..n
       PROVE  t[i].from = IF i > 1 /\ t[i - 1].line = t[i].line THEN t[i - 1].to ELSE 0
  <2>1. CASE i > 1
    <3>1. i - 1 \in 1..n /\ i - 1 # n
      BY <1>1, <2>1
    <3>2. t[i - 1].line = x.line /\ t[i - 1].to = (i - 1) * HardChars
      BY <1>7, <3>1
    <3> QED BY <1>7, <2>1, <3>2
  <2>2. CASE ~(i > 1)
    <3>1. i = 1 /\ 0 * HardChars = 0 /\ i - 1 = 0
      BY <1>9, <2>2
    <3> QED BY <1>7, <2>2, <3>1
  <2> QED BY <2>1, <2>2
<1>11. ASSUME NEW i \in 1..n, ~(i < n /\ t[i + 1].line = t[i].line)
       PROVE  t[i].to = lines[t[i].line].size
  <2>1. CASE i = n
    BY <1>7, <2>1
  <2>2. CASE i # n
    <3>1. i + 1 \in 1..n /\ i < n
      BY <1>1, <2>2
    <3> QED BY <1>7, <1>11, <3>1
  <2> QED BY <2>1, <2>2
<1>12. \A i \in 1..n : i > 1 => t[i - 1].line <= t[i].line
  <2> SUFFICES ASSUME NEW i \in 1..n, i > 1 PROVE t[i - 1].line <= t[i].line
    OBVIOUS
  <2>1. i - 1 \in 1..n
    BY <1>1
  <2> QED BY <1>3, <1>7, <2>1
<1>13. \A k \in {x.line} : \E i \in 1..n : t[i].line = k
  <2>1. 1 \in 1..n
    BY <1>1
  <2> QED BY <1>7, <2>1
<1>14. Tells(t, lines, {x.line})
  BY <1>6, <1>7, <1>10, <1>11, <1>12, <1>13 DEF Tells
<1>15. Words(ps) = t
  BY <1>5, <1>8 DEF Words
<1> QED BY <1>2, <1>14, <1>15 DEF ps

(* Parts with nothing but empty lines do not matter.                       *)
LEMMA DroppedParts ==
    ASSUME NEW us \in Seq(Seq(PieceSet))
    PROVE  LET K == {i \in DOMAIN us : Strip(us[i]) # <<>>} IN
           At(us, K) \in Seq(Seq(PieceSet)) /\ Words(At(us, K)) = Words(us)
<1> DEFINE K == {i \in DOMAIN us : Strip(us[i]) # <<>>}
           n == Len(us)
<1>1. n \in Nat /\ DOMAIN us = 1..n /\ \A i \in 1..n : us[i] \in Seq(PieceSet)
  BY LenProperties, ElementOfSeq
<1>2. ASSUME NEW i \in 1..n, i \notin K PROVE Kept(us[i]) = <<>>
  <2>1. Strip(us[i]) = <<>> /\ us[i] \in Seq(PieceSet)
    BY <1>1, <1>2
  <2>2. DOMAIN us[i] = 1..Len(us[i])
    BY <2>1, LenProperties
  <2>3. \A j \in 1..Len(us[i]) : ~(Size(us[i][j]) > 0)
    BY <2>1, <2>2, StripFacts
  <2> QED BY <2>1, <2>3, KeptFacts
<1> HIDE DEF K
<1>3. PICK f \in [0..Len(us) -> Seq(Seq(PieceSet))] :
          Selects(f, us, K) /\ At(us, K) = f[Len(us)]
  BY AtRun
<1>4. PICK g \in [0..Len(us) -> Seq(PieceSet)] :
          Accumulates(g, us) /\ FlattenSeq(us) = g[Len(us)]
  BY FlattenRun
<1> HIDE DEF n
<1> DEFINE T == {i \in 0..n : Words(f[i]) = Kept(g[i])}
<1>5. f[0] = <<>> /\ \A i \in 1..n :
          f[i] = IF i \in K THEN Append(f[i - 1], us[i]) ELSE f[i - 1]
  BY <1>3 DEF Selects, n
<1>6. g[0] = <<>> /\ \A i \in 1..n : g[i] = g[i - 1] \o us[i]
  BY <1>4 DEF Accumulates, n
<1>7. 0 \in T
  BY <1>1, <1>5, <1>6, FewWords
<1>8. ASSUME NEW i \in 1..n, i - 1 \in T PROVE i \in T
  <2>1. i \in 0..n /\ i - 1 \in 0..n
    BY <1>1
  <2>2. /\ f[i - 1] \in Seq(Seq(PieceSet)) /\ g[i - 1] \in Seq(PieceSet)
        /\ us[i] \in Seq(PieceSet)
    BY <1>1, <1>3, <1>4, <2>1 DEF n
  <2>3. Kept(g[i]) = Kept(g[i - 1]) \o Kept(us[i])
    BY <1>6, <2>2, KeptConcat
  <2>4. Words(f[i - 1]) = Kept(g[i - 1])
    BY <1>8
  <2>5. CASE i \in K
    <3>1. f[i] = Append(f[i - 1], us[i])
      BY <1>5, <2>5
    <3>2. Words(f[i]) = Words(f[i - 1]) \o Kept(us[i])
      BY <2>2, <3>1, WordsFacts
    <3> QED BY <2>1, <2>3, <2>4, <3>2
  <2>6. CASE i \notin K
    <3>1. f[i] = f[i - 1] /\ Kept(us[i]) = <<>>
      BY <1>2, <1>5, <2>6
    <3>2. Kept(g[i - 1]) \in Seq(PieceSet)
      BY <2>2, KeptFacts
    <3>3. Kept(g[i - 1]) \o <<>> = Kept(g[i - 1])
      BY <3>2, ConcatEmptySeq
    <3> QED BY <2>1, <2>3, <2>4, <3>1, <3>3
  <2> QED BY <2>5, <2>6
<1>9. n \in T
  <2>1. \A i \in 0..n : i \in T
    <3> HIDE DEF T
    <3> QED BY <1>1, <1>7, <1>8, InductionUpTo
  <2>2. n \in 0..n
    BY <1>1
  <2> QED BY <2>1, <2>2
<1>10. At(us, K) \in Seq(Seq(PieceSet)) /\ Words(At(us, K)) = Words(us)
  <2>1. n \in 0..n
    BY <1>1
  <2>2. f[n] \in Seq(Seq(PieceSet)) /\ At(us, K) = f[n] /\ FlattenSeq(us) = g[n]
    BY <1>3, <1>4, <2>1 DEF n
  <2>3. Words(f[n]) = Kept(g[n])
    BY <1>9
  <2> QED BY <2>2, <2>3 DEF Words
<1> QED BY <1>10 DEF K

(* The text in the parts and the buffer, when a unit is being cut.         *)
CutText(s) == Words(s.parts) \o Kept(s.buffer)

LEMMA FlushWords ==
    ASSUME NEW parts \in Seq(Seq(PieceSet)), NEW buffer \in Seq(PieceSet)
    PROVE  /\ Flush(parts, buffer) \in Seq(Seq(PieceSet))
           /\ Words(Flush(parts, buffer)) = Words(parts) \o Kept(buffer)
<1>1. CASE buffer = <<>>
  <2>1. Words(parts) \in Seq(PieceSet)
    BY WordsFacts
  <2>2. Words(parts) \o <<>> = Words(parts)
    BY <2>1, ConcatEmptySeq
  <2> QED BY <1>1, <2>2, FewWords DEF Flush
<1>2. CASE buffer # <<>>
  BY <1>2, WordsFacts, AppendProperties DEF Flush
<1> QED BY <1>1, <1>2

(* One more line of a unit adds that line to it.                           *)
LEMMA CutOneMore ==
    ASSUME NEW lines, NEW s \in SplitState, NEW x \in WholeSet,
           x.to = lines[x.line].size
    PROVE  \E v \in Seq(PieceSet) :
              /\ CutText(SplitStep(s, x)) = CutText(s) \o v
              /\ Tells(v, lines, IF Size(x) > 0 THEN {x.line} ELSE {})
<1> DEFINE S == Seq(PieceSet)
           K == IF Size(x) > 0 THEN {x.line} ELSE {}
           flushed == Flush(s.parts, s.buffer)
<1>1. s.parts \in Seq(S) /\ s.buffer \in S /\ x \in PieceSet /\ <<x>> \in S
  <2>1. s.parts \in Seq(FitSet) /\ s.buffer \in FitSet
    BY DEF SplitState
  <2>2. x \in PieceSet
    BY WholeFacts
  <2> QED BY <2>1, <2>2, FitFacts
<1>2. flushed \in Seq(S) /\ Words(flushed) = CutText(s)
  BY <1>1, FlushWords DEF CutText
<1>3. CutText(s) \in S
  BY <1>2, WordsFacts
<1>4. Kept(<<x>>) \in S /\ Tells(Kept(<<x>>), lines, K)
  <2> DEFINE t == <<x>>
  <2>1. t \in S /\ Len(t) = 1 /\ t[1] = x
    BY <1>1
  <2>2. Kept(t) \in S
    BY <2>1, KeptFacts
  <2>3. CASE Size(x) > 0
    <3> HIDE DEF t
    <3>1. Kept(t) = t
      BY <2>1, <2>3, KeptFacts
    <3>2. x.from = 0 /\ x.line \in Nat
      BY DEF WholeSet
    <3>3. Tells(t, lines, {x.line})
      BY <2>1, <3>2 DEF Tells
    <3> QED BY <2>2, <2>3, <3>1, <3>3 DEF t
  <2>4. CASE ~(Size(x) > 0)
    <3> HIDE DEF t
    <3>1. Kept(t) = <<>>
      BY <2>1, <2>4, KeptFacts
    <3> QED BY <2>2, <2>4, <3>1, NothingTold DEF t
  <2> QED BY <2>3, <2>4
<1> HIDE DEF S, K, flushed
<1>5. CASE LineTokens(<<x>>) > HardTokens
  <2>1. Size(x) > 0
    <3> SUFFICES ASSUME ~(Size(x) > 0) PROVE FALSE
      OBVIOUS
    <3>1. HardChars \in Nat /\ HardTokens \in Nat
      BY MarkdownAssumption DEF HardChars
    <3>2. Size(x) <= HardChars
      BY <1>1, <3>1, SizeFacts
    <3>3. LineTokens(<<x>>) <= HardTokens /\ LineTokens(<<x>>) \in Int
      BY <1>1, <3>2, TokenFacts DEF S
    <3> QED BY <1>5, <3>1, <3>3
  <2> DEFINE v == Words(SplitLongLine(x))
  <2>2. SplitLongLine(x) \in Seq(S) /\ Tells(v, lines, {x.line})
    BY <2>1, LongTells DEF S
  <2>3. v \in S
    BY <2>2, WordsFacts DEF S
  <2>4. Words(flushed \o SplitLongLine(x)) = CutText(s) \o v
    BY <1>2, <2>2, WordsFacts DEF S
  <2>5. SplitStep(s, x) = [parts |-> flushed \o SplitLongLine(x), buffer |-> <<>>]
    BY <1>5 DEF SplitStep, flushed
  <2> HIDE DEF v
  <2>6. CutText(s) \o v \in S
    BY <1>3, <2>3, ConcatProperties DEF S
  <2>7. (CutText(s) \o v) \o <<>> = CutText(s) \o v
    BY <2>6, ConcatEmptySeq DEF S
  <2>8. SplitStep(s, x).parts = flushed \o SplitLongLine(x) /\ SplitStep(s, x).buffer = <<>>
    BY <2>5
  <2>9. CutText(SplitStep(s, x)) = (CutText(s) \o v) \o <<>>
    <3>1. CutText(SplitStep(s, x)) = Words(SplitStep(s, x).parts) \o Kept(SplitStep(s, x).buffer)
      BY DEF CutText
    <3> QED BY <2>4, <2>8, <3>1, FewWords
  <2> QED BY <2>1, <2>2, <2>3, <2>7, <2>9 DEF S, K, v
<1>6. CASE /\ ~(LineTokens(<<x>>) > HardTokens)
           /\ s.buffer # <<>> /\ LineTokens(Append(s.buffer, x)) > HardTokens
  <2>1. SplitStep(s, x) = [parts |-> flushed, buffer |-> <<x>>]
    BY <1>6 DEF SplitStep, flushed
  <2>2. CutText(SplitStep(s, x)) = CutText(s) \o Kept(<<x>>)
    <3>1. SplitStep(s, x).parts = flushed /\ SplitStep(s, x).buffer = <<x>>
      BY <2>1
    <3>2. CutText(SplitStep(s, x)) = Words(SplitStep(s, x).parts) \o Kept(SplitStep(s, x).buffer)
      BY DEF CutText
    <3> QED BY <1>2, <3>1, <3>2
  <2> QED BY <1>4, <2>2 DEF S, K
<1>7. CASE /\ ~(LineTokens(<<x>>) > HardTokens)
           /\ ~(s.buffer # <<>> /\ LineTokens(Append(s.buffer, x)) > HardTokens)
  <2>1. SplitStep(s, x) = [parts |-> s.parts, buffer |-> Append(s.buffer, x)]
    BY <1>7 DEF SplitStep
  <2>2. Append(s.buffer, x) = s.buffer \o <<x>>
    BY <1>1, AppendIsConcat DEF S
  <2>3. Kept(s.buffer \o <<x>>) = Kept(s.buffer) \o Kept(<<x>>)
    BY <1>1, KeptConcat DEF S
  <2>a. PICK a : a = Words(s.parts)
    OBVIOUS
  <2>b. PICK b : b = Kept(s.buffer)
    OBVIOUS
  <2>c. PICK c : c = Kept(<<x>>)
    OBVIOUS
  <2>4. a \in S /\ b \in S /\ c \in S
    BY <1>1, <1>4, <2>a, <2>b, <2>c, WordsFacts, KeptFacts DEF S
  <2>5. Joined(Joined(a, b), c) = Joined(a, Joined(b, c))
    BY <2>4, JoinedAssociative DEF S
  <2>6. CutText(SplitStep(s, x)) = a \o (b \o c)
    <3>1. SplitStep(s, x).parts = s.parts /\ SplitStep(s, x).buffer = s.buffer \o <<x>>
      BY <2>1, <2>2
    <3>2. CutText(SplitStep(s, x)) = Words(SplitStep(s, x).parts) \o Kept(SplitStep(s, x).buffer)
      BY DEF CutText
    <3> QED BY <2>3, <2>a, <2>b, <2>c, <3>1, <3>2
  <2>7. CutText(SplitStep(s, x)) = CutText(s) \o Kept(<<x>>)
    BY <2>5, <2>6, <2>a, <2>b, <2>c DEF Joined, CutText
  <2> QED BY <1>4, <2>7 DEF S, K
<1> QED BY <1>5, <1>6, <1>7

(* Cutting a unit loses nothing of it.                                     *)
LEMMA SplitTells ==
    ASSUME NEW lines, IsBody(lines), NEW a \in 1..Len(lines), NEW b \in a..Len(lines)
    PROVE  /\ SplitOversized(Span(lines, a, b)) \in Seq(Seq(PieceSet))
           /\ Tells(Words(SplitOversized(Span(lines, a, b))), lines, Fulls(lines, a, b))
<1> DEFINE unit == Span(lines, a, b)
           n == b - a + 1
           W(k) == Fulls(lines, a, a + k - 1)
<1>1. Len(lines) \in Nat /\ n \in Nat /\ DOMAIN lines = 1..Len(lines)
  BY ListFacts DEF IsBody
<1>2. /\ unit \in Seq(WholeSet) /\ Len(unit) = n
      /\ \A i \in 1..n : unit[i] = Piece(lines, a + i - 1)
  BY SpanFacts
<1>3. unit \in Seq(PieceSet)
  BY <1>2, WholeFacts
<1>4. SplitOversized(unit) \in Seq(Seq(PieceSet))
  <2>1. SplitOversized(unit) \in Seq(FitSet)
    BY <1>2, SplitFits
  <2> QED BY <2>1, FitFacts
<1>5. Tells(Kept(unit), lines, Fulls(lines, a, b))
  BY SpanTells
<1> HIDE DEF unit, n
<1>6. PICK f : /\ f \in [0..n -> SplitState]
               /\ f[0] = [parts |-> <<>>, buffer |-> <<>>]
               /\ \A k \in 1..n : f[k] = SplitStep(f[k - 1], unit[k])
               /\ SplitOversized(unit) =
                     IF LineTokens(unit) <= HardTokens THEN <<unit>>
                     ELSE LET all == Flush(f[n].parts, f[n].buffer)
                          IN  At(all, {i \in DOMAIN all : Strip(all[i]) # <<>>})
  BY <1>2, SplitRun, ZenonT(40)
<1>7. CASE LineTokens(unit) <= HardTokens
  <2>1. SplitOversized(unit) = <<unit>>
    BY <1>6, <1>7
  <2>2. Words(<<unit>>) = Kept(unit)
    BY <1>3, FewWords
  <2> QED BY <1>4, <1>5, <2>1, <2>2 DEF unit
<1>8. CASE ~(LineTokens(unit) <= HardTokens)
  <2> DEFINE T == {k \in 0..n : /\ CutText(f[k]) \in Seq(PieceSet)
                                /\ Tells(CutText(f[k]), lines, W(k))}
  <2>1. 0 \in T
    <3>1. CutText(f[0]) = <<>>
      <4>1. f[0].parts = <<>> /\ f[0].buffer = <<>>
        BY <1>6
      <4>2. <<>> \in Seq(PieceSet)
        OBVIOUS
      <4>3. <<>> \o <<>> = <<>>
        BY <4>2, ConcatEmptySeq
      <4> QED BY <4>1, <4>3, FewWords DEF CutText
    <3>2. W(0) = {}
      BY DEF Fulls
    <3>3. <<>> \in Seq(PieceSet) /\ 0 \in 0..n
      BY <1>1
    <3> HIDE DEF W
    <3> QED BY <3>1, <3>2, <3>3, NothingTold
  <2>2. ASSUME NEW k \in 1..n, k - 1 \in T PROVE k \in T
    <3> DEFINE x == unit[k]
               m == a + k - 1
               V == IF Size(x) > 0 THEN {x.line} ELSE {}
    <3>1. k \in 0..n /\ k - 1 \in 0..n /\ m \in 1..Len(lines) /\ m \in Nat
      BY <1>1 DEF n
    <3>2. x = [line |-> m, from |-> 0, to |-> lines[m].size] /\ x \in WholeSet
      <4>1. x = Piece(lines, m)
        BY <1>2
      <4>2. lines[m].size \in Nat
        BY <1>1, <3>1 DEF IsBody, IsLine
      <4> QED BY <3>1, <4>1, <4>2 DEF Piece, WholeSet
    <3>3. /\ x.line = m /\ x.to = lines[x.line].size /\ Size(x) = lines[m].size
          /\ lines[m].size \in Nat
      BY <1>1, <3>1, <3>2 DEF Size, IsBody, IsLine
    <3>4. f[k - 1] \in SplitState
      BY <1>6, <3>1
    <3> HIDE DEF x, m
    <3>5. PICK v \in Seq(PieceSet) :
              /\ CutText(SplitStep(f[k - 1], x)) = CutText(f[k - 1]) \o v
              /\ Tells(v, lines, V)
      BY <3>2, <3>3, <3>4, CutOneMore
    <3>6. V = Fulls(lines, m, m)
      BY <3>1, <3>3 DEF Fulls
    <3>7. W(k) = W(k - 1) \cup V
      <4>1. \A l : l \in a .. a + k - 1 <=> l \in a .. a + (k - 1) - 1 \/ l = m
        BY <1>1, <3>1 DEF m
      <4>2. \A l : l \in m..m <=> l = m
        BY <3>1
      <4> QED BY <3>6, <4>1, <4>2 DEF Fulls
    <3>8. \A i \in W(k - 1) : \A j \in V : i < j
      <4>1. \A i \in W(k - 1) : i \in a .. a + (k - 1) - 1
        BY DEF Fulls
      <4>2. \A j \in V : j = m
        BY <3>1, <3>6 DEF Fulls
      <4>3. \A i \in a .. a + (k - 1) - 1 : i < m
        BY <1>1, <3>1 DEF m
      <4> QED BY <4>1, <4>2, <4>3
    <3>9. W(k - 1) \subseteq Nat /\ V \subseteq Nat
      BY <3>6 DEF Fulls, m
    <3>10. CutText(f[k - 1]) \in Seq(PieceSet) /\ Tells(CutText(f[k - 1]), lines, W(k - 1))
      BY <2>2
    <3> HIDE DEF V, W
    <3>11. Tells(CutText(f[k - 1]) \o v, lines, W(k - 1) \cup V)
      BY <3>5, <3>8, <3>9, <3>10, TellsJoin
    <3>12. CutText(f[k]) = CutText(f[k - 1]) \o v
      BY <1>6, <3>5 DEF x
    <3>13. CutText(f[k - 1]) \o v \in Seq(PieceSet)
      BY <3>10, ConcatProperties
    <3> QED BY <3>1, <3>7, <3>11, <3>12, <3>13
  <2>3. n \in T
    <3>1. \A k \in 0..n : k \in T
      <4> HIDE DEF T
      <4> QED BY <1>1, <2>1, <2>2, InductionUpTo
    <3>2. n \in 0..n
      BY <1>1
    <3> QED BY <3>1, <3>2
  <2>4. W(n) = Fulls(lines, a, b)
    <3>1. a + n - 1 = b
      BY DEF n
    <3> QED BY <3>1
  <2> DEFINE all == Flush(f[n].parts, f[n].buffer)
  <2>5. f[n].parts \in Seq(Seq(PieceSet)) /\ f[n].buffer \in Seq(PieceSet)
    <3>1. n \in 0..n
      BY <1>1
    <3>2. f[n] \in SplitState
      BY <1>6, <3>1
    <3>3. f[n].parts \in Seq(FitSet) /\ f[n].buffer \in FitSet
      BY <3>2 DEF SplitState
    <3> QED BY <3>3, FitFacts
  <2>6. all \in Seq(Seq(PieceSet)) /\ Words(all) = CutText(f[n])
    BY <2>5, FlushWords DEF CutText
  <2>7. SplitOversized(unit) = At(all, {i \in DOMAIN all : Strip(all[i]) # <<>>})
    BY <1>6, <1>8
  <2> HIDE DEF all
  <2>8. Words(SplitOversized(unit)) = Words(all)
    BY <2>6, <2>7, DroppedParts
  <2>9. Tells(CutText(f[n]), lines, W(n))
    BY <2>3
  <2> QED BY <1>4, <2>4, <2>6, <2>8, <2>9 DEF unit
<1> QED BY <1>7, <1>8

(* The lines of the first k units.                                         *)
UnitLines(lines, st, first, last, k) ==
    {m \in first..last : /\ lines[m].size > 0
                         /\ \E i \in 1..k : m \in st[i] .. UnitEnd(lines, st[i], last)}

LEMMA ExpandedTells ==
    ASSUME NEW lines, IsBody(lines), NEW first \in Nat \ {0},
           NEW last \in 0..Len(lines),
           NEW us \in Seq(Seq(WholeSet)), NEW st, AreUnits(us, st, lines, first, last)
    PROVE  /\ ExpandedUnits(us) \in Seq(Seq(PieceSet))
           /\ Tells(Words(ExpandedUnits(us)), lines, Fulls(lines, first, last))
<1> DEFINE n == Len(us)
           end(i) == UnitEnd(lines, st[i], last)
           W(k) == UnitLines(lines, st, first, last, k)
<1>1. Len(lines) \in Nat /\ n \in Nat /\ DOMAIN lines = 1..Len(lines) /\ last \in Nat
  <2>1. Len(lines) \in Nat /\ n \in Nat /\ DOMAIN lines = 1..Len(lines)
    BY ListFacts, LenProperties DEF IsBody
  <2> QED BY <2>1
<1>2. ExpandedUnits(us) \in Seq(Seq(PieceSet))
  BY ExpandedFits, FitFacts
<1>3. PICK f : /\ f \in [0..n -> Seq(FitSet)] /\ f[0] = <<>>
               /\ \A k \in 1..n : f[k] = f[k - 1] \o SplitOversized(us[k])
               /\ ExpandedUnits(us) = f[n]
  BY ExpandedRun
<1>4. /\ \A i \in 1..n : st[i] \in first..last
      /\ \A i \in 1..n : us[i] = Span(lines, st[i], end(i))
      /\ \A i, j \in 1..n : i < j => end(i) < st[j]
      /\ \A m \in first..last : ~IsBlank(lines[m]) => \E i \in 1..n : m \in st[i] .. end(i)
  BY DEF AreUnits
<1>5. ASSUME NEW i \in 1..n
      PROVE  st[i] \in 1..Len(lines) /\ end(i) \in st[i]..last /\ end(i) \in st[i]..Len(lines)
  <2>1. st[i] \in 1..last
    BY <1>1, <1>4
  <2>2. end(i) \in st[i]..last
    BY <1>1, <2>1, UnitEndFacts
  <2> QED BY <1>1, <2>1, <2>2
<1> HIDE DEF n
<1> DEFINE T == {k \in 0..n : Tells(Words(f[k]), lines, W(k))}
<1>6. 0 \in T
  <2>1. W(0) = {}
    BY DEF UnitLines
  <2>2. Words(f[0]) = <<>> /\ 0 \in 0..n
    BY <1>1, <1>3, FewWords
  <2> HIDE DEF W
  <2> QED BY <2>1, <2>2, NothingTold
<1>7. ASSUME NEW k \in 1..n, k - 1 \in T PROVE k \in T
  <2> DEFINE V == Fulls(lines, st[k], end(k))
             more == SplitOversized(us[k])
  <2>1. k \in 0..n /\ k - 1 \in 0..n
    BY <1>1
  <2>2. f[k - 1] \in Seq(Seq(PieceSet))
    BY <1>3, <2>1, FitFacts
  <2>3. more \in Seq(Seq(PieceSet)) /\ Tells(Words(more), lines, V)
    BY <1>4, <1>5, SplitTells
  <2>4. W(k) = W(k - 1) \cup V
    <3>1. \A i : i \in 1..k <=> i \in 1 .. k - 1 \/ i = k
      BY <1>1
    <3>2. \A m : m \in st[k] .. end(k) => m \in first..last
      BY <1>1, <1>4, <1>5
    <3> QED BY <3>1, <3>2 DEF UnitLines, Fulls
  <2>5. ASSUME NEW p \in W(k - 1), NEW q \in V PROVE p < q
    <3>1. PICK i \in 1 .. k - 1 : p \in st[i] .. end(i)
      BY DEF UnitLines
    <3>2. q \in st[k] .. end(k)
      BY DEF Fulls
    <3>3. i \in 1..n /\ i < k
      BY <1>1
    <3>4. end(i) < st[k] /\ st[i] \in Nat /\ st[k] \in Nat /\ end(i) \in Nat /\ end(k) \in Nat
      <4>1. end(i) < st[k]
        BY <1>4, <3>3
      <4> HIDE DEF end
      <4>2. /\ st[i] \in 1..Len(lines) /\ st[k] \in 1..Len(lines)
            /\ end(i) \in st[i]..last /\ end(k) \in st[k]..last
        BY <1>5, <3>3
      <4> QED BY <1>1, <4>1, <4>2
    <3> HIDE DEF end
    <3> QED BY <3>1, <3>2, <3>4
  <2>6. W(k - 1) \subseteq Nat /\ V \subseteq Nat
    <3>1. \A m : m \in st[k] .. end(k) => m \in first..last
      BY <1>1, <1>4, <1>5
    <3> QED BY <3>1 DEF UnitLines, Fulls
  <2>7. Words(f[k - 1]) \in Seq(PieceSet) /\ Words(more) \in Seq(PieceSet)
    BY <2>2, <2>3, WordsFacts
  <2>8. Tells(Words(f[k - 1]), lines, W(k - 1))
    BY <1>7
  <2>9. Words(f[k]) = Words(f[k - 1]) \o Words(more)
    BY <1>3, <2>2, <2>3, WordsFacts
  <2> HIDE DEF W, V, more
  <2>10. Tells(Words(f[k - 1]) \o Words(more), lines, W(k - 1) \cup V)
    BY <2>3, <2>5, <2>6, <2>7, <2>8, TellsJoin
  <2> QED BY <2>1, <2>4, <2>9, <2>10
<1>8. n \in T
  <2>1. \A k \in 0..n : k \in T
    <3> HIDE DEF T
    <3> QED BY <1>1, <1>6, <1>7, InductionUpTo
  <2>2. n \in 0..n
    BY <1>1
  <2> QED BY <2>1, <2>2
<1>9. W(n) = Fulls(lines, first, last)
  <2>1. ASSUME NEW m \in first..last, lines[m].size > 0
        PROVE  \E i \in 1..n : m \in st[i] .. end(i)
    <3>1. m \in 1..Len(lines)
      BY <1>1
    <3>2. ~IsBlank(lines[m])
      BY <1>1, <2>1, <3>1 DEF IsBody, IsLine
    <3> QED BY <1>4, <3>2
  <2> QED BY <2>1 DEF UnitLines, Fulls
<1>10. Tells(Words(f[n]), lines, W(n))
  BY <1>8
<1> QED BY <1>2, <1>3, <1>9, <1>10

-----------------------------------------------------------------------------
(* The units of blocks are the units that they were built from.            *)

UnitTexts(bs) == [i \in DOMAIN bs |-> FlattenSeq(bs[i])]

LEMMA UnitTextsFacts ==
    ASSUME NEW S, NEW bs \in Seq(Seq(Seq(S)))
    PROVE  /\ UnitTexts(bs) \in Seq(Seq(S)) /\ FlattenSeq(UnitTexts(bs)) \in Seq(S)
           /\ \A b \in Seq(Seq(S)) :
                 FlattenSeq(UnitTexts(Append(bs, b)))
                 = FlattenSeq(UnitTexts(bs)) \o FlattenSeq(b)
<1> DEFINE n == Len(bs)
           ts == UnitTexts(bs)
<1>1. n \in Nat /\ DOMAIN bs = 1..n /\ \A i \in 1..n : bs[i] \in Seq(Seq(S))
  BY LenProperties, ElementOfSeq
<1>2. \A i \in 1..n : FlattenSeq(bs[i]) \in Seq(S)
  BY <1>1, FlattenJoins
<1>3. ts = [i \in 1..n |-> FlattenSeq(bs[i])]
  BY <1>1 DEF UnitTexts
<1>4. ts \in Seq(Seq(S)) /\ Len(ts) = n /\ \A i \in 1..n : ts[i] = FlattenSeq(bs[i])
  <2>1. ts \in [1..n -> Seq(S)]
    BY <1>2, <1>3
  <2>2. \A i \in 1..n : ts[i] = FlattenSeq(bs[i])
    BY <1>3
  <2> HIDE DEF ts, n
  <2> QED BY <1>1, <2>1, <2>2, FunctionIsSeq
<1>5. FlattenSeq(ts) \in Seq(S)
  BY <1>4, FlattenJoins
<1> HIDE DEF ts, n
<1>6. ASSUME NEW b \in Seq(Seq(S))
      PROVE  FlattenSeq(UnitTexts(Append(bs, b))) = FlattenSeq(ts) \o FlattenSeq(b)
  <2> DEFINE t == FlattenSeq(b)
             more == Append(bs, b)
             r == UnitTexts(more)
             q == Append(ts, t)
  <2>1. t \in Seq(S)
    BY FlattenJoins
  <2>2. /\ more \in Seq(Seq(Seq(S))) /\ Len(more) = n + 1
        /\ \A i \in 1..n : more[i] = bs[i]
        /\ more[n + 1] = b
    BY AppendProperties DEF n
  <2>3. DOMAIN more = 1 .. n + 1
    BY <2>2, LenProperties
  <2> HIDE DEF more
  <2>4. r = [i \in 1 .. n + 1 |-> FlattenSeq(more[i])]
    BY <2>3 DEF UnitTexts
  <2> HIDE DEF t
  <2>5. /\ q \in Seq(Seq(S)) /\ Len(q) = n + 1 /\ q[n + 1] = t
        /\ \A i \in 1..n : q[i] = ts[i]
    BY <1>4, <2>1, AppendProperties
  <2>6. \A i \in 1 .. n + 1 : r[i] = q[i]
    <3> SUFFICES ASSUME NEW i \in 1 .. n + 1 PROVE r[i] = q[i]
      OBVIOUS
    <3>1. r[i] = FlattenSeq(more[i])
      BY <2>4
    <3> HIDE DEF r, q
    <3>2. CASE i = n + 1
      BY <2>2, <2>5, <3>1, <3>2 DEF t
    <3>3. CASE i # n + 1
      <4>1. i \in 1..n
        BY <1>1, <3>3
      <4> QED BY <1>4, <2>2, <2>5, <3>1, <4>1
    <3> QED BY <3>2, <3>3
  <2>7. r \in Seq(Seq(S)) /\ Len(r) = n + 1
    <3>1. n + 1 \in Nat /\ \A i \in 1 .. n + 1 : q[i] \in Seq(S)
      BY <1>1, <2>5, ElementOfSeq
    <3>2. r \in [1 .. n + 1 -> Seq(S)]
      BY <2>4, <2>6, <3>1
    <3> HIDE DEF r, q
    <3> QED BY <3>1, <3>2, FunctionIsSeq
  <2> HIDE DEF r, q
  <2>8. r = q
    BY <2>5, <2>6, <2>7, SeqEqual
  <2>9. FlattenSeq(q) = FlattenSeq(ts) \o t
    BY <1>4, <2>1, FlattenAppend DEF q
  <2> QED BY <2>8, <2>9 DEF r, t, more
<1> QED BY <1>4, <1>5, <1>6 DEF ts

LEMMA BlocksTell ==
    ASSUME NEW lines, NEW section, NEW units \in Seq(FitSet),
           units = ExpandedUnits(SectionUnits(lines, section))
    PROVE  FlattenSeq(UnitTexts(BuildBlocks(lines, section))) = FlattenSeq(units)
<1> DEFINE n == Len(units)
           S == PieceSet
           text(s) == FlattenSeq(UnitTexts(s.blocks)) \o FlattenSeq(s.current)
<1>1. n \in Nat /\ \A k \in 1..n : units[k] \in FitSet
  BY LenProperties, ElementOfSeq
<1>2. PICK f : /\ f \in [0..n -> BlockState]
               /\ f[0] = [blocks |-> <<>>, current |-> <<>>]
               /\ \A k \in 1..n : f[k] = BlockStep(f[k - 1], units[k])
               /\ BuildBlocks(lines, section) = Flush(f[n].blocks, f[n].current)
  BY BlockRun
<1>3. units \in Seq(Seq(S))
  BY FitFacts
<1>4. PICK g \in [0..Len(units) -> Seq(S)] : Accumulates(g, units) /\ FlattenSeq(units) = g[n]
  BY <1>3, FlattenRun
<1>5. g[0] = <<>> /\ \A k \in 1..n : g[k] = g[k - 1] \o units[k]
  BY <1>4 DEF Accumulates
<1>6. ASSUME NEW s \in BlockState
      PROVE  /\ s.blocks \in Seq(Seq(Seq(S))) /\ s.current \in Seq(Seq(S))
  <2>1. s.blocks \in Seq(BlockSet) /\ s.current \in Seq(FitSet)
    BY DEF BlockState, BlockSet
  <2>2. BlockSet \subseteq Seq(Seq(S))
    BY FitFacts DEF BlockSet
  <2>3. s.blocks \in Seq(Seq(Seq(S)))
    <3>1. Len(s.blocks) \in Nat /\ s.blocks \in [1..Len(s.blocks) -> BlockSet]
      BY <2>1, LenProperties
    <3>2. s.blocks \in [1..Len(s.blocks) -> Seq(Seq(S))]
      BY <2>2, <3>1
    <3> HIDE DEF S
    <3> QED BY <3>1, <3>2, FunctionIsSeq
  <2> QED BY <2>1, <2>3, FitFacts
<1>7. FitSet \subseteq Seq(S)
  BY FitFacts
<1> HIDE DEF S, n
<1>8. ASSUME NEW s \in BlockState, NEW u \in FitSet
      PROVE  text(BlockStep(s, u)) = text(s) \o u
  <2> DEFINE a == FlattenSeq(UnitTexts(s.blocks))
             b == FlattenSeq(s.current)
  <2>1. a \in Seq(S) /\ b \in Seq(S) /\ u \in Seq(S)
    BY <1>6, <1>7, UnitTextsFacts, FlattenJoins
  <2>2. CASE s.current = <<>> \/ Joins(s.current, u)
    <3>1. BlockStep(s, u) = [blocks |-> s.blocks, current |-> Append(s.current, u)]
      BY <2>2, BlockStepFacts
    <3>2. BlockStep(s, u).blocks = s.blocks /\ BlockStep(s, u).current = Append(s.current, u)
      BY <3>1
    <3>3. FlattenSeq(Append(s.current, u)) = b \o u
      BY <1>6, <2>1, FlattenAppend
    <3>4. text(BlockStep(s, u)) = a \o (b \o u)
      BY <3>2, <3>3
    <3>a. PICK c : c = a
      OBVIOUS
    <3>b. PICK d : d = b
      OBVIOUS
    <3> HIDE DEF a, b
    <3>5. c \in Seq(S) /\ d \in Seq(S)
      BY <2>1, <3>a, <3>b
    <3>6. Joined(Joined(c, d), u) = Joined(c, Joined(d, u))
      BY <2>1, <3>5, JoinedAssociative
    <3> QED BY <3>4, <3>6, <3>a, <3>b DEF Joined, a, b
  <2>3. CASE ~(s.current = <<>> \/ Joins(s.current, u))
    <3>1. BlockStep(s, u) = [blocks |-> Append(s.blocks, s.current), current |-> <<u>>]
      BY <2>3, BlockStepFacts
    <3>2. /\ BlockStep(s, u).blocks = Append(s.blocks, s.current)
          /\ BlockStep(s, u).current = <<u>>
      BY <3>1
    <3>3. FlattenSeq(UnitTexts(Append(s.blocks, s.current))) = a \o b
      BY <1>6, UnitTextsFacts
    <3>4. FlattenSeq(<<u>>) = u
      BY <2>1, FlattenFew
    <3> QED BY <3>2, <3>3, <3>4
  <2> QED BY <2>2, <2>3
<1> DEFINE T == {k \in 0..n : text(f[k]) = g[k]}
<1>9. 0 \in T
  <2>1. f[0].blocks = <<>> /\ f[0].current = <<>>
    BY <1>2
  <2>2. UnitTexts(<<>>) = <<>>
    BY DEF UnitTexts
  <2>3. <<>> \in Seq(S)
    OBVIOUS
  <2>4. <<>> \o <<>> = <<>>
    BY <2>3, ConcatEmptySeq
  <2>5. text(f[0]) = <<>> /\ 0 \in 0..n
    BY <1>1, <2>1, <2>2, <2>4, FlattenFew
  <2> HIDE DEF text
  <2> QED BY <1>5, <2>5
<1> HIDE DEF text
<1>10. ASSUME NEW k \in 1..n, k - 1 \in T PROVE k \in T
  <2>1. k \in 0..n /\ k - 1 \in 0..n
    BY <1>1
  <2>2. f[k - 1] \in BlockState /\ units[k] \in FitSet /\ f[k] = BlockStep(f[k - 1], units[k])
    BY <1>1, <1>2, <2>1
  <2>3. text(f[k]) = text(f[k - 1]) \o units[k]
    BY <1>8, <2>2
  <2> QED BY <1>5, <1>10, <2>1, <2>3
<1>11. text(f[n]) = g[n] /\ f[n] \in BlockState
  <2>1. \A k \in 0..n : k \in T
    <3> HIDE DEF T
    <3> QED BY <1>1, <1>9, <1>10, InductionUpTo
  <2>2. n \in 0..n
    BY <1>1
  <2> QED BY <1>2, <2>1, <2>2
<1>12. FlattenSeq(UnitTexts(Flush(f[n].blocks, f[n].current))) = text(f[n])
  <2>1. f[n].blocks \in Seq(Seq(Seq(S))) /\ f[n].current \in Seq(Seq(S))
    BY <1>6, <1>11
  <2>2. CASE f[n].current = <<>>
    <3>1. FlattenSeq(UnitTexts(f[n].blocks)) \in Seq(S)
      BY <2>1, UnitTextsFacts
    <3>2. FlattenSeq(UnitTexts(f[n].blocks)) \o <<>> = FlattenSeq(UnitTexts(f[n].blocks))
      BY <3>1, ConcatEmptySeq
    <3> QED BY <2>2, <3>2, FlattenFew DEF Flush, text
  <2>3. CASE f[n].current # <<>>
    BY <2>1, <2>3, UnitTextsFacts DEF Flush, text
  <2> QED BY <2>2, <2>3
<1> QED BY <1>2, <1>4, <1>11, <1>12 DEF n

(* The lines of section k.                                                 *)
First(lines, k) == Sections(lines)[k].first
Final(lines, k) == Sections(lines)[k].last

LEMMA SectionsDivide ==
    ASSUME NEW lines, IsList(lines)
    PROVE  LET n == Len(Sections(lines)) IN
           /\ \A k \in 1..n : \A m \in First(lines, k) .. Final(lines, k) :
                 m \notin Headings(lines)
           /\ \A j, k \in 1..n : j < k => Final(lines, j) < First(lines, k)
           /\ \A m \in 1..Len(lines) : m \notin Headings(lines) /\ ~IsBlank(lines[m]) =>
                 \E k \in 1..n : m \in First(lines, k) .. Final(lines, k)
<1> DEFINE ss == Sections(lines)
           n == Len(ss)
           hs == Headings(lines)
           off == IF HasRoot(lines) THEN 1 ELSE 0
           order == Order(lines)
           next(h) == NextHeading(lines, h)
<1>1. /\ n = off + Len(order)
      /\ HasRoot(lines) => ss[1] = RootSection(next(0) - 1)
      /\ \A k \in 1..n : k > off =>
            /\ k - off \in 1..Len(order)
            /\ ss[k] = HeadingSection(lines, hs, order[k - off])
  BY SectionFacts
<1>2. /\ Len(lines) \in Nat /\ hs \subseteq 1..Len(lines) /\ Len(order) \in Nat
      /\ \A k \in 1..Len(order) : order[k] \in hs
      /\ \A k, l \in 1..Len(order) : k < l => order[k] < order[l]
      /\ \A h \in hs : \E k \in 1..Len(order) : order[k] = h
  BY HeadingFacts
<1>3. off \in {0, 1} /\ (off = 1 <=> HasRoot(lines))
  OBVIOUS
<1>4. ASSUME NEW h \in 0..Len(lines)
      PROVE  /\ next(h) \in h + 1 .. Len(lines) + 1
             /\ \A m \in hs : m > h => next(h) <= m
             /\ next(h) <= Len(lines) => next(h) \in hs
  BY NextHeadingFacts
<1> HIDE DEF ss, n, hs, off, order
<1>5. ASSUME NEW k \in 1..n, k > off
      PROVE  /\ k - off \in 1..Len(order) /\ order[k - off] \in hs
             /\ order[k - off] \in 1..Len(lines)
             /\ First(lines, k) = order[k - off] + 1
             /\ Final(lines, k) = next(order[k - off]) - 1
  <2> DEFINE h == order[k - off]
  <2>1. k - off \in 1..Len(order) /\ ss[k] = HeadingSection(lines, hs, h)
    BY <1>1, <1>5
  <2>2. h \in hs /\ h \in 1..Len(lines)
    BY <1>2, <2>1
  <2> HIDE DEF h
  <2>3. ss[k].first = h + 1
    BY <2>1 DEF HeadingSection
  <2>4. ss[k].last = next(h) - 1
    BY <2>1 DEF HeadingSection, NextHeading, hs
  <2> QED BY <2>1, <2>2, <2>3, <2>4 DEF First, Final, ss, h
<1>6. ASSUME NEW k \in 1..n, ~(k > off)
      PROVE  /\ k = 1 /\ off = 1 /\ HasRoot(lines)
             /\ First(lines, k) = 1 /\ Final(lines, k) = next(0) - 1
  <2>1. k = 1 /\ off = 1 /\ HasRoot(lines)
    BY <1>3, <1>6
  <2>2. ss[1] = RootSection(next(0) - 1)
    BY <1>1, <2>1
  <2>3. ss[1].first = 1 /\ ss[1].last = next(0) - 1
    BY <2>2 DEF RootSection
  <2> QED BY <2>1, <2>3 DEF First, Final, ss
<1>7. n \in Nat
  BY <1>1, <1>2, <1>3
<1> HIDE DEF next
<1>8. ASSUME NEW k \in 1..n, NEW m \in First(lines, k) .. Final(lines, k)
      PROVE  m \notin hs
  <2>1. \E h \in 0..Len(lines) :
           First(lines, k) = h + 1 /\ Final(lines, k) = next(h) - 1
    <3>1. CASE k > off
      <4>1. order[k - off] \in 0..Len(lines)
        BY <1>2, <1>5, <3>1
      <4> QED BY <1>5, <3>1, <4>1
    <3>2. CASE ~(k > off)
      <4>1. 0 \in 0..Len(lines) /\ 0 + 1 = 1
        BY <1>2
      <4> QED BY <1>6, <3>2, <4>1
    <3> QED BY <3>1, <3>2
  <2>2. PICK h \in 0..Len(lines) : First(lines, k) = h + 1 /\ Final(lines, k) = next(h) - 1
    BY <2>1
  <2>3. next(h) \in Nat /\ \A l \in hs : l > h => next(h) <= l
    BY <1>2, <1>4
  <2>4. m > h /\ m < next(h) /\ m \in Nat
    BY <1>2, <2>2, <2>3
  <2> QED BY <2>3, <2>4
<1>9. ASSUME NEW j \in 1..n, NEW k \in 1..n, j < k
      PROVE  Final(lines, j) < First(lines, k)
  <2>1. k > off
    <3> SUFFICES ASSUME ~(k > off) PROVE FALSE
      OBVIOUS
    <3>1. k = 1
      BY <1>6
    <3> QED BY <1>9, <3>1
  <2> DEFINE h == order[k - off]
  <2>2. h \in hs /\ h \in 1..Len(lines) /\ First(lines, k) = h + 1 /\ k - off \in 1..Len(order)
    BY <1>5, <2>1
  <2>3. CASE j > off
    <3> DEFINE g == order[j - off]
    <3>1. g \in hs /\ g \in 1..Len(lines) /\ Final(lines, j) = next(g) - 1
          /\ j - off \in 1..Len(order)
      BY <1>5, <2>3
    <3>2. j - off < k - off
      BY <1>3, <1>9
    <3>3. g < h
      BY <1>2, <2>2, <3>1, <3>2
    <3> HIDE DEF g, h
    <3>4. g \in 0..Len(lines)
      BY <1>2, <3>1
    <3>5. next(g) <= h /\ next(g) \in g + 1 .. Len(lines) + 1
      BY <1>4, <2>2, <3>3, <3>4
    <3> QED BY <1>2, <2>2, <3>1, <3>4, <3>5
  <2>4. CASE ~(j > off)
    <3>1. Final(lines, j) = next(0) - 1
      BY <1>6, <2>4
    <3> HIDE DEF h
    <3>2. 0 \in 0..Len(lines) /\ h > 0
      BY <1>2, <2>2
    <3>3. next(0) <= h /\ next(0) \in 0 + 1 .. Len(lines) + 1
      BY <1>4, <2>2, <3>2
    <3> QED BY <1>2, <2>2, <3>1, <3>3
  <2> QED BY <2>3, <2>4
<1>10. ASSUME NEW m \in 1..Len(lines), m \notin hs, ~IsBlank(lines[m])
       PROVE  \E k \in 1..n : m \in First(lines, k) .. Final(lines, k)
  <2> DEFINE above == {h \in hs : h < m}
  <2>1. ASSUME NEW h \in 0..Len(lines), h < m, \A g \in above : g <= h
        PROVE  m < next(h)
    <3>1. next(h) \in h + 1 .. Len(lines) + 1 /\ (next(h) <= Len(lines) => next(h) \in hs)
      BY <1>4
    <3> SUFFICES ASSUME next(h) <= m PROVE FALSE
      BY <1>2, <3>1
    <3>2. next(h) \in hs /\ next(h) # m
      BY <1>2, <1>10, <3>1
    <3>3. next(h) < m
      BY <1>2, <3>1, <3>2
    <3>4. next(h) <= h
      BY <2>1, <3>2, <3>3
    <3> QED BY <1>2, <3>1, <3>4
  <2>2. CASE above = {}
    <3>1. 0 \in 0..Len(lines) /\ 0 < m
      BY <1>2
    <3>2. m < next(0) /\ next(0) \in 0 + 1 .. Len(lines) + 1
      BY <1>4, <2>1, <2>2, <3>1
    <3>3. m \in 1 .. next(0) - 1
      BY <1>2, <3>2
    <3>4. HasRoot(lines)
      BY <1>10, <3>3 DEF HasRoot, next
    <3>5. off = 1 /\ 1 \in 1..n /\ ~(1 > off)
      BY <1>1, <1>2, <1>3, <3>4
    <3>6. First(lines, 1) = 1 /\ Final(lines, 1) = next(0) - 1
      BY <1>6, <3>5
    <3> QED BY <3>3, <3>5, <3>6
  <2>3. CASE above # {}
    <3>1. above \subseteq 0..Len(lines)
      <4>1. 1..Len(lines) \subseteq 0..Len(lines) /\ above \subseteq hs
        BY <1>2
      <4> QED BY <1>2, <4>1
    <3>2. PICK h \in above : \A g \in above : g <= h
      <4> HIDE DEF above
      <4> QED BY <1>2, <2>3, <3>1, GreatestNumber
    <3>3. h \in hs /\ h < m /\ h \in 0..Len(lines)
      BY <3>1
    <3>4. m < next(h) /\ next(h) \in h + 1 .. Len(lines) + 1
      BY <1>4, <2>1, <3>2, <3>3
    <3>5. PICK i \in 1..Len(order) : order[i] = h
      BY <1>2, <3>3
    <3> DEFINE k == i + off
    <3>6. k \in 1..n /\ k > off /\ k - off = i
      BY <1>1, <1>2, <1>3
    <3> HIDE DEF k
    <3>7. First(lines, k) = h + 1 /\ Final(lines, k) = next(h) - 1
      BY <1>5, <3>5, <3>6
    <3>8. m \in h + 1 .. next(h) - 1
      BY <1>2, <3>3, <3>4
    <3> QED BY <3>6, <3>7, <3>8
  <2> QED BY <2>2, <2>3
<1> QED BY <1>8, <1>9, <1>10 DEF n, hs, ss

(* The text of rows.                                                       *)
Texts(rows) == [i \in DOMAIN rows |-> FlattenSeq(rows[i].units)]

LEMMA TextsFacts ==
    ASSUME NEW lines, NEW rows \in Seq(RowSet(lines)), NEW new \in Seq(RowSet(lines))
    PROVE  /\ Texts(rows) \in Seq(Seq(PieceSet)) /\ Len(Texts(rows)) = Len(rows)
           /\ Texts(rows \o new) = Texts(rows) \o Texts(new)
<1> DEFINE S == Seq(PieceSet)
           all == rows \o new
           m == Len(rows)
           n == Len(new)
<1>1. ASSUME NEW r \in Seq(RowSet(lines))
      PROVE  /\ Texts(r) \in Seq(S) /\ Len(Texts(r)) = Len(r)
             /\ \A i \in 1..Len(r) : Texts(r)[i] = FlattenSeq(r[i].units)
  <2>1. Len(r) \in Nat /\ DOMAIN r = 1..Len(r) /\ \A i \in 1..Len(r) : r[i] \in RowSet(lines)
    BY LenProperties, ElementOfSeq
  <2>2. ASSUME NEW i \in 1..Len(r) PROVE FlattenSeq(r[i].units) \in S
    <3>1. r[i].units \in Seq(FitSet)
      BY <2>1 DEF RowSet, BlockSet
    <3>2. r[i].units \in Seq(Seq(PieceSet))
      BY <3>1, FitFacts
    <3> QED BY <3>2, FlattenJoins
  <2>3. Texts(r) = [i \in 1..Len(r) |-> FlattenSeq(r[i].units)]
    BY <2>1 DEF Texts
  <2>4. Texts(r) \in [1..Len(r) -> S]
    BY <2>2, <2>3
  <2>5. \A i \in 1..Len(r) : Texts(r)[i] = FlattenSeq(r[i].units)
    BY <2>3
  <2> HIDE DEF S
  <2> QED BY <2>1, <2>4, <2>5, FunctionIsSeq
<1>2. m \in Nat /\ n \in Nat
  BY LenProperties
<1>3. /\ all \in Seq(RowSet(lines)) /\ Len(all) = m + n
      /\ \A i \in 1 .. m + n : all[i] = IF i <= m THEN rows[i] ELSE new[i - m]
  BY ConcatProperties
<1> HIDE DEF S, all
<1>a. PICK v : v = Texts(rows)
  OBVIOUS
<1>b. PICK w : w = Texts(new)
  OBVIOUS
<1> DEFINE t == Texts(all)
           u == v \o w
<1>4. t \in Seq(S) /\ Len(t) = m + n /\ \A i \in 1 .. m + n : t[i] = FlattenSeq(all[i].units)
  BY <1>1, <1>3
<1>5. /\ v \in Seq(S) /\ Len(v) = m /\ w \in Seq(S) /\ Len(w) = n
      /\ \A i \in 1..m : v[i] = FlattenSeq(rows[i].units)
      /\ \A i \in 1..n : w[i] = FlattenSeq(new[i].units)
  BY <1>1, <1>a, <1>b
<1>c. v \in Seq(S) /\ w \in Seq(S)
  BY <1>5
<1>6. /\ u \in Seq(S) /\ Len(u) = m + n
      /\ \A i \in 1 .. m + n : u[i] = IF i <= m THEN v[i] ELSE w[i - m]
  <2>1. /\ u \in Seq(S) /\ Len(u) = Len(v) + Len(w)
        /\ \A i \in 1 .. Len(v) + Len(w) : u[i] = IF i <= Len(v) THEN v[i] ELSE w[i - Len(v)]
    BY <1>c, ConcatProperties
  <2> QED BY <1>5, <2>1
<1> HIDE DEF t, u, m, n
<1>7. \A i \in 1 .. m + n : t[i] = u[i]
  <2> SUFFICES ASSUME NEW i \in 1 .. m + n PROVE t[i] = u[i]
    OBVIOUS
  <2>1. CASE i <= m
    <3>1. i \in 1..m
      BY <1>2, <2>1
    <3>2. all[i] = rows[i] /\ u[i] = v[i]
      BY <1>3, <1>6, <2>1
    <3>3. v[i] = FlattenSeq(rows[i].units) /\ t[i] = FlattenSeq(all[i].units)
      BY <1>4, <1>5, <3>1
    <3> QED BY <3>2, <3>3
  <2>2. CASE ~(i <= m)
    <3>1. i - m \in 1..n
      BY <1>2, <2>2
    <3>2. all[i] = new[i - m] /\ u[i] = w[i - m]
      BY <1>3, <1>6, <2>2
    <3>3. w[i - m] = FlattenSeq(new[i - m].units) /\ t[i] = FlattenSeq(all[i].units)
      BY <1>4, <1>5, <3>1
    <3> QED BY <3>2, <3>3
  <2> QED BY <2>1, <2>2
<1>8. t = u
  BY <1>4, <1>6, <1>7, SeqEqual
<1> QED BY <1>5, <1>8, <1>a, <1>b DEF t, u, all, S, m

LEMMA SectionTells ==
    ASSUME NEW lines, IsBody(lines), NEW k \in DOMAIN Sections(lines)
    PROVE  /\ SectionRows(lines, k) \in Seq(RowSet(lines))
           /\ Tells(Words(Texts(SectionRows(lines, k))), lines,
                    Fulls(lines, First(lines, k), Final(lines, k)))
<1> DEFINE s == Sections(lines)[k]
           us == SectionUnits(lines, s)
           units == ExpandedUnits(us)
           bs == SectionBlocks(lines, k)
           rows == SectionRows(lines, k)
<1>1. us \in Seq(Seq(WholeSet)) /\ \E st : AreUnits(us, st, lines, s.first, s.last)
  BY SectionUnitsAre
<1>2. PICK st : AreUnits(us, st, lines, s.first, s.last)
  BY <1>1
<1>3. s.first \in Nat \ {0} /\ s.last \in 0..Len(lines)
  <2>1. Len(lines) \in Nat
    BY ListFacts DEF IsBody
  <2>2. s.first \in 1 .. Len(lines) + 1 /\ s.last \in 0..Len(lines)
    BY SectionBounds DEF IsBody
  <2> HIDE DEF s
  <2> QED BY <2>1, <2>2
<1>4. units \in Seq(FitSet)
  BY <1>1, ExpandedFits
<1>5. Tells(Words(units), lines, Fulls(lines, s.first, s.last))
  <2> HIDE DEF s, us
  <2> QED BY <1>1, <1>2, <1>3, ExpandedTells
<1>6. bs = BuildBlocks(lines, s)
  BY DEF SectionBlocks
<1>7. FlattenSeq(UnitTexts(bs)) = FlattenSeq(units)
  <2>1. units = ExpandedUnits(SectionUnits(lines, s))
    OBVIOUS
  <2> HIDE DEF units, s, bs
  <2> QED BY <1>4, <1>6, <2>1, BlocksTell
<1>8. /\ rows \in Seq(RowSet(lines)) /\ Len(bs) \in Nat /\ Len(rows) = Len(bs)
      /\ \A o \in 1..Len(bs) : rows[o] = [section |-> s, ordinal |-> o, units |-> bs[o]]
  BY SectionRowsFacts
<1>9. bs \in Seq(BlockSet)
  BY SectionBlocksFacts
<1> HIDE DEF rows, bs, s, units
<1>10. Texts(rows) = UnitTexts(bs)
  <2>1. DOMAIN rows = 1..Len(bs) /\ DOMAIN bs = 1..Len(bs)
    BY <1>8, <1>9, LenProperties
  <2>2. ASSUME NEW o \in 1..Len(bs) PROVE rows[o].units = bs[o]
    <3>1. rows[o] = [section |-> s, ordinal |-> o, units |-> bs[o]]
      BY <1>8
    <3> QED BY <3>1
  <2> QED BY <2>1, <2>2 DEF Texts, UnitTexts
<1>11. Words(Texts(rows)) = Words(units)
  BY <1>7, <1>10 DEF Words
<1> QED BY <1>5, <1>8, <1>11 DEF rows, First, Final, s

(* The lines of the first k sections.                                      *)
SectionLines(lines, k) ==
    {m \in 1..Len(lines) :
        /\ lines[m].size > 0
        /\ \E i \in 1..k : m \in First(lines, i) .. Final(lines, i)}

(* The rows of a note tell its text.                                       *)
LEMMA RowsTell ==
    ASSUME NEW lines, IsBody(lines)
    PROVE  LET rows == ParseMarkdown(lines) IN
           /\ Words(Texts(rows)) \in Seq(PieceSet)
           /\ Tells(Words(Texts(rows)), lines,
                    {k \in DOMAIN lines : lines[k].size > 0} \ Headings(lines))
<1> DEFINE n == Len(Sections(lines))
           W(k) == SectionLines(lines, k)
<1>1. /\ n \in Nat /\ DOMAIN Sections(lines) = 1..n
      /\ Len(lines) \in Nat /\ DOMAIN lines = 1..Len(lines)
  BY ParseRun, ListFacts DEF IsBody
<1>2. PICK f : /\ f \in [0..n -> Seq(RowSet(lines))] /\ f[0] = <<>>
               /\ \A k \in 1..n : f[k] = f[k - 1] \o SectionRows(lines, k)
               /\ ParseMarkdown(lines) = f[n]
  BY ParseRun
<1>3. /\ \A k \in 1..n : \A m \in First(lines, k) .. Final(lines, k) :
            m \notin Headings(lines)
      /\ \A j, k \in 1..n : j < k => Final(lines, j) < First(lines, k)
      /\ \A m \in 1..Len(lines) : m \notin Headings(lines) /\ ~IsBlank(lines[m]) =>
            \E k \in 1..n : m \in First(lines, k) .. Final(lines, k)
  BY SectionsDivide DEF IsBody
<1>4. ASSUME NEW k \in 1..n
      PROVE  First(lines, k) \in 1 .. Len(lines) + 1 /\ Final(lines, k) \in 0..Len(lines)
  BY <1>1, SectionBounds DEF First, Final, IsBody
<1>5. ASSUME NEW k \in 1..n
      PROVE  /\ SectionRows(lines, k) \in Seq(RowSet(lines))
             /\ Tells(Words(Texts(SectionRows(lines, k))), lines,
                      Fulls(lines, First(lines, k), Final(lines, k)))
  BY <1>1, SectionTells
<1> HIDE DEF n
<1> DEFINE T == {k \in 0..n : Tells(Words(Texts(f[k])), lines, W(k))}
<1>6. 0 \in T
  <2>1. W(0) = {} /\ 0 \in 0..n
    BY <1>1 DEF SectionLines
  <2>2. Texts(<<>>) = <<>>
    BY DEF Texts
  <2>3. Words(Texts(f[0])) = <<>>
    BY <1>2, <2>2, FewWords
  <2> HIDE DEF W
  <2> QED BY <2>1, <2>3, NothingTold
<1>7. ASSUME NEW k \in 1..n, k - 1 \in T PROVE k \in T
  <2> DEFINE V == Fulls(lines, First(lines, k), Final(lines, k))
             new == SectionRows(lines, k)
             a == Words(Texts(f[k - 1]))
             b == Words(Texts(new))
  <2>1. k \in 0..n /\ k - 1 \in 0..n
    BY <1>1
  <2>2. f[k - 1] \in Seq(RowSet(lines)) /\ new \in Seq(RowSet(lines))
    BY <1>2, <1>5, <2>1
  <2>3. /\ Texts(f[k - 1]) \in Seq(Seq(PieceSet)) /\ Texts(new) \in Seq(Seq(PieceSet))
        /\ Texts(f[k - 1] \o new) = Texts(f[k - 1]) \o Texts(new)
    BY <2>2, TextsFacts
  <2>4. /\ Words(Texts(f[k])) = a \o b
        /\ a \in Seq(PieceSet) /\ b \in Seq(PieceSet)
    BY <1>2, <2>3, WordsFacts, ZenonT(40)
  <2>5. Tells(a, lines, W(k - 1)) /\ Tells(b, lines, V)
    BY <1>5, <1>7
  <2>6. W(k) = W(k - 1) \cup V
    <3>1. \A i : i \in 1..k <=> i \in 1 .. k - 1 \/ i = k
      BY <1>1
    <3>2. \A m : m \in First(lines, k) .. Final(lines, k) => m \in 1..Len(lines)
      BY <1>1, <1>4
    <3> QED BY <3>1, <3>2 DEF SectionLines, Fulls
  <2>7. ASSUME NEW p \in W(k - 1), NEW q \in V PROVE p < q
    <3>1. PICK i \in 1 .. k - 1 : p \in First(lines, i) .. Final(lines, i)
      BY DEF SectionLines
    <3>2. q \in First(lines, k) .. Final(lines, k)
      BY DEF Fulls
    <3>3. i \in 1..n /\ i < k
      BY <1>1
    <3>4. Final(lines, i) < First(lines, k)
      BY <1>3, <3>3
    <3>5. /\ First(lines, i) \in 1 .. Len(lines) + 1 /\ Final(lines, i) \in 0..Len(lines)
          /\ First(lines, k) \in 1 .. Len(lines) + 1 /\ Final(lines, k) \in 0..Len(lines)
      BY <1>4, <3>3
    <3> QED BY <1>1, <3>1, <3>2, <3>4, <3>5
  <2>8. W(k - 1) \subseteq Nat /\ V \subseteq Nat
    <3>1. \A m : m \in First(lines, k) .. Final(lines, k) => m \in Nat
      BY <1>1, <1>4
    <3> QED BY <3>1 DEF SectionLines, Fulls
  <2> HIDE DEF W, V, a, b, new
  <2>9. Tells(a \o b, lines, W(k - 1) \cup V)
    BY <2>4, <2>5, <2>7, <2>8, TellsJoin
  <2> QED BY <2>1, <2>4, <2>6, <2>9
<1>8. n \in T /\ n \in 0..n
  <2>1. \A k \in 0..n : k \in T
    <3> HIDE DEF T
    <3> QED BY <1>1, <1>6, <1>7, InductionUpTo
  <2>2. n \in 0..n
    BY <1>1
  <2> QED BY <2>1, <2>2
<1>9. W(n) = {k \in DOMAIN lines : lines[k].size > 0} \ Headings(lines)
  <2>1. ASSUME NEW m \in 1..Len(lines), lines[m].size > 0 PROVE ~IsBlank(lines[m])
    BY <1>1, <2>1 DEF IsBody, IsLine
  <2> QED BY <1>1, <1>3, <2>1 DEF SectionLines
<1>10. Tells(Words(Texts(f[n])), lines, W(n))
  BY <1>8
<1>11. Words(Texts(f[n])) \in Seq(PieceSet)
  <2>1. f[n] \in Seq(RowSet(lines))
    BY <1>2, <1>8
  <2>2. Texts(f[n]) \in Seq(Seq(PieceSet))
    BY <2>1, TextsFacts
  <2> QED BY <2>2, WordsFacts
<1> QED BY <1>2, <1>9, <1>10, <1>11

-----------------------------------------------------------------------------
(* Where the text of a row comes from. *)

(* The lines of t are of the unit; it is the unit, if that is small enough.*)
IsPart(t, unit) ==
    IF LineTokens(unit) <= HardTokens THEN t = unit
    ELSE \A i \in 1..Len(t) : \E j \in 1..Len(unit) : t[i].line = unit[j].line

LEMMA SplitParts ==
    ASSUME NEW unit \in Seq(WholeSet)
    PROVE  SplitOversized(unit) \in Seq({t \in FitSet : IsPart(t, unit)})
<1> DEFINE n == Len(unit)
           X == {x \in PieceSet : \E j \in 1..n : x.line = unit[j].line}
           P == {t \in FitSet : t \in Seq(X)}
           V == {t \in FitSet : IsPart(t, unit)}
<1>1. PICK f : /\ f \in [0..n -> SplitState]
               /\ f[0] = [parts |-> <<>>, buffer |-> <<>>]
               /\ \A k \in 1..n : f[k] = SplitStep(f[k - 1], unit[k])
               /\ SplitOversized(unit) =
                     IF LineTokens(unit) <= HardTokens THEN <<unit>>
                     ELSE LET all == Flush(f[n].parts, f[n].buffer)
                          IN  At(all, {i \in DOMAIN all : Strip(all[i]) # <<>>})
  BY SplitRun
<1>2. n \in Nat /\ \A k \in 1..n : unit[k] \in WholeSet /\ unit[k] \in PieceSet
  BY LenProperties, ElementOfSeq, WholeFacts
<1>3. CASE LineTokens(unit) <= HardTokens
  <2>1. unit \in V
    BY <1>3, WholeFacts DEF FitSet, IsPart
  <2>2. SplitOversized(unit) = <<unit>>
    BY <1>1, <1>3
  <2> HIDE DEF V
  <2>3. <<unit>> \in Seq(V)
    BY <2>1
  <2> QED BY <2>2, <2>3 DEF V
<1>4. CASE ~(LineTokens(unit) <= HardTokens)
  <2>1. P \subseteq V
    <3> SUFFICES ASSUME NEW t \in P PROVE t \in V
      OBVIOUS
    <3>1. t \in FitSet /\ t \in Seq(X)
      OBVIOUS
    <3> HIDE DEF X
    <3>2. \A i \in 1..Len(t) : t[i] \in X
      BY <3>1, ElementOfSeq
    <3>3. \A i \in 1..Len(t) : \E j \in 1..n : t[i].line = unit[j].line
      BY <3>2 DEF X
    <3> QED BY <1>4, <3>1, <3>3 DEF IsPart
  <2> DEFINE T == {k \in 0..n : f[k].parts \in Seq(P) /\ f[k].buffer \in P}
  <2>2. <<>> \in P /\ <<>> \in Seq(P)
    <3>1. <<>> \in Seq(X)
      OBVIOUS
    <3> HIDE DEF X
    <3> QED BY <3>1, EmptyFits
  <2>3. 0 \in T
    <3>1. f[0].parts = <<>> /\ f[0].buffer = <<>> /\ 0 \in 0..n
      BY <1>1, <1>2
    <3> HIDE DEF P
    <3> QED BY <2>2, <3>1
  <2>4. ASSUME NEW k \in 1..n, k - 1 \in T PROVE k \in T
    <3> DEFINE s == f[k - 1]
               x == unit[k]
               parts == Flush(s.parts, s.buffer)
               more == Append(s.buffer, x)
    <3>1. k \in 0..n /\ k - 1 \in 0..n /\ f[k] = SplitStep(s, x)
          /\ f[k] \in SplitState /\ s \in SplitState /\ x \in WholeSet /\ x \in PieceSet
      <4>1. k \in 0..n /\ k - 1 \in 0..n
        BY <1>2
      <4> QED BY <1>1, <1>2, <4>1
    <3>2. s.parts \in Seq(P) /\ s.buffer \in P
      BY <2>4
    <3>3. x \in X
      BY <3>1
    <3> HIDE DEF s, x
    <3>4. s.buffer \in Seq(X) /\ s.buffer \in FitSet
      BY <3>2
    <3>5. more \in Seq(X) /\ <<x>> \in Seq(X)
      <4> HIDE DEF X
      <4> QED BY <3>3, <3>4, AppendProperties
    <3>6. parts \in Seq(P)
      <4> HIDE DEF P
      <4> QED BY <3>2, FlushFacts
    <3>7. f[k].buffer \in FitSet /\ f[k].parts \in Seq(FitSet)
      BY <3>1 DEF SplitState
    <3> HIDE DEF parts, more
    <3>8. CASE LineTokens(<<x>>) > HardTokens
      <4>1. f[k].parts = parts \o SplitLongLine(x) /\ f[k].buffer = <<>>
        BY <3>1, <3>8 DEF SplitStep, parts
      <4>2. Size(x) > 0
        <5> SUFFICES ASSUME ~(Size(x) > 0) PROVE FALSE
          OBVIOUS
        <5>1. Size(x) <= HardChars
          <6>1. HardChars \in Nat /\ Size(x) \in Int
            BY <3>1, SizeFacts, MarkdownAssumption DEF HardChars
          <6> QED BY <6>1
        <5>2. LineTokens(<<x>>) <= HardTokens
          BY <3>1, <5>1, TokenFacts
        <5>3. LineTokens(<<x>>) \in Int /\ HardTokens \in Nat
          <6>1. <<x>> \in Seq(PieceSet)
            BY <3>1
          <6> QED BY <6>1, TokenFacts, MarkdownAssumption
        <5> QED BY <3>8, <5>2, <5>3
      <4> DEFINE ps == SplitLongLine(x)
      <4>3. /\ ps \in Seq(FitSet) /\ Len(ps) \in Nat
            /\ \A i \in 1..Len(ps) : \E from, to \in Nat :
                  ps[i] = <<[line |-> x.line, from |-> from, to |-> to]>>
        BY <3>1, <4>2, LongLine
      <4> HIDE DEF ps
      <4>4. ASSUME NEW i \in 1..Len(ps) PROVE ps[i] \in P
        <5>1. PICK from, to \in Nat : ps[i] = <<[line |-> x.line, from |-> from, to |-> to]>>
          BY <4>3
        <5> DEFINE y == [line |-> x.line, from |-> from, to |-> to]
        <5>2. y \in X
          <6>1. y \in PieceSet /\ y.line = x.line
            BY <3>1 DEF PieceSet
          <6> QED BY <3>3, <6>1
        <5> HIDE DEF y, X
        <5>3. <<y>> \in Seq(X)
          BY <5>2
        <5>4. ps[i] \in FitSet
          BY <4>3, ElementOfSeq
        <5> QED BY <5>1, <5>3, <5>4 DEF y
      <4>5. ps \in Seq(P)
        <5>1. ps \in [1..Len(ps) -> P]
          <6>1. ps = [i \in 1..Len(ps) |-> ps[i]]
            BY <4>3
          <6> HIDE DEF P
          <6> QED BY <4>4, <6>1
        <5> HIDE DEF P
        <5> QED BY <4>3, <5>1, FunctionIsSeq
      <4> HIDE DEF P
      <4>6. parts \o ps \in Seq(P)
        BY <3>6, <4>5, ConcatProperties
      <4> QED BY <2>2, <3>1, <4>1, <4>6 DEF ps
    <3>9. CASE /\ ~(LineTokens(<<x>>) > HardTokens)
               /\ s.buffer # <<>> /\ LineTokens(more) > HardTokens
      <4>1. f[k].parts = parts /\ f[k].buffer = <<x>>
        BY <3>1, <3>9 DEF SplitStep, parts, more
      <4>2. f[k].buffer \in P
        BY <3>5, <3>7, <4>1
      <4> HIDE DEF P
      <4> QED BY <3>1, <3>6, <4>1, <4>2
    <3>10. CASE /\ ~(LineTokens(<<x>>) > HardTokens)
                /\ ~(s.buffer # <<>> /\ LineTokens(more) > HardTokens)
      <4>1. f[k].parts = s.parts /\ f[k].buffer = more
        BY <3>1, <3>10 DEF SplitStep, more
      <4>2. f[k].buffer \in P
        BY <3>5, <3>7, <4>1
      <4> HIDE DEF P
      <4> QED BY <3>1, <3>2, <4>1, <4>2
    <3> QED BY <3>8, <3>9, <3>10
  <2>5. n \in T
    <3> HIDE DEF T
    <3>1. \A k \in 0..n : k \in T
      BY <1>2, <2>3, <2>4, InductionUpTo
    <3>2. n \in 0..n
      BY <1>2
    <3> QED BY <3>1, <3>2
  <2> DEFINE all == Flush(f[n].parts, f[n].buffer)
  <2>6. all \in Seq(P)
    <3>1. f[n].parts \in Seq(P) /\ f[n].buffer \in P
      BY <2>5
    <3> HIDE DEF P
    <3> QED BY <3>1, FlushFacts
  <2>7. SplitOversized(unit) = At(all, {i \in DOMAIN all : Strip(all[i]) # <<>>})
    BY <1>1, <1>4
  <2> HIDE DEF all
  <2>8. all \in Seq(V)
    <3> HIDE DEF P, V
    <3>1. Len(all) \in Nat /\ all \in [1..Len(all) -> P]
      BY <2>6, LenProperties
    <3>2. all \in [1..Len(all) -> V]
      BY <2>1, <3>1
    <3> QED BY <3>1, <3>2, FunctionIsSeq
  <2> HIDE DEF V
  <2>9. \A K : At(all, K) \in Seq(V)
    BY <2>8, AtElements
  <2> QED BY <2>7, <2>9 DEF V
<1> QED BY <1>3, <1>4

(* The parts of units.                                                     *)
PartSet(us) == {t \in FitSet : \E m \in 1..Len(us) : IsPart(t, us[m])}

LEMMA ExpandedParts ==
    ASSUME NEW us \in Seq(Seq(WholeSet))
    PROVE  ExpandedUnits(us) \in Seq(PartSet(us))
<1> DEFINE n == Len(us)
           V == PartSet(us)
<1>1. PICK f : /\ f \in [0..n -> Seq(FitSet)] /\ f[0] = <<>>
               /\ \A k \in 1..n : f[k] = f[k - 1] \o SplitOversized(us[k])
               /\ ExpandedUnits(us) = f[n]
  BY ExpandedRun
<1>2. n \in Nat /\ \A k \in 1..n : us[k] \in Seq(WholeSet)
  BY LenProperties, ElementOfSeq
<1>3. ASSUME NEW k \in 1..n PROVE SplitOversized(us[k]) \in Seq(V)
  <2> DEFINE W == {t \in FitSet : IsPart(t, us[k])}
             s == SplitOversized(us[k])
  <2>1. s \in Seq(W)
    BY <1>2, SplitParts
  <2>2. W \subseteq V
    BY DEF PartSet
  <2> HIDE DEF W, V, s
  <2>3. Len(s) \in Nat /\ s \in [1..Len(s) -> W]
    BY <2>1, LenProperties
  <2>4. s \in [1..Len(s) -> V]
    BY <2>2, <2>3
  <2>5. s \in Seq(V)
    BY <2>3, <2>4, FunctionIsSeq
  <2> QED BY <2>5 DEF s
<1> HIDE DEF V
<1> DEFINE T == {k \in 0..n : f[k] \in Seq(V)}
<1>4. 0 \in T
  <2>1. <<>> \in Seq(V) /\ 0 \in 0..n
    BY <1>2
  <2> QED BY <1>1, <2>1
<1>5. ASSUME NEW k \in 1..n, k - 1 \in T PROVE k \in T
  <2>1. k \in 0..n /\ f[k] = f[k - 1] \o SplitOversized(us[k])
    <3>1. k \in 0..n
      BY <1>2
    <3>2. f[k] = f[k - 1] \o SplitOversized(us[k])
      BY <1>1
    <3> QED BY <3>1, <3>2
  <2>2. f[k - 1] \in Seq(V) /\ SplitOversized(us[k]) \in Seq(V)
    BY <1>3, <1>5
  <2> QED BY <2>1, <2>2, ConcatProperties
<1>6. n \in T
  <2> HIDE DEF T
  <2>1. \A k \in 0..n : k \in T
    BY <1>2, <1>4, <1>5, InductionUpTo
  <2>2. n \in 0..n
    BY <1>2
  <2> QED BY <2>1, <2>2
<1> QED BY <1>1, <1>6 DEF V

(* A block is made of units, whole.                                        *)
LEMMA BlocksOfUnits ==
    ASSUME NEW lines, NEW section, NEW units \in Seq(FitSet), NEW V, units \in Seq(V),
           units = ExpandedUnits(SectionUnits(lines, section))
    PROVE  BuildBlocks(lines, section) \in Seq(Seq(V))
<1> DEFINE n == Len(units)
           S == Seq(V)
<1>1. PICK f : /\ f \in [0..n -> BlockState]
               /\ f[0] = [blocks |-> <<>>, current |-> <<>>]
               /\ \A k \in 1..n : f[k] = BlockStep(f[k - 1], units[k])
               /\ BuildBlocks(lines, section) = Flush(f[n].blocks, f[n].current)
  BY BlockRun
<1>2. n \in Nat /\ \A k \in 1..n : units[k] \in V /\ units[k] \in FitSet
  BY LenProperties, ElementOfSeq
<1> DEFINE T == {k \in 0..n : f[k].blocks \in Seq(S) /\ f[k].current \in S}
<1>3. 0 \in T
  <2>1. f[0].blocks = <<>> /\ f[0].current = <<>> /\ 0 \in 0..n
    BY <1>1, <1>2
  <2>2. <<>> \in Seq(S) /\ <<>> \in S
    OBVIOUS
  <2> HIDE DEF S
  <2> QED BY <2>1, <2>2
<1>4. ASSUME NEW k \in 1..n, k - 1 \in T PROVE k \in T
  <2> DEFINE s == f[k - 1]
             u == units[k]
  <2>1. k \in 0..n /\ k - 1 \in 0..n
    BY <1>2
  <2>2. s \in BlockState /\ f[k] = BlockStep(s, u) /\ u \in V /\ u \in FitSet
    BY <1>1, <1>2, <2>1
  <2>3. s.blocks \in Seq(S) /\ s.current \in S
    BY <1>4
  <2> HIDE DEF s, u
  <2>4. f[k] = IF s.current = <<>> \/ Joins(s.current, u)
               THEN [blocks |-> s.blocks, current |-> Append(s.current, u)]
               ELSE [blocks |-> Append(s.blocks, s.current), current |-> <<u>>]
    BY <2>2, BlockStepFacts
  <2>5. Append(s.current, u) \in S /\ <<u>> \in S
    BY <2>2, <2>3, AppendProperties
  <2> HIDE DEF S
  <2>6. Append(s.blocks, s.current) \in Seq(S)
    BY <2>3, AppendProperties
  <2>7. \/ f[k].blocks = s.blocks /\ f[k].current = Append(s.current, u)
        \/ f[k].blocks = Append(s.blocks, s.current) /\ f[k].current = <<u>>
    BY <2>4
  <2> QED BY <2>1, <2>3, <2>5, <2>6, <2>7
<1>5. n \in T
  <2> HIDE DEF T
  <2>1. \A k \in 0..n : k \in T
    BY <1>2, <1>3, <1>4, InductionUpTo
  <2>2. n \in 0..n
    BY <1>2
  <2> QED BY <2>1, <2>2
<1>6. f[n].blocks \in Seq(S) /\ f[n].current \in S
  BY <1>5
<1> HIDE DEF S
<1>7. BuildBlocks(lines, section) \in Seq(S)
  BY <1>1, <1>6, FlushFacts
<1> QED BY <1>7 DEF S

(* The units of a row are parts of the units of its section.               *)
LEMMA RowParts ==
    ASSUME NEW lines, IsBody(lines), NEW i \in DOMAIN ParseMarkdown(lines)
    PROVE  LET row == ParseMarkdown(lines)[i] IN
           \E k \in DOMAIN Sections(lines) :
              /\ row.section = Sections(lines)[k]
              /\ row.units \in Seq(PartSet(SectionUnits(lines, Sections(lines)[k])))
<1> DEFINE rows == ParseMarkdown(lines)
<1>1. /\ rows \in Seq(RowSet(lines))
      /\ \A j \in 1..Len(rows) : \E k \in DOMAIN Sections(lines) : IsRow(rows, j, lines, k)
  BY RowsFollow
<1> HIDE DEF rows
<1>2. i \in 1..Len(rows)
  BY <1>1, LenProperties DEF rows
<1>3. PICK k \in DOMAIN Sections(lines) : IsRow(rows, i, lines, k)
  BY <1>1, <1>2
<1> DEFINE s == Sections(lines)[k]
           us == SectionUnits(lines, s)
           units == ExpandedUnits(us)
           bs == SectionBlocks(lines, k)
           V == PartSet(us)
<1>4. us \in Seq(Seq(WholeSet))
  BY SectionUnitsAre
<1>5. units \in Seq(FitSet) /\ units \in Seq(V)
  <2> HIDE DEF us
  <2> QED BY <1>4, ExpandedFits, ExpandedParts
<1>6. bs = BuildBlocks(lines, s)
  BY DEF SectionBlocks
<1>7. bs \in Seq(Seq(V))
  <2>1. units = ExpandedUnits(SectionUnits(lines, s))
    OBVIOUS
  <2> HIDE DEF units, s, bs, V
  <2> QED BY <1>5, <1>6, <2>1, BlocksOfUnits
<1> DEFINE o == rows[i].ordinal
<1>8. o \in 1..Len(bs) /\ rows[i] = [section |-> s, ordinal |-> o, units |-> bs[o]]
  BY <1>3 DEF IsRow
<1> HIDE DEF bs, s, V, o
<1>9. rows[i].section = s /\ rows[i].units = bs[o]
  BY <1>8
<1>10. bs[o] \in Seq(V)
  BY <1>7, <1>8, ElementOfSeq
<1> QED BY <1>9, <1>10 DEF rows, s, V

(* The lines of a row are lines of its section.                            *)
LEMMA PartLines ==
    ASSUME NEW lines, IsBody(lines), NEW k \in DOMAIN Sections(lines),
           NEW t \in PartSet(SectionUnits(lines, Sections(lines)[k])),
           NEW m \in 1..Len(t)
    PROVE  t[m].line \in First(lines, k) .. Final(lines, k)
<1> DEFINE us == SectionUnits(lines, Sections(lines)[k])
<1>1. us \in Seq(Seq(WholeSet))
      /\ \E st : AreUnits(us, st, lines, First(lines, k), Final(lines, k))
  BY SectionUnitsAre DEF First, Final
<1>2. PICK st : AreUnits(us, st, lines, First(lines, k), Final(lines, k))
  BY <1>1
<1>3. PICK u \in 1..Len(us) : IsPart(t, us[u])
  BY DEF PartSet
<1> HIDE DEF us
<1> DEFINE a == st[u]
           b == UnitEnd(lines, a, Final(lines, k))
<1>4. a \in First(lines, k) .. Final(lines, k) /\ us[u] = Span(lines, a, b)
  BY <1>2 DEF AreUnits
<1>5. /\ Len(lines) \in Nat /\ First(lines, k) \in 1 .. Len(lines) + 1
      /\ Final(lines, k) \in 0..Len(lines)
  BY ListFacts, SectionBounds DEF First, Final, IsBody
<1> HIDE DEF a
<1>6. a \in 1..Final(lines, k) /\ a \in 1..Len(lines) /\ Final(lines, k) \in Nat
  BY <1>4, <1>5
<1>7. b \in a..Final(lines, k)
  BY <1>6, UnitEndFacts
<1> HIDE DEF b
<1>8. b \in a..Len(lines)
  BY <1>5, <1>6, <1>7
<1>9. /\ Len(us[u]) = b - a + 1
      /\ \A i \in 1 .. b - a + 1 : us[u][i] = Piece(lines, a + i - 1)
  BY <1>4, <1>6, <1>8, SpanFacts
<1>10. \E j \in 1..Len(us[u]) : t[m].line = us[u][j].line
  BY <1>3 DEF IsPart
<1>11. PICK j \in 1 .. b - a + 1 : t[m].line = a + j - 1
  <2>1. PICK j \in 1..Len(us[u]) : t[m].line = us[u][j].line
    BY <1>10
  <2>2. us[u][j] = Piece(lines, a + j - 1) /\ j \in 1 .. b - a + 1
    BY <1>9
  <2> QED BY <2>1, <2>2 DEF Piece
<1> QED BY <1>4, <1>5, <1>6, <1>7, <1>8, <1>11

-----------------------------------------------------------------------------
(* The scan for fences. *)

LEMMA FencesAre ==
    ASSUME NEW lines, IsList(lines)
    PROVE  LET after == FenceStates(lines) IN
           /\ after[0] = NoFence
           /\ \A k \in 1..Len(lines) : after[k] = NextFenceState(lines[k], after[k - 1])
<1> DEFINE n == Len(lines)
           S == {NoFence} \cup {[mark |-> lines[k].mark, length |-> lines[k].length] :
                                   k \in 1..n}
           step == [k \in 1..n |-> [s \in S |-> NextFenceState(lines[k], s)]]
           Steps(f) == f = [k \in 0..n |->
               IF k = 0 THEN NoFence ELSE NextFenceState(lines[k], f[k - 1])]
<1>1. n \in Nat /\ NoFence \in S
  BY ListFacts
<1>2. Stays(step, n, S)
  <2> SUFFICES ASSUME NEW k \in 1..n, NEW s \in S PROVE NextFenceState(lines[k], s) \in S
    BY DEF Stays
  <2>1. [mark |-> lines[k].mark, length |-> lines[k].length] \in S
    OBVIOUS
  <2> HIDE DEF S
  <2> QED BY <1>1, <2>1 DEF NextFenceState
<1>3. PICK f \in [0..n -> S] : Along(f, n, NoFence, step)
  <2> HIDE DEF step, S, n
  <2> QED BY <1>1, <1>2, Recursion
<1>4. Steps(f)
  <2>1. ASSUME NEW k \in 0..n
        PROVE  f[k] = IF k = 0 THEN NoFence ELSE NextFenceState(lines[k], f[k - 1])
    <3>1. CASE k = 0
      BY <1>3, <3>1 DEF Along
    <3>2. CASE k # 0
      <4>1. k \in 1..n /\ k - 1 \in 0..n
        BY <1>1, <3>2
      <4>2. f[k] = step[k][f[k - 1]] /\ f[k - 1] \in S
        <5> HIDE DEF step, S
        <5> QED BY <1>3, <4>1 DEF Along
      <4> QED BY <3>2, <4>1, <4>2
    <3> QED BY <3>1, <3>2
  <2>2. f = [k \in 0..n |-> f[k]]
    OBVIOUS
  <2> HIDE DEF step, S
  <2> QED BY <2>1, <2>2
<1>5. FenceStates(lines) = CHOOSE g : Steps(g)
  BY DEF FenceStates
<1> HIDE DEF Steps
<1>6. Steps(FenceStates(lines))
  BY <1>4, <1>5
<1>7. \A k \in 0..n : FenceStates(lines)[k] =
         IF k = 0 THEN NoFence ELSE NextFenceState(lines[k], FenceStates(lines)[k - 1])
  BY <1>6 DEF Steps
<1>8. 0 \in 0..n /\ \A k \in 1..n : k \in 0..n /\ k # 0
  BY <1>1
<1> QED BY <1>7, <1>8

(* Lines without a fence before a text do not change what the scan finds.  *)
LEMMA FenceShift ==
    ASSUME NEW front, IsList(front), NEW body, IsList(body),
           \A k \in 1..Len(front) : ~IsFence(front[k])
    PROVE  LET text == front \o body
               n == Len(front)
           IN  /\ IsList(text) /\ Len(text) = n + Len(body)
               /\ \A k \in 1..Len(body) :
                     /\ text[n + k] = body[k]
                     /\ n + k \in Headings(text) <=> k \in Headings(body)
<1> DEFINE text == front \o body
           n == Len(front)
           m == Len(body)
           S == ToSet(front) \cup ToSet(body)
<1>1. /\ n \in Nat /\ m \in Nat /\ DOMAIN front = 1..n /\ DOMAIN body = 1..m
      /\ \A i \in 1..n : front[i] \in ToSet(front)
      /\ \A i \in 1..m : body[i] \in ToSet(body)
  BY ListFacts
<1>2. front \in Seq(S) /\ body \in Seq(S)
  <2>1. front \in Seq(ToSet(front)) /\ body \in Seq(ToSet(body))
    BY ListFacts
  <2>2. front \in [1..n -> S] /\ body \in [1..m -> S]
    <3>1. front \in [1..n -> ToSet(front)] /\ body \in [1..m -> ToSet(body)]
      BY <2>1, LenProperties
    <3> QED BY <3>1
  <2> HIDE DEF S
  <2> QED BY <1>1, <2>2, FunctionIsSeq
<1> HIDE DEF S
<1>3. /\ text \in Seq(S) /\ Len(text) = n + m
      /\ \A i \in 1 .. n + m : text[i] = IF i <= n THEN front[i] ELSE body[i - n]
  BY <1>2, ConcatProperties
<1> HIDE DEF text
<1>4. DOMAIN text = 1 .. n + m
  BY <1>3, LenProperties
<1>5. IsList(text)
  <2>1. text \in [1 .. n + m -> S]
    BY <1>3, LenProperties
  <2>2. ToSet(text) = {text[i] : i \in 1 .. n + m}
    BY <1>4 DEF ToSet
  <2>3. text \in [1 .. n + m -> ToSet(text)]
    BY <2>1, <2>2
  <2>4. n + m \in Nat
    BY <1>1
  <2> HIDE DEF n, m
  <2> QED BY <2>3, <2>4, FunctionIsSeq DEF IsList
<1> DEFINE after == FenceStates(text)
           inner == FenceStates(body)
<1>6. /\ after[0] = NoFence
      /\ \A k \in 1 .. n + m : after[k] = NextFenceState(text[k], after[k - 1])
  BY <1>3, <1>5, FencesAre
<1>7. /\ inner[0] = NoFence
      /\ \A k \in 1..m : inner[k] = NextFenceState(body[k], inner[k - 1])
  BY FencesAre
<1> HIDE DEF after, inner
<1>8. after[n] = NoFence
  <2> DEFINE T == {k \in 0..n : after[k] = NoFence}
  <2>1. 0 \in T
    BY <1>1, <1>6
  <2>2. ASSUME NEW k \in 1..n, k - 1 \in T PROVE k \in T
    <3>1. k \in 1 .. n + m /\ k <= n /\ k \in 0..n
      BY <1>1
    <3>2. text[k] = front[k] /\ ~IsFence(front[k])
      BY <1>3, <3>1
    <3> QED BY <1>6, <2>2, <3>1, <3>2 DEF NextFenceState
  <2> HIDE DEF T
  <2>3. \A k \in 0..n : k \in T
    BY <1>1, <2>1, <2>2, InductionUpTo
  <2>4. n \in 0..n
    BY <1>1
  <2> QED BY <2>3, <2>4 DEF T
<1>9. ASSUME NEW k \in 1..m PROVE n + k \in 1 .. n + m /\ text[n + k] = body[k]
  <2>1. n + k \in 1 .. n + m /\ ~(n + k <= n) /\ (n + k) - n = k
    BY <1>1
  <2> QED BY <1>3, <2>1
<1>10. \A k \in 0..m : after[n + k] = inner[k]
  <2> DEFINE T == {k \in 0..m : after[n + k] = inner[k]}
  <2>1. 0 \in T
    <3>1. n + 0 = n /\ 0 \in 0..m
      BY <1>1
    <3> QED BY <1>7, <1>8, <3>1
  <2>2. ASSUME NEW k \in 1..m, k - 1 \in T PROVE k \in T
    <3>1. k \in 0..m /\ (n + k) - 1 = n + (k - 1)
      BY <1>1
    <3>2. after[n + k] = NextFenceState(text[n + k], after[(n + k) - 1])
      BY <1>6, <1>9
    <3> QED BY <1>7, <1>9, <2>2, <3>1, <3>2
  <2> HIDE DEF T
  <2>3. \A k \in 0..m : k \in T
    BY <1>1, <2>1, <2>2, InductionUpTo
  <2> QED BY <2>3 DEF T
<1>11. ASSUME NEW k \in 1..m PROVE n + k \in Headings(text) <=> k \in Headings(body)
  <2>1. after[n + k] = inner[k]
    <3>1. k \in 0..m
      BY <1>1
    <3> QED BY <1>10, <3>1
  <2>2. n + k \in Headings(text) <=>
           n + k \in DOMAIN text /\ text[n + k].kind = "heading" /\ after[n + k] = NoFence
    BY DEF Headings, after
  <2>3. k \in Headings(body) <=>
           k \in DOMAIN body /\ body[k].kind = "heading" /\ inner[k] = NoFence
    BY DEF Headings, inner
  <2> QED BY <1>1, <1>4, <1>9, <2>1, <2>2, <2>3
<1> QED BY <1>3, <1>5, <1>9, <1>11 DEF text

(* A section with a heading.                                               *)
LEMMA HeadedSection ==
    ASSUME NEW lines, IsList(lines), NEW k \in DOMAIN Sections(lines),
           Sections(lines)[k].at > 0
    PROVE  LET s == Sections(lines)[k] IN
           /\ s.at \in Headings(lines) /\ s.slug = lines[s.at].word
           /\ s.last = NextHeading(lines, s.at) - 1
<1> DEFINE ss == Sections(lines)
           off == IF HasRoot(lines) THEN 1 ELSE 0
           order == Order(lines)
<1>1. /\ DOMAIN ss = 1..Len(ss) /\ Len(ss) = off + Len(order)
      /\ HasRoot(lines) => ss[1] = RootSection(NextHeading(lines, 0) - 1)
      /\ \A i \in 1..Len(ss) : i > off =>
            /\ i - off \in 1..Len(order)
            /\ ss[i] = HeadingSection(lines, Headings(lines), order[i - off])
  BY SectionFacts
<1>2. \A i \in 1..Len(order) : order[i] \in Headings(lines)
  BY HeadingFacts
<1>3. k \in 1..Len(ss) /\ Len(order) \in Nat
  BY <1>1, HeadingFacts
<1>4. k > off
  <2> SUFFICES ASSUME ~(k > off) PROVE FALSE
    OBVIOUS
  <2>1. k = 1 /\ HasRoot(lines)
    BY <1>1, <1>3
  <2>2. ss[k].at = 0
    BY <1>1, <2>1 DEF RootSection
  <2> HIDE DEF ss
  <2> QED BY <2>2 DEF ss
<1> DEFINE h == order[k - off]
<1>5. h \in Headings(lines) /\ ss[k] = HeadingSection(lines, Headings(lines), h)
  BY <1>1, <1>2, <1>3, <1>4
<1> HIDE DEF h, ss
<1>6. ss[k].at = h /\ ss[k].slug = lines[h].word /\ ss[k].last = NextHeading(lines, h) - 1
  BY <1>5 DEF HeadingSection, NextHeading
<1> QED BY <1>5, <1>6 DEF ss

(* read_section finds the section again, and all of it.                    *)
LEMMA SectionRead ==
    ASSUME NEW front, IsList(front), NEW body, IsList(body),
           \A k \in 1..Len(front) : ~IsFence(front[k]),
           NEW k \in DOMAIN Sections(body), Sections(body)[k].at > 0,
           \A h \in MatchingHeading(front \o body, Sections(body)[k].slug) :
               Len(front) + Sections(body)[k].at <= h
    PROVE  LET s == Sections(body)[k]
               n == Len(front)
               found == ExtractSection(front \o body, n, s.slug)
           IN  /\ found.found /\ found.heading = n + s.at
               /\ found.end \in Int /\ n + s.last <= found.end
<1> DEFINE n == Len(front)
           m == Len(body)
           text == front \o body
           s == Sections(body)[k]
           at == s.at
           matching == MatchingHeading(text, s.slug)
<1>1. /\ IsList(text) /\ Len(text) = n + m
      /\ \A j \in 1..m : /\ text[n + j] = body[j]
                         /\ n + j \in Headings(text) <=> j \in Headings(body)
  BY FenceShift
<1>2. n \in Nat /\ m \in Nat /\ Headings(body) \subseteq 1..m
  BY HeadingFacts
<1>3. at \in Headings(body) /\ s.slug = body[at].word /\ s.last = NextHeading(body, at) - 1
  BY HeadedSection
<1>4. at \in 1..m
  BY <1>2, <1>3
<1> DEFINE l == NextHeading(body, at)
<1>5. l \in at + 1 .. m + 1 /\ \A j \in Headings(body) : j > at => l <= j
  <2>1. at \in 0..Len(body)
    BY <1>2, <1>4
  <2> HIDE DEF at
  <2> QED BY <2>1, NextHeadingFacts
<1>6. Headings(text) \subseteq 1 .. n + m
  <2> HIDE DEF text
  <2> QED BY <1>1, HeadingFacts
<1>7. \A h \in matching : n + at <= h
  OBVIOUS
<1> HIDE DEF s, at, text, l
<1>8. n + at \in matching
  BY <1>1, <1>3, <1>4 DEF MatchingHeading
<1>9. Least(matching) = n + at
  <2>1. matching \subseteq Nat
    BY <1>2, <1>6 DEF MatchingHeading
  <2> HIDE DEF matching
  <2>2. Least(matching) \in matching /\ Least(matching) <= n + at
    BY <1>8, <2>1, LeastFacts
  <2>3. Least(matching) \in Nat /\ n + at <= Least(matching)
    BY <1>7, <2>1, <2>2
  <2> QED BY <1>2, <1>4, <2>2, <2>3
<1> DEFINE after == {j \in Headings(text) : j > n + at /\ text[j].level <= text[n + at].level}
           ends == after \cup {Len(text) + 1}
<1>10. \A j \in ends : n + l <= j
  <2> SUFFICES ASSUME NEW j \in ends PROVE n + l <= j
    OBVIOUS
  <2>1. CASE j = Len(text) + 1
    BY <1>1, <1>2, <1>5, <2>1
  <2>2. CASE j \in after
    <3>1. j \in Headings(text) /\ j > n + at /\ j \in 1 .. n + m
      BY <1>6, <2>2
    <3>2. j - n \in 1..m /\ j = n + (j - n) /\ j - n > at
      BY <1>2, <1>4, <3>1
    <3>3. j - n \in Headings(body)
      BY <1>1, <3>1, <3>2
    <3>4. l <= j - n
      BY <1>5, <3>2, <3>3
    <3> QED BY <1>2, <1>5, <3>1, <3>4
  <2> QED BY <2>1, <2>2
<1>11. n + l <= Least(ends)
  <2>1. ends \subseteq Nat /\ ends # {}
    BY <1>1, <1>2, <1>6
  <2> HIDE DEF ends
  <2>2. Least(ends) \in ends
    BY <2>1, LeastFacts
  <2> QED BY <1>10, <2>2
<1>12. Least(ends) \in Nat
  <2>1. ends \subseteq Nat /\ ends # {}
    BY <1>1, <1>2, <1>6
  <2> HIDE DEF ends
  <2> QED BY <2>1, LeastFacts
<1>13. SectionEnd(text, n + at) = Least(ends) - 1
  BY DEF SectionEnd
<1>14. SectionEnd(text, n + at) \in Int /\ n + s.last <= SectionEnd(text, n + at)
  <2> HIDE DEF ends
  <2> QED BY <1>2, <1>3, <1>5, <1>11, <1>12, <1>13 DEF l
<1>15. ExtractSection(text, n, s.slug) =
          [found |-> TRUE, heading |-> n + at, end |-> SectionEnd(text, n + at),
           prefix |-> ContextPrefix(text, n, n + at)]
  <2>1. matching # {}
    BY <1>8
  <2> QED BY <1>9, <2>1 DEF ExtractSection
<1> DEFINE found == ExtractSection(text, n, s.slug)
<1>16. found.found /\ found.heading = n + at /\ found.end = SectionEnd(text, n + at)
  BY <1>15
<1> HIDE DEF found
<1> QED BY <1>14, <1>16 DEF s, at, text, found

-----------------------------------------------------------------------------
(***************************************************************************)
(* The lines of the reader.  It has line k of a text at ReaderEnd(lines,   *)
(* k), and before it what it makes of the line in front.                   *)
(***************************************************************************)
HasCuts(lines) == \A k \in 1..Len(lines) : IsList(lines[k].cut)

(* The lines of the reader, one more line of the text at a time.           *)
LEMMA ReaderRun ==
    ASSUME NEW lines, IsList(lines), HasCuts(lines)
    PROVE  \E S : \E f \in [0..Len(lines) -> Seq(S)] :
              /\ f[0] = <<>>
              /\ \A k \in 1..Len(lines) : /\ Shown(lines[k]) \in Seq(S)
                                          /\ f[k] = f[k - 1] \o Shown(lines[k])
              /\ \A k \in 0..Len(lines) : ReaderLines(SubSeq(lines, 1, k)) = f[k]
              /\ ReaderLines(lines) = f[Len(lines)]
<1> DEFINE n == Len(lines)
           S == ToSet(lines) \cup UNION {ToSet(lines[k].cut) : k \in 1..n}
           ss == [k \in 1..n |-> Shown(lines[k])]
<1>1. /\ n \in Nat /\ DOMAIN lines = 1..n /\ lines \in Seq(ToSet(lines))
      /\ \A k \in 1..n : lines[k] \in ToSet(lines)
  BY ListFacts
<1>2. ASSUME NEW k \in 1..n PROVE Shown(lines[k]) \in Seq(S)
  <2>1. CASE lines[k].cut = <<>>
    <3>1. Shown(lines[k]) = <<lines[k]>> /\ lines[k] \in S
      BY <1>1, <2>1 DEF Shown
    <3> HIDE DEF S
    <3> QED BY <3>1
  <2>2. CASE lines[k].cut # <<>>
    <3> DEFINE cut == lines[k].cut
    <3>1. Shown(lines[k]) = cut
      BY <2>2 DEF Shown
    <3>2. IsList(cut)
      BY DEF HasCuts
    <3>3. ToSet(cut) \subseteq S
      OBVIOUS
    <3> HIDE DEF S, cut
    <3>4. Len(cut) \in Nat /\ DOMAIN cut = 1..Len(cut) /\ cut \in Seq(ToSet(cut))
          /\ \A i \in 1..Len(cut) : cut[i] \in ToSet(cut)
      BY <3>2, ListFacts
    <3>5. cut \in [1..Len(cut) -> S]
      <4>1. cut = [i \in 1..Len(cut) |-> cut[i]]
        BY <3>4, LenProperties
      <4>2. \A i \in 1..Len(cut) : cut[i] \in S
        BY <3>3, <3>4
      <4> QED BY <4>1, <4>2
    <3> QED BY <3>1, <3>4, <3>5, FunctionIsSeq
  <2> QED BY <2>1, <2>2
<1>3. ss \in Seq(Seq(S)) /\ Len(ss) = n /\ \A k \in 1..n : ss[k] = Shown(lines[k])
  <2>1. ss \in [1..n -> Seq(S)] /\ \A k \in 1..n : ss[k] = Shown(lines[k])
    <3> HIDE DEF S, n
    <3> QED BY <1>2
  <2> HIDE DEF S, ss, n
  <2> QED BY <1>1, <2>1, FunctionIsSeq
<1>4. ReaderLines(lines) = FlattenSeq(ss)
  BY <1>1 DEF ReaderLines
<1> HIDE DEF S, ss
<1>5. PICK f \in [0..Len(ss) -> Seq(S)] : Accumulates(f, ss) /\ FlattenSeq(ss) = f[Len(ss)]
  BY <1>3, FlattenRun
<1>6. f[0] = <<>> /\ \A k \in 1..n : f[k] = f[k - 1] \o Shown(lines[k])
  BY <1>3, <1>5 DEF Accumulates
<1>7. ASSUME NEW k \in 0..n PROVE ReaderLines(SubSeq(lines, 1, k)) = f[k]
  <2> DEFINE part == SubSeq(lines, 1, k)
             pp == [i \in DOMAIN part |-> Shown(part[i])]
  <2>1. Len(part) = k /\ DOMAIN part = 1..k /\ \A i \in 1..k : part[i] = lines[i]
    BY <1>1
  <2>2. k \in Nat /\ \A i \in 1..k : i \in 1..n
    BY <1>1
  <2>3. ReaderLines(part) = FlattenSeq(pp)
    BY DEF ReaderLines
  <2> HIDE DEF part
  <2>4. pp \in [1..k -> Seq(S)] /\ \A i \in 1..k : pp[i] = Shown(lines[i])
    BY <1>2, <2>1, <2>2
  <2> HIDE DEF pp
  <2>5. pp \in Seq(Seq(S)) /\ Len(pp) = k
    BY <2>2, <2>4, FunctionIsSeq
  <2>6. PICK g \in [0..Len(pp) -> Seq(S)] : Accumulates(g, pp) /\ FlattenSeq(pp) = g[Len(pp)]
    BY <2>5, FlattenRun
  <2>7. g[0] = <<>> /\ \A i \in 1..k : g[i] = g[i - 1] \o Shown(lines[i])
    BY <2>4, <2>5, <2>6 DEF Accumulates
  <2> DEFINE T == {i \in 0..k : g[i] = f[i]}
  <2>8. 0 \in T
    BY <1>6, <2>2, <2>7
  <2>9. ASSUME NEW i \in 1..k, i - 1 \in T PROVE i \in T
    <3>1. i \in 1..n /\ i \in 0..k
      BY <2>2
    <3> QED BY <1>6, <2>7, <2>9, <3>1
  <2> HIDE DEF T
  <2>10. \A i \in 0..k : i \in T
    BY <2>2, <2>8, <2>9, InductionUpTo
  <2>11. k \in T
    <3>1. k \in 0..k
      BY <2>2
    <3> QED BY <2>10, <3>1
  <2> QED BY <2>3, <2>5, <2>6, <2>11 DEF T, part
<1>8. /\ f \in [0..n -> Seq(S)] /\ ReaderLines(lines) = f[n]
      /\ \A k \in 1..n : Shown(lines[k]) \in Seq(S)
  BY <1>2, <1>3, <1>4, <1>5
<1> HIDE DEF n
<1> QED BY <1>6, <1>7, <1>8 DEF n

LEMMA ReaderPlaces ==
    ASSUME NEW lines, IsList(lines), HasCuts(lines)
    PROVE  LET n == Len(lines)
               read == ReaderLines(lines)
               end == [k \in 0..n |-> ReaderEnd(lines, k)]
           IN  /\ IsList(read) /\ end[0] = 0 /\ Len(read) = end[n]
               /\ end \in [0..n -> Nat]
               /\ \A k \in 1..n : LET shown == Shown(lines[k]) IN
                     /\ Len(shown) \in Nat \ {0}
                     /\ end[k] = end[k - 1] + Len(shown)
                     /\ end[k] <= end[n]
                     /\ \A j \in 1..Len(shown) : read[end[k - 1] + j] = shown[j]
<1> DEFINE n == Len(lines)
           read == ReaderLines(lines)
           end == [k \in 0..n |-> ReaderEnd(lines, k)]
<1>1. n \in Nat
  BY ListFacts
<1>2. PICK S : \E f \in [0..n -> Seq(S)] :
              /\ f[0] = <<>>
              /\ \A k \in 1..n : /\ Shown(lines[k]) \in Seq(S)
                                 /\ f[k] = f[k - 1] \o Shown(lines[k])
              /\ \A k \in 0..n : ReaderLines(SubSeq(lines, 1, k)) = f[k]
              /\ read = f[n]
  BY ReaderRun
<1>3. PICK f \in [0..n -> Seq(S)] :
              /\ f[0] = <<>>
              /\ \A k \in 1..n : /\ Shown(lines[k]) \in Seq(S)
                                 /\ f[k] = f[k - 1] \o Shown(lines[k])
              /\ \A k \in 0..n : ReaderLines(SubSeq(lines, 1, k)) = f[k]
              /\ read = f[n]
  BY <1>2
<1>4. \A k \in 0..n : end[k] = Len(f[k])
  BY <1>3 DEF ReaderEnd
<1> HIDE DEF end, read
<1>5. ASSUME NEW k \in 1..n
      PROVE  /\ Len(Shown(lines[k])) \in Nat \ {0}
             /\ Len(f[k]) = Len(f[k - 1]) + Len(Shown(lines[k]))
             /\ \A j \in 1..Len(f[k - 1]) : f[k][j] = f[k - 1][j]
             /\ \A j \in 1..Len(Shown(lines[k])) :
                   f[k][Len(f[k - 1]) + j] = Shown(lines[k])[j]
  <2> DEFINE s == f[k - 1]
             t == Shown(lines[k])
  <2>1. k - 1 \in 0..n
    BY <1>1
  <2>2. s \in Seq(S) /\ t \in Seq(S) /\ f[k] = s \o t
    BY <1>3, <2>1
  <2>3. t # <<>>
    BY DEF Shown
  <2> HIDE DEF s, t
  <2>4. Len(s) \in Nat /\ Len(t) \in Nat /\ Len(t) # 0
    BY <2>2, <2>3, LenProperties, EmptySeq
  <2>5. /\ Len(f[k]) = Len(s) + Len(t)
        /\ \A i \in 1 .. Len(s) + Len(t) : f[k][i] = IF i <= Len(s) THEN s[i] ELSE t[i - Len(s)]
    BY <2>2, ConcatProperties
  <2>6. ASSUME NEW j \in 1..Len(s) PROVE f[k][j] = s[j]
    BY <2>4, <2>5
  <2>7. ASSUME NEW j \in 1..Len(t) PROVE f[k][Len(s) + j] = t[j]
    <3>1. Len(s) + j \in 1 .. Len(s) + Len(t) /\ ~(Len(s) + j <= Len(s)) /\ (Len(s) + j) - Len(s) = j
      BY <2>4
    <3> QED BY <2>5, <3>1
  <2> QED BY <2>4, <2>5, <2>6, <2>7 DEF s, t
<1>6. end \in [0..n -> Nat]
  <2>1. end = [k \in 0..n |-> end[k]]
    BY DEF end
  <2>2. \A k \in 0..n : Len(f[k]) \in Nat
    BY <1>3, LenProperties
  <2> QED BY <1>4, <2>1, <2>2
(* What is there stays there.                                              *)
<1> DEFINE T == {i \in 0..n : \A k \in 1..n : k <= i =>
                    /\ Len(f[k]) <= Len(f[i])
                    /\ \A j \in 1..Len(f[k]) : f[i][j] = f[k][j]}
<1>7. \A i \in 0..n : i \in T
  <2>1. 0 \in T
    BY <1>1
  <2>2. ASSUME NEW i \in 1..n, i - 1 \in T PROVE i \in T
    <3>1. i \in 0..n /\ i - 1 \in 0..n
      BY <1>1
    <3>2. Len(f[i]) \in Nat /\ Len(f[i - 1]) \in Nat /\ Len(f[i - 1]) <= Len(f[i])
      <4>1. Len(f[i]) \in Nat /\ Len(f[i - 1]) \in Nat
        BY <1>4, <1>6, <3>1
      <4>2. Len(Shown(lines[i])) \in Nat /\ Len(f[i]) = Len(f[i - 1]) + Len(Shown(lines[i]))
        BY <1>5
      <4>3. \A x, y, z \in Nat : x = y + z => y <= x
        OBVIOUS
      <4> QED BY <4>1, <4>2, <4>3, Zenon
    <3>3. ASSUME NEW k \in 1..n, k <= i
          PROVE  /\ Len(f[k]) <= Len(f[i])
                 /\ \A j \in 1..Len(f[k]) : f[i][j] = f[k][j]
      <4>1. CASE k = i
        BY <3>2, <4>1
      <4>2. CASE k # i
        <5>1. k <= i - 1 /\ k \in 0..n
          BY <1>1, <3>3, <4>2
        <5>2. Len(f[k]) <= Len(f[i - 1]) /\ \A j \in 1..Len(f[k]) : f[i - 1][j] = f[k][j]
          BY <2>2, <5>1
        <5>3. Len(f[k]) \in Nat
          BY <1>4, <1>6, <5>1
        <5>4. ASSUME NEW j \in 1..Len(f[k]) PROVE f[i][j] = f[k][j]
          <6>1. j \in 1..Len(f[i - 1])
            BY <3>2, <5>2, <5>3
          <6> QED BY <1>5, <5>2, <6>1
        <5> QED BY <3>2, <5>2, <5>3, <5>4
      <4> QED BY <4>1, <4>2
    <3> QED BY <3>1, <3>3
  <2> HIDE DEF T
  <2> QED BY <1>1, <2>1, <2>2, InductionUpTo
<1>8. n \in T /\ n \in 0..n
  <2>1. n \in 0..n
    BY <1>1
  <2> QED BY <1>7, <2>1
<1>9. ASSUME NEW k \in 1..n
      PROVE  /\ Len(Shown(lines[k])) \in Nat \ {0}
             /\ end[k] = end[k - 1] + Len(Shown(lines[k]))
             /\ end[k] <= end[n]
             /\ \A j \in 1..Len(Shown(lines[k])) :
                   read[end[k - 1] + j] = Shown(lines[k])[j]
  <2> DEFINE t == Shown(lines[k])
  <2>1. k \in 0..n /\ k - 1 \in 0..n /\ k <= n
    BY <1>1
  <2>2. end[k] = Len(f[k]) /\ end[k - 1] = Len(f[k - 1]) /\ end[n] = Len(f[n])
    BY <1>4, <1>8, <2>1
  <2>3. end[k] \in Nat /\ end[k - 1] \in Nat
    BY <1>6, <2>1
  <2>4. /\ Len(t) \in Nat \ {0} /\ end[k] = end[k - 1] + Len(t)
        /\ \A j \in 1..Len(t) : f[k][end[k - 1] + j] = t[j]
    BY <1>5, <2>2
  <2>5. Len(f[k]) <= Len(f[n]) /\ \A j \in 1..Len(f[k]) : f[n][j] = f[k][j]
    BY <1>8, <2>1
  <2> HIDE DEF t, T
  <2>6. ASSUME NEW j \in 1..Len(t) PROVE read[end[k - 1] + j] = t[j]
    <3>1. end[k - 1] + j \in 1..end[k]
      BY <2>3, <2>4
    <3> QED BY <1>3, <2>2, <2>4, <2>5, <3>1
  <2> QED BY <2>2, <2>4, <2>5, <2>6 DEF t
<1>10. IsList(read) /\ Len(read) = end[n] /\ end[0] = 0
  <2>1. read \in Seq(S) /\ Len(read) = end[n] /\ end[0] = 0
    <3>1. Len(<<>>) = 0 /\ 0 \in 0..n
      BY <1>1
    <3> QED BY <1>3, <1>4, <1>8, <3>1
  <2>2. Len(read) \in Nat /\ DOMAIN read = 1..Len(read) /\ read = [i \in 1..Len(read) |-> read[i]]
    BY <2>1, LenProperties
  <2>3. \A i \in 1..Len(read) : read[i] \in ToSet(read)
    BY <2>2 DEF ToSet
  <2>4. read \in [1..Len(read) -> ToSet(read)]
    BY <2>2, <2>3
  <2> QED BY <2>1, <2>2, <2>4, FunctionIsSeq DEF IsList
<1> HIDE DEF n
<1> QED BY <1>6, <1>9, <1>10 DEF n, end, read

(* What grows at every step grows.                                         *)
LEMMA GrowsUpTo ==
    ASSUME NEW n \in Nat, NEW end \in [0..n -> Nat],
           \A k \in 1..n : end[k - 1] < end[k]
    PROVE  \A i, j \in 0..n : i <= j => end[i] <= end[j]
<1> DEFINE T == {j \in 0..n : \A i \in 0..n : i <= j => end[i] <= end[j]}
<1>1. 0 \in T
  <2>1. \A i \in 0..n : i <= 0 => i = 0
    OBVIOUS
  <2> QED BY <2>1
<1>2. ASSUME NEW j \in 1..n, j - 1 \in T PROVE j \in T
  <2>1. j \in 0..n /\ j - 1 \in 0..n
    OBVIOUS
  <2>2. end[j] \in Nat /\ end[j - 1] \in Nat /\ end[j - 1] < end[j]
    BY <2>1
  <2>3. ASSUME NEW i \in 0..n, i <= j PROVE end[i] <= end[j]
    <3>1. CASE i = j
      BY <2>2, <3>1
    <3>2. CASE i # j
      <4>1. i <= j - 1 /\ end[i] \in Nat
        BY <2>3, <3>2
      <4>2. end[i] <= end[j - 1]
        BY <1>2, <4>1
      <4> QED BY <2>2, <4>1, <4>2
    <3> QED BY <3>1, <3>2
  <2> QED BY <2>1, <2>3
<1>3. \A j \in 0..n : j \in T
  <2> HIDE DEF T
  <2> QED BY <1>1, <1>2, InductionUpTo
<1> QED BY <1>3

(* Every line of the reader is of a line of the text.                      *)
LEMMA ReaderPlace ==
    ASSUME NEW n \in Nat, NEW end \in [0..n -> Nat], end[0] = 0,
           \A k \in 1..n : end[k - 1] <= end[k],
           NEW p \in 1..end[n]
    PROVE  \E k \in 1..n : p \in end[k - 1] + 1 .. end[k]
<1> DEFINE T == {i \in 0..n : p <= end[i] => \E k \in 1..i : p \in end[k - 1] + 1 .. end[k]}
<1>0. \A i \in 0..n : end[i] \in Nat
  OBVIOUS
<1>1. 0 \in T
  OBVIOUS
<1>2. ASSUME NEW i \in 1..n, i - 1 \in T PROVE i \in T
  <2>1. i \in 0..n /\ i - 1 \in 0..n
    OBVIOUS
  <2>2. end[i] \in Nat /\ end[i - 1] \in Nat
    BY <1>0, <2>1
  <2>3. ASSUME p <= end[i] PROVE \E k \in 1..i : p \in end[k - 1] + 1 .. end[k]
    <3>1. CASE p <= end[i - 1]
      <4>1. PICK k \in 1 .. i - 1 : p \in end[k - 1] + 1 .. end[k]
        BY <1>2, <3>1
      <4> QED BY <4>1
    <3>2. CASE ~(p <= end[i - 1])
      <4>1. p \in end[i - 1] + 1 .. end[i] /\ i \in 1..i
        BY <2>2, <2>3, <3>2
      <4> QED BY <4>1
    <3> QED BY <3>1, <3>2
  <2> QED BY <2>1, <2>3
<1>3. n \in T
  <2>1. n \in 0..n
    OBVIOUS
  <2> HIDE DEF T
  <2> QED BY <1>1, <1>2, <2>1, InductionUpTo
<1>4. PICK k \in 1..n : p \in end[k - 1] + 1 .. end[k]
  BY <1>3, <1>0
<1> QED BY <1>4

(***************************************************************************)
(* The headings of the reader are those of the parser, if no line that     *)
(* only the reader splits is, or is split into, a heading or a fence.      *)
(***************************************************************************)
Alike(lines) ==
    \A k \in 1..Len(lines) : LET line == lines[k] IN
        \/ line.cut = <<>>
        \/ /\ line.kind # "heading" /\ ~IsFence(line)
           /\ \A i \in DOMAIN line.cut : line.cut[i].kind # "heading" /\ ~IsFence(line.cut[i])

LEMMA ReaderHeadings ==
    ASSUME NEW lines, IsList(lines), HasCuts(lines), Alike(lines)
    PROVE  LET n == Len(lines)
               read == ReaderLines(lines)
           IN  /\ Headings(read) = {ReaderEnd(lines, k) : k \in Headings(lines)}
               /\ \A k \in Headings(lines) :
                     /\ read[ReaderEnd(lines, k)] = lines[k]
                     /\ ReaderEnd(lines, k) = ReaderEnd(lines, k - 1) + 1
<1> DEFINE n == Len(lines)
           read == ReaderLines(lines)
           end == [k \in 0..n |-> ReaderEnd(lines, k)]
           m == Len(read)
           after == FenceStates(read)
           inner == FenceStates(lines)
<1>1. n \in Nat /\ DOMAIN lines = 1..n /\ Headings(lines) \subseteq 1..n
  BY HeadingFacts
<1>2. /\ IsList(read) /\ end[0] = 0 /\ Len(read) = end[n]
      /\ end \in [0..n -> Nat]
      /\ \A k \in 1..n :
            /\ Len(Shown(lines[k])) \in Nat \ {0}
            /\ end[k] = end[k - 1] + Len(Shown(lines[k]))
            /\ end[k] <= end[n]
            /\ \A j \in 1..Len(Shown(lines[k])) :
                  read[end[k - 1] + j] = Shown(lines[k])[j]
  BY ReaderPlaces
<1>3. m \in Nat /\ DOMAIN read = 1..m
  BY <1>2, ListFacts
<1>4. /\ after[0] = NoFence
      /\ \A k \in 1..m : after[k] = NextFenceState(read[k], after[k - 1])
  BY <1>2, FencesAre
<1>5. /\ inner[0] = NoFence
      /\ \A k \in 1..n : inner[k] = NextFenceState(lines[k], inner[k - 1])
  BY FencesAre
<1>6. \A p \in 1..m : p \in Headings(read) <=> read[p].kind = "heading" /\ after[p] = NoFence
  BY <1>3 DEF Headings
<1>7. \A k \in 1..n : k \in Headings(lines) <=> lines[k].kind = "heading" /\ inner[k] = NoFence
  BY <1>1 DEF Headings
<1>8. Headings(read) \subseteq 1..m
  BY <1>3 DEF Headings
<1>9. \A k \in 0..n : end[k] = ReaderEnd(lines, k)
  OBVIOUS
<1> HIDE DEF read, end, after, inner
<1>10. ASSUME NEW k \in 1..n
       PROVE  /\ end[k] \in Nat /\ end[k - 1] \in Nat /\ end[k - 1] < end[k] /\ end[k] <= m
              /\ \/ /\ end[k] = end[k - 1] + 1 /\ read[end[k]] = lines[k]
                 \/ /\ lines[k].kind # "heading" /\ ~IsFence(lines[k])
                    /\ \A p \in end[k - 1] + 1 .. end[k] :
                          read[p].kind # "heading" /\ ~IsFence(read[p])
  <2> DEFINE t == Shown(lines[k])
  <2>1. k \in 0..n /\ k - 1 \in 0..n
    BY <1>1
  <2>2. end[k] \in Nat /\ end[k - 1] \in Nat
    BY <1>2, <2>1
  <2>3. /\ Len(t) \in Nat \ {0} /\ end[k] = end[k - 1] + Len(t) /\ end[k] <= m
        /\ \A j \in 1..Len(t) : read[end[k - 1] + j] = t[j]
    BY <1>2
  <2>4. CASE lines[k].cut = <<>>
    <3>1. t = <<lines[k]>>
      BY <2>4 DEF Shown
    <3>2. Len(t) = 1 /\ t[1] = lines[k]
      BY <3>1
    <3> HIDE DEF t
    <3>3. end[k] = end[k - 1] + 1 /\ 1 \in 1..Len(t)
      BY <2>3, <3>2
    <3> QED BY <2>2, <2>3, <3>2, <3>3
  <2>5. CASE lines[k].cut # <<>>
    <3>1. t = lines[k].cut /\ IsList(lines[k].cut)
      BY <2>5 DEF Shown, HasCuts
    <3>2. /\ lines[k].kind # "heading" /\ ~IsFence(lines[k])
          /\ \A i \in DOMAIN lines[k].cut :
                lines[k].cut[i].kind # "heading" /\ ~IsFence(lines[k].cut[i])
      BY <2>5 DEF Alike
    <3> HIDE DEF t
    <3>3. DOMAIN t = 1..Len(t)
      BY <3>1, ListFacts
    <3>4. ASSUME NEW p \in end[k - 1] + 1 .. end[k]
          PROVE  read[p].kind # "heading" /\ ~IsFence(read[p])
      <4> DEFINE j == p - end[k - 1]
      <4>1. j \in 1..Len(t) /\ end[k - 1] + j = p
        BY <2>2, <2>3
      <4> HIDE DEF j
      <4>2. read[p] = t[j] /\ j \in DOMAIN lines[k].cut
        BY <2>3, <3>1, <3>3, <4>1
      <4> QED BY <3>1, <3>2, <4>2
    <3> QED BY <2>2, <2>3, <3>2, <3>4
  <2> QED BY <2>4, <2>5
<1>11. ASSUME NEW k \in 1..n, after[end[k - 1]] = inner[k - 1] PROVE after[end[k]] = inner[k]
  <2>1. /\ end[k] \in Nat /\ end[k - 1] \in Nat /\ end[k - 1] < end[k] /\ end[k] <= m
        /\ end[k] \in 1..m
    BY <1>3, <1>10
  <2>2. CASE end[k] = end[k - 1] + 1 /\ read[end[k]] = lines[k]
    <3>1. end[k] - 1 = end[k - 1]
      BY <2>1, <2>2
    <3> QED BY <1>4, <1>5, <1>11, <2>1, <2>2, <3>1
  <2>3. CASE /\ lines[k].kind # "heading" /\ ~IsFence(lines[k])
             /\ \A p \in end[k - 1] + 1 .. end[k] :
                   read[p].kind # "heading" /\ ~IsFence(read[p])
    <3> DEFINE d == end[k] - end[k - 1]
               T == {i \in 0..d : after[end[k - 1] + i] = inner[k - 1]}
    <3>0. d \in Nat
      BY <2>1
    <3>1. 0 \in T
      <4>1. end[k - 1] + 0 = end[k - 1]
        BY <2>1
      <4> QED BY <1>11, <3>0, <4>1
    <3>2. ASSUME NEW i \in 1..d, i - 1 \in T PROVE i \in T
      <4> DEFINE p == end[k - 1] + i
      <4>1. p \in 1..m /\ p \in end[k - 1] + 1 .. end[k] /\ p - 1 = end[k - 1] + (i - 1) /\ i \in 0..d
        <5>1. \A x, y, z \in Nat : y <= z /\ z <= m /\ x \in 1 .. z - y =>
                 /\ y + x \in 1..m /\ y + x \in y + 1 .. z /\ (y + x) - 1 = y + (x - 1)
          BY <1>3
        <5>2. i \in Nat /\ i \in 1 .. end[k] - end[k - 1] /\ i \in 0..d
          BY <3>0
        <5>3. end[k - 1] <= end[k]
          BY <2>1
        <5> QED BY <2>1, <5>1, <5>2, <5>3, Zenon
      <4>2. after[p - 1] = inner[k - 1]
        BY <3>2, <4>1
      <4>3. ~IsFence(read[p])
        BY <2>3, <4>1
      <4> HIDE DEF p
      <4>4. after[p] = inner[k - 1]
        BY <1>4, <4>1, <4>2, <4>3 DEF NextFenceState
      <4> QED BY <4>1, <4>4 DEF p
    <3>3. \A i \in 0..d : i \in T
      <4> HIDE DEF T, d
      <4> QED BY <3>0, <3>1, <3>2, InductionUpTo
    <3>4. d \in 0..d /\ end[k - 1] + d = end[k]
      BY <2>1
    <3>5. after[end[k]] = inner[k - 1]
      BY <3>3, <3>4
    <3>6. inner[k] = inner[k - 1]
      BY <1>5, <2>3 DEF NextFenceState
    <3> QED BY <3>5, <3>6
  <2> QED BY <1>10, <2>2, <2>3
<1>12. \A k \in 0..n : after[end[k]] = inner[k]
  <2> DEFINE T == {k \in 0..n : after[end[k]] = inner[k]}
  <2>1. 0 \in T
    BY <1>1, <1>2, <1>4, <1>5
  <2>2. ASSUME NEW k \in 1..n, k - 1 \in T PROVE k \in T
    BY <1>1, <1>11, <2>2
  <2> HIDE DEF T
  <2>3. \A k \in 0..n : k \in T
    BY <1>1, <2>1, <2>2, InductionUpTo
  <2> QED BY <2>3 DEF T
(* A heading of the parser is one of the reader.                           *)
<1>13. ASSUME NEW k \in Headings(lines)
       PROVE  /\ end[k] \in Headings(read) /\ read[end[k]] = lines[k]
              /\ end[k] = end[k - 1] + 1
  <2>1. k \in 1..n /\ k \in 0..n /\ lines[k].kind = "heading" /\ inner[k] = NoFence
    BY <1>1, <1>7
  <2>2. end[k] = end[k - 1] + 1 /\ read[end[k]] = lines[k] /\ end[k] \in 1..m
    BY <1>3, <1>10, <2>1
  <2> QED BY <1>6, <1>12, <2>1, <2>2
(* A heading of the reader is one of the parser.                           *)
<1>14. ASSUME NEW p \in Headings(read) PROVE \E k \in Headings(lines) : p = end[k]
  <2>1. p \in 1..end[n] /\ p \in 1..m /\ read[p].kind = "heading" /\ after[p] = NoFence
    BY <1>2, <1>6, <1>8
  <2>2. \A k \in 1..n : end[k - 1] <= end[k]
    BY <1>10
  <2>3. PICK k \in 1..n : p \in end[k - 1] + 1 .. end[k]
    BY <1>1, <1>2, <2>1, <2>2, ReaderPlace
  <2>4. end[k] = end[k - 1] + 1 /\ read[end[k]] = lines[k]
    BY <1>10, <2>1, <2>3
  <2>5. p = end[k] /\ k \in 0..n
    BY <1>10, <2>3, <2>4
  <2>6. k \in Headings(lines)
    BY <1>7, <1>12, <2>1, <2>4, <2>5
  <2> QED BY <2>5, <2>6
<1>15. Headings(read) = {end[k] : k \in Headings(lines)}
  BY <1>13, <1>14
<1>16. \A k \in Headings(lines) : k \in 0..n /\ k - 1 \in 0..n
  BY <1>1
<1>17. Headings(read) = {ReaderEnd(lines, k) : k \in Headings(lines)}
  BY <1>9, <1>15, <1>16
<1>18. ASSUME NEW k \in Headings(lines)
       PROVE  /\ read[ReaderEnd(lines, k)] = lines[k]
              /\ ReaderEnd(lines, k) = ReaderEnd(lines, k - 1) + 1
  BY <1>9, <1>13, <1>16
<1> QED BY <1>17, <1>18 DEF read

(* Every line of the text has a line of the reader.                        *)
LEMMA ReaderGrows ==
    ASSUME NEW lines, IsList(lines), HasCuts(lines)
    PROVE  LET n == Len(lines)
               read == ReaderLines(lines)
               end == [k \in 0..n |-> ReaderEnd(lines, k)]
           IN  /\ IsList(read) /\ end[0] = 0 /\ Len(read) = end[n]
               /\ end \in [0..n -> Nat]
               /\ \A k \in 1..n : end[k - 1] < end[k]
<1> DEFINE n == Len(lines)
           read == ReaderLines(lines)
           end == [k \in 0..n |-> ReaderEnd(lines, k)]
<1>1. /\ IsList(read) /\ end[0] = 0 /\ Len(read) = end[n]
      /\ end \in [0..n -> Nat]
      /\ \A k \in 1..n :
            /\ Len(Shown(lines[k])) \in Nat \ {0}
            /\ end[k] = end[k - 1] + Len(Shown(lines[k]))
            /\ end[k] <= end[n]
            /\ \A j \in 1..Len(Shown(lines[k])) :
                  read[end[k - 1] + j] = Shown(lines[k])[j]
  BY ReaderPlaces
<1>2. n \in Nat
  BY ListFacts
<1> HIDE DEF end, read
<1>3. ASSUME NEW k \in 1..n PROVE end[k - 1] < end[k]
  <2>1. end[k - 1] \in Nat
    <3>1. k - 1 \in 0..n
      BY <1>2
    <3> QED BY <1>1, <3>1
  <2> QED BY <1>1, <2>1
<1> QED BY <1>1, <1>3 DEF end, read

(***************************************************************************)
(* Then the reader finds the same section, in its own lines.               *)
(***************************************************************************)
LEMMA ReadAlike ==
    ASSUME NEW lines, IsList(lines), HasCuts(lines), Alike(lines),
           NEW front, NEW shown, NEW name, ExtractSection(lines, front, name).found
    PROVE  LET own == ExtractSection(lines, front, name)
               section == ExtractSection(ReaderLines(lines), shown, name)
           IN  /\ section.found /\ own.end \in 0..Len(lines)
               /\ section.heading = ReaderEnd(lines, own.heading)
               /\ section.end = ReaderEnd(lines, own.end)
<1> DEFINE n == Len(lines)
           read == ReaderLines(lines)
           end == [k \in 0..n |-> ReaderEnd(lines, k)]
           hs == Headings(lines)
           rs == Headings(read)
           found == MatchingHeading(lines, name)
           match == MatchingHeading(read, name)
<1>1. n \in Nat /\ hs \subseteq 1..n
  BY HeadingFacts
<1>2. /\ IsList(read) /\ end[0] = 0 /\ Len(read) = end[n]
      /\ end \in [0..n -> Nat]
      /\ \A k \in 1..n : end[k - 1] < end[k]
  BY ReaderGrows
<1>3. \A k \in 0..n : end[k] = ReaderEnd(lines, k)
  OBVIOUS
<1>4. /\ rs = {ReaderEnd(lines, k) : k \in hs}
      /\ \A k \in hs : /\ read[ReaderEnd(lines, k)] = lines[k]
                        /\ ReaderEnd(lines, k) = ReaderEnd(lines, k - 1) + 1
  BY ReaderHeadings
<1> HIDE DEF end, read
<1>5. /\ rs = {end[k] : k \in hs}
      /\ \A k \in hs : read[end[k]] = lines[k] /\ end[k] = end[k - 1] + 1
  <2>1. \A k \in hs : k \in 0..n /\ k - 1 \in 0..n
    BY <1>1
  <2> HIDE DEF hs, rs
  <2> QED BY <1>3, <1>4, <2>1
<1>6. found = {k \in hs : lines[k].word = name} /\ match = {p \in rs : read[p].word = name}
  BY DEF MatchingHeading
<1> HIDE DEF hs, rs, found, match
<1>7. \A i, j \in 0..n : i <= j => end[i] <= end[j]
  BY <1>1, <1>2, GrowsUpTo
<1>8. match = {end[k] : k \in found}
  BY <1>5, <1>6
<1>9. found # {} /\ found \subseteq Nat /\ found \subseteq hs
  <2>1. ASSUME found = {} PROVE FALSE
    <3>1. ExtractSection(lines, front, name) = [found |-> FALSE]
      BY <2>1 DEF ExtractSection, found
    <3> QED BY <3>1
  <2>2. found \subseteq hs
    BY <1>6
  <2>3. \A k \in hs : k \in Nat
    BY <1>1
  <2> QED BY <2>1, <2>2, <2>3
<1> DEFINE h == Least(found)
<1>10. h \in found /\ \A j \in found : h <= j
  BY <1>9, LeastFacts
<1> HIDE DEF h
<1>11. h \in hs /\ h \in 1..n /\ h \in 0..n
  BY <1>1, <1>9, <1>10
<1>12. Least(match) = end[h]
  <2>1. \A k \in found : k \in 0..n /\ end[k] \in Nat
    BY <1>1, <1>2, <1>9
  <2>2. match \subseteq Nat /\ end[h] \in match
    BY <1>8, <1>10, <2>1
  <2>3. \A p \in match : end[h] <= p
    BY <1>7, <1>8, <1>10, <1>11, <2>1
  <2>4. Least(match) \in match /\ Least(match) <= end[h]
    BY <2>2, LeastFacts
  <2>5. Least(match) \in Nat /\ end[h] \in Nat /\ end[h] <= Least(match)
    BY <2>2, <2>3, <2>4
  <2> HIDE DEF h
  <2> QED BY <2>4, <2>5
(* The ends.                                                               *)
<1> DEFINE after == {k \in hs : k > h /\ lines[k].level <= lines[h].level}
           ends == after \cup {n + 1}
           later == {p \in rs : p > end[h] /\ read[p].level <= read[end[h]].level}
           stops == later \cup {Len(read) + 1}
           e == Least(ends)
<1>13. ends \subseteq 1 .. n + 1 /\ ends \subseteq Nat /\ ends # {}
  <2>1. after \subseteq hs
    OBVIOUS
  <2> HIDE DEF after, n
  <2> QED BY <1>1, <2>1
<1>14. e \in ends /\ \A j \in ends : e <= j
  <2> HIDE DEF ends
  <2> QED BY <1>13, LeastFacts
<1>15. e \in 1 .. n + 1 /\ e - 1 \in 0..n
  <2> HIDE DEF ends, e
  <2> QED BY <1>1, <1>13, <1>14
<1>16. ASSUME NEW k \in hs PROVE end[k] \in later <=> k \in after
  <2>1. k \in 1..n /\ k \in 0..n /\ k - 1 \in 0..n
    BY <1>1
  <2>2. end[k] \in Nat /\ end[h] \in Nat /\ end[k - 1] \in Nat
    BY <1>2, <1>11, <2>1
  <2>3. end[k] \in rs /\ read[end[k]] = lines[k] /\ read[end[h]] = lines[h]
    BY <1>5, <1>11
  <2>4. k > h <=> end[k] > end[h]
    <3>1. CASE k > h
      <4>1. h <= k - 1
        BY <1>11, <2>1, <3>1
      <4>2. end[h] <= end[k - 1] /\ end[k - 1] < end[k]
        BY <1>2, <1>7, <1>11, <2>1, <4>1
      <4> QED BY <2>2, <3>1, <4>2
    <3>2. CASE ~(k > h)
      <4>1. k <= h
        BY <1>11, <2>1, <3>2
      <4>2. end[k] <= end[h]
        BY <1>7, <1>11, <2>1, <4>1
      <4> QED BY <2>2, <3>2, <4>2
    <3> QED BY <3>1, <3>2
  <2> QED BY <2>3, <2>4
<1>17. Least(stops) = end[e - 1] + 1
  <2> HIDE DEF e
  <2>1. end[e - 1] \in Nat /\ end[n] \in Nat
    <3>1. n \in 0..n
      BY <1>1
    <3> QED BY <1>2, <1>15, <3>1
  <2>2. end[e - 1] + 1 \in stops
    <3>1. CASE e = n + 1
      <4>1. e - 1 = n
        BY <1>1, <3>1
      <4> QED BY <1>2, <4>1
    <3>2. CASE e # n + 1
      <4>1. e \in after /\ e \in hs
        BY <1>14, <3>2
      <4>2. end[e] \in later /\ end[e] = end[e - 1] + 1
        BY <1>5, <1>16, <4>1
      <4> QED BY <4>2
    <3> QED BY <3>1, <3>2
  <2>3. ASSUME NEW p \in stops PROVE p \in Nat /\ end[e - 1] + 1 <= p
    <3>1. CASE p = Len(read) + 1
      <4>1. end[e - 1] <= end[n]
        <5>1. n \in 0..n /\ e - 1 <= n
          BY <1>1, <1>15
        <5> QED BY <1>7, <1>15, <5>1
      <4> QED BY <1>2, <2>1, <3>1, <4>1
    <3>2. CASE p \in later
      <4>1. PICK k \in hs : p = end[k]
        BY <1>5, <3>2
      <4>2. k \in after
        BY <1>16, <3>2, <4>1
      <4>3. e <= k /\ k \in 1..n /\ k \in 0..n /\ k - 1 \in 0..n
        BY <1>1, <1>14, <4>1, <4>2
      <4>4. e - 1 <= k - 1
        BY <1>15, <4>3
      <4>5. end[e - 1] <= end[k - 1] /\ end[k] = end[k - 1] + 1
        BY <1>5, <1>7, <1>15, <4>3, <4>4
      <4>6. end[k] \in Nat /\ end[k - 1] \in Nat
        BY <1>2, <4>3
      <4> QED BY <2>1, <4>1, <4>5, <4>6
    <3> QED BY <3>1, <3>2
  <2> HIDE DEF stops
  <2>4. stops \subseteq Nat
    BY <2>3
  <2>5. Least(stops) \in stops /\ Least(stops) <= end[e - 1] + 1
    BY <2>2, <2>4, LeastFacts
  <2>6. Least(stops) \in Nat /\ end[e - 1] + 1 <= Least(stops)
    BY <2>3, <2>5
  <2> QED BY <2>1, <2>5, <2>6
<1>18. SectionEnd(lines, h) = e - 1
  BY DEF SectionEnd, hs
<1>19. SectionEnd(read, end[h]) = Least(stops) - 1
  BY DEF SectionEnd, rs
<1>20. SectionEnd(read, end[h]) = end[e - 1]
  <2>1. end[e - 1] \in Nat
    BY <1>2, <1>15
  <2> HIDE DEF e, stops
  <2> QED BY <1>17, <1>19, <2>1
<1>21. ExtractSection(lines, front, name) =
          [found |-> TRUE, heading |-> h, end |-> e - 1,
           prefix |-> ContextPrefix(lines, front, h)]
  <2> HIDE DEF e
  <2> QED BY <1>9, <1>18 DEF ExtractSection, found, h
<1>22. match # {}
  BY <1>8, <1>10
<1>23. ExtractSection(read, shown, name) =
          [found |-> TRUE, heading |-> end[h], end |-> end[e - 1],
           prefix |-> ContextPrefix(read, shown, end[h])]
  <2> HIDE DEF e
  <2> QED BY <1>12, <1>20, <1>22 DEF ExtractSection, match
<1> HIDE DEF e
<1> DEFINE own == ExtractSection(lines, front, name)
           section == ExtractSection(read, shown, name)
<1>24. own.heading = h /\ own.end = e - 1
  BY <1>21
<1>25. section.found /\ section.heading = end[h] /\ section.end = end[e - 1]
  BY <1>23
<1> HIDE DEF own, section
<1>26. end[h] = ReaderEnd(lines, h) /\ end[e - 1] = ReaderEnd(lines, e - 1)
  BY <1>3, <1>11, <1>15
<1> QED BY <1>15, <1>24, <1>25, <1>26 DEF own, section, read

-----------------------------------------------------------------------------
(* Fences and units. *)

(* A run of lines has no stop after its first line.                        *)
LEMMA RunEndFacts ==
    ASSUME NEW k \in Nat, NEW last \in Nat, k <= last, NEW stops
    PROVE  /\ RunEnd(k, last, stops) \in k..last
           /\ \A i \in k + 1 .. RunEnd(k, last, stops) : i \notin stops
<1> DEFINE S == {j \in k..last : j = last \/ j + 1 \in stops}
           e == Least(S)
<1>1. S \subseteq Nat /\ S # {} /\ S \subseteq k..last
  <2>1. last \in S
    OBVIOUS
  <2> QED BY <2>1
<1>2. e \in S /\ \A j \in S : e <= j
  <2> HIDE DEF S
  <2> QED BY <1>1, LeastFacts
<1>3. RunEnd(k, last, stops) = e
  BY DEF RunEnd
<1>4. e \in k..last
  BY <1>1, <1>2
<1> HIDE DEF e
<1>5. ASSUME NEW i \in k + 1 .. e, i \in stops PROVE FALSE
  <2>1. i - 1 \in k..last /\ (i - 1) + 1 = i
    BY <1>4
  <2>2. i - 1 \in S
    BY <1>5, <2>1
  <2>3. e <= i - 1
    BY <1>2, <2>2
  <2> QED BY <1>4, <2>3
<1> QED BY <1>3, <1>4, <1>5

(* No fence of the lines k to last is read differently by the chunker and  *)
(* by the scan for headings.                                               *)
WellRead(lines, k, last) ==
    \A i \in k..last :
        ~(/\ FenceStates(lines)[i - 1] # NoFence /\ FenceStates(lines)[i] # NoFence
          /\ IsFence(lines[i]) /\ lines[i].mark = FenceStates(lines)[i].mark
          /\ lines[i].length >= FenceStates(lines)[i].length)

(* A unit that is no fence has none.                                       *)
LEMMA PlainUnit ==
    ASSUME NEW lines, NEW last \in Nat, NEW a \in 1..last, ~IsFence(lines[a])
    PROVE  \A i \in a .. UnitEnd(lines, a, last) : ~IsFence(lines[i])
<1> DEFINE table == {j \in a..last : lines[j].kind # "table"}
           other == {j \in a..last : lines[j].kind \in {"blank", "fence", "table"}}
           b == UnitEnd(lines, a, last)
<1>1. b = IF lines[a].kind = "table" THEN RunEnd(a, last, table) ELSE RunEnd(a, last, other)
  BY DEF UnitEnd, IsFence
<1>2. b \in a..last
  BY UnitEndFacts
<1> SUFFICES ASSUME NEW i \in a..b PROVE ~IsFence(lines[i])
  OBVIOUS
<1>3. a \in Nat /\ a <= last /\ i \in a..last
  BY <1>2
<1> HIDE DEF b
<1>4. CASE i = a
  BY <1>4
<1>5. CASE i # a
  <2>1. i \in a + 1 .. b
    BY <1>2, <1>3, <1>5
  <2>2. CASE lines[a].kind = "table"
    <3>1. i \notin table
      <4> HIDE DEF table
      <4> QED BY <1>1, <1>3, <2>1, <2>2, RunEndFacts
    <3> QED BY <1>3, <3>1 DEF IsFence
  <2>3. CASE lines[a].kind # "table"
    <3>1. i \notin other
      <4> HIDE DEF other
      <4> QED BY <1>1, <1>3, <2>1, <2>3, RunEndFacts
    <3> QED BY <1>3, <3>1 DEF IsFence
  <2> QED BY <2>2, <2>3
<1> QED BY <1>4, <1>5

(* A fence that begins outside of all others is open up to its last line.  *)
LEMMA FenceUnit ==
    ASSUME NEW lines, IsBody(lines), NEW last \in 0..Len(lines), NEW a \in 1..last,
           IsFence(lines[a]), FenceStates(lines)[a - 1] = NoFence,
           WellRead(lines, a, last)
    PROVE  LET after == FenceStates(lines)
               b == UnitEnd(lines, a, last)
           IN  /\ \A i \in a .. b - 1 : after[i] # NoFence
               /\ after[b] = NoFence \/ b = last
<1> DEFINE after == FenceStates(lines)
           closing == {j \in a + 1 .. last : Closes(lines[j], lines[a])}
           S == closing \cup {last}
           b == Least(S)
           fence == [mark |-> lines[a].mark, length |-> lines[a].length]
<1>1. Len(lines) \in Nat /\ DOMAIN lines = 1..Len(lines)
  BY ListFacts DEF IsBody
<1>2. /\ after[0] = NoFence
      /\ \A k \in 1..Len(lines) : after[k] = NextFenceState(lines[k], after[k - 1])
  BY FencesAre DEF IsBody
<1> HIDE DEF after
<1>3. last \in Nat /\ a \in 1..Len(lines)
  BY <1>1
<1>4. UnitEnd(lines, a, last) = b
  BY DEF UnitEnd, IsFence, FenceEnd
<1>5. S \subseteq Nat /\ S \subseteq a..last
  BY <1>3
<1>6. b \in S /\ \A j \in S : b <= j
  <2>1. S # {}
    OBVIOUS
  <2> HIDE DEF S
  <2> QED BY <1>5, <2>1, LeastFacts
<1>7. b \in a..last
  <2> HIDE DEF S
  <2> QED BY <1>5, <1>6
<1> HIDE DEF b
<1>8. fence # NoFence
  <2>1. lines[a].length \in Nat \ {0}
    BY <1>1, <1>3 DEF IsBody, IsLine
  <2>2. fence.length # 0 /\ NoFence.length = 0
    BY <2>1 DEF NoFence
  <2> HIDE DEF fence
  <2> QED BY <2>2
<1>9. after[a] = fence
  <2>1. after[a - 1] = NoFence
    BY DEF after
  <2>2. after[a] = NextFenceState(lines[a], after[a - 1])
    BY <1>2, <1>3
  <2> QED BY <2>1, <2>2 DEF NextFenceState
<1>10. \A line : Closes(line, fence) <=> Closes(line, lines[a])
  BY DEF Closes
<1>11. fence.mark = lines[a].mark /\ fence.length = lines[a].length
  OBVIOUS
<1> HIDE DEF fence
<1>12. \A i \in a .. b - 1 : after[i] = fence
  <2> DEFINE n == b - 1 - a
             T == {d \in 0..n : after[a + d] = fence}
  <2>1. CASE b = a
    BY <1>3, <2>1
  <2>2. CASE b # a
    <3>1. n \in Nat
      BY <1>3, <1>7, <2>2
    <3>2. 0 \in T
      <4>1. 0 \in 0..n /\ a + 0 = a
        BY <1>3, <3>1
      <4> QED BY <1>9, <4>1
    <3>3. ASSUME NEW d \in 1..n, d - 1 \in T PROVE d \in T
      <4> DEFINE i == a + d
      <4>1. /\ d \in 0..n /\ i \in 1..Len(lines) /\ i \in a + 1 .. last
            /\ a + (d - 1) = i - 1 /\ i < b
        BY <1>1, <1>3, <1>7, <3>1
      <4>2. after[i - 1] = fence
        BY <3>3, <4>1
      <4>3. ~Closes(lines[i], lines[a])
        <5> SUFFICES ASSUME Closes(lines[i], lines[a]) PROVE FALSE
          OBVIOUS
        <5>1. i \in S
          BY <4>1
        <5>2. b <= i
          BY <1>6, <5>1
        <5> QED BY <1>3, <1>7, <4>1, <5>2
      <4> HIDE DEF i
      <4>4. after[i] = NextFenceState(lines[i], fence)
        BY <1>2, <4>1, <4>2
      <4>5. after[i] = fence
        BY <1>8, <1>10, <4>3, <4>4 DEF NextFenceState
      <4> QED BY <4>1, <4>5 DEF i
    <3> HIDE DEF T
    <3>4. \A d \in 0..n : d \in T
      BY <3>1, <3>2, <3>3, InductionUpTo
    <3>5. ASSUME NEW i \in a .. b - 1 PROVE after[i] = fence
      <4>1. i - a \in 0..n /\ a + (i - a) = i
        BY <1>3, <1>7
      <4>2. i - a \in T
        BY <3>4, <4>1
      <4> QED BY <4>1, <4>2 DEF T
    <3> QED BY <3>5
  <2> QED BY <2>1, <2>2
<1>13. CASE b = last
  BY <1>4, <1>8, <1>12, <1>13 DEF after
<1>14. CASE b # last
  <2>1. b \in closing
    BY <1>6, <1>14
  <2>2. b \in a + 1 .. last /\ Closes(lines[b], lines[a])
    BY <2>1
  <2>3. b - 1 \in a .. b - 1 /\ b \in 1..Len(lines) /\ b \in a..last
    BY <1>1, <1>3, <1>7, <2>2
  <2>4. after[b - 1] = fence
    BY <1>12, <2>3
  <2>5. after[b] = NextFenceState(lines[b], fence)
    BY <1>2, <2>3, <2>4
  <2>6. Closes(lines[b], fence) /\ IsFence(lines[b])
    BY <1>10, <2>2 DEF Closes
  <2>7. after[b] = IF ~lines[b].suffix THEN NoFence ELSE fence
    BY <1>8, <2>5, <2>6 DEF NextFenceState
  <2>8. after[b] = NoFence
    <3> SUFFICES ASSUME after[b] # NoFence PROVE FALSE
      OBVIOUS
    <3>1. after[b] = fence
      BY <2>7
    <3>2. lines[b].mark = fence.mark /\ lines[b].length >= fence.length
      BY <2>6 DEF Closes
    <3>3. /\ after[b - 1] # NoFence /\ after[b] # NoFence /\ IsFence(lines[b])
          /\ lines[b].mark = after[b].mark /\ lines[b].length >= after[b].length
      BY <1>8, <2>4, <2>6, <3>1, <3>2
    <3> QED BY <2>3, <3>3 DEF WellRead, after
  <2> QED BY <1>4, <1>8, <1>12, <2>8 DEF after
<1> QED BY <1>13, <1>14

(* A section begins outside of fences, and ends outside of them unless it  *)
(* ends with the text.                                                     *)
LEMMA SectionEdges ==
    ASSUME NEW lines, IsList(lines), NEW k \in DOMAIN Sections(lines)
    PROVE  /\ FenceStates(lines)[First(lines, k) - 1] = NoFence
           /\ FenceStates(lines)[Final(lines, k)] = NoFence \/ Final(lines, k) = Len(lines)
<1> DEFINE ss == Sections(lines)
           off == IF HasRoot(lines) THEN 1 ELSE 0
           order == Order(lines)
           after == FenceStates(lines)
<1>1. /\ DOMAIN ss = 1..Len(ss) /\ Len(ss) = off + Len(order)
      /\ HasRoot(lines) => ss[1] = RootSection(NextHeading(lines, 0) - 1)
      /\ \A i \in 1..Len(ss) : i > off =>
            /\ i - off \in 1..Len(order)
            /\ ss[i] = HeadingSection(lines, Headings(lines), order[i - off])
  BY SectionFacts
<1>2. /\ Len(lines) \in Nat /\ Headings(lines) \subseteq 1..Len(lines)
      /\ \A i \in 1..Len(order) : order[i] \in Headings(lines)
  BY HeadingFacts
<1>3. k \in 1..Len(ss) /\ Len(order) \in Nat
  BY <1>1, HeadingFacts
<1>4. /\ after[0] = NoFence
      /\ \A i \in 1..Len(lines) : after[i] = NextFenceState(lines[i], after[i - 1])
  BY FencesAre
<1>5. \A h \in Headings(lines) : after[h] = NoFence /\ ~IsFence(lines[h])
  BY DEF Headings, IsFence
<1> HIDE DEF after
<1>6. ASSUME NEW h \in 0..Len(lines)
      PROVE  LET l == NextHeading(lines, h) IN after[l - 1] = NoFence \/ l - 1 = Len(lines)
  <2> DEFINE l == NextHeading(lines, h)
  <2>1. l \in h + 1 .. Len(lines) + 1 /\ (l <= Len(lines) => l \in Headings(lines))
    BY NextHeadingFacts
  <2> HIDE DEF l
  <2>2. CASE l <= Len(lines)
    <3>1. after[l] = NextFenceState(lines[l], after[l - 1])
      BY <1>2, <1>4, <2>1, <2>2
    <3> QED BY <1>5, <2>1, <2>2, <3>1 DEF NextFenceState, l
  <2>3. CASE ~(l <= Len(lines))
    BY <1>2, <2>1, <2>3 DEF l
  <2> QED BY <2>2, <2>3
<1>7. \E h \in 0..Len(lines) :
         /\ after[h] = NoFence
         /\ ss[k].first = h + 1 /\ ss[k].last = NextHeading(lines, h) - 1
  <2>1. CASE k > off
    <3> DEFINE h == order[k - off]
    <3>1. h \in Headings(lines) /\ ss[k] = HeadingSection(lines, Headings(lines), h)
      BY <1>1, <1>2, <1>3, <2>1
    <3> HIDE DEF h, ss
    <3>2. ss[k].first = h + 1 /\ ss[k].last = NextHeading(lines, h) - 1
      BY <3>1 DEF HeadingSection, NextHeading
    <3>3. h \in 0..Len(lines) /\ after[h] = NoFence
      BY <1>2, <1>5, <3>1
    <3> QED BY <3>2, <3>3
  <2>2. CASE ~(k > off)
    <3>1. k = 1 /\ HasRoot(lines)
      BY <1>1, <1>3, <2>2
    <3>2. ss[k].first = 1 /\ ss[k].last = NextHeading(lines, 0) - 1
      BY <1>1, <3>1 DEF RootSection
    <3> HIDE DEF ss
    <3>3. 0 \in 0..Len(lines) /\ 0 + 1 = 1
      BY <1>2
    <3> QED BY <1>4, <3>2, <3>3
  <2> QED BY <2>1, <2>2
<1> HIDE DEF ss
<1>8. PICK h \in 0..Len(lines) :
         /\ after[h] = NoFence
         /\ ss[k].first = h + 1 /\ ss[k].last = NextHeading(lines, h) - 1
  BY <1>7
<1>9. First(lines, k) - 1 = h /\ Final(lines, k) = NextHeading(lines, h) - 1
  BY <1>2, <1>8 DEF First, Final, ss
<1> QED BY <1>6, <1>8, <1>9 DEF after

(* Where nothing is misread, every unit begins outside of fences.          *)
LEMMA UnitsOutside ==
    ASSUME NEW lines, IsBody(lines), NEW first \in Nat \ {0}, NEW last \in 0..Len(lines),
           FenceStates(lines)[first - 1] = NoFence, WellRead(lines, first, last),
           NEW us, Len(us) \in Nat, NEW st, AreUnits(us, st, lines, first, last)
    PROVE  \A u \in 1..Len(us) : FenceStates(lines)[st[u] - 1] = NoFence
<1> DEFINE after == FenceStates(lines)
           n == Len(us)
           end(u) == UnitEnd(lines, st[u], last)
           Q(i) == i >= first /\ i < last /\ after[i] # NoFence =>
                      \E u \in 1..n : st[u] <= i /\ i < end(u)
           T == {i \in 0..last : \A j \in 0..i : Q(j)}
<1>1. Len(lines) \in Nat /\ DOMAIN lines = 1..Len(lines) /\ last \in Nat
  BY ListFacts DEF IsBody
<1>2. /\ after[0] = NoFence
      /\ \A i \in 1..Len(lines) : after[i] = NextFenceState(lines[i], after[i - 1])
  BY FencesAre DEF IsBody
<1>3. ASSUME NEW u \in 1..n
      PROVE  st[u] \in first..last /\ st[u] \in 1..last /\ end(u) \in st[u]..last
  <2>1. st[u] \in first..last
    BY DEF AreUnits
  <2>2. st[u] \in 1..last
    BY <1>1, <2>1
  <2> QED BY <1>1, <2>1, <2>2, UnitEndFacts
<1>4. /\ \A u, v \in 1..n : u < v => end(u) < st[v]
      /\ \A i \in first..last : ~IsBlank(lines[i]) => \E u \in 1..n : i \in st[u] .. end(u)
  BY DEF AreUnits
<1> HIDE DEF after, end
<1>5. ASSUME NEW u \in 1..n, NEW v \in 1..n, st[v] <= st[u] - 1, st[u] - 1 < end(v)
      PROVE  FALSE
  <2>1. st[u] \in Int /\ st[v] \in Int /\ end(u) \in Int /\ end(v) \in Int
        /\ st[u] <= end(u) /\ st[u] <= end(v)
    <3>1. st[u] \in Int /\ st[v] \in Int /\ end(u) \in Int /\ end(v) \in Int /\ st[u] <= end(u)
      BY <1>1, <1>3
    <3> QED BY <1>5, <3>1
  <2>2. u < v \/ u = v \/ v < u
    OBVIOUS
  <2>3. CASE u < v
    <3>1. end(u) < st[v]
      BY <1>4, <2>3
    <3> QED BY <1>5, <2>1, <3>1
  <2>4. CASE u = v
    BY <1>5, <2>1, <2>4
  <2>5. CASE v < u
    <3>1. end(v) < st[u]
      BY <1>4, <2>5
    <3> QED BY <2>1, <3>1
  <2> QED BY <2>2, <2>3, <2>4, <2>5
<1>6. ASSUME NEW u \in 1..n, NEW i \in 0..last, i >= st[u] - 1, \A j \in 0..i : Q(j)
      PROVE  after[st[u] - 1] = NoFence
  <2> SUFFICES ASSUME after[st[u] - 1] # NoFence PROVE FALSE
    OBVIOUS
  <2> DEFINE j == st[u] - 1
  <2>1. j \in 0..i /\ j >= first - 1 /\ j < last /\ j \in Int
    BY <1>1, <1>3, <1>6
  <2>2. j # first - 1
    BY DEF after
  <2>3. j >= first
    BY <2>1, <2>2
  <2>4. PICK v \in 1..n : st[v] <= j /\ j < end(v)
    BY <1>6, <2>1, <2>3
  <2> QED BY <1>5, <2>4
<1>7. ASSUME NEW u \in 1..n, after[st[u] - 1] = NoFence
      PROVE  after[end(u)] = NoFence \/ end(u) = last
  <2> DEFINE a == st[u]
  <2>1. a \in 1..last /\ a \in first..last /\ a \in 1..Len(lines)
    BY <1>1, <1>3
  <2> HIDE DEF a
  <2>2. CASE IsFence(lines[a])
    <3>1. WellRead(lines, a, last)
      BY <2>1 DEF WellRead
    <3>2. FenceStates(lines)[a - 1] = NoFence
      BY <1>7 DEF a, after
    <3> QED BY <2>1, <2>2, <3>1, <3>2, FenceUnit DEF a, after, end
  <2>3. CASE ~IsFence(lines[a])
    <3> DEFINE b == UnitEnd(lines, a, last)
               m == b - a + 1
               Y == {d \in 0..m : after[a - 1 + d] = NoFence}
    <3>1. b \in a..last
      BY <1>1, <2>1, UnitEndFacts
    <3>2. \A i \in a..b : ~IsFence(lines[i])
      BY <1>1, <2>1, <2>3, PlainUnit
    <3> HIDE DEF b
    <3>3. m \in Nat /\ a \in Nat /\ a - 1 + m = b
      BY <1>1, <2>1, <3>1
    <3>4. 0 \in Y
      <4>1. 0 \in 0..m /\ a - 1 + 0 = a - 1
        BY <3>3
      <4> QED BY <1>7, <4>1 DEF a
    <3>5. ASSUME NEW d \in 1..m, d - 1 \in Y PROVE d \in Y
      <4> DEFINE i == a - 1 + d
      <4>1. d \in 0..m /\ i \in a..b /\ i \in 1..Len(lines) /\ a - 1 + (d - 1) = i - 1
        BY <1>1, <2>1, <3>1, <3>3
      <4> HIDE DEF i, m
      <4>2. after[i] = NextFenceState(lines[i], after[i - 1])
        BY <1>2, <4>1
      <4>3. after[i - 1] = NoFence
        BY <3>5, <4>1
      <4> QED BY <3>2, <4>1, <4>2, <4>3 DEF NextFenceState, i
    <3>6. m \in Y
      <4> HIDE DEF Y
      <4>1. \A d \in 0..m : d \in Y
        <5> HIDE DEF m
        <5> QED BY <3>3, <3>4, <3>5, InductionUpTo
      <4>2. m \in 0..m
        BY <3>3
      <4> QED BY <4>1, <4>2
    <3>7. after[b] = NoFence
      BY <3>3, <3>6
    <3> QED BY <3>7 DEF a, b, end
  <2> QED BY <2>2, <2>3
<1>8. 0 \in T
  <2>1. Q(0)
    OBVIOUS
  <2>2. \A j \in 0..0 : j = 0
    OBVIOUS
  <2>3. 0 \in 0..last
    BY <1>1
  <2> HIDE DEF Q
  <2> QED BY <2>1, <2>2, <2>3
<1>9. ASSUME NEW i \in 1..last, i - 1 \in T PROVE i \in T
  <2>1. i \in 0..last /\ i - 1 \in 0..last /\ i \in 1..Len(lines) /\ i \in Int
    BY <1>1
  <2>2. \A j \in 0 .. i - 1 : Q(j)
    BY <1>9
  <2>3. Q(i)
    <3> SUFFICES ASSUME i >= first, i < last, after[i] # NoFence
                 PROVE  \E u \in 1..n : st[u] <= i /\ i < end(u)
      OBVIOUS
    <3>1. CASE \E u \in 1..n : i \in st[u] .. end(u)
      <4>1. PICK u \in 1..n : i \in st[u] .. end(u)
        BY <3>1
      <4>2. i - 1 >= st[u] - 1 /\ st[u] \in Int /\ end(u) \in Int
        BY <1>1, <1>3, <2>1, <4>1
      <4> HIDE DEF Q
      <4>3. after[st[u] - 1] = NoFence
        BY <1>6, <2>1, <2>2, <4>2
      <4>4. after[end(u)] = NoFence \/ end(u) = last
        BY <1>7, <4>3
      <4>5. i # end(u)
        BY <4>4
      <4> QED BY <2>1, <4>1, <4>2, <4>5
    <3>2. CASE ~\E u \in 1..n : i \in st[u] .. end(u)
      <4>1. i \in first..last
        BY <2>1
      <4>2. IsBlank(lines[i])
        BY <1>4, <3>2, <4>1
      <4>3. after[i] = NextFenceState(lines[i], after[i - 1])
        BY <1>2, <2>1
      <4>4. after[i - 1] # NoFence
        BY <4>2, <4>3 DEF NextFenceState, IsBlank, IsFence
      <4>5. i # first
        BY <4>4 DEF after
      <4>6. i - 1 >= first /\ i - 1 < last /\ i - 1 \in 0 .. i - 1
        BY <2>1, <4>5
      <4>7. PICK u \in 1..n : st[u] <= i - 1 /\ i - 1 < end(u)
        BY <2>2, <4>4, <4>6
      <4>8. i \in st[u] .. end(u)
        BY <1>1, <1>3, <2>1, <4>7
      <4> QED BY <3>2, <4>8
    <3> QED BY <3>1, <3>2
  <2>4. \A j \in 0..i : j \in 0 .. i - 1 \/ j = i
    BY <2>1
  <2> HIDE DEF Q
  <2> QED BY <2>1, <2>2, <2>3, <2>4
<1>10. \A i \in 0..last : i \in T
  <2> HIDE DEF T
  <2> QED BY <1>1, <1>8, <1>9, InductionUpTo
<1>11. ASSUME NEW u \in 1..n PROVE after[st[u] - 1] = NoFence
  <2>1. last \in 0..last /\ last >= st[u] - 1
    BY <1>1, <1>3
  <2>2. last \in T
    BY <1>10, <2>1
  <2>3. \A j \in 0..last : Q(j)
    BY <2>2
  <2> HIDE DEF Q
  <2> QED BY <1>6, <2>1, <2>3
<1> QED BY <1>11 DEF after

(* The fence k to j is a unit of its section.                              *)
LEMMA FenceIsUnit ==
    ASSUME NEW lines, IsBody(lines), NEW s \in DOMAIN Sections(lines),
           WellRead(lines, First(lines, s), Final(lines, s)),
           NEW us, Len(us) \in Nat, NEW st,
           AreUnits(us, st, lines, First(lines, s), Final(lines, s)),
           NEW k \in DOMAIN lines, NEW j \in DOMAIN lines, k <= j,
           LET after == FenceStates(lines) IN
           /\ after[k - 1] = NoFence /\ after[k] # NoFence
           /\ \A i \in k .. j - 1 : after[i] # NoFence
           /\ after[j] = NoFence \/ j = Len(lines),
           NEW u \in 1..Len(us), k \in st[u] .. UnitEnd(lines, st[u], Final(lines, s))
    PROVE  us[u] = Span(lines, k, j)
<1> DEFINE after == FenceStates(lines)
           first == First(lines, s)
           last == Final(lines, s)
           a == st[u]
           b == UnitEnd(lines, a, last)
<1>1. Len(lines) \in Nat /\ DOMAIN lines = 1..Len(lines)
  BY ListFacts DEF IsBody
<1>2. first \in 1 .. Len(lines) + 1 /\ last \in 0..Len(lines)
  BY SectionBounds DEF First, Final, IsBody
<1>3. after[first - 1] = NoFence /\ (after[last] = NoFence \/ last = Len(lines))
  BY SectionEdges DEF IsBody
<1>4. WellRead(lines, first, last) /\ AreUnits(us, st, lines, first, last)
  OBVIOUS
<1>5. \A i \in 1..Len(lines) : after[i] = NextFenceState(lines[i], after[i - 1])
  BY FencesAre DEF IsBody
<1> HIDE DEF first, last
<1>6. after[a - 1] = NoFence
  <2>1. first \in Nat \ {0}
    BY <1>1, <1>2
  <2> QED BY <1>2, <1>3, <1>4, <2>1, UnitsOutside
<1>7. a \in first..last /\ us[u] = Span(lines, a, b)
  BY <1>4 DEF AreUnits
<1>8. k \in a..b
  BY DEF last
<1> HIDE DEF a, b
<1>9. a \in 1..last /\ last \in Nat /\ a \in 1..Len(lines)
  BY <1>1, <1>2, <1>7
<1>10. b \in a..last
  BY <1>9, UnitEndFacts DEF b
<1>11. IsFence(lines[k])
  <2>1. after[k] = NextFenceState(lines[k], after[k - 1])
    BY <1>1, <1>5
  <2> QED BY <2>1 DEF NextFenceState
<1>12. IsFence(lines[a])
  <2> SUFFICES ASSUME ~IsFence(lines[a]) PROVE FALSE
    OBVIOUS
  <2> QED BY <1>8, <1>9, <1>11, PlainUnit DEF b
<1>13. /\ \A i \in a .. b - 1 : after[i] # NoFence
       /\ after[b] = NoFence \/ b = last
  <2>1. WellRead(lines, a, last)
    BY <1>2, <1>4, <1>7 DEF WellRead
  <2> QED BY <1>2, <1>6, <1>9, <1>12, <2>1, FenceUnit DEF b
<1>14. k = a
  <2> SUFFICES ASSUME k # a PROVE FALSE
    OBVIOUS
  <2>1. k - 1 \in a .. b - 1
    BY <1>8, <1>9, <1>10
  <2> QED BY <1>13, <2>1
<1>15. after[b] = NoFence \/ b = Len(lines)
  BY <1>3, <1>13
<1>16. b = j
  <2>1. b \in 1..Len(lines) /\ j \in 1..Len(lines) /\ k \in 1..Len(lines) /\ k <= b
    BY <1>1, <1>2, <1>8, <1>9, <1>10
  <2>2. ~(b < j)
    <3> SUFFICES ASSUME b < j PROVE FALSE
      OBVIOUS
    <3>1. b \in k .. j - 1
      BY <2>1
    <3> QED BY <1>15, <2>1, <3>1
  <2>3. ~(j < b)
    <3> SUFFICES ASSUME j < b PROVE FALSE
      OBVIOUS
    <3>1. j \in a .. b - 1 /\ j # Len(lines)
      BY <1>14, <2>1
    <3> QED BY <1>13, <3>1
  <2> QED BY <2>1, <2>2, <2>3
<1> QED BY <1>7, <1>14, <1>16

(* A line that is in a text whole is in it once.                           *)
LEMMA ToldOnce ==
    ASSUME NEW t \in Seq(PieceSet), NEW lines, NEW K, K \subseteq Nat, Tells(t, lines, K),
           \A i \in 1..Len(t) : Size(t[i]) > 0,
           NEW p \in 1..Len(t), NEW q \in 1..Len(t), t[p].line = t[q].line,
           t[p].from = 0, t[p].to = lines[t[p].line].size
    PROVE  p = q
<1> DEFINE n == Len(t)
           l == t[p].line
           size == lines[l].size
<1>1. n \in Nat /\ \A i \in 1..n : t[i] \in PieceSet
  BY LenProperties, ElementOfSeq
<1>2. \A i \in 1..n : t[i].line \in Nat /\ t[i].from \in Nat /\ t[i].to \in Nat
                      /\ t[i].to > t[i].from
  <2> SUFFICES ASSUME NEW i \in 1..n
               PROVE  t[i].line \in Nat /\ t[i].from \in Nat /\ t[i].to \in Nat
                      /\ t[i].to > t[i].from
    OBVIOUS
  <2>1. t[i].line \in Nat /\ t[i].from \in Nat /\ t[i].to \in Nat
    BY <1>1 DEF PieceSet
  <2>2. t[i].to - t[i].from > 0
    BY DEF Size
  <2> QED BY <2>1, <2>2
<1>3. /\ \A i \in 1..n : i > 1 => t[i - 1].line <= t[i].line
      /\ \A i \in 1..n : i > 1 /\ t[i - 1].line = t[i].line => t[i].from = t[i - 1].to
      /\ \A i \in 1..n : ~(i < n /\ t[i + 1].line = t[i].line) =>
            t[i].to = lines[t[i].line].size
  BY DEF Tells
<1>4. ASSUME NEW i \in 1..n PROVE \A j \in i..n : t[i].line <= t[j].line
  <2> DEFINE m == n - i
             T == {d \in 0..m : t[i].line <= t[i + d].line}
  <2>1. m \in Nat
    BY <1>1
  <2>2. 0 \in T
    <3>1. 0 \in 0..m /\ i + 0 = i
      BY <1>1, <2>1
    <3> QED BY <1>2, <3>1
  <2>3. ASSUME NEW d \in 1..m, d - 1 \in T PROVE d \in T
    <3> DEFINE j == i + d
    <3>1. d \in 0..m /\ j \in 1..n /\ j - 1 \in 1..n /\ j > 1 /\ i + (d - 1) = j - 1
      BY <1>1, <2>1
    <3> HIDE DEF j, m
    <3>2. t[i].line <= t[j - 1].line /\ t[j - 1].line <= t[j].line
      BY <1>3, <2>3, <3>1
    <3>3. t[i].line \in Nat /\ t[j - 1].line \in Nat /\ t[j].line \in Nat
      BY <1>2, <3>1
    <3>4. t[i].line <= t[j].line
      BY <3>2, <3>3, SMTT(20)
    <3> QED BY <3>1, <3>4 DEF j
  <2> HIDE DEF T
  <2>4. \A d \in 0..m : d \in T
    <3> HIDE DEF m
    <3> QED BY <2>1, <2>2, <2>3, InductionUpTo
  <2> SUFFICES ASSUME NEW j \in i..n PROVE t[i].line <= t[j].line
    OBVIOUS
  <2>5. j - i \in 0..m /\ i + (j - i) = j
    BY <1>1
  <2>6. j - i \in T
    BY <2>4, <2>5
  <2> QED BY <2>5, <2>6 DEF T
<1>5. ~(q < p)
  <2> SUFFICES ASSUME q < p PROVE FALSE
    OBVIOUS
  <2>1. p > 1 /\ p - 1 \in q..n /\ p - 1 \in 1..n /\ p \in p - 1 .. n
    BY <1>1
  <2>2. t[q].line <= t[p - 1].line /\ t[p - 1].line <= t[p].line
    BY <1>4, <2>1
  <2>3. t[p - 1].line = t[p].line
    BY <1>2, <2>1, <2>2
  <2>4. t[p].from = t[p - 1].to
    BY <1>3, <2>1, <2>3
  <2> QED BY <1>2, <2>1, <2>4
<1>6. ~(p < q)
  <2> SUFFICES ASSUME p < q PROVE FALSE
    OBVIOUS
  <2> DEFINE S == {i \in 1..n : t[i].line = l}
  <2>1. q \in S /\ S \subseteq 0..n /\ S # {}
    BY <1>1
  <2>2. PICK g \in S : \A i \in S : i <= g
    <3> HIDE DEF S, n
    <3> QED BY <1>1, <2>1, GreatestNumber
  <2>3. g \in 1..n /\ t[g].line = l /\ q <= g
    BY <2>1, <2>2
  <2>4. t[g].to = size
    <3> SUFFICES ASSUME g < n, t[g + 1].line = t[g].line PROVE FALSE
      BY <1>3, <2>3
    <3>1. g + 1 \in S
      BY <1>1, <2>3
    <3>2. g + 1 <= g
      BY <2>2, <3>1
    <3> QED BY <2>3, <3>2
  <2>5. \A i \in p..g : t[i].line = l
    <3> SUFFICES ASSUME NEW i \in p..g PROVE t[i].line = l
      OBVIOUS
    <3>1. i \in p..n /\ g \in i..n /\ i \in 1..n
      BY <1>1, <2>3
    <3>2. t[p].line <= t[i].line /\ t[i].line <= t[g].line
      BY <1>4, <3>1
    <3> QED BY <1>2, <2>3, <3>1, <3>2
  <2> DEFINE m == g - p
             T == {d \in 0..m : d > 0 => t[p + d].to > t[p].to}
  <2>6. m \in Nat /\ m > 0 /\ p + m = g
    BY <1>1, <2>3
  <2>7. 0 \in T
    BY <2>6
  <2>8. ASSUME NEW d \in 1..m, d - 1 \in T PROVE d \in T
    <3> DEFINE i == p + d
    <3>1. d \in 0..m /\ i \in p..g /\ i - 1 \in p..g /\ i \in 1..n /\ i - 1 \in 1..n
          /\ i > 1 /\ p + (d - 1) = i - 1
      BY <1>1, <2>3, <2>6
    <3>2. t[i].from = t[i - 1].to
      <4> HIDE DEF i, l
      <4> QED BY <1>3, <2>5, <3>1
    <3>3. t[i - 1].to >= t[p].to
      <4>1. CASE d = 1
        <5>1. i - 1 = p
          BY <4>1
        <5> QED BY <1>2, <5>1
      <4>2. CASE d # 1
        <5>1. d - 1 > 0
          BY <4>2
        <5>2. t[p + (d - 1)].to > t[p].to
          BY <2>8, <5>1
        <5>3. t[i - 1].to > t[p].to
          BY <3>1, <5>2
        <5> HIDE DEF i
        <5> QED BY <1>2, <3>1, <5>3
      <4> QED BY <4>1, <4>2
    <3> HIDE DEF i, m
    <3>4. t[i].to > t[p].to
      <4>1. /\ t[i].to \in Nat /\ t[i].from \in Nat /\ t[i].to > t[i].from
            /\ t[i - 1].to \in Nat /\ t[p].to \in Nat
        BY <1>2, <3>1
      <4> QED BY <3>2, <3>3, <4>1
    <3> QED BY <3>1, <3>4 DEF i
  <2>9. m \in T
    <3> HIDE DEF T
    <3>1. \A d \in 0..m : d \in T
      <4> HIDE DEF m
      <4> QED BY <2>6, <2>7, <2>8, InductionUpTo
    <3>2. m \in 0..m
      BY <2>6
    <3> QED BY <3>1, <3>2
  <2>10. t[g].to > t[p].to
    BY <2>6, <2>9
  <2>11. t[g].to \in Nat /\ t[g].to = t[p].to
    BY <1>2, <2>3, <2>4
  <2> QED BY <2>10, <2>11
<1> QED BY <1>1, <1>5, <1>6

LEMMA KeptElements ==
    ASSUME NEW text \in Seq(PieceSet), NEW k \in 1..Len(text), Size(text[k]) > 0
    PROVE  \E p \in 1..Len(Kept(text)) : Kept(text)[p] = text[k]
<1> DEFINE K == {m \in DOMAIN text : Size(text[m]) > 0}
<1>1. k \in K \cap DOMAIN text
  BY LenProperties
<1>2. Kept(text) = At(text, K)
  BY DEF Kept
<1> HIDE DEF K
<1>3. DOMAIN At(text, K) = 1..Len(At(text, K))
  BY AtElements
<1>4. \E p \in DOMAIN At(text, K) : At(text, K)[p] = text[k]
  BY <1>1, AtElements
<1> QED BY <1>2, <1>3, <1>4
=============================================================================
