----------------------------- MODULE ListsProofs -----------------------------
(***************************************************************************)
(* Lemmas about lists that the proofs of several components cite: the      *)
(* induction they rest on, what recursive functions on the prefixes of a   *)
(* sequence are, and what the selected, joined and flattened sequences     *)
(* consist of.                                                             *)
(***************************************************************************)
EXTENDS Lists, FiniteSetTheorems, SequenceTheorems, WellFoundedInduction, TLAPS

-----------------------------------------------------------------------------
(* Induction.  The well-foundedness of the natural numbers, a theorem of   *)
(* the library, stated for sets.                                           *)

LEMMA NaturalOrder ==
    \E R : /\ IsWellFoundedOn(R, Nat)
           /\ \A m, n \in Nat : <<m, n>> \in R <=> m < n
<1> DEFINE R == OpToRel(<, Nat)
<1>1. IsWellFoundedOn(R, Nat)
  BY NatLessThanWellFounded
<1>2. \A m, n \in Nat : <<m, n>> \in R <=> m < n
  BY DEF OpToRel
<1> HIDE DEF R
<1> QED BY <1>1, <1>2

LEMMA LeastNumber ==
    ASSUME NEW T, T \subseteq Nat, T # {}
    PROVE  \E n \in T : \A m \in T : n <= m
<1>1. PICK R : /\ IsWellFoundedOn(R, Nat)
               /\ \A m, n \in Nat : <<m, n>> \in R <=> m < n
  BY NaturalOrder
<1>2. IsWellFoundedOn(R, Nat)
  BY <1>1
<1>3. \E n \in T : \A m \in T : ~ (<<m, n>> \in R)
  BY <1>2, WFMin
<1>4. PICK n \in T : \A m \in T : ~ (<<m, n>> \in R)
  BY <1>3
<1>5. \A m \in T : ~ (m < n)
  BY <1>1, <1>4
<1>6. \A m \in T : n <= m
  BY <1>5
<1> QED BY <1>6

(* Of a set of numbers up to n.                                            *)
LEMMA GreatestNumber ==
    ASSUME NEW n \in Nat, NEW T, T \subseteq 0..n, T # {}
    PROVE  \E k \in T : \A j \in T : j <= k
<1> DEFINE U == {m \in 0..n : n - m \in T}
<1>1. U \subseteq Nat
  OBVIOUS
<1>2. U # {}
  <2>1. PICK j \in T : TRUE
    OBVIOUS
  <2>2. j \in 0..n
    BY <2>1
  <2>3. n - j \in 0..n /\ n - (n - j) = j
    BY <2>2
  <2> QED BY <2>1, <2>3
<1>3. PICK m \in U : \A l \in U : m <= l
  <2> HIDE DEF U
  <2> QED BY <1>1, <1>2, LeastNumber
<1>4. ASSUME NEW j \in T PROVE j <= n - m
  <2>1. j \in 0..n /\ m \in 0..n
    OBVIOUS
  <2>2. n - j \in 0..n /\ n - (n - j) = j
    BY <2>1
  <2>3. n - j \in U
    BY <2>2
  <2>4. m <= n - j
    BY <1>3, <2>3
  <2> QED BY <2>1, <2>4
<1>5. n - m \in T
  OBVIOUS
<1> QED BY <1>4, <1>5

LEMMA Induction ==
    ASSUME NEW T, 0 \in T, \A n \in Nat : n \in T => n + 1 \in T
    PROVE  \A n \in Nat : n \in T
<1> DEFINE Out == Nat \ T
<1> SUFFICES ASSUME Out # {} PROVE FALSE
  OBVIOUS
<1>1. PICK n \in Out : \A m \in Out : n <= m
  BY LeastNumber
<1>2. n \in Nat \ {0}
  OBVIOUS
<1>3. n - 1 \in Nat /\ ~ (n <= n - 1)
  BY <1>2
<1>4. n - 1 \in T
  BY <1>1, <1>3
<1>5. (n - 1) + 1 \in T
  BY <1>3, <1>4
<1> QED BY <1>5

(* Induction up to n. *)
LEMMA InductionUpTo ==
    ASSUME NEW n \in Nat, NEW T, 0 \in T,
           \A i \in 1..n : i - 1 \in T => i \in T
    PROVE  \A i \in 0..n : i \in T
<1> DEFINE U == {i \in Nat : i <= n => i \in T}
<1>1. 0 \in U
  OBVIOUS
<1>2. ASSUME NEW i \in Nat, i \in U PROVE i + 1 \in U
  <2> SUFFICES ASSUME i + 1 <= n PROVE i + 1 \in T
    OBVIOUS
  <2>1. i + 1 \in 1..n /\ (i + 1) - 1 = i /\ i <= n
    OBVIOUS
  <2> QED BY <1>2, <2>1
<1>3. \A i \in Nat : i \in U
  <2> HIDE DEF U
  <2> QED BY <1>1, <1>2, Induction
<1> QED BY <1>3

(***************************************************************************)
(* A function defined along 0..n by recursion exists: what it is at i is   *)
(* step[i] of what it is at i - 1.                                         *)
(***************************************************************************)
Along(f, n, base, step) ==
    f[0] = base /\ \A i \in 1..n : f[i] = step[i][f[i - 1]]
Stays(step, n, S) == \A i \in 1..n, v \in S : step[i][v] \in S

LEMMA Recursion ==
    ASSUME NEW n \in Nat, NEW S, NEW base \in S, NEW step, Stays(step, n, S)
    PROVE  \E f \in [0..n -> S] : Along(f, n, base, step)
<1> USE DEF Along, Stays
<1> DEFINE Steps(f, k) ==
               /\ f \in [0..k -> S] /\ f[0] = base
               /\ \A i \in 1..k : f[i] = step[i][f[i - 1]]
           T == {k \in 0..n : \E f : Steps(f, k)}
<1>1. 0 \in T
  <2>1. Steps([i \in 0..0 |-> base], 0) /\ 0 \in 0..n
    OBVIOUS
  <2>2. \E f : Steps(f, 0)
    <3> HIDE DEF Steps
    <3> QED BY <2>1
  <2> QED BY <2>1, <2>2
<1>2. ASSUME NEW k \in 1..n, k - 1 \in T PROVE k \in T
  <2>1. PICK g : Steps(g, k - 1)
    BY <1>2
  <2> DEFINE last == step[k][g[k - 1]]
             h == [i \in 0..k |-> IF i = k THEN last ELSE g[i]]
  <2>2. k - 1 \in 0..(k - 1) /\ 0..k = 0..(k - 1) \cup {k}
    OBVIOUS
  <2>3. last \in S
    BY <2>1, <2>2
  <2> HIDE DEF last
  <2>4. h \in [0..k -> S]
    BY <2>1, <2>2, <2>3
  <2>5. h[k] = last /\ \A i \in 0..(k - 1) : h[i] = g[i]
    OBVIOUS
  <2> HIDE DEF h
  <2>6. h[0] = base
    BY <2>1, <2>5
  <2>7. ASSUME NEW i \in 1..k PROVE h[i] = step[i][h[i - 1]]
    <3>1. CASE i = k
      BY <2>2, <2>5, <3>1 DEF last
    <3>2. CASE i # k
      <4>1. i \in 1..(k - 1) /\ i - 1 \in 0..(k - 1) /\ i \in 0..(k - 1)
        BY <3>2
      <4> QED BY <2>1, <2>5, <4>1
    <3> QED BY <3>1, <3>2
  <2>8. Steps(h, k)
    BY <2>4, <2>6, <2>7
  <2> QED BY <2>8
<1>3. n \in T
  <2> HIDE DEF T
  <2> QED BY <1>1, <1>2, InductionUpTo
<1> QED BY <1>3

-----------------------------------------------------------------------------
(* Sequences.                                                              *)

LEMMA FunctionIsSeq ==
    ASSUME NEW S, NEW n \in Nat, NEW f \in [1..n -> S]
    PROVE  f \in Seq(S) /\ Len(f) = n
OBVIOUS

LEMMA ListFacts ==
    ASSUME NEW s, IsList(s)
    PROVE  /\ s \in Seq(ToSet(s)) /\ Len(s) \in Nat /\ DOMAIN s = 1..Len(s)
           /\ \A i \in 1..Len(s) : s[i] \in ToSet(s)
<1>1. s \in Seq(ToSet(s))
  BY DEF IsList
<1> QED BY <1>1, LenProperties, ElementOfSeq

LEMMA ConcatElements ==
    ASSUME NEW S, NEW s \in Seq(S), NEW t \in Seq(S)
    PROVE  ToSet(s \o t) = ToSet(s) \cup ToSet(t)
<1> DEFINE u == s \o t
<1>1. /\ Len(s) \in Nat /\ Len(t) \in Nat
      /\ DOMAIN s = 1..Len(s) /\ DOMAIN t = 1..Len(t)
  BY LenProperties
<1>2. /\ u \in Seq(S) /\ Len(u) = Len(s) + Len(t)
      /\ \A i \in 1..Len(s) + Len(t) : u[i] = IF i <= Len(s) THEN s[i] ELSE t[i - Len(s)]
  BY ConcatProperties
<1> HIDE DEF u
<1>3. DOMAIN u = 1..Len(s) + Len(t)
  BY <1>2, LenProperties
<1>4. ASSUME NEW i \in DOMAIN u PROVE u[i] \in ToSet(s) \cup ToSet(t)
  <2>1. CASE i <= Len(s)
    BY <1>1, <1>2, <1>3, <2>1 DEF ToSet
  <2>2. CASE ~(i <= Len(s))
    <3>1. i - Len(s) \in DOMAIN t
      BY <1>1, <1>3, <2>2
    <3> QED BY <1>2, <1>3, <2>2, <3>1 DEF ToSet
  <2> QED BY <2>1, <2>2
<1>5. ASSUME NEW i \in DOMAIN s PROVE s[i] \in ToSet(u)
  <2>1. i \in DOMAIN u /\ u[i] = s[i]
    BY <1>1, <1>2, <1>3
  <2> QED BY <2>1 DEF ToSet
<1>6. ASSUME NEW i \in DOMAIN t PROVE t[i] \in ToSet(u)
  <2>1. Len(s) + i \in DOMAIN u /\ ~(Len(s) + i <= Len(s)) /\ (Len(s) + i) - Len(s) = i
    BY <1>1, <1>3
  <2>2. u[Len(s) + i] = t[i]
    BY <1>2, <1>3, <2>1
  <2> QED BY <2>1, <2>2 DEF ToSet
<1>7. ToSet(u) = ToSet(s) \cup ToSet(t)
  BY <1>4, <1>5, <1>6 DEF ToSet
<1> QED BY <1>7 DEF u

-----------------------------------------------------------------------------
(* Selected elements.                                                      *)

(* A function defined along 0..n by recursion exists, if the function of   *)
(* every shorter one can be extended.                                      *)
AtSteps(f, s, K, n) ==
    f = [i \in 0..n |-> IF i = 0 THEN <<>>
                        ELSE IF i \in K THEN Append(f[i - 1], s[i]) ELSE f[i - 1]]

LEMMA AtRecursion ==
    ASSUME NEW s, NEW K, Len(s) \in Nat
    PROVE  \E f : AtSteps(f, s, K, Len(s)) /\ At(s, K) = f[Len(s)]
<1> DEFINE T == {n \in Nat : \E f : AtSteps(f, s, K, n)}
<1>1. 0 \in T
  <2>1. AtSteps([i \in 0..0 |-> <<>>], s, K, 0)
    BY DEF AtSteps
  <2> QED BY <2>1
<1>2. ASSUME NEW n \in Nat, n \in T PROVE n + 1 \in T
  <2>1. PICK g : AtSteps(g, s, K, n)
    BY <1>2
  <2> DEFINE h == [i \in 0..n + 1 |->
                      IF i = n + 1
                      THEN IF n + 1 \in K THEN Append(g[n], s[n + 1]) ELSE g[n]
                      ELSE g[i]]
  <2>2. \A i \in 0..n : h[i] = g[i]
    OBVIOUS
  <2>3. h[n + 1] = IF n + 1 \in K THEN Append(g[n], s[n + 1]) ELSE g[n]
    OBVIOUS
  <2>4. \A i \in 0..n : g[i] = IF i = 0 THEN <<>>
                        ELSE IF i \in K THEN Append(g[i - 1], s[i]) ELSE g[i - 1]
    BY <2>1 DEF AtSteps
  <2>5. ASSUME NEW i \in 0..n + 1
        PROVE  h[i] = IF i = 0 THEN <<>>
                      ELSE IF i \in K THEN Append(h[i - 1], s[i]) ELSE h[i - 1]
    <3>1. CASE i = n + 1
      <4>1. i - 1 = n /\ n \in 0..n /\ i # 0
        BY <3>1
      <4> HIDE DEF h
      <4> QED BY <3>1, <4>1, <2>2, <2>3
    <3>2. CASE i = 0
      <4>1. i \in 0..n
        BY <3>2
      <4> HIDE DEF h
      <4> QED BY <3>2, <4>1, <2>2, <2>4
    <3>3. CASE i # n + 1 /\ i # 0
      <4>1. i \in 0..n /\ i - 1 \in 0..n
        BY <3>3
      <4> HIDE DEF h
      <4> QED BY <3>3, <4>1, <2>2, <2>4
    <3> QED BY <3>1, <3>2, <3>3
  <2>6. h = [i \in 0..n + 1 |-> IF i = 0 THEN <<>>
                        ELSE IF i \in K THEN Append(h[i - 1], s[i]) ELSE h[i - 1]]
    <3>1. h = [i \in 0..n + 1 |-> h[i]]
      OBVIOUS
    <3> HIDE DEF h
    <3> QED BY <3>1, <2>5
  <2> HIDE DEF h
  <2> QED BY <2>6, SMTT(30) DEF AtSteps
<1>3. \E f : AtSteps(f, s, K, Len(s))
  <2>1. \A n \in Nat : n \in T
    <3> HIDE DEF T
    <3> QED BY <1>1, <1>2, Induction
  <2> QED BY <2>1
<1>4. At(s, K) = (CHOOSE f : AtSteps(f, s, K, Len(s)))[Len(s)]
  BY DEF At, AtSteps
<1>5. AtSteps(CHOOSE f : AtSteps(f, s, K, Len(s)), s, K, Len(s))
  BY <1>3
<1> QED BY <1>4, <1>5

(* At(s, K) is s along the increasing enumeration g of the positions K.    *)
Enumerates(g, r, s, K, n) ==
    /\ g \in [1..Len(r) -> K \cap 1..n]
    /\ \A k \in 1..Len(r) : r[k] = s[g[k]]
    /\ \A j, k \in 1..Len(r) : j < k => g[j] < g[k]
    /\ \A i \in K \cap 1..n : \E k \in 1..Len(r) : g[k] = i

LEMMA EnumeratesMore ==
    ASSUME NEW S, NEW s \in Seq(S), NEW K, NEW n \in Nat, n + 1 \in 1..Len(s),
           NEW r \in Seq(S), NEW g, Enumerates(g, r, s, K, n), n + 1 \in K
    PROVE  \E h : Enumerates(h, Append(r, s[n + 1]), s, K, n + 1)
<1> DEFINE t == Append(r, s[n + 1])
           h == [k \in 1..Len(t) |-> IF k = Len(t) THEN n + 1 ELSE g[k]]
<1>1. s[n + 1] \in S
  BY ElementOfSeq
<1>2. /\ Len(r) \in Nat /\ Len(t) = Len(r) + 1
      /\ \A k \in 1..Len(r) : t[k] = r[k]
      /\ t[Len(t)] = s[n + 1]
  BY <1>1, AppendProperties, LenProperties
<1> HIDE DEF t
<1>3. h[Len(t)] = n + 1 /\ \A k \in 1..Len(r) : h[k] = g[k]
  BY <1>2
<1>4. \A k \in 1..Len(t) : k = Len(t) \/ k \in 1..Len(r)
  BY <1>2
<1>5. \A k \in 1..Len(r) : g[k] \in K \cap 1..n
  BY DEF Enumerates
<1>6. \A i : i \in K \cap 1..n => i \in K \cap 1..n + 1 /\ i < n + 1
  OBVIOUS
<1>7. h \in [1..Len(t) -> K \cap 1..n + 1]
  <2>1. ASSUME NEW k \in 1..Len(t) PROVE h[k] \in K \cap 1..n + 1
    <3> HIDE DEF h
    <3>1. n + 1 \in K \cap 1..n + 1
      OBVIOUS
    <3> QED BY <1>3, <1>4, <1>5, <1>6, <3>1
  <2> QED BY <2>1
<1> HIDE DEF h
<1>8. \A k \in 1..Len(t) : t[k] = s[h[k]]
  BY <1>2, <1>3, <1>4 DEF Enumerates
<1>9. \A j, k \in 1..Len(t) : j < k => h[j] < h[k]
  <2> SUFFICES ASSUME NEW j \in 1..Len(t), NEW k \in 1..Len(t), j < k
               PROVE  h[j] < h[k]
    OBVIOUS
  <2>1. j \in 1..Len(r)
    BY <1>2
  <2>2. CASE k = Len(t)
    BY <1>3, <1>5, <1>6, <2>1, <2>2
  <2>3. CASE k \in 1..Len(r)
    BY <1>3, <2>1, <2>3 DEF Enumerates
  <2> QED BY <1>4, <2>2, <2>3
<1>10. \A i \in K \cap 1..n + 1 : \E k \in 1..Len(t) : h[k] = i
  <2> SUFFICES ASSUME NEW i \in K \cap 1..n + 1
               PROVE  \E k \in 1..Len(t) : h[k] = i
    OBVIOUS
  <2>1. CASE i = n + 1
    <3>1. Len(t) \in 1..Len(t)
      BY <1>2
    <3> QED BY <1>3, <2>1, <3>1
  <2>2. CASE i \in K \cap 1..n
    <3>1. PICK k \in 1..Len(r) : g[k] = i
      BY <2>2 DEF Enumerates
    <3>2. k \in 1..Len(t)
      BY <1>2
    <3> QED BY <1>3, <3>1, <3>2
  <2> QED BY <2>1, <2>2
<1>11. Enumerates(h, t, s, K, n + 1)
  BY <1>7, <1>8, <1>9, <1>10 DEF Enumerates
<1> QED BY <1>11 DEF t

LEMMA AtEnumeration ==
    ASSUME NEW S, NEW s \in Seq(S), NEW K
    PROVE  At(s, K) \in Seq(S) /\ \E g : Enumerates(g, At(s, K), s, K, Len(s))
<1>1. Len(s) \in Nat
  BY LenProperties
<1>2. PICK f : AtSteps(f, s, K, Len(s)) /\ At(s, K) = f[Len(s)]
  BY <1>1, AtRecursion
<1>3. \A i \in 0..Len(s) : f[i] = IF i = 0 THEN <<>>
                        ELSE IF i \in K THEN Append(f[i - 1], s[i]) ELSE f[i - 1]
  BY <1>2 DEF AtSteps
<1> DEFINE T == {n \in 0..Len(s) : f[n] \in Seq(S) /\ \E g : Enumerates(g, f[n], s, K, n)}
<1>4. 0 \in T
  <2>1. 0 \in 0..Len(s) /\ f[0] = <<>>
    BY <1>1, <1>3
  <2>2. <<>> \in Seq(S) /\ Len(<<>>) = 0
    BY EmptySeq
  <2> DEFINE g == [k \in 1..Len(<<>>) |-> 0]
  <2>3. Enumerates(g, <<>>, s, K, 0)
    BY <2>2 DEF Enumerates
  <2> HIDE DEF g
  <2> QED BY <2>1, <2>2, <2>3
<1>5. ASSUME NEW i \in 1..Len(s), i - 1 \in T PROVE i \in T
  <2> DEFINE n == i - 1
  <2>1. n \in Nat /\ i = n + 1 /\ i \in 0..Len(s) /\ i # 0
    BY <1>1
  <2>2. f[n] \in Seq(S)
    BY <1>5
  <2>3. PICK g : Enumerates(g, f[n], s, K, n)
    BY <1>5
  <2>4. f[i] = IF i \in K THEN Append(f[n], s[i]) ELSE f[n]
    BY <1>3, <2>1
  <2> HIDE DEF n
  <2>5. CASE i \in K
    <3>1. \E h : Enumerates(h, Append(f[n], s[n + 1]), s, K, n + 1)
      BY <2>1, <2>2, <2>3, <2>5, EnumeratesMore
    <3>2. Append(f[n], s[i]) \in Seq(S)
      BY <2>2, ElementOfSeq, AppendProperties
    <3> QED BY <2>1, <2>4, <2>5, <3>1, <3>2
  <2>6. CASE i \notin K
    <3>1. K \cap 1..n + 1 = K \cap 1..n
      BY <2>1, <2>6
    <3>2. Enumerates(g, f[n], s, K, n + 1)
      BY <2>3, <3>1 DEF Enumerates
    <3> QED BY <2>1, <2>2, <2>4, <2>6, <3>2
  <2> QED BY <2>5, <2>6
<1>6. Len(s) \in T
  <2>1. \A i \in 0..Len(s) : i \in T
    <3> HIDE DEF T
    <3> QED BY <1>1, <1>4, <1>5, InductionUpTo
  <2> QED BY <1>1, <2>1
<1> QED BY <1>2, <1>6

(* The elements of At(s, K) are those of s at the positions of K.          *)
LEMMA AtElements ==
    ASSUME NEW S, NEW s \in Seq(S), NEW K
    PROVE  /\ At(s, K) \in Seq(S)
           /\ DOMAIN At(s, K) = 1..Len(At(s, K))
           /\ \A k \in DOMAIN At(s, K) : \E i \in K \cap DOMAIN s : At(s, K)[k] = s[i]
           /\ \A i \in K \cap DOMAIN s : \E k \in DOMAIN At(s, K) : At(s, K)[k] = s[i]
<1>1. At(s, K) \in Seq(S) /\ DOMAIN At(s, K) = 1..Len(At(s, K)) /\ DOMAIN s = 1..Len(s)
  BY AtEnumeration, LenProperties
<1>2. PICK g : Enumerates(g, At(s, K), s, K, Len(s))
  BY AtEnumeration
<1>3. \A k \in DOMAIN At(s, K) : \E i \in K \cap DOMAIN s : At(s, K)[k] = s[i]
  BY <1>1, <1>2 DEF Enumerates
<1>4. \A i \in K \cap DOMAIN s : \E k \in DOMAIN At(s, K) : At(s, K)[k] = s[i]
  BY <1>1, <1>2 DEF Enumerates
<1> QED BY <1>1, <1>3, <1>4

LEMMA SelectElements ==
    ASSUME NEW S, NEW s \in Seq(S), NEW K
    PROVE  At(s, K) \in Seq({s[i] : i \in K \cap DOMAIN s})
<1> DEFINE U == {s[i] : i \in K \cap DOMAIN s}
           r == At(s, K)
<1>1. r \in Seq(S) /\ DOMAIN r = 1..Len(r)
  BY AtElements
<1>2. \A k \in DOMAIN r : r[k] \in U
  <2>1. \A k \in DOMAIN r : \E i \in K \cap DOMAIN s : r[k] = s[i]
    BY AtElements
  <2> HIDE DEF r
  <2> QED BY <2>1
<1> HIDE DEF r, U
<1>3. Len(r) \in Nat /\ r = [k \in 1..Len(r) |-> r[k]]
  BY <1>1, LenProperties
<1>4. r \in [1..Len(r) -> U]
  BY <1>1, <1>2, <1>3
<1>5. r \in Seq(U)
  BY <1>3, <1>4, FunctionIsSeq
<1> QED BY <1>5 DEF r, U

-----------------------------------------------------------------------------
(* Joined sequences.                                                       *)
FlattenSteps(f, ss, n) ==
    f = [i \in 1..n |-> IF i = 1 THEN ss[i] ELSE f[i - 1] \o ss[i]]

LEMMA FlattenRecursion ==
    ASSUME NEW ss, Len(ss) \in Nat \ {0}
    PROVE  \E f : FlattenSteps(f, ss, Len(ss)) /\ FlattenSeq(ss) = f[Len(ss)]
<1> DEFINE T == {n \in Nat : \E f : FlattenSteps(f, ss, n)}
<1>1. 0 \in T
  <2> DEFINE h == [i \in 1..0 |-> ss[i]]
  <2>1. h = [i \in 1..0 |-> IF i = 1 THEN ss[i] ELSE h[i - 1] \o ss[i]]
    OBVIOUS
  <2> HIDE DEF h
  <2>2. FlattenSteps(h, ss, 0)
    BY <2>1 DEF FlattenSteps
  <2> QED BY <2>2
<1>2. ASSUME NEW n \in Nat, n \in T PROVE n + 1 \in T
  <2>1. PICK g : FlattenSteps(g, ss, n)
    BY <1>2
  <2> DEFINE last == IF n + 1 = 1 THEN ss[n + 1] ELSE g[n] \o ss[n + 1]
             h == [i \in 1..n + 1 |-> IF i = n + 1 THEN last ELSE g[i]]
  <2> HIDE DEF last
  <2>2. \A i \in 1..n : h[i] = g[i]
    OBVIOUS
  <2>3. h[n + 1] = last
    OBVIOUS
  <2>4. \A i \in 1..n : g[i] = IF i = 1 THEN ss[i] ELSE g[i - 1] \o ss[i]
    BY <2>1 DEF FlattenSteps
  <2>5. ASSUME NEW i \in 1..n + 1
        PROVE  h[i] = IF i = 1 THEN ss[i] ELSE h[i - 1] \o ss[i]
    <3>1. CASE i = n + 1 /\ i = 1
      <4> HIDE DEF h
      <4> QED BY <3>1, <2>3 DEF last
    <3>2. CASE i = n + 1 /\ i # 1
      <4>1. i - 1 = n /\ n \in 1..n
        BY <3>2
      <4> HIDE DEF h
      <4> QED BY <3>2, <4>1, <2>2, <2>3 DEF last
    <3>3. CASE i # n + 1 /\ i = 1
      <4>1. i \in 1..n
        BY <3>3
      <4> HIDE DEF h
      <4> QED BY <3>3, <4>1, <2>2, <2>4
    <3>4. CASE i # n + 1 /\ i # 1
      <4>1. i \in 1..n /\ i - 1 \in 1..n
        BY <3>4
      <4> HIDE DEF h
      <4> QED BY <3>4, <4>1, <2>2, <2>4
    <3> QED BY <3>1, <3>2, <3>3, <3>4
  <2>6. h = [i \in 1..n + 1 |-> IF i = 1 THEN ss[i] ELSE h[i - 1] \o ss[i]]
    <3>1. h = [i \in 1..n + 1 |-> h[i]]
      OBVIOUS
    <3> HIDE DEF h
    <3> QED BY <3>1, <2>5
  <2> HIDE DEF h
  <2>7. FlattenSteps(h, ss, n + 1)
    BY <2>6 DEF FlattenSteps
  <2> QED BY <2>7
<1>3. \E f : FlattenSteps(f, ss, Len(ss))
  <2>1. \A n \in Nat : n \in T
    <3> HIDE DEF T
    <3> QED BY <1>1, <1>2, Induction
  <2> QED BY <2>1
<1>4. Len(ss) # 0
  OBVIOUS
<1>5. FlattenSeq(ss) = (CHOOSE f : FlattenSteps(f, ss, Len(ss)))[Len(ss)]
  BY <1>4, Zenon DEF FlattenSeq, FlattenSteps
<1>6. FlattenSteps(CHOOSE f : FlattenSteps(f, ss, Len(ss)), ss, Len(ss))
  BY <1>3
<1> QED BY <1>5, <1>6

(* The elements of the joined sequence are those of the sequences joined.  *)
Concatenates(r, ss, n) ==
    /\ \A k \in 1..Len(r) : \E i \in 1..n : \E j \in 1..Len(ss[i]) : r[k] = ss[i][j]
    /\ \A i \in 1..n : \A j \in 1..Len(ss[i]) : \E k \in 1..Len(r) : r[k] = ss[i][j]

LEMMA JoinsMore ==
    ASSUME NEW S, NEW ss, NEW n \in Nat, ss[n + 1] \in Seq(S),
           NEW r \in Seq(S), Concatenates(r, ss, n)
    PROVE  Concatenates(r \o ss[n + 1], ss, n + 1)
<1> DEFINE t == ss[n + 1]
           u == r \o t
<1> t \in Seq(S)
  OBVIOUS
<1>1. /\ Len(r) \in Nat /\ Len(t) \in Nat
      /\ Len(u) = Len(r) + Len(t)
      /\ \A i \in 1..Len(r) + Len(t) :
            u[i] = IF i <= Len(r) THEN r[i] ELSE t[i - Len(r)]
  <2> HIDE DEF t
  <2>1. Len(r) \in Nat /\ Len(t) \in Nat
    BY LenProperties
  <2> QED BY <2>1, ConcatProperties
<1> HIDE DEF u
<1>2. \A k \in 1..Len(u) : \E i \in 1..n + 1 : \E j \in 1..Len(ss[i]) : u[k] = ss[i][j]
  <2> TAKE k \in 1..Len(u)
  <2>1. CASE k <= Len(r)
    <3>1. k \in 1..Len(r) /\ u[k] = r[k]
      BY <1>1, <2>1
    <3>2. PICK i \in 1..n : \E j \in 1..Len(ss[i]) : r[k] = ss[i][j]
      BY <3>1 DEF Concatenates
    <3>3. i \in 1..n + 1
      OBVIOUS
    <3> QED BY <3>1, <3>2, <3>3
  <2>2. CASE ~ (k <= Len(r))
    <3>1. k - Len(r) \in 1..Len(t) /\ u[k] = t[k - Len(r)]
      BY <1>1, <2>2
    <3>2. n + 1 \in 1..n + 1
      OBVIOUS
    <3> QED BY <3>1, <3>2
  <2> QED BY <2>1, <2>2
<1>3. \A i \in 1..n + 1 : \A j \in 1..Len(ss[i]) : \E k \in 1..Len(u) : u[k] = ss[i][j]
  <2> TAKE i \in 1..n + 1
  <2> TAKE j \in 1..Len(ss[i])
  <2>1. CASE i = n + 1
    <3>1. Len(r) + j \in 1..Len(u) /\ u[Len(r) + j] = t[j]
      BY <1>1, <2>1
    <3> QED BY <2>1, <3>1
  <2>2. CASE i # n + 1
    <3>1. i \in 1..n
      BY <2>2
    <3>2. PICK k \in 1..Len(r) : r[k] = ss[i][j]
      BY <3>1 DEF Concatenates
    <3>3. k \in 1..Len(u) /\ u[k] = r[k]
      BY <1>1
    <3> QED BY <3>2, <3>3
  <2> QED BY <2>1, <2>2
<1> QED BY <1>2, <1>3 DEF Concatenates, u

LEMMA FlattenJoins ==
    ASSUME NEW S, NEW ss \in Seq(Seq(S))
    PROVE  FlattenSeq(ss) \in Seq(S) /\ Concatenates(FlattenSeq(ss), ss, Len(ss))
<1>1. Len(ss) \in Nat /\ \A i \in 1..Len(ss) : ss[i] \in Seq(S)
  BY LenProperties
<1>2. CASE Len(ss) = 0
  <2>1. ss = <<>>
    BY <1>2, EmptySeq
  <2>2. FlattenSeq(ss) = <<>>
    BY <1>2, <2>1, Zenon DEF FlattenSeq
  <2>3. <<>> \in Seq(S) /\ Len(<<>>) = 0
    BY EmptySeq
  <2>4. Concatenates(<<>>, ss, Len(ss))
    BY <1>2, <2>3 DEF Concatenates
  <2> QED BY <2>2, <2>3, <2>4
<1>3. CASE Len(ss) # 0
  <2>1. Len(ss) \in Nat \ {0}
    BY <1>1, <1>3
  <2>2. PICK f : FlattenSteps(f, ss, Len(ss)) /\ FlattenSeq(ss) = f[Len(ss)]
    BY <2>1, FlattenRecursion
  <2>3. \A i \in 1..Len(ss) : f[i] = IF i = 1 THEN ss[i] ELSE f[i - 1] \o ss[i]
    BY <2>2 DEF FlattenSteps
  <2> DEFINE T == {n \in 0..Len(ss) : n # 0 => f[n] \in Seq(S) /\ Concatenates(f[n], ss, n)}
  <2>4. 0 \in T
    BY <1>1
  <2>5. ASSUME NEW i \in 1..Len(ss), i - 1 \in T PROVE i \in T
    <3>1. i \in Nat /\ i # 0 /\ i \in 0..Len(ss) /\ ss[i] \in Seq(S)
      BY <1>1
    <3>2. CASE i = 1
      <4>1. f[1] = ss[1]
        BY <2>3, <3>2
      <4>2. Concatenates(ss[1], ss, 1)
        BY DEF Concatenates
      <4> QED BY <3>1, <3>2, <4>1, <4>2
    <3>3. CASE i # 1
      <4> DEFINE n == i - 1
      <4>1. n \in Nat /\ n # 0 /\ n + 1 = i
        BY <3>1, <3>3
      <4>2. f[n] \in Seq(S) /\ Concatenates(f[n], ss, n)
        BY <2>5, <4>1
      <4>3. f[i] = f[n] \o ss[i]
        BY <2>3, <3>3
      <4> HIDE DEF n
      <4>4. Concatenates(f[n] \o ss[n + 1], ss, n + 1)
        BY <3>1, <4>1, <4>2, JoinsMore
      <4>5. f[n] \o ss[i] \in Seq(S)
        BY <3>1, <4>2, ConcatProperties
      <4> QED BY <3>1, <4>1, <4>3, <4>4, <4>5
    <3> QED BY <3>2, <3>3
  <2>6. Len(ss) \in T
    <3>1. \A i \in 0..Len(ss) : i \in T
      <4> HIDE DEF T
      <4> QED BY <1>1, <2>4, <2>5, InductionUpTo
    <3> QED BY <1>1, <3>1
  <2> QED BY <1>3, <2>2, <2>6
<1> QED BY <1>2, <1>3
-----------------------------------------------------------------------------
(* Induction from n + 1 down to a. *)
LEMMA InductionDown ==
    ASSUME NEW a \in Nat, NEW n \in Nat, a <= n + 1, NEW T, n + 1 \in T,
           \A k \in a..n : (\A j \in k + 1 .. n + 1 : j \in T) => k \in T
    PROVE  \A k \in a .. n + 1 : k \in T
<1> DEFINE m == n + 1 - a
           U == {d \in 0..m : \A j \in n + 1 - d .. n + 1 : j \in T}
<1>1. m \in Nat
  OBVIOUS
<1>2. 0 \in U
  <2>1. \A j \in n + 1 - 0 .. n + 1 : j = n + 1
    OBVIOUS
  <2> QED BY <1>1, <2>1
<1>3. ASSUME NEW d \in 1..m, d - 1 \in U PROVE d \in U
  <2>1. d \in 0..m
    BY <1>1
  <2>2. ASSUME NEW j \in n + 1 - d .. n + 1 PROVE j \in T
    <3>1. CASE j = n + 1 - d
      <4>1. j \in a..n /\ \A i \in j + 1 .. n + 1 : i \in n + 1 - (d - 1) .. n + 1
        BY <1>1, <3>1
      <4>2. \A i \in j + 1 .. n + 1 : i \in T
        BY <1>3, <4>1
      <4> QED BY <4>1, <4>2
    <3>2. CASE j # n + 1 - d
      <4>1. j \in n + 1 - (d - 1) .. n + 1
        BY <1>1, <3>2
      <4> QED BY <1>3, <4>1
    <3> QED BY <3>1, <3>2
  <2> QED BY <2>1, <2>2
<1>4. m \in U
  <2> HIDE DEF U
  <2>1. \A d \in 0..m : d \in U
    <3> HIDE DEF m
    <3> QED BY <1>1, <1>2, <1>3, InductionUpTo
  <2> QED BY <1>1, <2>1
<1>5. n + 1 - m = a
  OBVIOUS
<1> QED BY <1>4, <1>5

(* A function defined from n + 1 down to a by recursion exists: what it is *)
(* at k is step[k] of what it is at next[k].                               *)
Downward(f, a, n, base, next, step) ==
    f[n + 1] = base /\ \A k \in a..n : f[k] = step[k][f[next[k]]]

Later(next, a, n) == \A k \in a..n : next[k] \in k + 1 .. n + 1

LEMMA RecursionDown ==
    ASSUME NEW a \in Nat, NEW n \in Nat, a <= n + 1, NEW S, NEW base \in S,
           NEW step, Stays(step, n, S), a >= 1,
           NEW next, Later(next, a, n)
    PROVE  \E f \in [a .. n + 1 -> S] : Downward(f, a, n, base, next, step)
<1> USE DEF Later
<1> DEFINE Steps(f, k) == /\ f \in [k .. n + 1 -> S]
                          /\ Downward(f, k, n, base, next, step)
           T == {k \in a .. n + 1 : \E f : Steps(f, k)}
<1>1. n + 1 \in T
  <2> DEFINE f == [i \in n + 1 .. n + 1 |-> base]
  <2>1. Steps(f, n + 1)
    BY DEF Downward
  <2> HIDE DEF Steps
  <2> QED BY <2>1
<1>2. ASSUME NEW k \in a..n, \A j \in k + 1 .. n + 1 : j \in T PROVE k \in T
  <2>1. k + 1 \in k + 1 .. n + 1 /\ k \in 1..n /\ k \in a .. n + 1
    OBVIOUS
  <2>2. PICK g : Steps(g, k + 1)
    BY <1>2, <2>1
  <2> DEFINE new == step[k][g[next[k]]]
             h == [i \in k .. n + 1 |-> IF i = k THEN new ELSE g[i]]
  <2>3. new \in S
    <3>1. g[next[k]] \in S
      BY <2>2
    <3> QED BY <2>1, <3>1 DEF Stays
  <2> HIDE DEF new
  <2>4. h \in [k .. n + 1 -> S]
    BY <2>2, <2>3
  <2>5. h[k] = new /\ \A i \in k + 1 .. n + 1 : h[i] = g[i]
    OBVIOUS
  <2> HIDE DEF h
  <2>6. h[n + 1] = base
    BY <2>1, <2>2, <2>5 DEF Downward
  <2>7. ASSUME NEW i \in k..n PROVE h[i] = step[i][h[next[i]]]
    <3>1. next[i] \in i + 1 .. n + 1 /\ next[i] \in k + 1 .. n + 1
      OBVIOUS
    <3>2. h[next[i]] = g[next[i]]
      BY <2>5, <3>1
    <3>3. CASE i = k
      BY <2>5, <3>2, <3>3 DEF new
    <3>4. CASE i # k
      <4>1. i \in k + 1 .. n /\ i \in k + 1 .. n + 1
        BY <3>4
      <4> QED BY <2>2, <2>5, <3>2, <4>1 DEF Downward
    <3> QED BY <3>3, <3>4
  <2>8. Steps(h, k)
    BY <2>4, <2>6, <2>7 DEF Downward
  <2> HIDE DEF Steps
  <2> QED BY <2>1, <2>8
<1>3. \A k \in a .. n + 1 : k \in T
  <2> HIDE DEF T
  <2> QED BY <1>1, <1>2, InductionDown
<1>4. a \in T
  BY <1>3
<1> QED BY <1>4

-----------------------------------------------------------------------------
(* Sequences joined one after the other: f[k] is ts[1] to ts[k].           *)
IsConcat(f, n, ts) ==
    f = [k \in 0..n |-> IF k = 0 THEN <<>> ELSE f[k - 1] \o ts[k]]

LEMMA ConcatRun ==
    ASSUME NEW n \in Nat, NEW S, NEW ts \in [1..n -> Seq(S)]
    PROVE  /\ \E f : IsConcat(f, n, ts)
           /\ \A f : IsConcat(f, n, ts) => f \in [0..n -> Seq(S)]
<1> DEFINE step == [k \in 1..n |-> [v \in Seq(S) |-> v \o ts[k]]]
<1>1. ASSUME NEW k \in 1..n, NEW v \in Seq(S)
      PROVE  step[k][v] = v \o ts[k] /\ v \o ts[k] \in Seq(S)
  <2>1. ts[k] \in Seq(S)
    OBVIOUS
  <2>2. v \o ts[k] \in Seq(S)
    BY <2>1, ConcatProperties
  <2> QED BY <2>2
<1>2. Stays(step, n, Seq(S)) /\ <<>> \in Seq(S)
  <2>1. <<>> \in Seq(S)
    OBVIOUS
  <2> HIDE DEF step
  <2> QED BY <1>1, <2>1 DEF Stays
<1> HIDE DEF step
<1>3. PICK g \in [0..n -> Seq(S)] : Along(g, n, <<>>, step)
  BY <1>2, Recursion
<1>4. IsConcat(g, n, ts)
  <2>1. ASSUME NEW k \in 0..n
        PROVE  g[k] = IF k = 0 THEN <<>> ELSE g[k - 1] \o ts[k]
    <3>1. CASE k = 0
      BY <1>3, <3>1 DEF Along
    <3>2. CASE k # 0
      <4>1. k \in 1..n /\ k - 1 \in 0..n
        BY <3>2
      <4>2. g[k] = step[k][g[k - 1]] /\ g[k - 1] \in Seq(S)
        BY <1>3, <4>1 DEF Along
      <4> QED BY <1>1, <3>2, <4>1, <4>2
    <3> QED BY <3>1, <3>2
  <2>2. g = [k \in 0..n |-> g[k]]
    OBVIOUS
  <2> QED BY <2>1, <2>2 DEF IsConcat
<1>5. ASSUME NEW f, IsConcat(f, n, ts) PROVE f \in [0..n -> Seq(S)]
  <2>1. \A k \in 0..n : f[k] = IF k = 0 THEN <<>> ELSE f[k - 1] \o ts[k]
    BY <1>5 DEF IsConcat
  <2> DEFINE T == {k \in 0..n : f[k] \in Seq(S)}
  <2>2. 0 \in T
    <3>1. 0 \in 0..n
      OBVIOUS
    <3>2. f[0] = <<>>
      BY <2>1, <3>1
    <3> QED BY <1>2, <3>1, <3>2
  <2>3. ASSUME NEW k \in 1..n, k - 1 \in T PROVE k \in T
    <3>1. k \in 0..n /\ k # 0
      OBVIOUS
    <3>2. f[k - 1] \o ts[k] \in Seq(S)
      BY <1>1, <2>3
    <3> QED BY <2>1, <3>1, <3>2
  <2>4. \A k \in 0..n : k \in T
    <3> HIDE DEF T
    <3> QED BY <2>2, <2>3, InductionUpTo
  <2>5. f = [k \in 0..n |-> f[k]]
    BY <1>5 DEF IsConcat
  <2> QED BY <2>4, <2>5
<1> QED BY <1>4, <1>5

-----------------------------------------------------------------------------
(* Selecting from and flattening sequences that are joined.                *)

(* Concatenation is associative, stated for what one module concatenates.  *)
LEMMA Associative ==
    ASSUME NEW S, NEW a \in Seq(S), NEW b \in Seq(S), NEW c \in Seq(S)
    PROVE  (a \o b) \o c = a \o (b \o c)
<1>a. PICK l : l = a \o b
  OBVIOUS
<1>b. PICK r : r = b \o c
  OBVIOUS
<1>1. Len(a) \in Nat /\ Len(b) \in Nat /\ Len(c) \in Nat
  BY LenProperties
<1>2. /\ l \in Seq(S) /\ Len(l) = Len(a) + Len(b)
      /\ \A i \in 1 .. Len(a) + Len(b) : l[i] = IF i <= Len(a) THEN a[i] ELSE b[i - Len(a)]
  BY <1>a, ConcatProperties
<1>3. /\ r \in Seq(S) /\ Len(r) = Len(b) + Len(c)
      /\ \A i \in 1 .. Len(b) + Len(c) : r[i] = IF i <= Len(b) THEN b[i] ELSE c[i - Len(b)]
  BY <1>b, ConcatProperties
<1>c. l \in Seq(S) /\ r \in Seq(S)
  BY <1>2, <1>3
<1>d. PICK u : u = l \o c
  OBVIOUS
<1>e. PICK v : v = a \o r
  OBVIOUS
<1>4. /\ u \in Seq(S) /\ Len(u) = Len(l) + Len(c)
      /\ \A i \in 1 .. Len(l) + Len(c) : u[i] = IF i <= Len(l) THEN l[i] ELSE c[i - Len(l)]
  BY <1>c, <1>d, ConcatProperties
<1>5. /\ v \in Seq(S) /\ Len(v) = Len(a) + Len(r)
      /\ \A i \in 1 .. Len(a) + Len(r) : v[i] = IF i <= Len(a) THEN a[i] ELSE r[i - Len(a)]
  BY <1>c, <1>e, ConcatProperties
<1>6. Len(u) = Len(v)
  BY <1>1, <1>2, <1>3, <1>4, <1>5
<1>7. ASSUME NEW i \in 1..Len(u) PROVE u[i] = v[i]
  <2>1. i \in 1 .. Len(l) + Len(c) /\ i \in 1 .. Len(a) + Len(r)
    BY <1>1, <1>2, <1>3, <1>4
  <2>2. CASE i <= Len(a)
    <3>1. i <= Len(l) /\ i \in 1 .. Len(a) + Len(b)
      BY <1>1, <1>2, <2>1, <2>2
    <3> QED BY <1>2, <1>4, <1>5, <2>1, <2>2, <3>1
  <2>3. CASE ~(i <= Len(a)) /\ i <= Len(a) + Len(b)
    <3>1. /\ i <= Len(l) /\ i \in 1 .. Len(a) + Len(b)
          /\ i - Len(a) \in 1 .. Len(b) + Len(c) /\ i - Len(a) <= Len(b)
      BY <1>1, <1>2, <2>1, <2>3
    <3> QED BY <1>2, <1>3, <1>4, <1>5, <2>1, <2>3, <3>1
  <2>4. CASE ~(i <= Len(a) + Len(b))
    <3>1. /\ ~(i <= Len(l)) /\ ~(i <= Len(a)) /\ ~(i - Len(a) <= Len(b))
          /\ i - Len(a) \in 1 .. Len(b) + Len(c)
          /\ (i - Len(a)) - Len(b) = i - Len(l)
      BY <1>1, <1>2, <1>3, <2>1, <2>4
    <3> QED BY <1>3, <1>4, <1>5, <2>1, <3>1
  <2> QED BY <2>2, <2>3, <2>4
<1>8. u = v
  BY <1>4, <1>5, <1>6, <1>7, SeqEqual
<1> QED BY <1>8, <1>a, <1>b, <1>d, <1>e

(* The same, of an operator that the provers do not know.                  *)
Joined(a, b) == a \o b

LEMMA JoinedAssociative ==
    ASSUME NEW S, NEW a \in Seq(S), NEW b \in Seq(S), NEW c \in Seq(S)
    PROVE  Joined(Joined(a, b), c) = Joined(a, Joined(b, c))
<1>1. (a \o b) \o c = a \o (b \o c)
  BY Associative
<1> QED BY <1>1 DEF Joined

(* At(s, K) step by step.                                                  *)
Selects(f, s, K) ==
    /\ f[0] = <<>>
    /\ \A i \in 1..Len(s) :
          f[i] = IF i \in K THEN Append(f[i - 1], s[i]) ELSE f[i - 1]

LEMMA AtRun ==
    ASSUME NEW S, NEW s \in Seq(S), NEW K
    PROVE  \E f \in [0..Len(s) -> Seq(S)] : Selects(f, s, K) /\ At(s, K) = f[Len(s)]
<1>1. Len(s) \in Nat
  BY LenProperties
<1>2. PICK f : AtSteps(f, s, K, Len(s)) /\ At(s, K) = f[Len(s)]
  BY <1>1, AtRecursion
<1>3. \A i \in 0..Len(s) : f[i] = IF i = 0 THEN <<>>
                        ELSE IF i \in K THEN Append(f[i - 1], s[i]) ELSE f[i - 1]
  BY <1>2 DEF AtSteps
<1>4. Selects(f, s, K)
  <2>1. 0 \in 0..Len(s) /\ \A i \in 1..Len(s) : i \in 0..Len(s) /\ i # 0
    BY <1>1
  <2> QED BY <1>3, <2>1 DEF Selects
<1>5. f \in [0..Len(s) -> Seq(S)]
  <2> DEFINE T == {i \in 0..Len(s) : f[i] \in Seq(S)}
  <2>1. 0 \in T
    <3>1. 0 \in 0..Len(s) /\ <<>> \in Seq(S)
      BY <1>1
    <3> QED BY <1>4, <3>1 DEF Selects
  <2>2. ASSUME NEW i \in 1..Len(s), i - 1 \in T PROVE i \in T
    <3>1. i \in 0..Len(s) /\ s[i] \in S /\ f[i - 1] \in Seq(S)
      BY <1>1, <2>2, ElementOfSeq
    <3>2. Append(f[i - 1], s[i]) \in Seq(S)
      BY <3>1, AppendProperties
    <3> QED BY <1>4, <3>1, <3>2 DEF Selects
  <2>3. \A i \in 0..Len(s) : i \in T
    <3> HIDE DEF T
    <3> QED BY <1>1, <2>1, <2>2, InductionUpTo
  <2>4. f = [i \in 0..Len(s) |-> f[i]]
    BY <1>2 DEF AtSteps
  <2> QED BY <2>3, <2>4
<1> QED BY <1>2, <1>4, <1>5

(* What is selected from a concatenation.                                  *)
Agree(K, L, from, n) == \A i \in 1..n : from + i \in K <=> i \in L

LEMMA AtConcat ==
    ASSUME NEW S, NEW s \in Seq(S), NEW t \in Seq(S), NEW K, NEW L, NEW M,
           Agree(K, L, 0, Len(s)), Agree(K, M, Len(s), Len(t))
    PROVE  At(s \o t, K) = At(s, L) \o At(t, M)
<1> DEFINE u == s \o t
           m == Len(s)
           n == Len(t)
<1>1. m \in Nat /\ n \in Nat
  BY LenProperties
<1>2. /\ u \in Seq(S) /\ Len(u) = m + n
      /\ \A i \in 1 .. m + n : u[i] = IF i <= m THEN s[i] ELSE t[i - m]
  BY ConcatProperties
<1>0. /\ \A i \in 1..m : i \in K <=> i \in L
      /\ \A i \in 1..n : m + i \in K <=> i \in M
  <2>1. \A i \in 1..m : 0 + i = i
    BY <1>1
  <2> QED BY <2>1 DEF Agree
<1> HIDE DEF u
<1>3. PICK f \in [0..Len(u) -> Seq(S)] : Selects(f, u, K) /\ At(u, K) = f[Len(u)]
  BY <1>2, AtRun
<1>4. PICK g \in [0..Len(s) -> Seq(S)] : Selects(g, s, L) /\ At(s, L) = g[m]
  BY AtRun
<1>5. PICK h \in [0..Len(t) -> Seq(S)] : Selects(h, t, M) /\ At(t, M) = h[n]
  BY AtRun
<1> DEFINE T == {i \in 0..m : f[i] = g[i]}
           U == {i \in 0..n : f[m + i] = g[m] \o h[i]}
<1>6. \A i \in 0..m : i \in T
  <2>1. 0 \in T
    BY <1>1, <1>3, <1>4 DEF Selects
  <2>2. ASSUME NEW i \in 1..m, i - 1 \in T PROVE i \in T
    <3>1. i \in 0..m /\ i \in 1..Len(u) /\ u[i] = s[i]
      BY <1>1, <1>2
    <3>2. f[i] = IF i \in K THEN Append(f[i - 1], s[i]) ELSE f[i - 1]
      BY <1>3, <3>1 DEF Selects
    <3>3. g[i] = IF i \in L THEN Append(g[i - 1], s[i]) ELSE g[i - 1]
      BY <1>4 DEF Selects
    <3>4. f[i - 1] = g[i - 1] /\ (i \in K <=> i \in L)
      BY <1>0, <2>2
    <3> QED BY <3>1, <3>2, <3>3, <3>4
  <2> HIDE DEF T
  <2> QED BY <1>1, <2>1, <2>2, InductionUpTo
<1>7. \A i \in 0..n : i \in U
  <2>1. 0 \in U
    <3>1. m \in 0..m /\ m + 0 = m /\ 0 \in 0..n
      BY <1>1
    <3>2. f[m] = g[m] /\ g[m] \in Seq(S) /\ h[0] = <<>>
      BY <1>4, <1>5, <1>6, <3>1 DEF Selects
    <3>3. g[m] \o <<>> = g[m]
      BY <3>2, ConcatEmptySeq
    <3> QED BY <3>1, <3>2, <3>3
  <2>2. ASSUME NEW i \in 1..n, i - 1 \in U PROVE i \in U
    <3>1. i \in 0..n /\ m + i \in 1..Len(u) /\ ~(m + i <= m) /\ (m + i) - m = i
          /\ (m + i) - 1 = m + (i - 1) /\ i - 1 \in 0..n /\ m \in 0..m
      BY <1>1, <1>2
    <3>2. u[m + i] = t[i] /\ t[i] \in S
      BY <1>2, <3>1, ElementOfSeq
    <3>3. f[m + i] = IF m + i \in K THEN Append(f[m + (i - 1)], t[i]) ELSE f[m + (i - 1)]
      BY <1>3, <3>1, <3>2 DEF Selects
    <3>4. h[i] = IF i \in M THEN Append(h[i - 1], t[i]) ELSE h[i - 1]
      BY <1>5 DEF Selects
    <3>5. f[m + (i - 1)] = g[m] \o h[i - 1] /\ (m + i \in K <=> i \in M)
      BY <1>0, <2>2
    <3>6. g[m] \in Seq(S) /\ h[i - 1] \in Seq(S)
      BY <1>4, <1>5, <3>1
    <3>7. Append(g[m] \o h[i - 1], t[i]) = g[m] \o Append(h[i - 1], t[i])
      <4>1. <<t[i]>> \in Seq(S) /\ g[m] \o h[i - 1] \in Seq(S)
        BY <3>2, <3>6, ConcatProperties
      <4>2. Append(g[m] \o h[i - 1], t[i]) = (g[m] \o h[i - 1]) \o <<t[i]>>
        BY <3>2, <4>1, AppendIsConcat
      <4>3. Append(h[i - 1], t[i]) = h[i - 1] \o <<t[i]>>
        BY <3>2, <3>6, AppendIsConcat
      <4>a. PICK a : a = g[m]
        OBVIOUS
      <4>b. PICK b : b = h[i - 1]
        OBVIOUS
      <4>c. PICK c : c = <<t[i]>>
        OBVIOUS
      <4>4. a \in Seq(S) /\ b \in Seq(S) /\ c \in Seq(S)
        BY <3>6, <4>1, <4>a, <4>b, <4>c
      <4>5. Joined(Joined(a, b), c) = Joined(a, Joined(b, c))
        BY <4>4, JoinedAssociative
      <4> QED BY <4>2, <4>3, <4>5, <4>a, <4>b, <4>c DEF Joined
    <3> QED BY <3>1, <3>3, <3>4, <3>5, <3>7
  <2> HIDE DEF U
  <2> QED BY <1>1, <2>1, <2>2, InductionUpTo
<1>8. f[m + n] = g[m] \o h[n]
  BY <1>1, <1>7
<1>9. At(u, K) = At(s, L) \o At(t, M)
  BY <1>2, <1>3, <1>4, <1>5, <1>8
<1> QED BY <1>9 DEF u

(* Everything, or nothing, is selected.                                    *)
LEMMA AtExtremes ==
    ASSUME NEW S, NEW s \in Seq(S), NEW K
    PROVE  /\ (\A i \in 1..Len(s) : i \in K) => At(s, K) = s
           /\ (\A i \in 1..Len(s) : i \notin K) => At(s, K) = <<>>
<1> DEFINE n == Len(s)
<1>1. n \in Nat
  BY LenProperties
<1>2. PICK f \in [0..Len(s) -> Seq(S)] : Selects(f, s, K) /\ At(s, K) = f[n]
  BY AtRun
<1> HIDE DEF n
<1>3. ASSUME \A i \in 1..n : i \in K PROVE At(s, K) = s
  <2> DEFINE T == {k \in 0..n : Len(f[k]) = k /\ \A i \in 1..k : f[k][i] = s[i]}
  <2>1. 0 \in T
    BY <1>1, <1>2 DEF Selects
  <2>2. ASSUME NEW k \in 1..n, k - 1 \in T PROVE k \in T
    <3>1. k \in 0..n /\ k - 1 \in 0..n
      BY <1>1
    <3>2. f[k - 1] \in Seq(S) /\ s[k] \in S
      BY <1>2, <3>1, ElementOfSeq DEF n
    <3>3. Len(f[k - 1]) = k - 1 /\ \A i \in 1 .. k - 1 : f[k - 1][i] = s[i]
      BY <2>2
    <3>4. f[k] = Append(f[k - 1], s[k])
      BY <1>2, <1>3 DEF Selects, n
    <3>5. /\ Len(f[k]) = (k - 1) + 1 /\ f[k][(k - 1) + 1] = s[k]
          /\ \A i \in 1 .. k - 1 : f[k][i] = f[k - 1][i]
      BY <3>2, <3>3, <3>4, AppendProperties
    <3>6. (k - 1) + 1 = k /\ \A i \in 1..k : i = k \/ i \in 1 .. k - 1
      BY <3>1
    <3>7. \A i \in 1..k : f[k][i] = s[i]
      BY <3>3, <3>5, <3>6
    <3> QED BY <3>1, <3>5, <3>6, <3>7
  <2>3. \A k \in 0..n : k \in T
    <3> HIDE DEF T
    <3> QED BY <1>1, <2>1, <2>2, InductionUpTo
  <2>4. n \in 0..n
    BY <1>1
  <2>5. f[n] \in Seq(S) /\ Len(f[n]) = n /\ \A i \in 1..n : f[n][i] = s[i]
    BY <1>2, <2>3, <2>4 DEF n
  <2>6. f[n] = s
    BY <2>5, SeqEqual DEF n
  <2> QED BY <1>2, <2>6
<1>4. ASSUME \A i \in 1..n : i \notin K PROVE At(s, K) = <<>>
  <2> DEFINE T == {k \in 0..n : f[k] = <<>>}
  <2>1. 0 \in T
    BY <1>1, <1>2 DEF Selects
  <2>2. ASSUME NEW k \in 1..n, k - 1 \in T PROVE k \in T
    <3>1. k \in 0..n
      BY <1>1
    <3> QED BY <1>2, <1>4, <2>2, <3>1 DEF Selects, n
  <2>3. \A k \in 0..n : k \in T
    <3> HIDE DEF T
    <3> QED BY <1>1, <2>1, <2>2, InductionUpTo
  <2> QED BY <1>1, <1>2, <2>3
<1> QED BY <1>3, <1>4 DEF n

(* A joined sequence step by step.                                         *)
Accumulates(f, ss) ==
    /\ f[0] = <<>>
    /\ \A k \in 1..Len(ss) : f[k] = f[k - 1] \o ss[k]

LEMMA FlattenRun ==
    ASSUME NEW S, NEW ss \in Seq(Seq(S))
    PROVE  \E f \in [0..Len(ss) -> Seq(S)] :
              Accumulates(f, ss) /\ FlattenSeq(ss) = f[Len(ss)]
<1> DEFINE n == Len(ss)
<1>1. n \in Nat /\ \A i \in 1..n : ss[i] \in Seq(S)
  BY LenProperties
<1>2. <<>> \in Seq(S)
  OBVIOUS
<1>3. CASE n = 0
  <2> DEFINE f == [k \in 0..n |-> <<>>]
  <2>1. ss = <<>>
    BY <1>3, EmptySeq
  <2>2. FlattenSeq(ss) = <<>>
    BY <1>3, <2>1, Zenon DEF FlattenSeq
  <2>3. f \in [0..n -> Seq(S)] /\ f[0] = <<>> /\ f[n] = <<>>
    BY <1>1, <1>2
  <2>4. Accumulates(f, ss)
    BY <1>3, <2>3 DEF Accumulates
  <2> HIDE DEF f
  <2> QED BY <2>2, <2>3, <2>4
<1>4. CASE n # 0
  <2>1. n \in Nat \ {0}
    BY <1>1, <1>4
  <2>2. PICK g : FlattenSteps(g, ss, n) /\ FlattenSeq(ss) = g[n]
    BY <2>1, FlattenRecursion
  <2> HIDE DEF n
  <2>3. \A i \in 1..n : g[i] = IF i = 1 THEN ss[i] ELSE g[i - 1] \o ss[i]
    BY <2>2 DEF FlattenSteps
  <2> DEFINE f == [k \in 0..n |-> IF k = 0 THEN <<>> ELSE g[k]]
  <2>4. f[0] = <<>> /\ \A k \in 1..n : f[k] = g[k]
    BY <1>1
  <2>5. f = [k \in 0..n |-> f[k]]
    OBVIOUS
  <2> HIDE DEF f
  <2>6. ASSUME NEW k \in 1..n PROVE f[k] = f[k - 1] \o ss[k]
    <3>1. CASE k = 1
      <4>1. f[k - 1] = <<>> /\ f[k] = ss[k]
        BY <2>3, <2>4, <3>1
      <4> QED BY <1>1, <4>1, ConcatEmptySeq
    <3>2. CASE k # 1
      <4>1. k - 1 \in 1..n
        BY <1>1, <3>2
      <4> QED BY <2>3, <2>4, <3>2, <4>1
    <3> QED BY <3>1, <3>2
  <2> DEFINE T == {k \in 0..n : f[k] \in Seq(S)}
  <2>7. 0 \in T
    <3>1. 0 \in 0..n
      BY <1>1
    <3> QED BY <1>2, <2>4, <3>1
  <2>8. ASSUME NEW k \in 1..n, k - 1 \in T PROVE k \in T
    <3>1. k \in 0..n /\ f[k - 1] \in Seq(S) /\ ss[k] \in Seq(S)
      BY <1>1, <2>8
    <3>2. f[k - 1] \o ss[k] \in Seq(S)
      BY <3>1, ConcatProperties
    <3> QED BY <2>6, <3>1, <3>2
  <2>9. \A k \in 0..n : k \in T
    <3> HIDE DEF T
    <3> QED BY <1>1, <2>7, <2>8, InductionUpTo
  <2>10. f \in [0..n -> Seq(S)]
    BY <2>5, <2>9
  <2>11. f[n] = g[n]
    <3>1. n \in 1..n
      BY <2>1
    <3> QED BY <2>4, <3>1
  <2> QED BY <2>2, <2>4, <2>6, <2>10, <2>11 DEF Accumulates, n
<1> QED BY <1>3, <1>4

LEMMA FlattenConcat ==
    ASSUME NEW S, NEW ss \in Seq(Seq(S)), NEW tt \in Seq(Seq(S))
    PROVE  FlattenSeq(ss \o tt) = FlattenSeq(ss) \o FlattenSeq(tt)
<1> DEFINE uu == ss \o tt
           m == Len(ss)
           n == Len(tt)
<1>1. m \in Nat /\ n \in Nat
  BY LenProperties
<1>2. /\ uu \in Seq(Seq(S)) /\ Len(uu) = m + n
      /\ \A i \in 1 .. m + n : uu[i] = IF i <= m THEN ss[i] ELSE tt[i - m]
  BY ConcatProperties
<1> HIDE DEF uu
<1>3. PICK f \in [0..Len(uu) -> Seq(S)] : Accumulates(f, uu) /\ FlattenSeq(uu) = f[Len(uu)]
  BY <1>2, FlattenRun
<1>4. PICK g \in [0..Len(ss) -> Seq(S)] : Accumulates(g, ss) /\ FlattenSeq(ss) = g[m]
  BY FlattenRun
<1>5. PICK h \in [0..Len(tt) -> Seq(S)] : Accumulates(h, tt) /\ FlattenSeq(tt) = h[n]
  BY FlattenRun
<1> DEFINE T == {i \in 0..m : f[i] = g[i]}
           U == {i \in 0..n : f[m + i] = g[m] \o h[i]}
<1>6. \A i \in 0..m : i \in T
  <2>1. 0 \in T
    BY <1>1, <1>3, <1>4 DEF Accumulates
  <2>2. ASSUME NEW i \in 1..m, i - 1 \in T PROVE i \in T
    <3>1. i \in 0..m /\ i \in 1..Len(uu) /\ uu[i] = ss[i]
      BY <1>1, <1>2
    <3>2. f[i] = f[i - 1] \o ss[i]
      BY <1>3, <3>1 DEF Accumulates
    <3>3. g[i] = g[i - 1] \o ss[i]
      BY <1>4 DEF Accumulates
    <3> QED BY <2>2, <3>1, <3>2, <3>3
  <2> HIDE DEF T
  <2> QED BY <1>1, <2>1, <2>2, InductionUpTo
<1>7. \A i \in 0..n : i \in U
  <2>1. 0 \in U
    <3>1. m \in 0..m /\ m + 0 = m /\ 0 \in 0..n
      BY <1>1
    <3>2. f[m] = g[m] /\ g[m] \in Seq(S) /\ h[0] = <<>>
      BY <1>4, <1>5, <1>6, <3>1 DEF Accumulates
    <3>3. g[m] \o <<>> = g[m]
      BY <3>2, ConcatEmptySeq
    <3> QED BY <3>1, <3>2, <3>3
  <2>2. ASSUME NEW i \in 1..n, i - 1 \in U PROVE i \in U
    <3>1. i \in 0..n /\ m + i \in 1..Len(uu) /\ ~(m + i <= m) /\ (m + i) - m = i
          /\ (m + i) - 1 = m + (i - 1) /\ i - 1 \in 0..n /\ m \in 0..m
      BY <1>1, <1>2
    <3>2. uu[m + i] = tt[i] /\ tt[i] \in Seq(S)
      BY <1>2, <3>1, ElementOfSeq
    <3>3. f[m + i] = f[m + (i - 1)] \o tt[i]
      BY <1>3, <3>1, <3>2 DEF Accumulates
    <3>4. h[i] = h[i - 1] \o tt[i]
      BY <1>5 DEF Accumulates
    <3>5. f[m + (i - 1)] = g[m] \o h[i - 1]
      BY <2>2
    <3>6. g[m] \in Seq(S) /\ h[i - 1] \in Seq(S)
      BY <1>4, <1>5, <3>1
    <3>7. (g[m] \o h[i - 1]) \o tt[i] = g[m] \o (h[i - 1] \o tt[i])
      <4>a. PICK a : a = g[m]
        OBVIOUS
      <4>b. PICK b : b = h[i - 1]
        OBVIOUS
      <4>c. PICK c : c = tt[i]
        OBVIOUS
      <4>1. a \in Seq(S) /\ b \in Seq(S) /\ c \in Seq(S)
        BY <3>2, <3>6, <4>a, <4>b, <4>c
      <4>2. Joined(Joined(a, b), c) = Joined(a, Joined(b, c))
        BY <4>1, JoinedAssociative
      <4> QED BY <4>2, <4>a, <4>b, <4>c DEF Joined
    <3> QED BY <3>1, <3>3, <3>4, <3>5, <3>7
  <2> HIDE DEF U
  <2> QED BY <1>1, <2>1, <2>2, InductionUpTo
<1>8. f[m + n] = g[m] \o h[n]
  BY <1>1, <1>7
<1>9. FlattenSeq(uu) = FlattenSeq(ss) \o FlattenSeq(tt)
  BY <1>2, <1>3, <1>4, <1>5, <1>8
<1> QED BY <1>9 DEF uu

LEMMA FlattenFew ==
    ASSUME NEW S
    PROVE  /\ FlattenSeq(<<>>) = <<>>
           /\ \A t \in Seq(S) : FlattenSeq(<<t>>) = t
<1>1. FlattenSeq(<<>>) = <<>>
  <2>1. Len(<<>>) = 0
    OBVIOUS
  <2> QED BY <2>1, Zenon DEF FlattenSeq
<1>2. ASSUME NEW t \in Seq(S) PROVE FlattenSeq(<<t>>) = t
  <2> DEFINE ss == <<t>>
  <2>1. ss \in Seq(Seq(S)) /\ Len(ss) = 1 /\ ss[1] = t
    OBVIOUS
  <2> HIDE DEF ss
  <2>2. PICK f \in [0..Len(ss) -> Seq(S)] : Accumulates(f, ss) /\ FlattenSeq(ss) = f[Len(ss)]
    BY <2>1, FlattenRun
  <2>3. f[0] = <<>> /\ f[1] = f[0] \o t
    <3>1. 1 \in 1..Len(ss) /\ 1 - 1 = 0
      BY <2>1
    <3> QED BY <2>1, <2>2, <3>1 DEF Accumulates
  <2>4. f[1] = t
    BY <2>3, ConcatEmptySeq
  <2> QED BY <2>1, <2>2, <2>4 DEF ss
<1> QED BY <1>1, <1>2

LEMMA FlattenAppend ==
    ASSUME NEW S, NEW ss \in Seq(Seq(S)), NEW t \in Seq(S)
    PROVE  FlattenSeq(Append(ss, t)) = FlattenSeq(ss) \o t
<1>1. Append(ss, t) = ss \o <<t>> /\ <<t>> \in Seq(Seq(S))
  BY AppendIsConcat
<1> DEFINE tt == <<t>>
<1>2. tt \in Seq(Seq(S)) /\ FlattenSeq(tt) = t
  BY <1>1, FlattenFew
<1> HIDE DEF tt
<1>3. FlattenSeq(ss \o tt) = FlattenSeq(ss) \o FlattenSeq(tt)
  BY <1>2, FlattenConcat
<1> QED BY <1>1, <1>2, <1>3 DEF tt

(* A sequence of sequences of one element each.                            *)
LEMMA FlattenSingles ==
    ASSUME NEW S, NEW ss \in Seq(Seq(S)), \A i \in 1..Len(ss) : \E x \in S : ss[i] = <<x>>
    PROVE  FlattenSeq(ss) = [i \in 1..Len(ss) |-> ss[i][1]]
<1> DEFINE n == Len(ss)
           g == [i \in 1..n |-> ss[i][1]]
<1>1. n \in Nat
  BY LenProperties
<1>2. PICK f \in [0..Len(ss) -> Seq(S)] : Accumulates(f, ss) /\ FlattenSeq(ss) = f[n]
  BY FlattenRun
<1>3. /\ f \in [0..n -> Seq(S)] /\ f[0] = <<>>
      /\ \A k \in 1..n : f[k] = f[k - 1] \o ss[k]
  BY <1>2 DEF Accumulates
<1>4. ASSUME NEW i \in 1..n PROVE ss[i][1] \in S /\ ss[i] = <<ss[i][1]>>
  <2>1. PICK x \in S : ss[i] = <<x>>
    OBVIOUS
  <2> QED BY <2>1
<1>5. g \in [1..n -> S]
  BY <1>4
<1>6. g \in Seq(S) /\ Len(g) = n
  <2> HIDE DEF g, n
  <2> QED BY <1>1, <1>5, FunctionIsSeq
<1>7. \A i \in 1..n : g[i] = ss[i][1]
  OBVIOUS
<1> HIDE DEF g, n
<1> DEFINE T == {k \in 0..n : Len(f[k]) = k /\ \A i \in 1..k : f[k][i] = g[i]}
<1>8. 0 \in T
  BY <1>1, <1>3
<1>9. ASSUME NEW k \in 1..n, k - 1 \in T PROVE k \in T
  <2>1. k \in 0..n /\ k - 1 \in 0..n
    BY <1>1
  <2>2. f[k - 1] \in Seq(S)
    BY <1>3, <2>1
  <2>3. ss[k] = <<g[k]>> /\ g[k] \in S
    BY <1>4, <1>7
  <2>4. f[k] = Append(f[k - 1], g[k])
    BY <1>3, <2>2, <2>3, AppendIsConcat, ZenonT(40)
  <2>5. Len(f[k - 1]) = k - 1 /\ \A i \in 1 .. k - 1 : f[k - 1][i] = g[i]
    BY <1>9
  <2>6. /\ Len(f[k]) = (k - 1) + 1 /\ f[k][(k - 1) + 1] = g[k]
        /\ \A i \in 1 .. k - 1 : f[k][i] = f[k - 1][i]
    BY <2>2, <2>3, <2>4, <2>5, AppendProperties
  <2>7. (k - 1) + 1 = k /\ \A i \in 1..k : i = k \/ i \in 1 .. k - 1
    BY <2>1
  <2>8. \A i \in 1..k : f[k][i] = g[i]
    BY <2>5, <2>6, <2>7
  <2> QED BY <2>1, <2>6, <2>7, <2>8
<1>10. n \in T
  <2>1. \A k \in 0..n : k \in T
    <3> HIDE DEF T
    <3> QED BY <1>1, <1>8, <1>9, InductionUpTo
  <2>2. n \in 0..n
    BY <1>1
  <2> QED BY <2>1, <2>2
<1>11. f[n] \in Seq(S) /\ Len(f[n]) = n /\ \A i \in 1..n : f[n][i] = g[i]
  BY <1>3, <1>10
<1>12. f[n] = g
  BY <1>6, <1>11, SeqEqual
<1> QED BY <1>2, <1>12 DEF g, n
==============================================================================
