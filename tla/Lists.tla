-------------------------------- MODULE Lists --------------------------------
(***************************************************************************)
(* Lists: sequences of whatever their elements are, and the selection of   *)
(* elements by their positions.                                            *)
(***************************************************************************)
EXTENDS Naturals, Sequences, FiniteSets, SequencesExt

IsList(s) == s \in Seq(ToSet(s))

(* The elements of s at the positions of K, in their order.                *)
At(s, K) ==
    LET upTo[i \in 0..Len(s)] ==
            IF i = 0 THEN <<>>
            ELSE IF i \in K THEN Append(upTo[i - 1], s[i]) ELSE upTo[i - 1]
    IN  upTo[Len(s)]

(* A comprehension [x for x in s if Test(x)].                              *)
Select(s, Test(_)) == At(s, {i \in DOMAIN s : Test(s[i])})
=============================================================================
