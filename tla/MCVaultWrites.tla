--------------------------- MODULE MCVaultWrites ---------------------------
(* Instances of VaultWrites for TLC.                                       *)
EXTENDS VaultWrites, TLC

CONSTANTS s1, s2, n1, n2, n3, n4, x, y, u1, u2

(* One process, three notes of the same file name, and the archive file of *)
(* that name.  The frontmatter of n3 is not YAML, that of the first call's *)
(* text is no mapping.                                                     *)
SoloNames == n1 :> x @@ n2 :> x @@ n3 :> x
SoloScope == s1 :> {n1, n2, n3, <<x, Plain>>}
SoloHeads == [b \in Bodies |-> CASE b = n3 -> "invalid"
                                 [] b = 1 -> "other"
                                 [] OTHER -> "mapping"]

(* Two processes and the editor on the same notes.                         *)
SharedNames == n1 :> x @@ n2 :> x
SharedScope == s1 :> {n1, n2} @@ s2 :> {n1, n2}
SharedHeads == [b \in Bodies |-> IF b = 1 THEN "invalid" ELSE "mapping"]

(* Two processes that archive notes of one name from different folders.    *)
RaceNames == n1 :> x @@ n2 :> x @@ n3 :> y @@ n4 :> y
RaceScope == s1 :> {n1, n3} @@ s2 :> {n2, n4}
PlainHeads == [b \in Bodies |-> "mapping"]
============================================================================
