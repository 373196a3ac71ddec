--------------------------- MODULE MCContextPacks ---------------------------
(* An instance of ContextPacks for TLC.                                    *)
EXTENDS ContextPacks, TLC

CONSTANTS a, b, c, f, g, h, nowhere, tag, x, y, NotUtf8, NotReadable

Order == <<f, g, h>>

Part(head, size) == [head |-> head, size |-> size]
long == [tags |-> {tag}, parts |-> <<Part(x, 2), Part(y, 1)>>]
short == [tags |-> {}, parts |-> <<Part(y, 1)>>]
SomeTexts == {long, short}
SomeBroken == {NotUtf8, NotReadable}

(* Every graph of includes in which a pack includes the others, itself or  *)
(* an undeclared name.                                                     *)
Lists == {<<>>, <<a>>, <<b>>, <<c>>, <<b, c>>, <<c, c>>, <<nowhere>>}
GraphSetup(includes) ==
    [includes |-> includes, paths |-> a :> <<f>> @@ b :> <<g>> @@ c :> <<h>>,
     tags |-> [p \in Packs |-> {}], sections |-> [p \in Packs |-> {}],
     budget |-> [p \in Packs |-> 1], readable |-> {},
     vaults |-> {[p \in Files |-> short]}]

(* Packs that name the same files in several ways, with tags, sections and *)
(* small budgets, in several vaults, with files that cannot be read.       *)
FileSetup(budget, vaults) ==
    [includes |-> a :> <<b, c>> @@ b :> <<c>> @@ c :> <<>>,
     paths |-> a :> <<g>> @@ b :> <<{f, g, h}>> @@ c :> <<f, f>>,
     tags |-> a :> {} @@ b :> {tag} @@ c :> {},
     sections |-> a :> {y} @@ b :> {} @@ c :> {x},
     budget |-> [p \in Packs |-> budget],
     readable |-> {f, g},
     vaults |-> vaults]

Vaults(some) == {v \in [Files -> SomeTexts \cup some \cup {Absent}] : v[h] = long}

SomeSetups == {GraphSetup(i) : i \in [Packs -> Lists]}
              \cup {FileSetup(3, Vaults({})),
                    FileSetup(4, Vaults(Broken) \ Vaults({}))}
============================================================================
