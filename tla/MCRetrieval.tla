---------------------------- MODULE MCRetrieval ----------------------------
(* Instances of Retrieval for TLC.                                         *)
EXTENDS Retrieval, TLC

CONSTANTS
    a, b, none,         \* words; none is the word of lines without one
    blue,               \* a tag
    LongDocs, WideDocs  \* bounds on the lines of the notes of LongTexts

(***************************************************************************)
(* Lines.  A block has at most 9 tokens of 2 characters, so that 17 and 18 *)
(* characters fit and 40 must be cut; 3 tokens are the minimum, 6 the      *)
(* target.                                                                 *)
(***************************************************************************)
Plain(word, size) ==
    [kind |-> IF size = 0 THEN "blank" ELSE "text", word |-> word,
     size |-> size, level |-> 0, mark |-> "", length |-> 0, suffix |-> FALSE,
     cut |-> <<>>]
Table == [Plain(none, 5) EXCEPT !.kind = "table"]
Heading(word, level) ==
    [Plain(word, level + 2) EXCEPT !.kind = "heading", !.level = level]
Fence(mark, length, suffix) ==
    [Plain(none, length + (IF suffix THEN 4 ELSE 0)) EXCEPT
        !.kind = "fence", !.mark = mark, !.length = length,
        !.suffix = suffix]

Blank == Plain(none, 0)
Dash == Plain(none, 3)

(* Lines with a form feed, which only the reader splits.                   *)
Cut(line, parts) == [line EXCEPT !.cut = parts]
FormFeed == Cut(Plain(a, 7), <<Plain(none, 2), Blank, Plain(a, 4)>>)
HiddenHeading == Cut(Plain(none, 6), <<Plain(none, 2), Heading(b, 1)>>)

Doc(front, body, tags) == [front |-> front, body |-> body, tags |-> tags]
Bodies(lines, n) == UNION {[1..k -> lines] : k \in 0..n}

(* Notes of every shape, which are indexed, searched and read as they are. *)
LongLines == {Plain(a, 4), Plain(a, 17), Plain(none, 40), Blank, Table,
              Fence("backtick", 3, FALSE), Fence("backtick", 3, TRUE), Heading(a, 1),
              Heading(Root, 2)}
WideLines == {Plain(a, 4), Plain(none, 9), Blank, Fence("backtick", 3, FALSE)}
CutLines == {FormFeed, Heading(a, 1), Heading(b, 2), Fence("backtick", 3, FALSE)}
LongTexts ==
    {Doc(<<>>, body, {}) :
        body \in Bodies(LongLines, LongDocs) \cup Bodies(WideLines, WideDocs)
                \cup Bodies(CutLines, LongDocs)
                \cup {<<Heading(a, 1), HiddenHeading, Plain(a, 4)>>}}

(* Notes that are written, changed and deleted, in a vault with a private  *)
(* note, a link to it and a link to a directory.                           *)
Under(word) == <<Heading(word, 1), Plain(word, 4)>>
Below(word) == <<Heading(word, 2), Plain(word, 4)>>
ShortTexts ==
    {Doc(<<>>, <<Plain(b, 4)>> \o Under(a) \o <<Heading(b, 2), Plain(a, 17)>>,
         {blue}),
     Doc(<<Dash, Heading(b, 1), Dash>>, Under(a) \o Below(b) \o Under(b), {}),
     Doc(<<>>, <<Plain(a, 4)>> \o Under(Root), {})}    \* keys clash

Note == <<"wiki", "note">>
Private == <<"private", "note">>
Alias == <<"wiki", "sub", "alias">>
AllPlaces == {Note, Private, Alias}
AllLinks == Alias :> Private @@ <<"link">> :> <<"wiki">> @@ <<"out">> :> <<"..">>

TheRoot == <<"home", "vault">>

Rule(kind, parts) == [kind |-> kind, parts |-> parts]
Wiki == [allow |-> {Rule("glob", <<"wiki", "**">>)}, deny |-> {}]
Public == [allow |-> {Rule("glob", <<"**">>)},
           deny |-> {Rule("directory", <<"private">>), Rule("file", Alias)}]
AllConfigs == {Wiki, Public}

Ask(path, heading) == [path |-> path, heading |-> heading]
AllRequests ==
    {Ask(Note, a), Ask(<<"link", "", "note">>, b), Ask(Alias, a),
     Ask(<<"wiki", "..", "private", "note">>, a), Ask(<<"out", "note">>, a),
     Ask(<<"", "wiki", "note">>, a), Ask(<<"">> \o TheRoot \o Note, a)}

Query(terms, limit) ==
    [terms |-> terms, regex |-> FALSE, pattern |-> {}, limit |-> limit,
     tags |-> {}, paths |-> {}, exclude |-> {}]
AllQueries ==
    {Query({a}, 8), Query({b}, 2),
     [Query({a, b}, 1) EXCEPT !.regex = TRUE, !.pattern = {a}],
     [Query({a}, 8) EXCEPT !.tags = {blue}, !.exclude = {<<"*", "*">>}],
     [Query({a}, 8) EXCEPT !.paths = {<<"**", "note">>}]}
AllDebugQueries ==
    {[terms |-> {a}, prefix |-> <<"wiki">>, tags |-> {blue}, limit |-> 1]}

(* A vault that changes and vaults of one note that do not.                *)
AllSetups ==
    {[vaults |-> [{Note, Private} -> ShortTexts], changes |-> 3,
      configs |-> AllConfigs]}
    \cup {[vaults |-> {(Note :> d) @@ (Private :> Absent) : d \in LongTexts},
           changes |-> 0, configs |-> {Public}]}
=============================================================================
