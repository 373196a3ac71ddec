------------------------------ MODULE Markdown ------------------------------
(***************************************************************************)
(* What the program makes of the text of a note: the parser of the index   *)
(* (indexing/parser: headings, sections, blocks) and the reader of one     *)
(* section (markdown/_headings.py, retrieval/readers.py).                  *)
(*                                                                         *)
(* A note is a sequence of lines, front matter included.  A line is known  *)
(* by what the scans tell apart: its kind, its size in characters, the     *)
(* level of a heading, the marker, length and suffix of a code fence, and  *)
(* one word, which is the text of a heading.  Headings are taken to differ *)
(* as their slugs do, and lines not to begin or end with white space.      *)
(*                                                                         *)
(* The parser splits a text at line breaks.  The reader uses               *)
(* str.splitlines, which splits at form feeds, U+2028 and their like, too: *)
(* line.cut is what it makes of a line that has one of those in it, and is *)
(* empty for any other line.                                               *)
(*                                                                         *)
(* A text made of lines is a sequence of pieces: part of a line each.      *)
(***************************************************************************)
EXTENDS Lists

CONSTANTS
    CharsPerToken,   \* 4 in estimate_markdown_tokens
    MinTokens,       \* TARGET_BLOCK_MIN_TOKENS
    TargetTokens,    \* TARGET_BLOCK_MAX_TOKENS
    HardTokens,      \* HARD_BLOCK_MAX_TOKENS
    Root             \* the slug of the text before the first heading

ASSUME MarkdownAssumption ==
    /\ CharsPerToken \in Nat \ {0}
    /\ MinTokens \in Nat /\ TargetTokens \in Nat /\ HardTokens \in Nat \ {0}
    /\ MinTokens <= TargetTokens /\ TargetTokens <= HardTokens

-----------------------------------------------------------------------------
(* Code fences and headings *)

NoFence == [mark |-> "", length |-> 0]

IsFence(line) == line.kind = "fence"
Closes(line, fence) ==
    /\ IsFence(line) /\ line.mark = fence.mark
    /\ line.length >= fence.length

NextFenceState(line, fence) ==
    IF ~IsFence(line) THEN fence
    ELSE IF fence = NoFence THEN [mark |-> line.mark, length |-> line.length]
    ELSE IF Closes(line, fence) /\ ~line.suffix THEN NoFence
    ELSE fence

FenceStates(lines) ==
    LET after[k \in 0..Len(lines)] ==
            IF k = 0 THEN NoFence ELSE NextFenceState(lines[k], after[k - 1])
    IN  after

(* The lines that look like a heading, in code fences too.                 *)
HeadingLines(lines) == {k \in DOMAIN lines : lines[k].kind = "heading"}

(* The indexes of the headings of a text.                                  *)
Headings(lines) ==
    LET after == FenceStates(lines)
    IN  {k \in DOMAIN lines :
            lines[k].kind = "heading" /\ after[k] = NoFence}

Least(S) == CHOOSE i \in S : \A j \in S : i <= j
(* Lines of a text, given by their indexes, in the order of the text.       *)
InOrder(lines, K) == At([k \in DOMAIN lines |-> k], K)
IsBlank(line) == line.kind = "blank"

(* What a text is: its empty lines are those that have no characters, and  *)
(* a fence has some.                                                       *)
IsLine(line) ==
    /\ line.size \in Nat /\ (IsBlank(line) <=> line.size = 0)
    /\ IsFence(line) => line.length \in Nat \ {0}
    /\ IsList(line.cut)
IsBody(lines) == IsList(lines) /\ \A k \in DOMAIN lines : IsLine(lines[k])

-----------------------------------------------------------------------------
(* Sections of the index.  `lines` is the body of a note. *)

(* Mutant: headings are counted per level.                                 *)
OrdinalPerLevel(lines, hs, h) ==
    Cardinality({k \in hs : k <= h /\ lines[k].word = lines[h].word
                                  /\ lines[k].level = lines[h].level})

Ordinal(lines, hs, h) ==
    Cardinality({k \in hs : k <= h /\ lines[k].word = lines[h].word})

(* The open headings at h: those that no heading of their level or above   *)
(* has closed.                                                             *)
HeadingStack(lines, hs, h) ==
    {k \in hs : k <= h /\
        \A j \in hs : k < j /\ j <= h => lines[k].level < lines[j].level}
SectionPath(lines, hs, h) ==
    LET stack == InOrder(lines, HeadingStack(lines, hs, h))
    IN  [i \in DOMAIN stack |-> lines[stack[i]].word]

RootSection(last) ==
    [slug |-> Root, ordinal |-> 1, level |-> 0, path |-> <<Root>>,
     at |-> 0, first |-> 1, last |-> last]

HeadingSection(lines, hs, h) ==
    [slug |-> lines[h].word, ordinal |-> Ordinal(lines, hs, h),
     level |-> lines[h].level, path |-> SectionPath(lines, hs, h),
     at |-> h, first |-> h + 1,
     last |-> Least({k \in hs : k > h} \cup {Len(lines) + 1}) - 1]

Sections(lines) ==
    LET hs == Headings(lines)
        order == InOrder(lines, hs)
        before == Least(hs \cup {Len(lines) + 1}) - 1
        named == [i \in DOMAIN order |-> HeadingSection(lines, hs, order[i])]
    IN  IF hs = {} \/ \E k \in 1..before : ~IsBlank(lines[k])
        THEN <<RootSection(before)>> \o named
        ELSE named

SectionKey(s) == <<s.slug, s.ordinal>>

-----------------------------------------------------------------------------
(* Texts *)

Piece(lines, k) == [line |-> k, from |-> 0, to |-> lines[k].size]
Size(piece) == piece.to - piece.from

(* str.strip(): what is left without the empty lines around it.            *)
Strip(text) ==
    LET full == {i \in DOMAIN text : Size(text[i]) > 0}
    IN  IF full = {} THEN <<>>
        ELSE SubSeq(text, Least(full),
                    CHOOSE i \in full : \A j \in full : j <= i)

SumSizes(text) ==
    LET sum[k \in 0..Len(text)] ==
            IF k = 0 THEN 0 ELSE sum[k - 1] + Size(text[k])
    IN  sum[Len(text)]

(* Characters of lines joined by line breaks, and of units joined by empty *)
(* lines.                                                                  *)
LineChars(text) ==
    LET t == Strip(text) IN IF t = <<>> THEN 0 ELSE SumSizes(t) + Len(t) - 1
UnitChars(units) ==
    LET sum[k \in 0..Len(units)] ==
            IF k = 0 THEN 0
            ELSE sum[k - 1] + LineChars(units[k]) + (IF k = 1 THEN 0 ELSE 2)
    IN  sum[Len(units)]

EstimateTokens(chars) == (chars + CharsPerToken - 1) \div CharsPerToken
LineTokens(text) == EstimateTokens(LineChars(text))
UnitTokens(units) == EstimateTokens(UnitChars(units))

-----------------------------------------------------------------------------
(* Units of a section: a fenced block, a table or a paragraph each.        *)

(* The fence of the chunker closes at any fence line that is long enough,  *)
(* one with a suffix too.                                                  *)
FenceEnd(lines, k, last) ==
    Least({j \in k + 1 .. last : Closes(lines[j], lines[k])} \cup {last})
RunEnd(k, last, stops) ==
    Least({j \in k .. last : j = last \/ j + 1 \in stops})

(* Mutant: a fence is a paragraph.                                         *)
UnitEndsAtBlank(lines, k, last) ==
    IF lines[k].kind = "table"
    THEN RunEnd(k, last, {j \in k..last : lines[j].kind # "table"})
    ELSE RunEnd(k, last, {j \in k..last :
                             lines[j].kind \in {"blank", "table"}})

UnitEnd(lines, k, last) ==
    CASE lines[k].kind = "fence" -> FenceEnd(lines, k, last)
      [] lines[k].kind = "table" ->
            RunEnd(k, last, {j \in k..last : lines[j].kind # "table"})
      [] OTHER ->
            RunEnd(k, last, {j \in k..last :
                                lines[j].kind \in {"blank", "fence", "table"}})

SectionUnits(lines, section) ==
    LET units[k \in section.first .. section.last + 1] ==
            IF k > section.last THEN <<>>
            ELSE IF IsBlank(lines[k]) THEN units[k + 1]
            ELSE LET end == UnitEnd(lines, k, section.last)
                 IN  <<[i \in 1 .. end - k + 1 |-> Piece(lines, k + i - 1)]>>
                     \o units[end + 1]
    IN  units[section.first]

-----------------------------------------------------------------------------
(* A unit that is larger than a block is cut between lines, a line that is *)
(* larger than a block inside.                                             *)

HardChars == HardTokens * CharsPerToken

SplitLongLine(piece) ==
    [i \in 1 .. (Size(piece) + HardChars - 1) \div HardChars |->
        <<[line |-> piece.line, from |-> (i - 1) * HardChars,
           to |-> LET end == i * HardChars
                  IN  IF end < piece.to THEN end ELSE piece.to]>>]

Flush(parts, buffer) == IF buffer = <<>> THEN parts ELSE Append(parts, buffer)

(* Mutant: a long line takes the lines before it with it.                  *)
SplitDropsBuffer(unit) ==
    LET state[k \in 0..Len(unit)] ==
            IF k = 0 THEN [parts |-> <<>>, buffer |-> <<>>]
            ELSE
            LET s == state[k - 1] IN
            IF LineTokens(<<unit[k]>>) > HardTokens
            THEN [parts |-> s.parts \o SplitLongLine(unit[k]),
                  buffer |-> <<>>]
            ELSE IF LineTokens(Append(s.buffer, unit[k])) > HardTokens
            THEN [parts |-> Flush(s.parts, s.buffer), buffer |-> <<unit[k]>>]
            ELSE [parts |-> s.parts, buffer |-> Append(s.buffer, unit[k])]
        end == state[Len(unit)]
    IN  IF LineTokens(unit) <= HardTokens THEN <<unit>>
        ELSE Select(Flush(end.parts, end.buffer),
                    LAMBDA part : Strip(part) # <<>>)

SplitOversized(unit) ==
    LET state[k \in 0..Len(unit)] ==
            IF k = 0 THEN [parts |-> <<>>, buffer |-> <<>>]
            ELSE
            LET s == state[k - 1] IN
            IF LineTokens(<<unit[k]>>) > HardTokens
            THEN [parts |-> Flush(s.parts, s.buffer) \o SplitLongLine(unit[k]),
                  buffer |-> <<>>]
            ELSE IF s.buffer # <<>>
                    /\ LineTokens(Append(s.buffer, unit[k])) > HardTokens
            THEN [parts |-> Flush(s.parts, s.buffer), buffer |-> <<unit[k]>>]
            ELSE [parts |-> s.parts, buffer |-> Append(s.buffer, unit[k])]
        end == state[Len(unit)]
    IN  IF LineTokens(unit) <= HardTokens THEN <<unit>>
        ELSE Select(Flush(end.parts, end.buffer),
                    LAMBDA part : Strip(part) # <<>>)

ExpandedUnits(units) ==
    LET parts[k \in 0..Len(units)] ==
            IF k = 0 THEN <<>> ELSE parts[k - 1] \o SplitOversized(units[k])
    IN  parts[Len(units)]

-----------------------------------------------------------------------------
(* Blocks: units are put together up to the target, and beyond it as long  *)
(* as the block is small.  A block is the sequence of its units.           *)

(* Mutant: a small block takes the next unit whatever its size.            *)
JoinsSmall(current, unit) ==
    \/ UnitTokens(Append(current, unit)) <= TargetTokens
    \/ UnitTokens(current) < MinTokens

(* Mutant: a block is full at the target.                                  *)
JoinsToTarget(current, unit) ==
    UnitTokens(Append(current, unit)) <= TargetTokens

Joins(current, unit) ==
    /\ UnitTokens(Append(current, unit)) <= HardTokens
    /\ \/ UnitTokens(Append(current, unit)) <= TargetTokens
       \/ UnitTokens(current) < MinTokens

BuildBlocks(lines, section) ==
    LET units == ExpandedUnits(SectionUnits(lines, section))
        state[k \in 0..Len(units)] ==
            IF k = 0 THEN [blocks |-> <<>>, current |-> <<>>]
            ELSE
            LET s == state[k - 1] IN
            IF s.current = <<>> \/ Joins(s.current, units[k])
            THEN [s EXCEPT !.current = Append(@, units[k])]
            ELSE [blocks |-> Append(s.blocks, s.current),
                  current |-> <<units[k]>>]
        end == state[Len(units)]
    IN  Flush(end.blocks, end.current)

(* The blocks of a note, in order, each with its section.                  *)
ParseMarkdown(lines) ==
    LET ss == Sections(lines)
        blocks[k \in 0..Len(ss)] ==
            IF k = 0 THEN <<>>
            ELSE LET bs == BuildBlocks(lines, ss[k])
                 IN  blocks[k - 1] \o
                     [i \in DOMAIN bs |-> [section |-> ss[k], ordinal |-> i,
                                           units |-> bs[i]]]
    IN  blocks[Len(ss)]

-----------------------------------------------------------------------------
(* Reading one section.  `lines` is the whole file as the reader splits it:*)
(* the scan for headings goes over the front matter, too.                  *)

Shown(line) == IF line.cut = <<>> THEN <<line>> ELSE line.cut
ReaderLines(lines) == FlattenSeq([k \in DOMAIN lines |-> Shown(lines[k])])
(* Where the reader has the last of what it makes of line k.               *)
ReaderEnd(lines, k) == Len(ReaderLines(SubSeq(lines, 1, k)))

MatchingHeading(lines, name) ==
    {h \in Headings(lines) : lines[h].word = name}

(* Mutant: any line that looks like a heading ends a section.              *)
SectionEndInFence(lines, h) ==
    Least({k \in HeadingLines(lines) :
              k > h /\ lines[k].level <= lines[h].level}
          \cup {Len(lines) + 1}) - 1

SectionEnd(lines, h) ==
    Least({k \in Headings(lines) : k > h /\ lines[k].level <= lines[h].level}
          \cup {Len(lines) + 1}) - 1

(* Up to three full lines above the heading, of its own section and below  *)
(* the front matter, which is `front` lines long.                          *)
ContextPrefix(lines, front, h) ==
    LET start == Least({k \in front + 1 .. h :
                          \A j \in k .. h - 1 : j \notin Headings(lines)}
                       \cup {h})
        full == {k \in start .. h - 1 : ~IsBlank(lines[k])}
    IN  {k \in full : Cardinality({j \in full : j > k}) < 3}

ExtractSection(lines, front, name) ==
    LET found == MatchingHeading(lines, name)
        h == Least(found)
    IN  IF found = {} THEN [found |-> FALSE]
        ELSE [found |-> TRUE, heading |-> h, end |-> SectionEnd(lines, h),
              prefix |-> ContextPrefix(lines, front, h)]
=============================================================================
