------------------------------- MODULE Chunker -------------------------------
(***************************************************************************)
(* From the pages of a manual to its retrieval chunks: ingest/parser.py    *)
(* (blocks in reading order, table captions, tables that go on overleaf)   *)
(* and ingest/chunker.py (sections, stitching, splitting, identities).     *)
(*                                                                         *)
(* A manual is a sequence of pages; a page is a sequence of items in       *)
(* reading order and the diagram parse is given for it, if any.  A prose   *)
(* line is a sentence; sentences are joined by spaces, so a piece of prose *)
(* is one line, while a diagram keeps its lines.                           *)
(* Lines and rows are [id, size]: what they say and how many tokens it is. *)
(* The length of a text is the sum of its parts, which leaves out what the *)
(* tokenizer does where two parts meet.                                    *)
(***************************************************************************)
EXTENDS Naturals, Sequences, SequencesExt, FiniteSets

CONSTANTS
  MaxTokens,      \* MAX_TOKENS
  OverlapTokens,  \* int(MAX_TOKENS * OVERLAP_RATIO)
  Names, Ids,     \* headings and captions; what a line or a row says
  NoName,         \* no caption, no heading yet
  KeyOf(_),       \* _stable_key of a heading, a caption or a line: two may have one key
  Appendix(_),    \* _classify: the heading starts an exhibit or an appendix
  ExhibitB(_)     \* _classify: the heading names Exhibit B, where the diagrams are

ASSUME ChunkerBounds == MaxTokens \in Nat /\ OverlapTokens \in 0..MaxTokens

Line == [id : Ids, size : Nat]

\* What the layout of a page yields; the header of a table is its first row.
Item == [kind : {"heading"}, level : Nat, name : Names] \cup [kind : {"caption"}, name : Names]
        \cup [kind : {"prose"}, line : Line]
        \cup [kind : {"table"}, header : Line, rows : Seq(Line)]

Tokens(lines) == FoldLeft(LAMBDA n, l : n + l.size, 0, lines)

-----------------------------------------------------------------------------
(* parser.parse: one pass, with the caption that waits for its table and   *)
(* the last table that was not a continuation.                             *)

NoTable == [header |-> NoName, caption |-> NoName]

\* Mutant of Continues.
ContinuesAcrossCaption(st, table) ==
  st.last # NoTable /\ st.tables = 0 /\ st.last.header = table.header

\* The caption decides: sibling tables have the same columns.
Continues(st, table) ==
  /\ st.last # NoTable
  /\ st.tables = 0
  /\ st.pending = NoName
  /\ st.last.header = table.header

ParseTable(st, table) ==
  LET cont    == Continues(st, table)
      caption == IF cont THEN st.last.caption ELSE st.pending
      block   == [kind |-> "table", page |-> st.page, header |-> table.header,
                  caption |-> caption, cont |-> cont, lines |-> table.rows]
  IN [st EXCEPT !.blocks = Append(@, block),
                !.tables = @ + 1,
                !.last = IF cont THEN @ ELSE [header |-> table.header, caption |-> caption],
                !.pending = IF cont THEN @ ELSE NoName]

ParseItem(st, item) ==
  CASE item.kind = "heading" -> [st EXCEPT !.blocks = Append(@, item), !.pending = NoName]
    [] item.kind = "caption" -> [st EXCEPT !.pending = item.name]
    [] item.kind = "prose"   -> [st EXCEPT !.blocks = Append(@, [kind |-> "prose",
                                   page |-> st.page, lines |-> <<item.line>>])]
    [] item.kind = "table"   -> ParseTable(st, item)

\* The diagram of a page comes after everything else on it, if it has a text.
ParsePage(st, page) ==
  LET read == FoldLeft(ParseItem, [st EXCEPT !.page = @ + 1, !.tables = 0], page.items)
  IN IF page.diagram = <<>> THEN read
     ELSE [read EXCEPT !.blocks = Append(@, [kind |-> "flowchart", page |-> read.page,
                                             lines |-> page.diagram, marked |-> page.marked])]

JoinLast(out, b) == [out EXCEPT ![Len(out)].lines = @ \o b.lines]

\* Consecutive prose becomes one paragraph, across pages too.
MergeBlock(out, b) ==
  IF b.kind = "prose" /\ out # <<>> /\ Last(out).kind = "prose"
  THEN JoinLast(out, b) ELSE Append(out, b)

MergeProse(blocks) == FoldLeft(MergeBlock, <<>>, blocks)

Parse(pages) ==
  MergeProse(FoldLeft(ParsePage, [blocks |-> <<>>, pending |-> NoName, last |-> NoTable,
                                  page |-> 0, tables |-> 0], pages).blocks)

-----------------------------------------------------------------------------
(* chunker._group and _stitch.                                             *)

NewGroup(section, sub) == [section |-> section, sub |-> sub, blocks |-> <<>>]

GroupBlock(acc, b) ==
  IF b.kind = "heading"
  THEN LET top == b.level \in {1, 2}
           section == IF top THEN b.name ELSE acc.section
       IN [section |-> section,
           groups |-> Append(acc.groups, NewGroup(section, IF top THEN NoName ELSE b.name))]
  ELSE LET groups == IF acc.groups = <<>> THEN <<NewGroup(acc.section, NoName)>> ELSE acc.groups
       IN [acc EXCEPT !.groups = [groups EXCEPT ![Len(groups)].blocks = Append(@, b)]]

Group(blocks) == FoldLeft(GroupBlock, [section |-> NoName, groups |-> <<>>], blocks).groups

\* A continuation joins the table right before it, without its header.
StitchBlock(out, b) ==
  IF b.kind = "table" /\ b.cont /\ out # <<>> /\ Last(out).kind = "table"
  THEN JoinLast(out, b) ELSE Append(out, b)

Stitch(blocks) == FoldLeft(StitchBlock, <<>>, blocks)

-----------------------------------------------------------------------------
(* chunker._split_prose, _split_table, _split_flowchart.                   *)

\* Mutant of Carry.
CarryPiece(cur) == cur

\* The longest run of last sentences within the overlap.
Carry(cur) ==
  LET first == CHOOSE i \in 1..Len(cur) + 1 :
                 /\ Tokens(SubSeq(cur, i, Len(cur))) <= OverlapTokens
                 /\ \A j \in 1..i - 1 : Tokens(SubSeq(cur, j, Len(cur))) > OverlapTokens
  IN SubSeq(cur, first, Len(cur))

AddSentence(acc, line) ==
  IF acc.cur # <<>> /\ Tokens(acc.cur) + line.size > MaxTokens
  THEN [out |-> Append(acc.out, acc.cur), cur |-> Append(Carry(acc.cur), line)]
  ELSE [acc EXCEPT !.cur = Append(@, line)]

SplitProse(lines) ==
  IF Tokens(lines) <= MaxTokens THEN <<lines>>
  ELSE LET end == FoldLeft(AddSentence, [out |-> <<>>, cur |-> <<>>], lines)
       IN Append(end.out, end.cur)

\* What every piece of a table repeats: its caption and its header row.
Prefix(block) ==
  IF block.kind = "table" THEN block.header.size + (IF block.caption = NoName THEN 0 ELSE 1)
  ELSE 0

AddRow(acc, row, prefix) ==
  IF acc.cur # <<>> /\ prefix + Tokens(acc.cur) + row.size > MaxTokens
  THEN [out |-> Append(acc.out, acc.cur), cur |-> <<row>>]
  ELSE [acc EXCEPT !.cur = Append(@, row)]

\* Mutant of SplitTable.
SplitTableDroppingLast(block) ==
  IF Prefix(block) + Tokens(block.lines) <= MaxTokens THEN <<block.lines>>
  ELSE LET Add(acc, row) == AddRow(acc, row, Prefix(block))
       IN FoldLeft(Add, [out |-> <<>>, cur |-> <<>>], block.lines).out

\* A table without body rows that is too long yields nothing.
SplitTable(block) ==
  IF Prefix(block) + Tokens(block.lines) <= MaxTokens THEN <<block.lines>>
  ELSE LET Add(acc, row) == AddRow(acc, row, Prefix(block))
           end == FoldLeft(Add, [out |-> <<>>, cur |-> <<>>], block.lines)
       IN IF end.cur = <<>> THEN end.out ELSE Append(end.out, end.cur)

\* A marked diagram is split before its edge list, which repeats the title.
SplitFlowchart(block) ==
  IF Tokens(block.lines) <= MaxTokens THEN <<block.lines>>
  ELSE IF block.marked = 0 THEN SplitProse(block.lines)
  ELSE SplitProse(SubSeq(block.lines, 1, block.marked))
       \o SplitProse(<<Head(block.lines)>> \o SubSeq(block.lines, block.marked + 1, Len(block.lines)))

Split(block) ==
  CASE block.kind = "table" -> SplitTable(block)
    [] block.kind = "flowchart" -> SplitFlowchart(block)
    [] block.kind = "prose" -> SplitProse(block.lines)

-----------------------------------------------------------------------------
(* chunker.chunk.                                                          *)

Cut(group, block, parts) ==
  [k \in DOMAIN parts |-> [group |-> group, block |-> block, lines |-> parts[k]]]

GroupPieces(g) == FoldLeft(LAMBDA out, b : out \o Cut(g, b, Split(b)), <<>>, Stitch(g.blocks))

Pieces(pages) == FoldLeft(LAMBDA out, g : out \o GroupPieces(g), <<>>, Group(Parse(pages)))

Texts(lines) == [k \in DOMAIN lines |-> lines[k].id]

\* _classify: prose of Exhibit B passes for a diagram.
SectionKind(section) ==
  CASE ExhibitB(section) -> "flowchart"
    [] ~ExhibitB(section) /\ Appendix(section) -> "appendix"
    [] OTHER -> "prose"

ChunkKind(piece) ==
  IF piece.block.kind = "prose" THEN SectionKind(piece.group.section) ELSE piece.block.kind

FirstLine(piece) ==
  IF piece.block.kind = "prose" THEN Texts(piece.lines) ELSE <<Head(piece.lines).id>>

\* _lineage_anchor: what names the piece, apart from its section.
Anchor(piece) ==
  CASE ChunkKind(piece) = "table" -> KeyOf(piece.block.caption)
    [] ChunkKind(piece) = "flowchart" -> KeyOf(FirstLine(piece))
    [] OTHER -> NoName

\* Tables and diagrams, and what passes for one, are named by themselves, other
\* prose by its headings.
LineageKey(piece) ==
  IF ChunkKind(piece) \in {"table", "flowchart"}
  THEN <<NoName, NoName, ChunkKind(piece), Anchor(piece)>>
  ELSE <<KeyOf(piece.group.section), KeyOf(piece.group.sub), ChunkKind(piece), Anchor(piece)>>

\* Mutant of Lineage.
LineageBySection(pieces, i) ==
  <<LineageKey(pieces[i]),
    Cardinality({j \in 1..i : /\ LineageKey(pieces[j]) = LineageKey(pieces[i])
                              /\ pieces[j].group.section = pieces[i].group.section})>>

\* The count runs over the whole document.
Lineage(pieces, i) ==
  <<LineageKey(pieces[i]),
    Cardinality({j \in 1..i : LineageKey(pieces[j]) = LineageKey(pieces[i])})>>

ChunkOf(piece, pos, lineage) ==
  [doc |-> NoName, edition |-> NoName, revision |-> 1,
   pos |-> pos, text |-> Texts(piece.lines),
   tokens |-> Prefix(piece.block) + Tokens(piece.lines),
   atom |-> Prefix(piece.block)
            + (IF piece.lines = <<>> THEN 0 ELSE Last(piece.lines).size),
   kind |-> ChunkKind(piece), page |-> piece.block.page,
   section |-> piece.group.section, sub |-> piece.group.sub,
   table |-> IF piece.block.kind = "table" THEN piece.block.caption ELSE NoName,
   lineage |-> lineage]

Chunked(pieces) == [i \in DOMAIN pieces |-> ChunkOf(pieces[i], i - 1, Lineage(pieces, i))]

Chunk(pages) == Chunked(Pieces(pages))
=============================================================================
