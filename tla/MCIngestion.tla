---------------------------- MODULE MCIngestion ----------------------------
(* A small instance of Ingestion: three versions of a manual. *)
EXTENDS Ingestion

CONSTANTS
  o1, o2,
  MaxItems  \* bound: items of a surveyed manual

\* Items by shape; a line is named after its place in the manual.
Shapes == {"top", "same", "exhibit", "sub", "caption", "other", "short", "long", "table", "wide", "page", "picture"}

Columns == [id |-> <<"columns", 0, 0>>, size |-> 1]

Row(i, k, n) == [id |-> <<"row", i, k>>, size |-> n]

Sentence(i, n) == [id |-> <<"line", i, n>>, size |-> n]

Heading(level, name) == [kind |-> "heading", level |-> level, name |-> name]

Shaped(shape, i) ==
  CASE shape = "top" -> Heading(1, <<"Income">>)
    [] shape = "same" -> Heading(2, <<"income">>)
    [] shape = "exhibit" -> Heading(1, <<"Exhibit B">>)
    [] shape = "sub" -> Heading(3, <<"Assets">>)
    [] shape = "caption" -> [kind |-> "caption", name |-> <<"Table 1">>]
    [] shape = "other" -> [kind |-> "caption", name |-> <<"Table 2">>]
    [] shape = "short" -> [kind |-> "prose", line |-> Sentence(i, 2)]
    [] shape = "long" -> [kind |-> "prose", line |-> Sentence(i, 5)]
    [] shape = "table" -> [kind |-> "table", header |-> Columns, rows |-> <<Row(i, 1, 2), Row(i, 2, 2)>>]
    [] shape = "wide" -> [kind |-> "table", header |-> Columns, rows |-> <<Row(i, 1, 6)>>]

Diagram(i) == [k \in 1..4 |-> [id |-> <<"edge", i, k>>, size |-> 2]]

PageOf(items) == [items |-> items, pictures |-> <<>>]

Picked(i, image) == [text |-> Diagram(i), marked |-> 2, image |-> image]

Drawn(page, i) == [page EXCEPT !.pictures = <<Picked(i, NoName)>>]

\* A shape "page" turns the page, "picture" draws the page's diagram and turns it.
AddShape(pages, shape, i) ==
  CASE shape = "page" -> Append(pages, PageOf(<<>>))
    [] shape = "picture" -> Append([pages EXCEPT ![Len(pages)] = Drawn(@, i)], PageOf(<<>>))
    [] OTHER -> [pages EXCEPT ![Len(pages)].items = Append(@, Shaped(shape, i))]

PagesOf(shapes) ==
  LET Pages[i \in 0..Len(shapes)] ==
        IF i = 0 THEN <<PageOf(<<>>)>> ELSE AddShape(Pages[i - 1], shapes[i], i)
  IN Pages[Len(shapes)]

\* "scan" is a page with two diagrams that need the API.
Scan == <<[PageOf(<<Shaped("top", 1), Shaped("short", 2)>>) EXCEPT
             !.pictures = <<Picked(8, "flow"), Picked(9, "graph")>>]>>

Scanned == <<"scan">>

MCContent(e) == IF e = Scanned THEN Scan ELSE PagesOf(e)

Old   == <<"top", "short", "short", "short">>
New   == <<"top", "short", "sub", "short">>
Newer == <<"exhibit", "short", "sub", "long">>

V0 == [id |-> "manual", order |-> 0]
V1 == [id |-> "manual", order |-> 1]
V2 == [id |-> "manual", order |-> 2]

MCManifest == <<V0, V1, V2>>
MCEditions == (V0 :> {Old, Scanned}) @@ (V1 :> {New, Newer}) @@ (V2 :> {Old})

Survey == UNION {[1..n -> Shapes] : n \in 1..MaxItems}
Shelf(e) == (V0 :> e) @@ (V1 :> New) @@ (V2 :> Old)

MCShelves == {Shelf(e) : e \in {Old} \cup Survey}

MCNames == {<<"Income">>, <<"income">>, <<"Exhibit B">>, <<"Assets">>, <<"Table 1">>, <<"Table 2">>}
MCIds == {"columns", "row", "line", "edge"} \X (0..9) \X (0..6)

\* Two headings have one key, and so have the titles of diagrams and short
\* sentences: the first line of a diagram may be the sentence that stands by it.
MCKeyOf(name) ==
  CASE name = <<"income">> -> <<"Income">>
    [] name \in {<<id>> : id \in {"edge", "line"} \X (0..9) \X {1, 2}} -> <<<<"title", 0, 0>>>>
    [] OTHER -> name
MCAppendix(name) == name \in {<<"Assets">>, <<"Exhibit B">>}
MCExhibitB(name) == name = <<"Exhibit B">>

Symmetry == Permutations(Operators)
=============================================================================
