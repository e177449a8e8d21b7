------------------------------ MODULE Ingestion ------------------------------
(***************************************************************************)
(* The offline path from the manuals on disk to a searchable index:        *)
(* scripts/run_chunking.py writes the chunk file, scripts/run_embed.py     *)
(* embeds it and loads it into the legacy collection, prepare_build        *)
(* (store/index_builds.py) makes an immutable build of it.                 *)
(*                                                                         *)
(* A step is one access to a manual, the chunk file, a cache file or       *)
(* Qdrant.  Operators work at the same time, and an author replaces        *)
(* manuals under them.  A process may die between two steps, also in the   *)
(* middle of a file.                                                       *)
(***************************************************************************)
EXTENDS Chunker

CONSTANTS
  Operators,   \* processes of the two scripts
  Manifest,    \* the corpus: a sequence of [id, order], one per version of a manual
  Editions,    \* per document, the editions an author may put on disk
  Shelves,     \* what is on disk at first: document -> edition
  Content(_),  \* the pages of an edition
  Images,      \* diagrams that need a caption from the vision API
  GroupBudget, \* GROUP_TOKEN_BUDGET
  NoCollection, NoBuild,
  MaxJobs,     \* bound: commands run
  MaxEdits,    \* bound: manuals replaced
  MaxFaults    \* bound: processes that die

Documents == ToSet(Manifest)

\* load_manifest: a version has an order of its own in its family.
ASSUME ManifestIsListed ==
  /\ Manifest \in Seq(ToSet(Manifest))
  /\ \A d \in Documents : d = [id |-> d.id, order |-> d.order] /\ d.order \in Nat
  /\ \A i, j \in DOMAIN Manifest : i # j => Manifest[i] # Manifest[j]

\* An image of a page and the text it has: the author's, one for all images of the
\* page, or a caption that the API may yield (image # NoName; an empty one is none).
\* The edge list, if any, begins behind the first "marked" lines.
Picture == [text : Seq(Line), marked : Nat, image : Images \cup {NoName}]

Page == [items : Seq(Item), pictures : Seq(Picture)]

ASSUME ManualsAreRead ==
  /\ \A shelf \in Shelves : DOMAIN shelf = Documents
  /\ \A e \in (UNION {Editions[d] : d \in Documents})
             \cup {shelf[d] : shelf \in Shelves, d \in Documents} :
       Content(e) \in Seq(Page)
       /\ \A p \in ToSet(Content(e)) : \A q \in ToSet(p.pictures) :
            q.text # <<>> /\ q.marked \in 0..Len(q.text)

ASSUME IngestionBounds == MaxJobs \in Nat /\ MaxEdits \in Nat /\ MaxFaults \in Nat

VARIABLES
  manual,    \* document -> edition on disk
  captions,  \* image -> its caption file: "none", "torn" or "whole"
  file,      \* chunks_v2.json
  vectors,   \* the embedding cache: group of texts -> "torn" or "whole"
  coll,      \* the legacy collection: a set of points
  aliased,   \* some alias names the legacy collection
  build,     \* the last build made
  pc, job,   \* per operator: the next step and its locals
  jobs, edits, faults

vars == <<manual, captions, file, vectors, coll, aliased, build, pc, job, jobs, edits, faults>>

NoJob == [kind |-> "none", docs |-> <<>>, out |-> <<>>, groups |-> <<>>, points |-> {},
          flag |-> FALSE]

Init ==
  /\ manual \in Shelves
  /\ captions = [i \in Images |-> "none"]
  /\ file = [state |-> "none", chunks |-> <<>>]
  /\ vectors = << >> /\ coll = NoCollection /\ aliased = FALSE /\ build = NoBuild
  /\ pc = [o \in Operators |-> "idle"] /\ job = [o \in Operators |-> NoJob]
  /\ jobs = 0 /\ edits = 0 /\ faults = 0

Goto(o, step) == pc' = [pc EXCEPT ![o] = step]

\* Mutant of Leave.
LeaveKeepingJob(o) == Goto(o, "idle") /\ UNCHANGED job

Leave(o) == Goto(o, "idle") /\ job' = [job EXCEPT ![o] = NoJob]

Begin(o, j, step) ==
  /\ pc[o] = "idle" /\ jobs < MaxJobs /\ jobs' = jobs + 1
  /\ job' = [job EXCEPT ![o] = j] /\ Goto(o, step)
  /\ UNCHANGED <<manual, captions, file, vectors, coll, aliased, build, edits, faults>>

-----------------------------------------------------------------------------
(* run_chunking.                                                           *)

\* Bound: a manual outside Editions is chunked once, by itself, and goes no further.
OnShelf == \A d \in Documents : manual[d] \in Editions[d]

Surveyed(docs, flag) ==
  ~OnShelf => jobs = 0 /\ ~flag /\ Len(docs) = 1 /\ manual[docs[1]] \notin Editions[docs[1]]

\* The whole corpus, or the one document that --pdf names.
StartChunking(o) ==
  \E docs \in {Manifest} \cup {<<d>> : d \in Documents}, allowMissing \in BOOLEAN :
    /\ Surveyed(docs, allowMissing)
    /\ Begin(o, [NoJob EXCEPT !.kind = "chunk", !.docs = docs, !.flag = allowMissing], "read")

\* What load_captions finds for an image: the authored text, the cached caption,
\* however much of it was written, or nothing.
Seen(picture, cap) ==
  IF picture.image = NoName \/ cap[picture.image] = "whole" THEN picture
  ELSE [picture EXCEPT !.text = IF cap[picture.image] = "torn" THEN SubSeq(@, 1, 1) ELSE <<>>,
                       !.marked = 0]

\* What it hands on for a page: captions has one text per page, and a later image
\* of the page overwrites that of an earlier one.
Shown(page, cap) ==
  LET seen == [i \in DOMAIN page.pictures |-> Seen(page.pictures[i], cap)]
      with == {i \in DOMAIN seen : seen[i].text # <<>>}
      last == CHOOSE i \in with : \A j \in with : j <= i
  IN [items |-> page.items,
      diagram |-> IF with = {} THEN <<>> ELSE seen[last].text,
      marked |-> IF with = {} THEN 0 ELSE seen[last].marked]

\* The images of an edition whose text is a caption file.
Captioned(e) ==
  UNION {{q.image : q \in ToSet(p.pictures)} : p \in ToSet(Content(e))} \ {NoName}

ShownPages(e, cap) == [i \in DOMAIN Content(e) |-> Shown(Content(e)[i], cap)]

ChunksOf(d, cap) ==
  LET chunks == Chunk(ShownPages(manual[d], cap))
  IN [i \in DOMAIN chunks |-> [chunks[i] EXCEPT !.doc = d, !.edition = manual[d]]]

\* One document: its captions, each from the cache or from the API, which may
\* refuse or be unavailable; then parse and chunk.
ReadManual(o) ==
  /\ pc[o] = "read" /\ job[o].docs # <<>>
  /\ LET d == Head(job[o].docs)
         needed == Captioned(manual[d])
     IN \E got \in SUBSET {i \in needed : captions[i] = "none"} :
          LET cap == [i \in Images |-> IF i \in got THEN "whole" ELSE captions[i]]
          IN /\ captions' = cap
             /\ \/ /\ job[o].flag \/ \A i \in needed : cap[i] # "none"
                   /\ job' = [job EXCEPT ![o].docs = Tail(@), ![o].out = @ \o ChunksOf(d, cap)]
                   /\ UNCHANGED pc
                \/ (\E i \in needed : cap[i] = "none") /\ Leave(o)
  /\ UNCHANGED <<manual, file, vectors, coll, aliased, build, jobs, edits, faults>>

\* assign_chunk_revisions: along a lineage, in the order of versions, every
\* change of the text is a new revision.
LineageOf(c) == <<c.doc.id, c.lineage>>

Revised(chunks) ==
  LET Before(c) == {e \in ToSet(chunks) : LineageOf(e) = LineageOf(c) /\ e.doc.order < c.doc.order}
      Previous(c) == {e \in Before(c) : \A f \in Before(c) : f.doc.order <= e.doc.order}
      Changed(c) == \A e \in Previous(c) : e.text # c.text
      Revision(c) == Cardinality({e \in Before(c) \cup {c} : Changed(e)})
  IN [i \in DOMAIN chunks |-> [chunks[i] EXCEPT !.revision = Revision(chunks[i])]]

\* write_text truncates first.
OpenFile(o) ==
  /\ pc[o] = "read" /\ job[o].docs = <<>> /\ OnShelf
  /\ job' = [job EXCEPT ![o].out = Revised(@)]
  /\ file' = [state |-> "torn", chunks |-> <<>>]
  /\ Goto(o, "write")
  /\ UNCHANGED <<manual, captions, vectors, coll, aliased, build, jobs, edits, faults>>

WriteFile(o) ==
  /\ pc[o] = "write"
  /\ file' = [state |-> "whole", chunks |-> job[o].out]
  /\ Leave(o)
  /\ UNCHANGED <<manual, captions, vectors, coll, aliased, build, jobs, edits, faults>>

-----------------------------------------------------------------------------
(* Embedding: run_embed.embed_by_document, prepare_build, embed_document.  *)

PlaceChunk(acc, c, groups, total) ==
  IF /\ acc.cur # <<>> /\ (acc.running + c.tokens) * groups > total
     /\ Len(acc.out) < groups - 1
  THEN [out |-> Append(acc.out, acc.cur), cur |-> <<c>>, running |-> c.tokens]
  ELSE [acc EXCEPT !.cur = Append(@, c), !.running = @ + c.tokens]

\* _plan_groups: contiguous groups of about equal size.
PlanGroups(chunks) ==
  LET total == FoldLeft(LAMBDA n, c : n + c.tokens, 0, chunks)
      groups == IF total <= GroupBudget THEN 1 ELSE (total + GroupBudget - 1) \div GroupBudget
      Place(acc, c) == PlaceChunk(acc, c, groups, total)
      end == FoldLeft(Place, [out |-> <<>>, cur |-> <<>>, running |-> 0], chunks)
  IN IF end.cur = <<>> THEN end.out ELSE Append(end.out, end.cur)

ChunksIn(chunks, d) ==
  FoldLeft(LAMBDA out, c : IF c.doc = d THEN Append(out, c) ELSE out, <<>>, chunks)

\* Each document is contextualised by itself.
GroupsByDocument(chunks) ==
  FlattenSeq([i \in DOMAIN Manifest |->
    PlanGroups(ChunksIn(chunks, Manifest[i]))])

\* Mutant of Key.
FirstTextKey(group) == <<group[1].text>>

\* The cache key: every text of the group, in order.
Key(group) == [i \in DOMAIN group |-> group[i].text]

Cached(key) == key \in DOMAIN vectors

\* The cache with a file under key.
Stored(key, entry) ==
  [k \in DOMAIN vectors \cup {key} |-> IF k = key THEN entry ELSE vectors[k]]

\* run_embed [--recreate], or prepare [--allow-provider]; a file that is torn
\* or absent raises.  Without --allow-provider every group must be cached.
StartEmbedding(o) ==
  /\ file.state = "whole" /\ file.chunks # <<>>
  /\ \E kind \in {"load", "prepare"}, flag \in BOOLEAN :
       LET groups == GroupsByDocument(file.chunks)
       IN /\ (kind = "prepare" /\ ~flag) => \A i \in DOMAIN groups : Cached(Key(groups[i]))
          /\ Begin(o, [NoJob EXCEPT !.kind = kind, !.flag = flag, !.groups = groups], "embed")

Points(group, context) ==
  {[id |-> <<group[i].doc, group[i].pos>>, chunk |-> group[i], context |-> context] :
     i \in DOMAIN group}

\* The vectors of a cached group are those of the texts it was stored for.
EmbedGroup(o) ==
  /\ pc[o] = "embed" /\ job[o].groups # <<>>
  /\ LET group == Head(job[o].groups)
         key == Key(group)
         Take(context) == job' = [job EXCEPT ![o].groups = Tail(@),
                                             ![o].points = @ \cup Points(group, context)]
     IN \/ /\ Cached(key) /\ vectors[key].state = "whole"
           /\ Take(vectors[key].texts) /\ UNCHANGED <<vectors, pc>>
        \/ /\ Cached(key) /\ vectors[key].state = "torn"
           /\ Leave(o) /\ UNCHANGED vectors
        \/ /\ ~Cached(key)
           /\ \/ /\ vectors' = Stored(key, [state |-> "whole",
                                            texts |-> [i \in DOMAIN group |-> group[i].text]])
                 /\ Take([i \in DOMAIN group |-> group[i].text]) /\ UNCHANGED pc
              \/ Leave(o) /\ UNCHANGED vectors
  /\ UNCHANGED <<manual, captions, file, coll, aliased, build, jobs, edits, faults>>

-----------------------------------------------------------------------------
(* qdrant_store.ensure_collection and upsert, each request a step.         *)

\* The legacy collection is not touched once an alias names it.
CheckLegacy(o) ==
  /\ pc[o] = "embed" /\ job[o].groups = <<>> /\ job[o].kind = "load"
  /\ IF aliased THEN Leave(o) ELSE Goto(o, "look") /\ UNCHANGED job
  /\ UNCHANGED <<manual, captions, file, vectors, coll, aliased, build, jobs, edits, faults>>

\* Whether it is there decides the rest, also if it comes or goes meanwhile.
EnsureCollection(o) ==
  /\ pc[o] = "look"
  /\ \/ coll = NoCollection /\ Goto(o, "create")
     \/ coll # NoCollection /\ Goto(o, IF job[o].flag THEN "drop" ELSE "upsert")
  /\ UNCHANGED <<manual, captions, file, vectors, coll, aliased, build, job, jobs, edits, faults>>

\* --recreate; to delete what is gone is no error.
DropCollection(o) ==
  /\ pc[o] = "drop" /\ coll' = NoCollection /\ Goto(o, "create")
  /\ UNCHANGED <<manual, captions, file, vectors, aliased, build, job, jobs, edits, faults>>

\* Qdrant refuses to create what another process has created.
CreateCollection(o) ==
  /\ pc[o] = "create"
  /\ \/ coll = NoCollection /\ coll' = {} /\ Goto(o, "upsert") /\ UNCHANGED job
     \/ coll # NoCollection /\ Leave(o) /\ UNCHANGED coll
  /\ UNCHANGED <<manual, captions, file, vectors, aliased, build, jobs, edits, faults>>

CheckAliases(o) ==
  /\ pc[o] = "upsert"
  /\ IF aliased THEN Leave(o) ELSE Goto(o, "send") /\ UNCHANGED job
  /\ UNCHANGED <<manual, captions, file, vectors, coll, aliased, build, jobs, edits, faults>>

Upserted(old, new) == {p \in old : \A q \in new : q.id # p.id} \cup new

\* One request; a point replaces the one of the same id.
Upsert(o) ==
  /\ pc[o] = "send"
  /\ coll' = IF coll = NoCollection THEN coll ELSE Upserted(coll, job[o].points)
  /\ Leave(o)
  /\ UNCHANGED <<manual, captions, file, vectors, aliased, build, jobs, edits, faults>>

-----------------------------------------------------------------------------
(* index_builds._snapshot, for prepare_build and capture_existing.         *)

\* Mutant of CoversCorpus.
CoversSome(points) == {p.chunk.doc : p \in points} \subseteq Documents

\* The documents of the points are those of the manifest, all of them.
CoversCorpus(points) == {p.chunk.doc : p \in points} = Documents

PrepareBuild(o) ==
  /\ pc[o] = "embed" /\ job[o].groups = <<>> /\ job[o].kind = "prepare"
  /\ build' = IF CoversCorpus(job[o].points)
              THEN [kind |-> "prepared", points |-> job[o].points] ELSE build
  /\ Leave(o)
  /\ UNCHANGED <<manual, captions, file, vectors, coll, aliased, jobs, edits, faults>>

CaptureExisting(o) ==
  /\ pc[o] = "idle" /\ coll # NoCollection /\ CoversCorpus(coll)
  /\ build' = [kind |-> "captured", points |-> coll]
  /\ UNCHANGED <<manual, captions, file, vectors, coll, aliased, pc, job, jobs, edits, faults>>

-----------------------------------------------------------------------------
(* The surroundings.                                                       *)

Edit(d) ==
  /\ edits < MaxEdits /\ edits' = edits + 1 /\ OnShelf
  /\ \E e \in Editions[d] \ {manual[d]} : manual' = [manual EXCEPT ![d] = e]
  /\ UNCHANGED <<captions, file, vectors, coll, aliased, build, pc, job, jobs, faults>>

\* An alias onto the legacy collection is made by hand.
AliasLegacy ==
  /\ ~aliased /\ coll # NoCollection /\ aliased' = TRUE
  /\ UNCHANGED <<manual, captions, file, vectors, coll, build, pc, job, jobs, edits, faults>>

\* A process dies; if it was writing a cache file, that stays half written.
Die(o) ==
  /\ faults < MaxFaults /\ faults' = faults + 1 /\ pc[o] # "idle"
  /\ Leave(o)
  /\ \/ UNCHANGED <<captions, vectors>>
     \/ /\ pc[o] = "embed" /\ job[o].groups # <<>>
        /\ LET key == Key(Head(job[o].groups))
           IN ~Cached(key) /\ vectors' = Stored(key, [state |-> "torn", texts |-> <<>>])
        /\ UNCHANGED captions
     \/ /\ pc[o] = "read" /\ job[o].docs # <<>>
        /\ LET open == {i \in Captioned(manual[Head(job[o].docs)]) : captions[i] = "none"}
           IN \E got \in SUBSET open : \E i \in open \ got :
                captions' = [c \in Images |-> IF c = i THEN "torn"
                                              ELSE IF c \in got THEN "whole" ELSE captions[c]]
        /\ UNCHANGED vectors
  /\ UNCHANGED <<manual, file, coll, aliased, build, jobs, edits>>

Next ==
  \/ \E o \in Operators :
       \/ StartChunking(o) \/ ReadManual(o) \/ OpenFile(o) \/ WriteFile(o)
       \/ StartEmbedding(o) \/ EmbedGroup(o)
       \/ CheckLegacy(o) \/ EnsureCollection(o) \/ DropCollection(o)
       \/ CreateCollection(o) \/ CheckAliases(o) \/ Upsert(o)
       \/ PrepareBuild(o) \/ CaptureExisting(o)
       \/ Die(o)
  \/ \E d \in Documents : Edit(d)
  \/ AliasLegacy

Spec == Init /\ [][Next]_vars

-----------------------------------------------------------------------------
(* Properties.                                                             *)

\* The shape of every variable: the files and caches, and the operators' locals.
TypeOK ==
  /\ DOMAIN manual = Documents
  /\ captions \in [Images -> {"none", "torn", "whole"}]
  /\ file.state \in {"none", "torn", "whole"} /\ (file.state # "whole" => file.chunks = <<>>)
  /\ \A key \in DOMAIN vectors : vectors[key].state \in {"torn", "whole"}
  /\ coll = NoCollection \/ \A p \in coll : p.chunk.doc \in Documents
  /\ aliased \in BOOLEAN
  /\ build = NoBuild \/ build.kind \in {"prepared", "captured"}
  /\ pc \in [Operators -> {"idle", "read", "write", "embed", "look", "drop", "create",
                        "upsert", "send"}]
  /\ \A o \in Operators : pc[o] = "idle" <=> job[o] = NoJob
  /\ jobs \in 0..MaxJobs /\ edits \in 0..MaxEdits /\ faults \in 0..MaxFaults

\* The items of a page in reading order, with its diagram, if that has a text, at the end.
PageItems(page) ==
  IF page.diagram = <<>> THEN page.items
  ELSE Append(page.items, [kind |-> "diagram", lines |-> page.diagram])

LinesOf(item) ==
  CASE item.kind = "prose" -> <<item.line.id>>
    [] item.kind = "table" -> Texts(item.rows)
    [] item.kind = "diagram" -> Texts(item.lines)
    [] OTHER -> <<>>

\* What a page, a manual and chunks say, or what their tables say.
PageSays(page, tables) ==
  LET items == PageItems(page)
  IN FlattenSeq([i \in DOMAIN items |->
       IF tables /\ items[i].kind # "table" THEN <<>> ELSE LinesOf(items[i])])

Reading(pages, tables) == FlattenSeq([p \in DOMAIN pages |-> PageSays(pages[p], tables)])

Said(chunks, tables) ==
  FlattenSeq([i \in DOMAIN chunks |->
    IF tables /\ chunks[i].kind # "table" THEN <<>> ELSE chunks[i].text])

Mentioned(out, x) == IF x \in ToSet(out) THEN out ELSE Append(out, x)

FirstOccurrences(s) == FoldLeft(Mentioned, <<>>, s)

\* The chunks say what the manual says, all of it and in its order, if what is
\* said twice counts once; rows of a table are not even said twice.
SaysAll(chunks, pages) ==
  /\ FirstOccurrences(Said(chunks, FALSE)) = FirstOccurrences(Reading(pages, FALSE))
  /\ Said(chunks, TRUE) = Reading(pages, TRUE)

\* The jobs that have just chunked document d, with its edition.
JustRead(o, d) == job[o].kind = "chunk" /\ \E i \in DOMAIN job[o].out : job[o].out[i].doc = d

EditionRead(o, d) == (CHOOSE c \in ToSet(job[o].out) : c.doc = d).edition

\* The captions may be missing by choice, or torn.
AnyCaptions == [Images -> {"none", "torn", "whole"}]

\* Nothing that the lines of a manual and the caption of each page say is lost or
\* put out of order on the way through pages, captions, sections, stitched tables
\* and splits (parse, _group, _stitch, _split_prose, _split_table, _split_flowchart).
ReadingPreserved ==
  \A o \in Operators, d \in Documents :
    JustRead(o, d) => \E cap \in AnyCaptions :
      SaysAll(ChunksIn(job[o].out, d), ShownPages(EditionRead(o, d), cap))

\* The items of a manual in reading order.
Items(pages) == FlattenSeq([p \in DOMAIN pages |-> PageItems(pages[p])])

\* The heading that governs item i, and the caption line that belongs to a table:
\* the last one before it with no heading or other table in between.
SectionAt(items, i) ==
  LET tops == {j \in 1..i - 1 : items[j].kind = "heading" /\ items[j].level \in {1, 2}}
  IN IF tops = {} THEN NoName ELSE items[CHOOSE j \in tops : \A k \in tops : k <= j].name

SubAt(items, i) ==
  LET heads == {j \in 1..i - 1 : items[j].kind = "heading"}
      last == CHOOSE j \in heads : \A k \in heads : k <= j
  IN IF heads = {} \/ items[last].level \in {1, 2} THEN NoName ELSE items[last].name

CaptionAt(items, i) ==
  LET marks == {j \in 1..i - 1 : items[j].kind \in {"caption", "heading", "table"}}
      last == CHOOSE j \in marks : \A k \in marks : k <= j
  IN IF marks = {} \/ items[last].kind # "caption" THEN NoName ELSE items[last].name

\* Item i says x, and the chunk c is filed as that item is: among the tables or not,
\* under its section and subsection, and, for a table with a caption of its own, under it.
FiledFrom(items, i, x, c) ==
  /\ x \in ToSet(LinesOf(items[i]))
  /\ (c.kind = "table") = (items[i].kind = "table")
  /\ c.section = SectionAt(items, i) /\ c.sub = SubAt(items, i)
  /\ (items[i].kind = "table" /\ CaptionAt(items, i) # NoName) => c.table = CaptionAt(items, i)

\* Every line of every chunk comes from an item it is filed from.
WellFiled(chunks, items) ==
  \A c \in ToSet(chunks) : \A x \in ToSet(c.text) : \E i \in DOMAIN items : FiledFrom(items, i, x, c)

\* A chunk stands under the headings that govern its text, none mixes text of two
\* sections, and a table with a caption of its own is filed under that one and no
\* other, however much it looks like the table before it (parse, _group, _stitch, _split_*).
FiledUnderItsHeading ==
  \A o \in Operators, d \in Documents :
    JustRead(o, d) => \E cap \in AnyCaptions :
      WellFiled(ChunksIn(job[o].out, d), Items(ShownPages(EditionRead(o, d), cap)))

\* No chunk is longer than the limit, or its last sentence or row if that alone
\* is longer, and the overlap carried into it: _split_prose measures before it
\* carries.
PiecesFit ==
  \A o \in Operators : \A c \in ToSet(job[o].out) :
    c.tokens <= OverlapTokens + (IF c.atom > MaxTokens THEN c.atom ELSE MaxTokens)

\* No two chunks of a manual share a lineage, and a revision number means one text:
\* two versions of a chunk have the same revision in the file only if they say the
\* same (chunk, assign_chunk_revisions).
RevisionNamesText ==
  /\ \A o \in Operators : \A i, j \in DOMAIN job[o].out :
       (i # j /\ LineageOf(job[o].out[i]) = LineageOf(job[o].out[j]))
         => job[o].out[i].doc # job[o].out[j].doc
  /\ \A c, e \in ToSet(file.chunks) :
       (LineageOf(c) = LineageOf(e) /\ c.revision = e.revision) => c.text = e.text

PreparedPoints(d) == {p \in build.points : p.chunk.doc = d}

\* What an edition can be chunked into, depending on the captions it had.
Drafts ==
  [e \in UNION {Editions[d] : d \in Documents} |->
    {Chunk(ShownPages(e, cap)) : cap \in AnyCaptions}]

\* A vector was computed from a run of neighbouring texts of one edition of its
\* manual, its own text among them: nothing of another lender's or version's manual,
\* and nothing that a cache has kept from an older edition (embed_by_document,
\* _plan_groups and the cache key).
VectorsInContext ==
  \A p \in (IF coll = NoCollection THEN {} ELSE coll)
           \cup (IF build = NoBuild THEN {} ELSE build.points) :
    \E chunks \in Drafts[p.chunk.edition] : \E first \in 0..p.chunk.pos :
      /\ p.chunk.pos < first + Len(p.context)
      /\ first + Len(p.context) <= Len(chunks)
      /\ \A k \in DOMAIN p.context : chunks[first + k].text = p.context[k]
      /\ chunks[p.chunk.pos + 1].text = p.chunk.text

\* A prepared build holds every manual of the corpus, each in one edition, whole;
\* also when the chunk file was written for one document, or while the author
\* replaced a manual.
BuildIsWhole ==
  (build # NoBuild /\ build.kind = "prepared") =>
    \A d \in Documents :
      LET points == PreparedPoints(d)
          chunks == [k \in 1..Cardinality(points) |->
                       (CHOOSE p \in points : p.chunk.pos = k - 1).chunk]
      IN /\ points # {}
         /\ {p.chunk.pos : p \in points} = 0..Cardinality(points) - 1
         /\ \E e \in Editions[d], cap \in AnyCaptions :
              (\A p \in points : p.chunk.edition = e) /\ SaysAll(chunks, ShownPages(e, cap))
=============================================================================
