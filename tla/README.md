# Verification of the underwriting-manual assistant

TLA+ models of the stateful parts of this repository, TLC configurations that
check them on small instances, and TLAPS proofs of what matters most for every
instance. Every definition is translated from the source; `PROJECT.json` maps
each one to its lines.

## 1. The system

A FastAPI process answers questions about mortgage underwriting manuals. A
request runs a LangGraph state machine that resolves which manual is meant,
searches a Qdrant index, reranks, writes an answer with a language model,
reviews it and may correct it. LangGraph checkpoints the state of a
conversation after every node; Postgres keeps the durable transcript, SQLite a
scoring log. A command-line tool builds search indexes and releases them by
moving a Qdrant alias. Offline scripts chunk and embed the manuals, and others
measure the whole with a language model as judge.

| Component | Source (`src/`) | State it keeps | Operations | Model |
|---|---|---|---|---|
| Chat API, recovery | `src/app/server.py` | none of its own; request locals | `/chat`, `/recover`, thread reads | `ChatService` |
| Turn runtime | `src/graph/runtime.py` | checkpoint of the thread (through LangGraph), conversation memory | `run_turn`, `final_check`, rollback | `ChatService`, `AnswerGraph` |
| Durable state | `src/store/state_store.py` | Postgres: threads, messages, turns | `append_exchange`, `commit_turn` | `ChatService`, `TurnLedger` |
| Scoring log | `src/store/conversations.py` | SQLite: turns, guard audits | `record_turn`, `record_guards` | `ChatService` (row counts) |
| Answer graph | `src/graph/pipeline.py` | `RAGState` | 25 nodes and their routers | `AnswerGraph` |
| Retry policy | `src/graph/retry.py` | none | `assess_deterministic`, `action_for`, `next_action` | `AnswerGraph` |
| Answer review | `src/graph/answer_review.py` | none | review of a draft against its evidence | `AnswerGraph` (the verdict) |
| Guardrails | `src/guardrails/` | audit list of a request | input, evidence and output checks | where they stand and what a rejection does |
| Index builds | `src/store/index_builds.py`, `scripts/manage_index.py` | build directories, `releases.jsonl`, lock file, Qdrant alias | prepare, install, release, reconcile | `IndexRelease` |
| Index binding | `src/store/index_context.py` | context variable | pin a turn to a build | `AnswerGraph` |
| Scope resolution | `src/resolve/scope.py`, `src/ingest/manifest.py` | none; the dialogue is in `RAGState` | `resolve_query_scope`, `resolve_comparison_scopes`, `load_manifest` | `ScopeResolution` |
| Follow-up, decomposition, generation | `src/resolve/followup.py`, `src/decompose/`, `src/generate/` | none | one model call each | their outcomes, in `AnswerGraph` |
| Qdrant store | `src/store/qdrant_store.py` | collections | create, upsert, search, `scope_filter` | create and upsert in `Ingestion`, the filter in `ScopeResolution`, what a search finds in `AnswerGraph` |
| Reranker, embedder, semantic cache, Voyage gate | `src/rerank/`, `src/embed/`, `src/util/ratelimit.py` | cache files, SQLite rows, last call and lock | `embed_query_scoped`, `rerank`, `voyage_gate` | `VoyageCalls` |
| Groq token window | `src/util/groq_ratelimit.py` | reservations of the last minute | `reserve`, `reconcile` | not modelled |
| Ingestion | `src/ingest/`, `scripts/run_chunking.py`, `scripts/run_embed.py` | manuals, caption files, `chunks_v2.json`, embedding cache, legacy collection | parse, chunk, revise, embed, load, prepare, capture | `Chunker`, `Ingestion` |
| Evaluation | `src/eval/`, `scripts/run_*eval.py` | judgement and answer caches, result files | five suites, the judge's calls | `EvaluationRun` |
| Runners, telemetry | other `scripts/`, `src/util/telemetry.py` | logs | start servers, log calls | not modelled |

How they interact. `/chat` takes a request thread of the pool; it screens the
input, reads the thread row in Postgres, then calls `run_turn`, which reads the
checkpoint, runs the graph (which writes a checkpoint after each node), checks
the output and writes the memory; only then does the handler write SQLite and
Postgres. Nothing spans these writes: each is a step at which the process may
die, the handler may raise or another request may run. Two requests on one
thread are not serialised. Releases move the alias under running turns, which
are protected only by the binding each turn carries.

What is hard here, and what correctness means:

* *chat*: a turn is committed once, whole, and only if it finished and was
  screened; what a caller was told is durable; a crash anywhere leaves
  something `/recover` can finish; memory contains nothing a guard rejected;
* *graph*: corrections and clarifications end; an accepted answer is the draft
  that was reviewed, with the evidence it was reviewed against; one manual and
  one build per answer, through clarifications, follow-ups and releases;
* *scope*: the manual a dialogue settles on agrees with everything said in it,
  also in replies, and the filter finds that manual;
* *ingestion*: a chunk file says all a manual says, in its order, under its
  headings; what a chunk is called identifies its text; a vector belongs to the
  text it is stored with, in its context; a build is the whole corpus;
* *evaluation*: a result file speaks for every case its name promises; a number
  rests on judgements that passed their validation; running again comes to an end,
  and where everything was kept it costs nothing;
* *index*: the alias names only complete builds; a release replaces what its
  operator looked at; the journal tells the truth after a crash.

`PROJECT.json` lists every hazard at its line.

## 2. Modules

```
TurnLedger      abstract: a turn is committed once, result and answer together
   ^ refined by
ChatService     requests, crashes and recovery around a graph run
   |- MCChatService      instance for TLC
   |- ChatServiceProofs  TLAPS proofs, including the refinement
   '- CalmServiceProofs  the service as long as nothing fails
AnswerGraph     the graph a run executes, turn after turn on one thread
   |- MCAnswerGraph
   '- AnswerGraphProofs
IndexRelease    builds and the alias the graph's turns are pinned through
   |- MCIndexRelease
   '- IndexReleaseProofs
VoyageCalls     what a search or a reranking does to reach its provider
   |- MCVoyageCalls
   '- VoyageCallsProofs
ScopeResolution which manual, or which two, a dialogue is about
   |- MCScopeResolution
   '- ScopeResolutionProofs
Chunker         from the pages of a manual to its chunks, a pure function
   ^ extended by
Ingestion       from the manuals on disk to a searchable index
   |- MCIngestion
   '- IngestionProofs
EvaluationRun   the suites that measure the assistant, and their judge
   |- MCEvaluationRun
   '- EvaluationRunProofs
```

The models meet at narrow interfaces. `ChatService` sees a graph run as
"a node ran", "it paused", "it reached END with an answer or without" and
"it raised"; `AnswerGraph` says which of these can happen and what the answer is
worth. `AnswerGraph` sees releases as `Promote`: the alias moves to another
build; `IndexRelease` says which builds that can be. `AnswerGraph` lets a
resolution come out as any manual, any pair, or a question; `ScopeResolution` says
when it is which. `Ingestion` ends where `IndexRelease` begins, with a build on
disk; what `IndexRelease` calls a complete build, `BuildIsWhole` looks into.

### 2.1 ChatService

| Variable | Code |
|---|---|
| `cp` | the thread's latest checkpoint: turn id, `snapshot.next`, answer, memory, and which worker wrote it |
| `awaiting` | `threads.awaiting_clarification` |
| `committed` | `rag_app.turns`: absent, an answer, or a blank one |
| `transcript` | `rag_app.messages` in sequence |
| `rows`, `audits` | the SQLite tables, by number of rows |
| `pc`, `loc` | the next step and the locals of each request thread |
| `ended`, `screened`, `replied`, `told` | history, for properties only; `told` is what each response said of which turn |

An action is one access to state that outlives a request, in the order the
handlers make them: `Chat` (the thread row is read, the message starts its way),
`ScreenInput`, `Dispatch` (the checkpoint says whether to start or to resume),
`Start`/`Resume` (the first write of a graph run), `Node`, `Pause`, `End`,
`GuardStop` (what the graph can do), `CheckQuestion`, `PassFinalCheck` /
`FailFinalCheck`, `Remember` (memory), `Reset`/`Probe` (the rollback after a
rejection), `Audit`, `AppendAsk`/`AppendBlock` (one Postgres transaction),
`LogTurn` (SQLite), `CommitTurn` (Postgres, one transaction; only for a state with a
turn id), `Reply` (the response, worded from the request's own state) and `Recover`.
`Crash` forgets every local; `HandlerFails` ends one handler. What happens between two
accesses is private to the request and is folded into the access before it. The response is a
step of its own: a request may die, or fail, after its commit and before anybody hears
of it, and then `/recover` words the answer again, from the checkpoint. `RowOf` is what
a stored answer looks like, masked by the rules every stored text goes through.

Left out: several threads (they share no row; a worker's `thread_id` is checked
against its owner in every query), thread creation and listing.

### 2.2 AnswerGraph

`st` is `RAGState`, reduced to what routers, guards and properties read. Each
action is a node with its guard and the router behind it; `Edges` repeats the
edges `build_graph` declares, so that `AlongEdges`, a part of `TurnsFinish`, can
compare the two. Models
(classifier, generator, reviewer) choose freely among the outcomes the code
accepts from them. Evidence is a set of chunks that differ in manual, build and
whether some of the cited ids were lost; a search may return nothing, and may
return foreign chunks, so the guards that reject them are not vacuous. All three
`correction_mode`s are initial states.

`BeginTurn` is `invoke` with a question; `Answered` and `Reject` are what
`run_turn` does after the graph; `Abort` is any other exception.

Abstracted: pool sizes and ranks (the reranker keeps a non-empty subset; a follow-up
may turn out to be a correction of the previous answer in `reuse_evidence`), the
text of questions, sub-queries and reviews.

### 2.3 IndexRelease

`dir` and `coll` follow a build from `mkdir` to its manifest and from an empty
collection to a full one; `journal` holds, per operation id, the latest event of
`releases.jsonl`; `lock` is the `flock`. Each operator process is a program
counter with the command it was given. A process may die at any step, and the
kernel then releases its lock. The Qdrant call `update_collection_aliases` may
raise after taking effect, without taking effect, or while still under way
(`SwapLate`). The quality gate of a promotion is a free choice on top of the
structural conditions.

### 2.4 VoyageCalls

A call of a request thread goes through the semantic cache (`Lookup`, `Match`,
`Note`), the cache file (`Fetch`), the gate (`Gate`, `Wake`), for a retry the
backoff (`Retry`), the request and the cache file again (`Answer`, `Save`). The
table `semantic_queries` is a set of (scope key, text); a cache file is absent,
torn or whole. Similarity is a constant function of two texts. Time is kept in
timers: `gateAge` is the time since `_last_call_at`, saturated at the interval.
A thread that has left the gate or its backoff sends its request before the next
tick; without that assumption no local gate can promise a spacing.

### 2.5 ScopeResolution

A turn is `Ask` (the text, the manifest of the build it is pinned to, and whether
it compares), `ResolveScope` or `ResolveComparisonScopes`, `Reply` (the reply
appended to the text, as `clarify_node` does) and `Finish` (what `run_turn` hands
to the next turn). Both resolvers are lists of checks in the order of the early
returns; the first that fails is the question. A text is what the patterns find
in it: lenders, versions and "both" with their order and distance, days, and six
marks ("an impossible date", "a month without a day", "previous manual", ...).
The manifest is a set of `DocumentSpec`s that has passed `LoadManifest`. Instants
are halves of a day, because validation and filter compare instants while the
resolver compares days.

Left out: which words match an alias, the wording of questions. Of several specs
that match a version the code takes the first in the manifest; the model leaves
open which one that is.

### 2.6 Chunker and Ingestion

`Chunker` is the code from `parse` to `chunk` as folds: blocks in reading order
with the caption that waits for its table (`ParseItem`), merged paragraphs, groups
under headings, stitched tables, the three splits, and the identity of each piece
(`Lineage`: its key and a count). A manual is a sequence of pages with items; lines
and rows have an identity and a number of tokens. `KeyOf` may map two headings to
one key, as `_stable_key` does. Prose under a heading that contains "EXHIBIT B" is what
`_classify` makes of it: it passes for a flowchart, is split like prose, and is named
like a diagram, by its own first line and without its headings (`SectionKind`,
`FirstLine`, `Anchor`, `LineageKey`), so that it may share its key with a diagram.

`Ingestion` runs it. `run_chunking` is `StartChunking`, `ReadManual` (a document
with its captions, each from its file or from the API), `OpenFile` and `WriteFile`
(`write_text` truncates first). A page has any number of images (`Picture`); what is
handed on for it is the text of the last one that has a text (`Shown`), since
`load_captions` has one entry per page. `run_embed` and `prepare_build` are
`StartEmbedding`, `EmbedGroup` (a group comes from the cache or from the provider),
then `CheckLegacy`, `EnsureCollection`, `DropCollection`, `CreateCollection`,
`CheckAliases`, `Upsert`, each a request to Qdrant, or `PrepareBuild`.
`CaptureExisting` reads the legacy collection. An author replaces manuals (`Edit`); a process dies between two steps
or inside a file (`Die`), with the caption files it has finished before.

Left out: payload indexes (`ensure_collection` reads the collection for them, and raises
if it has gone meanwhile; in the model the load goes on and finds no collection), how
pdfplumber and python-docx find lines and tables, the regular expressions for headings
and captions, what a tokenizer does where two texts meet, sparse vectors, building directories (`IndexRelease`).

### 2.7 EvaluationRun

A run of a suite takes units in order (retrieval configurations, cases, steps of
conversations) and asks the system. `Retrieve` does so for a configuration, `Generate`
for the generation suite, whose answers are cached. The other three suites go through
`run_turn`: `Screen` is the request screen, whose verdict only the process remembers
(`checks.py:46`), so that every run asks a model again, and `RunGraph` is the graph,
which ends in an answer, a clarification or a blocked turn (`Ends`). `run_turn` turns a
guard's rejection into a finished answer without context, also when the guard itself
fails; such a text is judged by the retry and the conversation suite and only noted by
the comparison. An empty answer is always blocked there. `sent` says whether the run
has sent a request to a provider. `Assessment` says which
judge's calls follow, `Ask`/`Repair` make them, `Read` takes what is kept through
the validation of its reader, `Score` records, `OpenResult` and `WriteResult`
write. `cache` is every cache file with what it holds; replies differ in whether
their reader accepts them. `JudgeFails` and `TurnFails` say per suite what becomes
of a run when a call raises: it stops and reports what is done, leaves a number
out, or discards everything. A suite that is stopped reports the longest run of
whole cases it has finished (`Stop`). `Plans` are the whole suite or what `--case`
and `--configs` choose: some of the cases, each with all its units, in the order of
the dataset. (`--case` named twice or in another order makes a plan that is not
among them.)

Left out: the arithmetic of the metrics, the split into development and holdout,
the prompts, `--export-judge`. The calls inside one turn are one step: what the nodes
of the graph keep in files spares requests but decides no end, except that a torn file
raises. The wordings of blocked turns are not told apart, so two blocked turns of one
unit share their judgements. Answers that are not blocked are taken to have evidence in
their context. A failure that repeats by itself (the judge's token budget, a
`ValueError`) is counted among the bounded failures. Each suite has
its own cases and so its own cache keys. A comparison's result goes to a fresh name
each time; the model writes one.

## 3. What the runs check

Every configuration but `scope_dialogue` and `evaluation` sets `CHECK_DEADLOCK
FALSE`: callers, users and operators may stop for good, and then nothing is left
to do. That turns do not get stuck half way is stated as liveness where it matters.

| Run | Instance | Checks | States |
|---|---|---|---|
| `chat_faults` | 1 worker, 3 turns, 3 calls, 2 faults, fair | `TypeOK`, `ExactlyOnce`, `OnlyFinishedTurnsCommitted`, `ReplyIsDurable`, `CalmServiceAgrees`, `RecoverySucceeds` | 352 k |
| `chat_pair` | 2 workers, 2 turns, 1 fault | `MemoryWasScreened`, `LedgerSpec` (refinement) | 110 k |
| `graph_turns` | 2 manuals, 2 builds, 2 questions, 2 corrections, 1 release | `TypeOK`, `WithinBudget`, `AcceptedAsReviewed`, `OneManual`, `OneBuild` | 362 k |
| `graph_live` | the same with 1 build, fair | `TurnsFinish` | 196 k |
| `index_release` | 2 builds, 2 operators, 3 operations, 2 faults | `TypeOK`, `ServesCompleteBuild`, `RollbackWasServed`, `JournalExplainsAlias`, `SwapReplacesExpected` | 3.3 M |
| `voyage_calls` | 2 threads, 2 similar texts, 2 scopes, 3 calls, 2 faults, 1 retry, fair | `TypeOK`, `HitsAreWhatTheySay`, `RequestsSpaced`, `CallsReturn` | 878 k |
| `scope_dialogue` | 2 lenders, 2 versions, 2 days, 3 valid manifests and an invalid one, 2 replies, any number of turns | `TypeOK`, `ScopeFollowsDialogue`, `ComparedAsSaid`, `FilterFindsManual`, `NothingIsTakenBack` | 2.4 M |
| `ingestion` | 3 versions of a manual, all manuals of up to 4 items in 12 shapes, 2 operators, 3 jobs, 1 edit, 1 fault | `TypeOK`, `ReadingPreserved`, `FiledUnderItsHeading`, `PiecesFit`, `RevisionNamesText`, `VectorsInContext`, `BuildIsWhole` | 196 k |
| `evaluation` | 5 suites of 2 cases (a conversation of 2 steps), 2 retrieval configurations over 2 queries, 2 faults, fair | `TypeOK`, `ResultsAreComplete`, `ScoresAreJudged`, `ReRunFinishes`, `ReRunIsFree` | 327 k |

Each property has a mutant in `PROJECT.json`: a plausible slip in one mapped
definition (a dropped guard, a swapped order, an off-by-one, a missing reset)
under which the run reports the property violated. The mutated forms stand in
the modules, each before the definition it mutates.

Bounds. `chat_faults` needs three calls: a turn, its clarification reply, and a
turn that takes over the checkpoint; two faults give a crash during recovery from
a crash. `chat_pair` needs two workers, one of which may recover what the other
is finishing. In `graph_turns` two questions are a first answer and a follow-up
that reuses its evidence; two corrections are a search and a revision; two
manuals are the least a comparison or a changed scope needs; one release lies
before, in or after any turn. In `index_release` three operations are bootstrap,
promotion, rollback, or two releases of which one is reconciled; two operators
race for the lock. In `voyage_calls` two threads meet at the gate,
two similar texts make every kind of decision but a miss next to a dissimilar
text, and one retry is enough to pass the gate and sleep. Ids are symmetric where no liveness property is checked.
`MaxRows` caps counts of which `CalmServiceAgrees` reads only whether they are zero.
In `scope_dialogue` a manifest replaces a manual at midnight, another in the
course of a day, a third has two products of one lender; texts have up to two
mentions and one mark, some comparisons four mentions, and replies bring the rest.
In `ingestion` a manual is either one of the editions an author may put on disk,
and goes all the way to an index, or any sequence of up to four items (headings of
four kinds, two of them with one key, one an exhibit; two captions; a short and a long
line; two tables with the same columns; a page break; a diagram; first lines of diagrams
and short lines have one key), and is chunked once by itself (`Surveyed`). A page with
two images that need captions is one of the editions an author may bring in. Four items are a table, a page break, a caption or heading, and
the table that may or may not continue the first. Three jobs are chunk, embed and
one that interferes. In `evaluation` one unit has a required and a forbidden claim
and the others none; two faults are a reply that is refused and a process that dies. Of the turns of the
graph one is answered, one is blocked, and the last step of the longer conversation comes
to any end (`MCEnds`).

Fairness. In `ChatService`, a request in flight goes on (its thread is
scheduled) and somebody who was told nothing calls `/recover` again; nothing is
assumed of `/chat`, of crashes, or of clarification replies. In `AnswerGraph`, a
run goes on until it ends, pauses or raises, because `invoke` is a synchronous
loop; users need not reply and releases need not come. Provider calls are taken
to return: the guard's client sets a timeout (`guardrails/checks.py:57`), the
others rely on the defaults of their SDKs (external), and a timeout is a failure
the node handles or a `Reject`/`Abort`. `chat_faults` counts `End` and not `Node` among the fair
steps: that a run ends is `TurnsFinish` of `graph_live`. In `VoyageCalls` threads run,
time passes and requests are answered; the gate's lock is not fair, and that a
waiting thread gets it rests on callers who stop asking (`MaxCalls`). In
`EvaluationRun` a process runs and its calls return, and the operator goes on
running the whole suite: a stopped suite asks for that ("re-run to continue",
`run_generation_eval.py:132`). Failures are bounded; the operator's runs of other
plans are not, so that `Start` of the whole suite is strongly fair.

### What the code does that its text denies

Three runs are expected to find a violation; each checks one statement of a
comment or docstring.

* `chat_screened`: END is checkpointed before `final_check` has seen the answer.
  A crash in between leaves a checkpoint that looks finished; `/recover` commits
  and returns an answer that no output guard has passed. A rejected answer is
  cleared in the checkpoint, which keeps its turn id and stays at END; `/recover`
  commits the empty string as an answer.
* `graph_stale`: evidence whose hash no longer matches is kept from the draft
  model by `reuse_evidence`, and handed to the revision model by
  `review_answer`, which sees only that there is no draft.
* `voyage_hits`: a semantic hit records its own text as if it had been embedded.
  Asked again, the text matches itself, is logged as a semantic hit and is paid
  for. No failure and no second thread is needed.

Other observations:

* `ReplyIsDurable` is for one request at a time. With two, a guard that fails in one
  `/chat` clears the answer of the checkpoint between another's read and its commit, so
  that what a response says and what the row keeps may differ.
* Recovering a turn twice, or recovering a turn `/chat` had logged, adds a second
  scoring row: `record_turn` has no key to repeat on.
* A clarification reply is appended to the text that caused the question. It can
  add what was missing but take nothing back: after "Which version should I use?"
  (an unknown version, a version not in force on the day), "please ask about one
  lender", two versions or two dates, no reply resolves the turn
  (`NothingIsTakenBack`), and after two rounds it is given up.
* A day on which one manual replaces another at noon belongs to both for
  `_contains`, so it asks for a version; with the later version named, the
  filter's instant, the day's midnight, precedes it and nothing is found
  (the exception in `FilterFindsManual`). The shipped manifest changes manuals at
  midnight.
* In a comparison "both V1" silently overrides a version attached to one lender
  before it. Of two products with the same version the first is taken without a
  question. A prior lender that the manifest no longer has is a `KeyError` when
  the text mentions a version, and a question when it does not.
* A reranker retry passes the gate and then sleeps for a minute or more, so the
  interval holds between first attempts only; `RequestsSpaced` says exactly that.
* A cache file torn by a crash is never repaired: every later call for its text
  raises.
* The edge `check_comparison_evidence -> targeted_comparison_retrieve` is never
  taken: `_fault_review` sends only an empty context to another search, and an
  empty side has a fault of its own.
* `recover` never sets `reselect_shift`, so a "reselect" reranks the same pool;
  it hands the whole merged pool to the reranker without the caps of the first
  search.
* After a clarification that changes the manual, `generate` revises the draft
  about the old one if a correction has been spent. The evidence is the new one.
* A reuse follow-up whose scope does not match falls back to a search in the
  build of the earlier answer, not in the active one.
* An exception that is no `GuardrailError` leaves the failed turn's scope behind
  for the next question.
* A crash between the interrupt and `append_exchange` leaves a paused thread
  whose transcript has no prompt. A crash between END and the memory update
  leaves a turn in the transcript that later questions do not see. Two
  concurrent requests on a thread lose one memory update.
* A `manifest.json` torn by a crash makes `resolve_active` fail for every new
  turn until the directory is removed, and closes the promotion gate. The ids of
  interrupted prepares and installs cannot be used again.
* An operation that died before its swap is reconciled as "completed" when another
  one has made the same move in the meantime, and the reverse
  (`index_builds.py:321`); the alias is all that `reconcile` can read.
* Ingestion: a prose piece holds up to `MAX_TOKENS` plus the overlap, since the
  overlap is carried after the measuring (`PiecesFit` says so). A table without a
  caption that comes first on its page and repeats the last header continues that
  table and inherits its caption, even under a new heading (`parser.py:121`); a
  caption that no table follows is lost.
* Of several captioned images on a page only the last caption is indexed:
  `captions[ref.page]` is assigned once per image (`run_chunking.py:64-69`), and nothing
  reports the others as missing. `ReadingPreserved` and the theorems speak of the caption
  that is handed on.
* Prose of Exhibit B has the chunk type of a flowchart and an identity that changes when
  its first line does.
* `run_chunking --pdf` overwrites the corpus chunk file with one document and
  restarts its revisions. Loading never deletes a point, unless with
  `--recreate`; what is left over can be captured. A crash after the deletion
  leaves the legacy collection absent or empty, and two loads with `--recreate` can
  mix. Reading the aliases and writing are two requests (`qdrant_store.py:177`).
* A caption file torn by a crash is indexed as it is. A prepared build copies the
  manual that is on disk at that time, which may be newer than its chunks
  (declared at `index_builds.py:251`). The evidence hash covers chunk ids, which
  are positions: a re-chunked document can change under an equal hash.
* Evaluation: `_ask` keeps a reply before its reader has validated it. A malformed
  one stops every later run at the same case, where the message says that a re-run
  continues; `ReRunFinishes` leaves such caches out (`Poisoned`). `check_relevance`
  does not validate and reads a missing verdict as "does not address".
* The retry, conversation and comparison suites pay for their semantic screens in every
  process (`checks.py:51-65`, `:127`), also when every answer and judgement is cached;
  `ReRunIsFree` is about the other two.
* A failure of search, rerank or generation in the generation suite, and of a turn
  in the comparison, ends the run with nothing written; in the retry suite it counts
  as a failed response. `--case` of the retry and the conversation suite overwrites
  the result of the whole suite. Result files are not written atomically.

## 4. What is proved

`ChatServiceProofs` holds theorems of `ChatService!Spec` for any sets of workers
and turns and any bounds. The assumptions are those of the module: `NoTurn` is no
turn, the bounds are naturals.

| Theorem | Statement |
|---|---|
| `TypeCorrect` | `Spec => []TypeOK` |
| `ExactlyOnceHolds` | `Spec => []ExactlyOnce` |
| `OnlyFinishedHolds` | `Spec => []OnlyFinishedTurnsCommitted` |
| `MemoryScreenedHolds` | `Spec => []MemoryWasScreened` |
| `ImplementsLedger` | `Spec => LedgerSpec`: the service refines `TurnLedger` |

The argument. `TypeOK` is inductive together with `TurnsInUse`: turn ids held by
a request or a checkpoint come from those handed out, which is what makes
`ended \subseteq used` survive. `ExactlyOnce` is inductive under `TypeOK`: the
transcript only grows, by an exchange without an answer (`OnceAppend`) or, for a
turn with no result, by the pair that `StoreTurn` commits (`OnceCommit`).
`OnlyFinishedTurnsCommitted` is not inductive: `FinishedInv` adds that a
checkpoint at END and every request past END hold a finished turn. For
`MemoryWasScreened`, `ScreenedInv` adds that a request about to write the memory
holds a turn that passed the output guard; its copies of the memory, `loc.hist`
and `loc.prev`, are in the property itself, since an interleaved request writes
them back later. Both go through one lemma about a step of a single request
(`Flow`). The refinement maps a commit to `Ledger!Commit` with
the position of the answer as witness (`PlaceCommit`), and every other step to a
stutter (`PlaceAppend`).

`CalmServiceProofs` holds two theorems about a service that takes one request at a
time, for any number of turns and calls: one as long as nothing has failed, one with any
number of crashes and failures.

| Theorem | Statement |
|---|---|
| `CalmServiceHolds` | with a single worker, `Spec => []CalmServiceAgrees` |
| `ReplyDurableHolds` | with a single worker, `Spec => []ReplyIsDurable` |

The property itself says nothing of a request under way, so it is far from
inductive. `CalmInv` says, while there were no faults, where each store stands at
each step of a request: what the checkpoint holds (`CheckpointAt`), the memory and
the two copies of it (`MemoryAt`), the thread row (`RowAt`), the transcript
(`PromptAt`), and what has been promised but not yet written (`Late`). With a second
worker it is false, and the interleavings that break it are in section 3.

`ReplyIsDurable` relates answers that were sent, at whatever time and by whichever
request, to a row that is written once. `StoredAt` carries it over the steps between:
a turn that is not at END has no row; the row of a turn at END is missing or holds the
answer of the checkpoint, from which `/recover` will word it; a request past END has
the turn and the answer of the checkpoint; and a request about to clear an answer has a
turn without a row. It rests on `OnlyFinishedTurnsCommitted`, which gives a new
turn its missing row.

`IndexReleaseProofs` holds theorems of `IndexRelease!Spec` for any builds and
operators and any bounds, from `NoBuildIsNoBuild`, `NoOperatorIsNone` and
`ReleaseBounds`. All its properties are proved.

| Theorem | Statement |
|---|---|
| `TypeCorrect` | `Spec => []TypeOK` |
| `ServesCompleteBuildHolds` | `Spec => []ServesCompleteBuild` |
| `RollbackWasServedHolds` | `Spec => []RollbackWasServed` |
| `JournalExplainsAliasHolds` | `Spec => []JournalExplainsAlias` |
| `SwapReplacesExpectedHolds` | `Spec => SwapReplacesExpected` |

The argument has four layers. `Typed` adds to `TypeOK` what a command means
where it stands (`Meant`): a builder names a build, and whoever is past the
intent an operation of the journal. On it rest three invariants that do not need
one another. `WholeInv`: a build that is whole stays so, because only the process
that made a directory opens and writes its manifest (`Apart`, `Making`); so what
`Validate` has seen still holds when the swap takes effect, however late.
`ServedInv`: what a swap that returned, a verdict or the gate of a rollback says
was served, was. `CurrentInv`, while no swap call was cut off in flight: what was
read under the lock is still so (`InsideAlone`), an operation in its swap has not
been applied and its entry is still an intent, and a verdict "not applied" is
about another build than the alias; it gives the last two theorems.

`AnswerGraphProofs` holds theorems of `AnswerGraph!Spec` for any manuals, builds,
budgets and numbers of questions and releases, from `NoScopeIsNoScope` and
`GraphBounds`. Every invariant of `graph_turns` is proved.

| Theorem | Statement |
|---|---|
| `TypeCorrect` | `Spec => []TypeOK` |
| `BudgetHolds` | `Spec => []WithinBudget` |
| `OneBuildHolds` | `Spec => []OneBuild` |
| `AcceptedHolds` | `Spec => []AcceptedAsReviewed` |
| `OneManualHolds` | `Spec => []OneManual` |

The argument. A lemma per node says what the node does to the fields the
invariants read (`...Does`); each invariant then has one step per node.
`TypeOK` needs `SidesInv`: from the reranker on, a comparison has a pool for each
of its two manuals, which is what makes the deepened pools of a targeted search
well formed. `BudgetInv` adds to `WithinBudget` what a node is about to spend: at
a correcting node a correction is left, at `clarify` a round, and before a
generating node the drafts are one fewer than allowed; an antecedent's
clarification is the first round. `BuildInv` adds that a turn has no evidence when
`contextualize` may still change its build, and that a turn that reuses stays with
the build of the turn before. `ReviewInv` follows the draft: at a review, at
`finalize` with "accept" and at the end it was written from the context as it
stands, and nothing is final before. `ManualInv` says that the two halves of the
graph stay apart (a single question has no pair) and that a comparison's context
is the union of its sides, both non-empty where it was accepted; `OneManual`
follows with `final_check`.

`VoyageCallsProofs` holds theorems of `VoyageCalls!Spec` for any callers, texts,
scopes, similarities, intervals and backoffs, from the assumptions of the module
(`NobodyIsNobody`, `Times`, `VoyageBounds`, `Scores`).

| Theorem | Statement |
|---|---|
| `TypeCorrect` | `Spec => []TypeOK` |
| `HitsHold` | `Spec => []HitsAreWhatTheySay` |
| `RequestsSpacedHolds` | `Spec => RequestsSpaced` |

The argument. `HonestInv`: the recorded queries are texts that were asked, and at
each step of a call its decision, the text it uses and the state of its cache
file agree. `SpacedInv`: a first attempt that is about to be sent has just set the
gate's memory, and the last request is at least as old as that memory, unless it
was a retry; so a first attempt follows the last by an interval.

`ScopeResolutionProofs` holds theorems of `ScopeResolution!Spec` for any lenders,
versions, days, manifests and texts, and for any number of turns and replies. The
assumptions are those of the module: days are numbers and, as in `datetime.date`,
finitely many; a manifest is a finite set of specifications; the names differ.

| Theorem | Statement |
|---|---|
| `TypeCorrect` | `Spec => []TypeOK` |
| `ScopeFollowsHolds` | `Spec => []ScopeFollowsDialogue` |
| `ComparedHolds` | `Spec => []ComparedAsSaid` |
| `FilterHolds` | `Spec => []FilterFindsManual` |
| `TakenBackHolds` | `Spec => []NothingIsTakenBack` |

The argument has two halves. The first is about the two resolvers as functions of a
text. `PolicyDecides` and `ComparisonDecides` turn the lists of checks into cases:
either every check passes and the outcome is the target, or one fails and its
condition holds. `PolicyFollows` and `ComparisonFollows` then say what a target owes
to the text. Two steps there are arguments by an extreme element. `VersionOfTarget`
shows that a version attached to a lender is the one the lender gets: the last place
attached to it decides, and no other place says another version. `VersionsInCourse`
shows that every later version begins behind the end of every earlier one, though
`LoadManifest` compares neighbours only: the least later version that does not would
have a neighbour before it that does. Hence two manuals share a day only in whose
course one follows the other (`DayBetween`). The second half is the dialogue. None of the properties is
inductive: `Inv` adds that between a question and its reply the outcome is what the
resolver says of the text as it stands (`OutcomeAt`), and that whatever a final
question was asked for is in the text (`StuckInv`); since `Folded` only appends, it
stays there (`StuckStays`), and a text that holds it is never resolved (`Unstuck`).

`EvaluationRunProofs` holds theorems of `EvaluationRun!Spec` for any suites, plans,
cases, claims, queries and faults. Its assumptions: a suite is one of the five scripts,
a dataset has at least one case and the queries are a list, and a case has a number of
required and of forbidden claims.

| Theorem | Statement |
|---|---|
| `TypeCorrect` | `Spec => []TypeOK` |
| `ResultsCompleteHolds` | `Spec => []ResultsAreComplete` |
| `ScoresJudgedHolds` | `Spec => []ScoresAreJudged` |
| `ReRunIsFreeHolds` | `Spec => []ReRunIsFree` |

The argument. `RunInv` says that the records of a run are those of the units before
the one in work, in order (`Reports`), and that a stopped run's are a proper part that
ends with a whole case (`StopsShort`); this is all the result files rest on.
`ServedInv` adds the caches: each call a record rests on has been made and its reply has
passed its reader (`Done`), or is still in the list of calls to make (`AskInv`); the
support of no claims is never asked for (`Spared`); the status in work is that of the
cached turn (`StatusInv`). A whole result of the generation or the retrieval suite
therefore rests on calls that are all kept, so that a run that starts again finds every
one and sends nothing: `ReRunIsFree`.

`IngestionProofs` holds theorems of `Ingestion!Spec` for any manuals, captions,
corpora and limits, and for any number of operators, commands, edits and deaths. The
assumptions are those of `Chunker` and `Ingestion`: the overlap is at most the limit; a
manifest lists every version once; a page is a sequence of items with a text or a table,
and an image has a text that is not empty, in which its edge list, if any, begins
(`load_captions` counts an empty one as missing, which the model has as no caption).

| Theorem | Statement |
|---|---|
| `TypeCorrect` | `Spec => []TypeOK` |
| `PiecesFitHolds` | `Spec => []PiecesFit` |
| `ChunkSaysAll` | `pages \in Seq(Readable) => SaysAll(Chunk(pages), pages)` |
| `ReadingPreservedHolds` | `Spec => []ReadingPreserved` |
| `RevisionNamesHolds` | `Spec => []RevisionNamesText` |
| `VectorsInContextHolds` | `Spec => []VectorsInContext` |
| `BuildIsWholeHolds` | `Spec => []BuildIsWhole` |
| `ChunkWellFiled` | `pages \in Seq(Readable) => WellFiled(Chunk(pages), Items(pages))` |
| `LineWellFiled` | a line said by one item only is in chunks with that item's place only |
| `FiledHolds` | `Spec => []FiledUnderItsHeading` |

The argument. What `parse`, `chunk` and `_plan_groups` compute are folds over a manual,
and a fold is a recursive function over sets of places. `FoldExists` constructs that
function, `FoldRuns` turns a fold into a *run*: a sequence of states, each the step of
the one before. What holds along a run is then proved by its least exception (`UpTo`).
So `ChunkWell`: whatever the pages, the chunks have their positions in order, stay
within limit and overlap (`SplitProseFits`, `SplitTableFits`), and no lineage occurs
twice (`LineageUnique`: the counts of equal keys differ). `RevisedNamed` takes two
versions with the same number of changes and the least version between them with
another text, which would be a change.

That nothing is lost (`ChunkSaysAll`) is shown stage by stage, each with what it has
said so far against what it has read: parsing keeps the items of the pages in order,
grouping the items of a section, stitching and merging join neighbours, and the three
splits say a group's text again, a prose or diagram piece with the end of the piece
before it in front. So the texts of two stages are the same up to what is said twice
(`Same`, which compares `FirstOccurrences`), and those of the tables are equal.

That every line stands under its own headings (`ChunkWellFiled`) needs the items read so
far, which no state of the parser keeps: `ReadUpTo` relates the two. The waiting caption
is the one the next table of these items would have, the headings that govern the next
block are those that govern the next item (`Aligned`), and every line of every block is
`Traced` to an item with the block's section, subsection and, if the block is a table
with a caption of its own, caption. `ItemRead`, `PageRead` and `PagesRead` keep it. A
table that goes on overleaf is traced without a caption, since it begins after no caption
line (`Continues`), so that it may be stitched to the table before it (`StitchTraced`); this
is where a continuation across a caption would break the proof, as it breaks the
run. Merging, grouping and stitching keep a block traced (`MergeTraced`, `GroupingTraced`), a piece has
lines of its own block only (`SplitParts`), and a chunk has the headings of its group.
`FiledHolds` carries it to the chunks of a job by `Drawn`, and needs nothing new in
the invariant.

`GroupsWell` says that groups are runs of neighbours in one edition. The inductive
invariant `IInv` follows the chunks through the files: what a job has read are the
chunks of one edition of each document it has read (`Drawn`, `ToRead`), and editions on
the shelf if all manuals are; what is in the chunk file has also its revisions; a whole
cache file is filed under the texts it was made of; every group and every point is in
its context. With these no interleaving matters.

For the theorems on whole documents it carries two more facts. `Whole`: what has been read
of a document, by a job or in the file, says all that the pages of one edition, with one
set of captions, say (`SourceAppend`, `WholeAppend`: reading the next document leaves the
others alone). `MakeUp`: the groups still to embed and the points made so far are together
a chunk file, each chunk once. `GroupsTile` begins it (every chunk is in exactly one
planned group), `GroupBecomesPoints` keeps it, and when no group is left `PointsSayAll`
reads off a document in one edition from the points. That the corpus is covered is the
check of `_snapshot`, the only one the code makes; the rest of `BuildIsWhole` follows.

Only model-checked: liveness (`RecoverySucceeds`, `TurnsFinish`, `CallsReturn`,
`ReRunFinishes`), which is out of the prover's reach. Every other property of a run
that passes is also a theorem.

`FiledUnderItsHeading` asks of each line of a chunk for an item that says it and has the
chunk's place; if a manual says a line twice, either item will do. A line that is said
once leaves no choice (`LineWellFiled`), and in the run no two lines of a manual are the
same.

## 5. What is not modelled, and the plan

Not modelled at all: evaluation arithmetic, runners, the layout analysis of Word
and PDF, prompt texts, redaction patterns, telemetry, static files. They keep no
state that several actors share, and their difficulty is in the data.

Still to do, most important first:

1. `TokenWindow`: the Groq window (`reserve`, `reconcile`): how far a
   reconciliation can overfill it, and who may wait for ever.
2. Three lenders in `scope_dialogue`, with which `too_many_comparison_targets` can be
   asked; the theorems cover them already.
3. `ReviewValidation`: the reviewer's JSON against the action it may cause.
4. More of `VoyageCalls`: three texts, and document embedding through the same gate.
