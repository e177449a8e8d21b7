----------------------------- MODULE AnswerGraph -----------------------------
(***************************************************************************)
(* The LangGraph state machine that answers a turn (graph/pipeline.py) and *)
(* what run_turn does around it (graph/runtime.py): one question after the *)
(* other on one thread, each pinned to an index build, resolved to one     *)
(* manual or to two, answered from evidence, reviewed, corrected within a  *)
(* budget, or handed back to the user for clarification.                   *)
(*                                                                         *)
(* An action is one node with its guards (guardrails/checks.py) and the    *)
(* router that follows it.  Models decide nondeterministically.  A chunk   *)
(* stands for all those of one manual and build, and for whether some that *)
(* an earlier turn cited beside it are gone.                               *)
(***************************************************************************)
EXTENDS Naturals, FiniteSets

CONSTANTS
  Scopes,         \* (lender, document, version) triples of the manifest
  NoScope,        \* no resolved scope
  Builds,         \* index builds
  MaxBudget,      \* bound: the largest max_retries build_graph is called with
  MaxTurns,       \* bound: questions on the thread
  MaxPromotions   \* bound: releases while the thread is in use

ASSUME NoScopeIsNoScope == NoScope \notin Scopes
ASSUME GraphBounds == {MaxBudget, MaxTurns, MaxPromotions} \subseteq Nat

VARIABLES
  mode, budget,   \* correction_mode and max_retries of the compiled graph
  active,         \* the build the alias names
  node,           \* the next node, "end" after the last, "idle" between turns
  st,             \* RAGState
  last,           \* the latest turn in the conversation memory
  before,         \* scope and prior scope when the message arrived
  turns, promotions

vars == <<mode, budget, active, node, st, last, before, turns, promotions>>

MaxClarify == 2   \* MAX_CLARIFICATION_ROUNDS

Chunk == [scope : Scopes, build : Builds, stale : BOOLEAN]

PartialSides == UNION {[K -> SUBSET Chunk] : K \in SUBSET Scopes}

Pairs == {p \in SUBSET Scopes : Cardinality(p) = 2}

\* "reuse" stands for the transform and inspect behaviours, "correct" for
\* correct_previous_answer.
Behaviors == {"", "catalog", "history", "search", "compare", "reuse",
              "correct", "decline", "clarify"}

RAGState ==
  [binding : Builds, behavior : Behaviors, antecedent : BOOLEAN,
   scope : Scopes \cup {NoScope}, prior : Scopes \cup {NoScope},
   pair : Pairs \cup {{}},             \* comparison_scopes
   pool : SUBSET Chunk,                \* retrieved_candidates, candidates
   context : SUBSET Chunk,             \* context_chunks
   pools : PartialSides,               \* comparison_retrieved_candidates
   sides : PartialSides,               \* comparison_context
   rounds : Nat,                       \* clarification_rounds
   retry : Nat,                        \* retry_attempt
   tried : SUBSET {"reselect", "deeper", "reformulate"},
   answer : {"", "draft", "fixed", "limited"},
   error : BOOLEAN,                    \* correction_error
   action : {"", "accept", "revise", "retrieve", "clarify", "stop"},
   fault : {"", "wrong_scope", "empty", "other"},
   missing : SUBSET Scopes,            \* missing_scope_keys
   asks : BOOLEAN,                     \* review_clarification
   final : {"not_reviewed", "deterministic", "accepted", "limited",
            "scope_error"},
   \* History: the evidence the draft was written from, how many drafts were
   \* written, and the one that the reviewer accepted (0: none).
   basis : SUBSET Chunk, drafts : Nat, approved : Nat]

NoSides == [k \in {} |-> {}]

\* begin_turn_node's update.
Fresh(build, prior) ==
  [binding |-> build, behavior |-> "", antecedent |-> FALSE, scope |-> NoScope,
   prior |-> prior, pair |-> {}, pool |-> {}, context |-> {},
   pools |-> NoSides, sides |-> NoSides, rounds |-> 0, retry |-> 0,
   tried |-> {}, answer |-> "", error |-> FALSE, action |-> "", fault |-> "",
   missing |-> {}, asks |-> FALSE, final |-> "not_reviewed", basis |-> {},
   drafts |-> 0, approved |-> 0]

\* A turn of the memory, as far as a follow-up reuses it; build = NoScope when
\* there is none.
NoTurn == [cited |-> {}, build |-> NoScope]

Init ==
  /\ mode \in {"off", "post_rerank", "post_generation"}
  /\ budget \in 0..MaxBudget
  /\ mode = "post_generation" => budget <= 1
  /\ active \in Builds
  /\ node = "idle"
  /\ st = Fresh(active, NoScope)
  /\ last = NoTurn
  /\ before = [scope |-> NoScope, prior |-> NoScope]
  /\ turns = 0 /\ promotions = 0

-----------------------------------------------------------------------------
(* Guards and routers.                                                     *)

\* Mutant: foreign chunks pass.
EvidenceUnchecked(chunks, scope) == chunks = chunks /\ scope = scope

\* evidence_check.
EvidenceOK(chunks, scope) == \A c \in chunks : c.scope = scope

\* comparison_evidence_check: the keys are the two scopes, each with its own.
SidesOK(sides, pair) ==
  /\ pair \in Pairs
  /\ DOMAIN sides = pair
  /\ \A k \in pair : EvidenceOK(sides[k], k)

\* _evidence_fault, "" for none.
EvidenceFault(s) ==
  IF s.scope = NoScope \/ \E c \in s.context : c.scope # s.scope
  THEN "wrong_scope"
  ELSE IF s.context = {} THEN "empty" ELSE ""

\* _comparison_evidence_fault.
SidesFault(s) ==
  IF ~ SidesOK(s.sides, s.pair) THEN "wrong_scope"
  ELSE IF \E k \in s.pair : s.sides[k] = {} THEN "other" ELSE ""

EmptySides(s) ==
  IF SidesFault(s) = "other" THEN {k \in s.pair : s.sides[k] = {}} ELSE {}

\* _fault_review: only an empty context is worth another search.
FaultAction(fault) == IF fault = "empty" THEN "retrieve" ELSE "stop"

\* Mutant: the budget is checked one correction late.
CorrectOnceMore(s, revise, retrieve) ==
  IF s.action = "clarify" /\ s.rounds < MaxClarify THEN "clarify"
  ELSE IF s.retry > budget THEN "finalize"
  ELSE CASE s.action = "revise"   -> revise
         [] s.action = "retrieve" -> retrieve
         [] OTHER                 -> "finalize"

\* _correction_route and its comparison twin.
Correct(s, revise, retrieve) ==
  IF s.action = "clarify" /\ s.rounds < MaxClarify THEN "clarify"
  ELSE IF s.retry >= budget THEN "finalize"
  ELSE CASE s.action = "revise"   -> revise
         [] s.action = "retrieve" -> retrieve
         [] OTHER                 -> "finalize"

CorrectionRoute(s) == Correct(s, "revise_answer", "targeted_retrieve")

ComparisonRoute(s) ==
  Correct(s, "revise_comparison", "targeted_comparison_retrieve")

AfterContextualize(s) ==
  CASE s.behavior = "catalog" -> "catalog_lenders"
    [] s.behavior = "history" -> "conversation_history"
    [] s.behavior = "compare" -> "resolve_comparison_scopes"
    [] OTHER                  -> "resolve_scope"

\* Nothing resolved: ask, as long as the rounds last.
AskOrGiveUp(s) == IF s.rounds >= MaxClarify THEN "unresolved" ELSE "clarify"

HasHistory == last # NoTurn

AfterScope(s) ==
  CASE s.antecedent -> "clarify"
    [] ~ s.antecedent /\ s.behavior = "decline" -> "decline"
    [] ~ s.antecedent /\ s.behavior # "decline" /\ s.scope = NoScope -> AskOrGiveUp(s)
    [] OTHER -> IF s.behavior = "reuse" /\ HasHistory /\ s.prior = s.scope
                THEN "reuse_evidence" ELSE "decompose"

AfterComparisonScope(s) ==
  IF s.pair # {} THEN "plan_comparison" ELSE AskOrGiveUp(s)

AfterClarify(s) ==
  IF s.behavior = "compare" THEN "resolve_comparison_scopes" ELSE "resolve_scope"

\* What follows a draft, and what follows the reranker, in each mode.
Reviewer == IF mode # "post_generation" THEN "end"
            ELSE "review_answer"
ComparisonReviewer == IF mode # "post_generation" THEN "end"
                      ELSE "review_comparison"

\* The edges build_graph declares.
Edges ==
  [contextualize |-> {"catalog_lenders", "conversation_history",
                      "resolve_comparison_scopes", "resolve_scope"},
   catalog_lenders |-> {"end"}, conversation_history |-> {"end"},
   resolve_scope |-> {"decompose", "clarify", "unresolved", "decline",
                      "reuse_evidence"},
   resolve_comparison_scopes |-> {"plan_comparison", "clarify", "unresolved"},
   clarify |-> {"resolve_scope", "resolve_comparison_scopes"},
   unresolved |-> {"end"}, decline |-> {"end"},
   reuse_evidence |-> {Reviewer}, decompose |-> {"retrieve"},
   retrieve |-> {"rerank"}, plan_comparison |-> {"retrieve_comparison"},
   retrieve_comparison |-> {"rerank_comparison"},
   rerank |-> CASE mode = "off" -> {"generate"}
                [] mode = "post_rerank" -> {"assess_retrieval"}
                [] mode = "post_generation" -> {"check_evidence"},
   assess_retrieval |-> {"generate", "recover"}, recover |-> {"rerank"},
   rerank_comparison |-> IF mode = "post_generation"
                         THEN {"check_comparison_evidence"}
                         ELSE {"generate_comparison"},
   check_evidence |-> {"generate", "targeted_retrieve", "finalize"},
   generate |-> {Reviewer},
   review_answer |-> {"revise_answer", "targeted_retrieve", "clarify",
                      "finalize"},
   revise_answer |-> {"review_answer"},
   targeted_retrieve |-> {"finalize", "rerank"},
   check_comparison_evidence |-> {"generate_comparison",
                                  "targeted_comparison_retrieve", "finalize"},
   generate_comparison |-> {ComparisonReviewer},
   review_comparison |-> {"revise_comparison", "targeted_comparison_retrieve",
                          "clarify", "finalize"},
   revise_comparison |-> {"review_comparison"},
   targeted_comparison_retrieve |-> {"finalize", "rerank_comparison"},
   finalize |-> {"end"}]

Nodes == DOMAIN Edges

-----------------------------------------------------------------------------
(* A node has run: its update, and the router's answer to it.              *)

Ran(update, next) ==
  /\ st' = update
  /\ node' = next
  /\ UNCHANGED <<mode, budget, active, last, before, turns, promotions>>

\* What a search in the pinned build can return; the scope filter is the
\* database's business, so foreign chunks are among it.
Found == SUBSET [scope : Scopes, build : {st.binding}, stale : {FALSE}]

\* A model wrote a draft (it may be empty) from the evidence it was shown.
Drafted(s, text) ==
  [s EXCEPT !.answer = text, !.basis = s.context, !.drafts = @ + 1]

\* The call failed and the node caught it.
Failed(s) == [s EXCEPT !.answer = "", !.error = TRUE]

Drafts(s) == {Drafted(s, text) : text \in {"draft", ""}}

\* invoke with a new question: prior_scope from the last checkpoint, then
\* begin_turn chooses the build and resets everything else.
BeginTurn ==
  /\ node = "idle" /\ turns < MaxTurns
  /\ turns' = turns + 1
  /\ before' = [scope |-> st.scope, prior |-> st.prior]
  /\ st' = Fresh(active, st.scope)
  /\ node' = "contextualize"
  /\ UNCHANGED <<mode, budget, active, last, promotions>>

\* Without history the classifier is not called and knows two answers.  What
\* acts on an earlier answer stays with the build that answer came from.
Contextualize ==
  /\ node = "contextualize"
  /\ \E b \in {"catalog", "history", "search", "compare"}
           \cup (IF HasHistory THEN {"reuse", "decline", "clarify"} ELSE {}) :
       LET s == [st EXCEPT !.behavior = b, !.antecedent = (b = "clarify"),
                           !.binding = IF b = "reuse" THEN last.build ELSE @]
       IN  Ran(s, AfterContextualize(s))

\* catalog_lenders and conversation_history answer from records.
AnswerFromRecords ==
  /\ node \in {"catalog_lenders", "conversation_history"}
  /\ Ran([st EXCEPT !.scope = NoScope, !.answer = "fixed",
                    !.final = "deterministic"], "end")

ResolveScope ==
  /\ node = "resolve_scope"
  /\ \E scope \in Scopes \cup {NoScope} :
       LET s == [st EXCEPT !.scope = scope] IN Ran(s, AfterScope(s))

\* Mutant: one manual will do for a comparison.
ResolveOneScopeToCompare ==
  /\ node = "resolve_comparison_scopes"
  /\ \E pair \in SUBSET Scopes :
       LET s == [st EXCEPT !.pair = pair,
                           !.scope = IF pair = {} THEN @ ELSE NoScope]
       IN  Ran(s, AfterComparisonScope(s))

ResolveComparisonScopes ==
  /\ node = "resolve_comparison_scopes"
  /\ \E pair \in Pairs \cup {{}} :
       LET s == [st EXCEPT !.pair = pair,
                           !.scope = IF pair = {} THEN @ ELSE NoScope]
       IN  Ran(s, AfterComparisonScope(s))

\* Mutant: a resumed turn takes the build active now.
ReplyInActiveBuild ==
  /\ node = "clarify"
  /\ st' = [st EXCEPT !.binding = active, !.rounds = @ + 1, !.asks = FALSE, !.antecedent = FALSE]
  /\ node' = AfterClarify(st)
  /\ before' = [scope |-> st.scope, prior |-> st.prior]
  /\ UNCHANGED <<mode, budget, active, last, turns, promotions>>

\* clarify interrupts; this is the user's reply.
Reply ==
  /\ node = "clarify"
  /\ st' = [st EXCEPT !.rounds = @ + 1, !.asks = FALSE, !.antecedent = FALSE]
  /\ node' = AfterClarify(st)
  /\ before' = [scope |-> st.scope, prior |-> st.prior]
  /\ UNCHANGED <<mode, budget, active, last, turns, promotions>>

\* unresolved and decline: a fixed text, and no evidence beside it.
AnswerFixed ==
  /\ node \in {"unresolved", "decline"}
  /\ Ran([st EXCEPT !.pool = {}, !.context = {}, !.answer = "fixed"], "end")

\* The chunks the last turn cited, by id, from the build in use.  The hash of
\* their ids tells whether all of them are still there; a member of Chunk may
\* stand for several, of which only some are.
ReuseEvidence ==
  /\ node = "reuse_evidence"
  /\ \E ids \in SUBSET last.cited, lost \in BOOLEAN :
       /\ ids # last.cited => lost
       /\ LET chunks == {[c EXCEPT !.build = st.binding, !.stale = lost] : c \in ids}
              s == [st EXCEPT !.context = chunks]
          IN  /\ EvidenceOK(chunks, st.scope)
              /\ IF mode = "post_generation" /\ (EvidenceFault(s) # "" \/ lost)
                 THEN Ran([s EXCEPT !.answer = ""], Reviewer)
                 ELSE \/ \E d \in Drafts(s), b \in {s.behavior, "correct"} :
                           Ran([d EXCEPT !.pool = {}, !.behavior = b], Reviewer)
                      \/ mode = "post_generation" /\ Ran(Failed(s), Reviewer)

\* decompose and plan_comparison only rewrite the question.
Decompose ==
  \/ node = "decompose" /\ Ran(st, "retrieve")
  \/ node = "plan_comparison" /\ Ran(st, "retrieve_comparison")

Retrieve ==
  /\ node = "retrieve"
  /\ \E found \in Found :
       /\ EvidenceOK(found, st.scope)
       /\ Ran([st EXCEPT !.pool = found], "rerank")

AfterRerank == CASE mode = "off"             -> "generate"
                 [] mode = "post_rerank"     -> "assess_retrieval"
                 [] mode = "post_generation" -> "check_evidence"

Rerank ==
  /\ node = "rerank"
  /\ EvidenceOK(st.pool, st.scope)
  /\ \E top \in SUBSET st.pool :
       /\ st.pool # {} => top # {}
       /\ Ran([st EXCEPT !.context = top], AfterRerank)

CheckEvidence ==
  /\ node = "check_evidence"
  /\ LET fault == EvidenceFault(st)
         s == [st EXCEPT !.action = FaultAction(fault), !.fault = fault]
     IN  IF fault = "" THEN Ran(st, "generate") ELSE Ran(s, CorrectionRoute(s))

Generate ==
  /\ node = "generate"
  /\ EvidenceOK(st.context, st.scope)
  /\ \/ \E d \in Drafts(st) : Ran(d, Reviewer)
     \/ mode = "post_generation" /\ Ran(Failed(st), Reviewer)

\* The verdicts a review can reach on the draft as it stands; "stop" is a
\* failed or invalid review.
Verdicts(s, fault) ==
  CASE s.error                   -> {"stop"}
    [] ~ s.error /\ fault # ""   -> {FaultAction(fault)}
    [] ~ s.error /\ fault = ""   ->
         IF s.answer = "" THEN {"revise"}
         ELSE {"accept", "revise", "retrieve", "clarify", "stop"}

Judged(s, verdict, fault) ==
  [s EXCEPT !.action = verdict, !.fault = IF s.error THEN "other" ELSE fault,
            !.approved = IF verdict = "accept" THEN s.drafts ELSE 0]

ReviewAnswer ==
  /\ node = "review_answer"
  /\ EvidenceOK(st.context, st.scope)
  /\ LET fault == EvidenceFault(st)
     IN  \E v \in Verdicts(st, fault) :
           LET s == Judged(st, v, fault)
           IN  Ran([s EXCEPT !.asks = (CorrectionRoute(s) = "clarify")],
                   CorrectionRoute(s))

ReviseAnswer ==
  /\ node = "revise_answer"
  /\ EvidenceOK(st.context, st.scope)
  /\ LET s == [st EXCEPT !.retry = @ + 1]
     IN  \/ \E d \in Drafts(s) : Ran(d, "review_answer")
         \/ Ran(Failed(s), "review_answer")

\* The failed recovery of both targeted searches.
RecoveryFailed(s) ==
  [s EXCEPT !.error = TRUE, !.action = "stop", !.fault = "other", !.missing = {}]

\* Mutant: the search does not count as a correction.
TargetedRetrieveUncounted ==
  /\ node = "targeted_retrieve"
  /\ LET s == st
     IN  \/ \E found \in Found :
              LET pool == st.pool \cup st.context \cup found
              IN  /\ EvidenceOK(found, st.scope)
                  /\ EvidenceOK(pool, st.scope)
                  /\ Ran([s EXCEPT !.pool = pool], "rerank")
         \/ Ran(RecoveryFailed(s), "finalize")

\* Adds to the pool, which starts from the context when nothing was searched.
\* A foreign hit is an error the node catches.
TargetedRetrieve ==
  /\ node = "targeted_retrieve"
  /\ LET s == [st EXCEPT !.retry = @ + 1]
     IN  \/ \E found \in Found :
              LET pool == st.pool \cup st.context \cup found
              IN  /\ EvidenceOK(found, st.scope)
                  /\ EvidenceOK(pool, st.scope)
                  /\ Ran([s EXCEPT !.pool = pool], "rerank")
         \/ Ran(RecoveryFailed(s), "finalize")

FoundSides(keys) == [keys -> Found]

RetrieveComparison ==
  /\ node = "retrieve_comparison"
  /\ \E found \in FoundSides(st.pair) :
       /\ SidesOK(found, st.pair)
       /\ Ran([st EXCEPT !.pools = found], "rerank_comparison")

RerankComparison ==
  /\ node = "rerank_comparison"
  /\ \E top \in [st.pair -> SUBSET Chunk] :
       /\ \A k \in st.pair :
            top[k] \subseteq st.pools[k] /\ (st.pools[k] # {} => top[k] # {})
       /\ Ran([st EXCEPT !.sides = top,
                         !.context = UNION {top[k] : k \in st.pair}],
              IF mode = "post_generation" THEN "check_comparison_evidence"
              ELSE "generate_comparison")

CheckComparisonEvidence ==
  /\ node = "check_comparison_evidence"
  /\ LET fault == SidesFault(st)
         s == [st EXCEPT !.action = FaultAction(fault), !.fault = fault,
                         !.missing = EmptySides(st)]
     IN  IF fault = "" THEN Ran(st, "generate_comparison")
         ELSE Ran(s, ComparisonRoute(s))

GenerateComparison ==
  /\ node = "generate_comparison"
  /\ SidesOK(st.sides, st.pair)
  /\ \/ \E d \in Drafts(st) : Ran(d, ComparisonReviewer)
     \/ Ran(Failed(st), ComparisonReviewer)

\* A valid review that finds evidence missing says at which of the two.
ReviewComparison ==
  /\ node = "review_comparison"
  /\ SidesOK(st.sides, st.pair)
  /\ LET fault == SidesFault(st)
     IN  \E v \in Verdicts(st, fault), missing \in SUBSET st.pair :
           /\ missing # {} <=> v = "retrieve"
           /\ LET s == [Judged(st, v, fault) EXCEPT !.missing = missing]
              IN  Ran([s EXCEPT !.asks = (ComparisonRoute(s) = "clarify")],
                      ComparisonRoute(s))

ReviseComparison ==
  /\ node = "revise_comparison"
  /\ SidesOK(st.sides, st.pair)
  /\ LET s == [st EXCEPT !.retry = @ + 1]
     IN  \/ \E d \in Drafts(s) : Ran(d, "review_comparison")
         \/ Ran(Failed(s), "review_comparison")

\* Deepens the sides that lack evidence, all of them or none.
TargetedComparisonRetrieve ==
  /\ node = "targeted_comparison_retrieve"
  /\ LET s == [st EXCEPT !.retry = @ + 1]
     IN  \/ /\ st.missing # {} /\ st.missing \subseteq st.pair
            /\ \E found \in FoundSides(st.missing) :
                 LET pools == [k \in st.pair |->
                       st.pools[k] \cup IF k \in st.missing THEN found[k] ELSE {}]
                 IN  /\ SidesOK(pools, st.pair)
                     /\ Ran([s EXCEPT !.pools = pools], "rerank_comparison")
         \/ Ran(RecoveryFailed(s), "finalize")

\* Mutant: only a failed review keeps a draft back.
FinalizeUnlessStopped ==
  /\ node = "finalize"
  /\ Ran(IF st.action # "stop" /\ ~ st.error
         THEN [st EXCEPT !.final = "accepted"]
         ELSE [st EXCEPT !.answer = "limited",
                         !.final = IF st.fault = "wrong_scope"
                                   THEN "scope_error" ELSE "limited"],
         "end")

\* Only an accepted draft leaves; anything else becomes the limited answer.
Finalize ==
  /\ node = "finalize"
  /\ Ran(IF st.action = "accept" /\ ~ st.error
         THEN [st EXCEPT !.final = "accepted"]
         ELSE [st EXCEPT !.answer = "limited",
                         !.final = IF st.fault = "wrong_scope"
                                   THEN "scope_error" ELSE "limited"],
         "end")

-----------------------------------------------------------------------------
(* post_rerank: recovery before the answer is written.                     *)

\* assess_deterministic and action_for.
RetrievalSound(s) == s.context # {} /\ \A c \in s.context : c.scope = s.scope

AssessRetrieval ==
  /\ node = "assess_retrieval"
  /\ Ran(st, IF RetrievalSound(st) \/ st.retry >= budget THEN "generate"
             ELSE "recover")

\* next_action: the first rung not tried; reselecting needs a pool larger than
\* the context (deep).
NextActions(s, deep) ==
  LET untried == {"reselect", "deeper", "reformulate"} \ s.tried
  IN  IF "reselect" \in untried /\ deep THEN {"reselect"}
      ELSE IF "deeper" \in untried THEN {"deeper"}
      ELSE untried \ {"reselect"}

Recover ==
  /\ node = "recover"
  /\ LET s == [st EXCEPT !.retry = @ + 1]
     IN  \E deep \in BOOLEAN :
           /\ deep => st.pool # {}
           /\ \/ NextActions(st, deep) = {} /\ Ran(s, "rerank")
              \/ \E a \in NextActions(st, deep), found \in Found :
                   /\ a = "reselect" => found = {}
                   /\ Ran([s EXCEPT !.tried = @ \cup {a},
                                    !.pool = @ \cup found], "rerank")

-----------------------------------------------------------------------------
(* Around the graph.                                                       *)

\* final_check.
FinalOK(s) ==
  /\ s.answer # ""
  /\ IF s.pair # {} THEN SidesOK(s.sides, s.pair) ELSE EvidenceOK(s.context, s.scope)

\* The answered turn becomes the latest of the memory.
Answered ==
  /\ node = "end" /\ FinalOK(st)
  /\ last' = [cited |-> st.context, build |-> st.binding]
  /\ node' = "idle"
  /\ UNCHANGED <<mode, budget, active, st, before, turns, promotions>>

\* A GuardrailError anywhere in the turn: scope and prior scope are what they
\* were, the answer and its evidence are gone.
Reject ==
  /\ node # "idle"
  /\ st' = [st EXCEPT !.scope = before.scope, !.prior = before.prior,
                      !.answer = "", !.context = {}, !.pool = {}, !.pair = {},
                      !.sides = NoSides, !.pools = NoSides]
  /\ node' = "idle"
  /\ UNCHANGED <<mode, budget, active, last, before, turns, promotions>>

\* Any other exception: the checkpoint stays as the last node left it.
Abort ==
  /\ node \notin {"idle", "clarify"}
  /\ node' = "idle"
  /\ UNCHANGED <<mode, budget, active, st, last, before, turns, promotions>>

\* An index release moves the alias.
Promote ==
  /\ promotions < MaxPromotions
  /\ \E b \in Builds \ {active} : active' = b
  /\ promotions' = promotions + 1
  /\ UNCHANGED <<mode, budget, node, st, last, before, turns>>

NodeStep ==
  \/ Contextualize \/ AnswerFromRecords \/ ResolveScope
  \/ ResolveComparisonScopes \/ AnswerFixed \/ ReuseEvidence \/ Decompose
  \/ Retrieve \/ Rerank \/ CheckEvidence \/ Generate \/ ReviewAnswer
  \/ ReviseAnswer \/ TargetedRetrieve \/ RetrieveComparison
  \/ RerankComparison \/ CheckComparisonEvidence \/ GenerateComparison
  \/ ReviewComparison \/ ReviseComparison \/ TargetedComparisonRetrieve
  \/ Finalize \/ AssessRetrieval \/ Recover

Next == \/ BeginTurn \/ NodeStep \/ Reply \/ Answered \/ Reject \/ Abort
        \/ Promote

Spec == Init /\ [][Next]_vars

\* invoke runs nodes until the graph ends, pauses or raises; the user may
\* never reply and a release may never come.
FairSpec == Spec /\ WF_vars(NodeStep \/ Answered \/ (node # "clarify" /\ Reject))

-----------------------------------------------------------------------------
(* Properties.                                                             *)

\* Every variable holds what the code can store in it.
TypeOK ==
  /\ mode \in {"off", "post_rerank", "post_generation"}
  /\ budget \in 0..MaxBudget /\ active \in Builds
  /\ node \in Nodes \cup {"idle", "end"}
  /\ st \in RAGState
  /\ last = NoTurn \/ last \in [cited : SUBSET Chunk, build : Builds]
  /\ before \in [scope : Scopes \cup {NoScope}, prior : Scopes \cup {NoScope}]
  /\ turns \in 0..MaxTurns /\ promotions \in 0..MaxPromotions

\* One turn's work is bounded: corrections by max_retries, clarifications by
\* MAX_CLARIFICATION_ROUNDS, and drafts by what each of them may cost (one to
\* begin with, one after a clarification, one per correction).
WithinBudget ==
  /\ st.retry <= budget
  /\ st.rounds <= MaxClarify
  /\ st.drafts <= 1 + st.rounds + st.retry

\* An answer marked accepted is the very draft the reviewer accepted, and nothing was
\* retrieved or rewritten since (finalize_answer_node); with the reviewer in the
\* graph no other draft reaches the user (pipeline.py:1390, a known-failed draft is
\* never returned).
AcceptedAsReviewed ==
  /\ st.final = "accepted" /\ node \in {"end", "idle"} /\ st.answer # "" =>
       /\ st.answer = "draft" /\ ~ st.error
       /\ st.approved = st.drafts
       /\ st.basis = st.context
  /\ mode = "post_generation" /\ node = "end" /\ st.answer = "draft"
       => st.final = "accepted"

\* A draft that passes final_check was written from the manual in force, or
\* from both manuals of a comparison, across clarifications that change them.
OneManual ==
  node = "end" /\ st.answer = "draft" /\ FinalOK(st) =>
    LET manuals == {c.scope : c \in st.basis}
    IN  IF st.pair = {} THEN manuals \subseteq {st.scope}
        ELSE /\ manuals \subseteq st.pair
             /\ mode = "post_generation" => manuals = st.pair

\* All evidence of a turn comes from the one build it is pinned to, though
\* releases happen while it runs or waits for a reply, and reused evidence is
\* read from the build it was cited from.
OneBuild ==
  /\ \A c \in st.pool \cup st.context \cup st.basis : c.build = st.binding
  /\ \A k \in DOMAIN st.pools : \A c \in st.pools[k] : c.build = st.binding
  /\ node = "reuse_evidence" => last.build = st.binding

AlongEdges == (node \in Nodes /\ node' \notin {"idle", node}) => node' \in Edges[node]

\* The antecedent's question, the reviewer's, or that of a scope that did not resolve.
ClarifyHasQuestion ==
  node = "clarify" =>
    \/ st.antecedent \/ st.asks
    \/ IF st.behavior = "compare" THEN st.pair = {} ELSE st.scope = NoScope

\* Every turn runs along the edges of build_graph to its end, or to a pause with a
\* question to put to the user: no loop of corrections, searches and reviews goes on
\* for ever, and no router answers a node its edges do not name, which LangGraph would
\* raise on in the middle of a turn (nodes with different edges share routers).
TurnsFinish ==
  /\ [][AlongEdges]_node
  /\ []ClarifyHasQuestion
  /\ []<>(node \in {"idle", "clarify"})

(***************************************************************************)
(* What the repository says of itself and the code does not keep.          *)
(***************************************************************************)

\* pipeline.py:585: "Do not let a stale/corrupt prior artifact reach even the
\* draft model."  review_answer does not see the hash, takes the missing draft
\* for an empty one, and revise_answer writes one from the stale chunks.
NoDraftFromStaleEvidence ==
  mode = "post_generation" => \A c \in st.basis : ~ c.stale
=============================================================================
